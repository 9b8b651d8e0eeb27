--------------------------- MODULE MCConfigReload ---------------------------
(***************************************************************************)
(* An instance of ConfigReload whose files are at the edges of the         *)
(* conversion: nothing set, a number that wraps to zero, one that is       *)
(* negative, a name that is no log level, and a zero that is accepted.     *)
(***************************************************************************)
EXTENDS ConfigReload

File(level, timeout, read) ==
  [k \in Keys |-> CASE k = "log_level" -> level
                    [] k = "header_timeout_ms" -> timeout
                    [] k = "proxy_read_timeout_ms" -> read
                    [] OTHER -> <<2>>]

MCWritten == {File(<<>>, <<3>>, <<2>>), File(<<2>>, <<-1>>, <<0>>), File(<<5>>, <<>>, <<2>>)}
=============================================================================
