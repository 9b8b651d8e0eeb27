------------------------- MODULE ProxyResponseParser ------------------------
(***************************************************************************)
(* The incremental parser of upstream responses.  The input is a stream of *)
(* complete lines and body bytes: feed() keeps incomplete lines buffered   *)
(* and otherwise consumes its buffer in this order whatever the segments,  *)
(* so one step is one turn of the loop in process().                       *)
(*                                                                         *)
(* The variables named final are history: what the header block of the     *)
(* last status line said, which is what the response means.                *)
(***************************************************************************)
EXTENDS Integers

CONSTANTS Codes,          \* status codes the upstream may send
          Lengths,        \* lengths it may announce (Content-Length, chunks)
          MaxHeader,      \* max_header_bytes, in lines
          MaxBody,        \* max_body_bytes
          MaxLines,       \* bound: lines before the last status line
          InterimHeaders  \* may a 1xx response carry framing headers?

ASSUME ParserAssumption ==
  /\ Codes \subseteq 100..599
  /\ Lengths \subseteq Nat
  /\ MaxHeader \in Nat /\ MaxBody \in Nat /\ MaxLines \in Nat
  /\ InterimHeaders \in BOOLEAN

VARIABLES
  head,      \* config_.request_was_head
  state,     \* state_
  framing,   \* framing_
  code,      \* status_code_
  interim,   \* is_interim_
  stored,    \* the Content-Length in headers_, -1 for none
  length,    \* content_length_
  sawCL,     \* saw_content_length_
  sawTE,     \* saw_transfer_encoding_
  close,     \* close_requested_
  chunk,     \* chunk_remaining_
  body,      \* body_.size()
  lines,     \* header_bytes_, in lines
  finalCL,   \* history: the Content-Length of the last header block, or -1
  finalTE,   \* history: it had Transfer-Encoding
  finalClose,\* history: it had Connection: close
  declared   \* history: the sum of the chunk sizes

flags == <<stored, length, sawCL, sawTE, close>>
final == <<finalCL, finalTE, finalClose>>
vars == <<head, state, framing, code, interim, flags, chunk, body, lines, final, declared>>

States == {"StatusLine", "Headers", "Body", "ChunkSize", "ChunkData", "ChunkDataCrlf",
           "Trailer", "Complete", "Error"}
Framings == {"None", "ContentLength", "Chunked", "UntilClose"}

TypeOK ==
  /\ head \in BOOLEAN /\ interim \in BOOLEAN
  /\ state \in States /\ framing \in Framings
  /\ code \in 0..599
  /\ stored \in Int /\ length \in Nat
  /\ sawCL \in BOOLEAN /\ sawTE \in BOOLEAN /\ close \in BOOLEAN
  /\ chunk \in Nat /\ body \in Nat /\ lines \in Nat
  /\ finalCL \in Int /\ finalTE \in BOOLEAN /\ finalClose \in BOOLEAN
  /\ declared \in Nat

\* reset(), at the start of an exchange.
Init ==
  /\ head \in BOOLEAN
  /\ state = "StatusLine" /\ framing = "None" /\ code = 0 /\ interim = FALSE
  /\ stored = -1 /\ length = 0
  /\ sawCL = FALSE /\ sawTE = FALSE /\ close = FALSE
  /\ chunk = 0 /\ body = 0 /\ lines = 0
  /\ finalCL = -1 /\ finalTE = FALSE /\ finalClose = FALSE
  /\ declared = 0

\* fail(): the body is dropped.
Fails == state' = "Error" /\ body' = 0

-----------------------------------------------------------------------------
(* parse_status_line *)

\* A malformed line, an unknown version, a code out of range, or a 101.
BadStatusLine ==
  /\ state = "StatusLine"
  /\ Fails
  /\ lines' = lines + 1
  /\ UNCHANGED <<head, framing, code, interim, flags, chunk, final, declared>>

InterimStatusLine(c) ==
  /\ state = "StatusLine"
  /\ lines < MaxLines
  /\ c \in 100..199 \ {101}
  /\ state' = "Headers" /\ interim' = TRUE
  /\ code' = c
  /\ stored' = -1 /\ sawCL' = FALSE /\ sawTE' = FALSE /\ close' = FALSE
  /\ lines' = lines + 1
  /\ finalCL' = -1 /\ finalTE' = FALSE /\ finalClose' = FALSE
  /\ UNCHANGED <<head, framing, length, chunk, body, declared>>

FinalStatusLine(c) ==
  /\ state = "StatusLine"
  /\ c \notin 100..199
  /\ state' = "Headers" /\ interim' = FALSE
  /\ code' = c
  /\ lines' = lines + 1
  /\ finalCL' = -1 /\ finalTE' = FALSE /\ finalClose' = FALSE
  /\ UNCHANGED <<head, framing, flags, chunk, body, declared>>

-----------------------------------------------------------------------------
(* parse_header_line *)

Bodyless == head \/ code \in {204, 304}

\* A header line that is not a fold and still fits.
HeaderLine ==
  /\ state = "Headers"
  /\ lines + 1 <= MaxHeader
  /\ lines' = lines + 1
  /\ UNCHANGED <<head, state, framing, code, interim, chunk, body, declared>>

\* Too much, a fold, no colon, an invalid field, an unreadable Content-Length
\* or a transfer coding other than chunked.
BadHeaderLine ==
  /\ state = "Headers"
  /\ Fails
  /\ UNCHANGED <<head, framing, code, interim, flags, chunk, lines, final, declared>>

PlainHeader == HeaderLine /\ UNCHANGED <<flags, final>>

\* The announced length is within the budget (a bodyless response only
\* describes a representation) and agrees with an earlier one.
AcceptableLength(n) == /\ sawCL => stored = n
                       /\ Bodyless \/ n <= MaxBody

ContentLength(n) ==
  /\ HeaderLine
  /\ interim => InterimHeaders
  /\ AcceptableLength(n)
  /\ length' = n /\ stored' = n /\ sawCL' = TRUE
  /\ finalCL' = IF finalCL = -1 THEN n ELSE finalCL
  /\ UNCHANGED <<sawTE, close, finalTE, finalClose>>

ContentLengthRefused(n) ==
  /\ state = "Headers"
  /\ ~AcceptableLength(n)
  /\ Fails
  /\ lines' = lines + 1
  /\ UNCHANGED <<head, framing, code, interim, flags, chunk, final, declared>>

TransferEncoding ==
  /\ HeaderLine
  /\ interim => InterimHeaders
  /\ sawTE' = TRUE /\ finalTE' = TRUE
  /\ UNCHANGED <<stored, length, sawCL, close, finalCL, finalClose>>

\* Mutant of ConnectionClose: the token is compared with its case.
ConnectionCloseMissed ==
  /\ HeaderLine
  /\ interim => InterimHeaders
  /\ finalClose' = TRUE
  /\ UNCHANGED <<flags, finalCL, finalTE>>

ConnectionClose ==
  /\ HeaderLine
  /\ interim => InterimHeaders
  /\ close' = TRUE /\ finalClose' = TRUE
  /\ UNCHANGED <<stored, length, sawCL, sawTE, finalCL, finalTE>>

\* The empty line after a 1xx header block.
EndOfInterim ==
  /\ state = "Headers"
  /\ interim
  /\ interim' = FALSE
  /\ stored' = -1
  /\ state' = "StatusLine"
  /\ lines' = lines + 1
  /\ UNCHANGED <<head, framing, code, length, sawCL, sawTE, close, chunk, body, final, declared>>

\* decide_framing: the framing and the state it leads to.
Decision ==
  IF sawTE /\ sawCL THEN <<framing, "Error">>
  ELSE IF Bodyless THEN <<"None", "Complete">>
  ELSE IF sawTE THEN <<"Chunked", "ChunkSize">>
  ELSE IF sawCL THEN <<"ContentLength", IF length = 0 THEN "Complete" ELSE "Body">>
  ELSE <<"UntilClose", "Body">>

EndOfHeaders ==
  /\ state = "Headers"
  /\ ~interim
  /\ framing' = Decision[1]
  /\ state' = Decision[2]
  /\ lines' = lines + 1
  /\ UNCHANGED <<head, code, interim, flags, chunk, body, final, declared>>

-----------------------------------------------------------------------------
(* parse_body, one byte *)

LengthBodyByte ==
  /\ state = "Body" /\ framing = "ContentLength"
  /\ body' = body + 1
  /\ state' = IF body + 1 = length THEN "Complete" ELSE "Body"
  /\ UNCHANGED <<head, framing, code, interim, flags, chunk, lines, final, declared>>

UntilCloseByte ==
  /\ state = "Body" /\ framing = "UntilClose"
  /\ IF body + 1 > MaxBody THEN Fails ELSE body' = body + 1 /\ UNCHANGED state
  /\ UNCHANGED <<head, framing, code, interim, flags, chunk, lines, final, declared>>

-----------------------------------------------------------------------------
(* Chunked transfer coding *)

ChunkSize(n) ==
  /\ state = "ChunkSize"
  /\ IF n > MaxBody
     THEN Fails /\ UNCHANGED <<chunk, declared>>
     ELSE /\ chunk' = n
          /\ state' = IF n = 0 THEN "Trailer" ELSE "ChunkData"
          /\ declared' = declared + n
          /\ UNCHANGED body
  /\ UNCHANGED <<head, framing, code, interim, flags, lines, final>>

\* Mutant of ChunkByte: each chunk is checked against the budget, the sum is
\* not.
ChunkByteUnbounded ==
  /\ state = "ChunkData"
  /\ body' = body + 1
  /\ chunk' = chunk - 1
  /\ state' = IF chunk = 1 THEN "ChunkDataCrlf" ELSE state
  /\ UNCHANGED <<head, framing, code, interim, flags, lines, final, declared>>

ChunkByte ==
  /\ state = "ChunkData"
  /\ IF body + 1 > MaxBody
     THEN Fails /\ UNCHANGED chunk
     ELSE /\ body' = body + 1
          /\ chunk' = chunk - 1
          /\ state' = IF chunk = 1 THEN "ChunkDataCrlf" ELSE state
  /\ UNCHANGED <<head, framing, code, interim, flags, lines, final, declared>>

\* The line end after a chunk.
ChunkCrlf ==
  /\ state = "ChunkDataCrlf"
  /\ state' = "ChunkSize"
  /\ UNCHANGED <<head, framing, code, interim, flags, chunk, body, lines, final, declared>>

\* A chunk-size line, terminator or trailer that cannot be read.
BadChunk ==
  /\ state \in {"ChunkSize", "ChunkDataCrlf", "Trailer"}
  /\ Fails
  /\ UNCHANGED <<head, framing, code, interim, flags, chunk, lines, final, declared>>

TrailerLine ==
  /\ state = "Trailer"
  /\ lines' = lines + 1
  /\ IF lines + 1 > MaxHeader THEN Fails ELSE UNCHANGED <<state, body>>
  /\ UNCHANGED <<head, framing, code, interim, flags, chunk, final, declared>>

EndOfTrailer ==
  /\ state = "Trailer"
  /\ state' = "Complete"
  /\ UNCHANGED <<head, framing, code, interim, flags, chunk, body, lines, final, declared>>

-----------------------------------------------------------------------------

\* Mutant of Eof: the end of the connection completes any body.
EofCompletes ==
  /\ state \notin {"Complete", "Error"}
  /\ IF state \in {"Body", "ChunkData"}
     THEN state' = "Complete" /\ UNCHANGED body
     ELSE Fails
  /\ UNCHANGED <<head, framing, code, interim, flags, chunk, lines, final, declared>>

\* finish_on_eof
Eof ==
  /\ state \notin {"Complete", "Error"}
  /\ IF state = "Body" /\ framing = "UntilClose"
     THEN state' = "Complete" /\ UNCHANGED body
     ELSE Fails
  /\ UNCHANGED <<head, framing, code, interim, flags, chunk, lines, final, declared>>

\* feed() refuses to buffer more, or a line does not end.
BufferLimit ==
  /\ state \notin {"Complete", "Error"}
  /\ Fails
  /\ UNCHANGED <<head, framing, code, interim, flags, chunk, lines, final, declared>>

Finished == state \in {"Complete", "Error"} /\ UNCHANGED vars

Next == \/ BadStatusLine \/ BadHeaderLine \/ PlainHeader
        \/ \E c \in Codes : InterimStatusLine(c) \/ FinalStatusLine(c)
        \/ \E n \in Lengths : ContentLength(n) \/ ContentLengthRefused(n)
        \/ TransferEncoding \/ ConnectionClose
        \/ EndOfInterim \/ EndOfHeaders
        \/ LengthBodyByte \/ UntilCloseByte
        \/ \E n \in Lengths : ChunkSize(n)
        \/ ChunkByte \/ ChunkCrlf \/ BadChunk \/ TrailerLine \/ EndOfTrailer
        \/ Eof \/ BufferLimit \/ Finished

Spec == Init /\ [][Next]_vars

-----------------------------------------------------------------------------
(* Properties *)

\* What the final header block says about the body (RFC 9112 section 6).
MeantFraming ==
  IF Bodyless THEN "None"
  ELSE IF finalTE THEN "Chunked"
  ELSE IF finalCL # -1 THEN "ContentLength" ELSE "UntilClose"

\* Buffered body bytes never exceed proxy_max_response_bytes, however they are
\* cut into chunks.
BodyBounded == body <= MaxBody

\* A response is complete only with exactly the bytes that its own, final
\* header block announced: none is cut short, none runs into what follows, and
\* none came with two conflicting announcements.
CompleteMeansWhole ==
  state = "Complete" =>
    /\ framing = MeantFraming /\ ~(finalTE /\ finalCL # -1)
    /\ framing = "ContentLength" => body = finalCL
    /\ framing = "Chunked" => body = declared
    /\ framing = "None" => body = 0

\* upstream_keep_alive
KeepAlive == state = "Complete" /\ ~close /\ framing # "UntilClose"

\* A connection is pooled only when the final response neither asked for a
\* close nor is delimited by one.
ReuseIsAgreed == KeepAlive => ~finalClose /\ MeantFraming # "UntilClose"
=============================================================================
