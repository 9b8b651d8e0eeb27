SPECIFICATION FairSpec
CONSTANTS
  Keys = {"log_level", "workers", "header_timeout_ms", "write_timeout_ms", "max_request_body",
          "proxy_read_timeout_ms", "proxy_strip_prefix", "admin_token"}
  Written <- MCWritten
  MaxEdits = 2
  MaxSignals = 2
  MaxAdmin = 1
INVARIANTS HotIsEffective NoReloadForgotten ReloadsAreRequested ReloadIsAtomic
PROPERTY HupHonoured
