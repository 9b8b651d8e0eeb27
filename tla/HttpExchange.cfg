SPECIFICATION FairSpec
CONSTANTS
  Kinds = {"bad", "route", "upgrade", "rejected", "proxy", "file"}
  MaxReq = 2
  Styles = {TRUE, FALSE}
  Transports = {TRUE, FALSE}
INVARIANTS ResponsesInOrder RequestsAccounted NoImmortalConnection
PROPERTY RequestAnswered
