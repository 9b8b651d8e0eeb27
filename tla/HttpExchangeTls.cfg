SPECIFICATION FairSpec
CONSTANTS
  Kinds = {"file"}
  MaxReq = 1
  Styles = {FALSE}
  Transports = {TRUE}
PROPERTY RequestAnsweredOverTls
