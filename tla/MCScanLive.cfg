SPECIFICATION ScanFairSpec
CONSTANTS
  Addr = {a1}
  AddrType = {public}
  Master = {TRUE}
  MaxHelpers = 1
  MaxLines = 1
  Modes = {"scan", "pasv"}
  MaxStarts = 1
  Mixing = FALSE
CHECK_DEADLOCK FALSE

PROPERTIES ScanCallsReturn
