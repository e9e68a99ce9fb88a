SPECIFICATION ScanSpec
CONSTANTS
  Addr = {a1}
  AddrType = {public, random}
  Master = {TRUE, FALSE}
  MaxHelpers = 2
  MaxLines = 1
  Modes = {"scan", "pasv"}
  MaxStarts = 2
  Mixing = FALSE
SYMMETRY AddrTypeSymmetry
CHECK_DEADLOCK FALSE
INVARIANTS OneAnswerOwed KeepsScanning StopStops
PROPERTIES EndIsReal
