SPECIFICATION Spec
CONSTANTS
  Addr = {a1}
  NoAddr = NoAddr
  MaxCmds = 3
  MaxChan = 2
  MaxEvents = 1
  Mtus = {10, 50}
  Discovering = TRUE
  MgmtAvail = {TRUE, FALSE}
  Verbs = {"conn", "disc", "stat", "quit", "svcs", "rd", "rdu", "wr", "wrr", "secu", "mtu", "le", "pair", "unpair", "scan", "local_oob", "remote_oob"}
  Args = {0, 100}
CHECK_DEADLOCK FALSE
INVARIANTS AnsweredOnce StateReported
