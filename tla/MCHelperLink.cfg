SPECIFICATION Spec
CONSTANTS
  Addr = {a1, a2}
  NoAddr = NoAddr
  MaxCmds = 4
  MaxChan = 2
  MaxEvents = 1
  Mtus = {10, 50}
  Discovering = FALSE
  MgmtAvail = {TRUE}
  Verbs = {"conn", "disc", "rd", "wrr", "mtu"}
  Args = {100}
SYMMETRY AddrSymmetry
CHECK_DEADLOCK FALSE
INVARIANTS TypeOK Sound OnlyOfTheConnection
PROPERTIES EndsOnRequest NothingVanishes
