SPECIFICATION Spec
CONSTANTS
  Addr = {a1, a2}
  NoAddr = NoAddr
  MaxCmds = 4
  MaxChan = 1
  MaxEvents = 0
  Mtus = {50}
  Discovering = FALSE
  MgmtAvail = {TRUE}
  Calls = {"connect"}
  Timed = {"connect"}
  Reentrant = FALSE
  MtuWanted = 100
  Killable = FALSE
CHECK_DEADLOCK FALSE
INVARIANTS ConnectedToTheRightOne
