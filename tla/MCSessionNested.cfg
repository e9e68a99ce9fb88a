SPECIFICATION Spec
CONSTANTS
  Addr = {a1}
  NoAddr = NoAddr
  MaxCmds = 4
  MaxChan = 1
  MaxEvents = 2
  Mtus = {50}
  Discovering = FALSE
  MgmtAvail = {TRUE}
  Calls = {"connect", "disconnect", "readCharacteristic", "waitForNotifications"}
  Timed = {"waitForNotifications"}
  Reentrant = TRUE
  MtuWanted = 100
  Killable = FALSE
CHECK_DEADLOCK FALSE
INVARIANTS MtuAgrees DisconnectedIsStopped
