SPECIFICATION Spec
CONSTANTS
  Addr = {a1, a2}
  NoAddr = NoAddr
  MaxCmds = 4
  MaxChan = 1
  MaxEvents = 1
  Mtus = {50}
  Discovering = FALSE
  MgmtAvail = {TRUE}
  Calls = {"connect", "disconnect", "readCharacteristic", "writeWithResponse", "waitForNotifications", "getLocalOOB", "setRemoteOOB"}
  Timed = {"waitForNotifications"}
  Reentrant = FALSE
  MtuWanted = 100
  Killable = TRUE
CHECK_DEADLOCK FALSE
INVARIANTS OwnAnswer ConnectedToTheRightOne DisconnectedIsStopped
