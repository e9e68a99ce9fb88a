SPECIFICATION FairSpec
CONSTANTS
  Addr = {a1}
  NoAddr = NoAddr
  MaxCmds = 3
  MaxChan = 1
  MaxEvents = 1
  Mtus = {50}
  Discovering = FALSE
  MgmtAvail = {TRUE}
  Calls = {"connect", "disconnect", "readCharacteristic", "writeWithResponse", "waitForNotifications", "getState", "pair"}
  Timed = {"waitForNotifications", "connect"}
  Reentrant = FALSE
  MtuWanted = 100
  Killable = FALSE
CHECK_DEADLOCK FALSE
PROPERTY CallsReturn
