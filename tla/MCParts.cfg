SPECIFICATION PartsSpec
CONSTANTS
  Opcode = {o1}
  Index = {i1, i2}
  MaxRequest = 3
  Called <- MCCommands
  Peer = {"p"}
  Timeouts = {0, 2}
  Tries = 2
  Others <- MCOthers
  MaxRequests = 2
  MaxOthers = 1
  Lists <- MCLists
  MaxOwn = 1
  MaxSock = 2
  MaxSets = 1
  Kinds = {"REQ"}
  PeerPdus = {"RSP", "CONF"}
  MaxOps = 2
  MaxPeer = 1
CHECK_DEADLOCK FALSE
INVARIANTS MgmtOwnAnswer FilterRestored AnswerIsOurs SocketsKept ToldOnce
PROPERTIES CommandsInTurn RequestsEnd
