SPECIFICATION BearerSpec
CONSTANTS
  Opcode = {r1, r2}
  Kinds = {"REQ", "IND"}
  PeerPdus = {"MTU_REQ", "EXEC_REQ", "RSP", "CONF"}
  MaxOps = 2
  MaxPeer = 2
SYMMETRY OpcodeSymmetry
CONSTRAINT MCAir
CHECK_DEADLOCK FALSE
INVARIANTS OpsAccountedFor BearerOwnAnswer PeerServed
PROPERTIES RequestsInTurn
