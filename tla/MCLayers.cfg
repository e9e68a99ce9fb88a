SPECIFICATION LayersSpec
CONSTANTS
  MaxNote = 3
  MaxEvent = 2
  Data = {"a", "b"}
  None = "null"
  MaxEntry = 3
  MaxSource = 4
CHECK_DEADLOCK FALSE
INVARIANTS DestroyedOnce
PROPERTIES EachHearsOnce QueueIsSequence
