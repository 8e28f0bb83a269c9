SPECIFICATION Spec
CONSTANTS
  p1 = p1
  p2 = p2
  Publisher = {p1, p2}
  Backend = {"jsonl", "sqlite"}
  Default = "jsonl"
  Strange = "strange"
  Unparsable = "unparsable"
  NoHandle = "none"
  FirstOffset <- MCFirstOffset
  Capacity = 1
  MaxEvents = 2
  MaxMessages = 2
  MaxEdits = 1
CHECK_DEADLOCK FALSE
INVARIANTS Routed  
 
