SPECIFICATION Spec
CONSTANTS
  r1 = r1
  r2 = r2
  c1 = c1
  w1 = w1
  Events <- TwoEvents
  Relays = {r1, r2}
  Lambdas = {c1}
  Workers = {}
  MessageIds <- ThreeMessages
  BatchLimit = 2
  ReceiveLimit = 2
  MaxReceive = 2
  MaxFaults = 2
  EventTypes <- TwoTypes
  NoRow = NoRow
  NoMessage = NoMessage
INVARIANTS NoEventLost DuplicatesComeFromFaults
CHECK_DEADLOCK FALSE
SYMMETRY Symmetry
