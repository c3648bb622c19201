SPECIFICATION FairSpec
CONSTANTS
  r1 = r1
  r2 = r2
  c1 = c1
  w1 = w1
  Events <- TwoEvents
  Relays = {r1, r2}
  Lambdas = {}
  Workers = {w1}
  MessageIds <- ThreeMessages
  BatchLimit = 1
  ReceiveLimit = 1
  MaxReceive = 2
  MaxFaults = 1
  EventTypes <- InviteType
  NoRow = NoRow
  NoMessage = NoMessage
PROPERTIES AtLeastOnce EventsSettle
CHECK_DEADLOCK FALSE
