\* One client that may be lost and one frame, its subscription; the events
\* outnumber what both channels and the producer can hold.
SPECIFICATION FairSpec
CONSTANTS
  Clients = {c1}
  Rooms = {m1}
  Producers = {p1}
  None = None
  Fragile = {c1}
  SendCap = 1
  BroadcastCap = 1
  MaxFrames = 1
  MaxEvents = 3
PROPERTIES
  BroadcastReturns
  LostClientReleased
