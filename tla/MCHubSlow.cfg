\* One client in two rooms, overflow at one message.
SPECIFICATION Spec
CONSTANTS
  Clients = {c1}
  Rooms = {m1, m2}
  Producers = {p1}
  None = None
  Fragile = {}
  SendCap = 1
  BroadcastCap = 1
  MaxFrames = 2
  MaxEvents = 1
PROPERTY SlowClientClosed
