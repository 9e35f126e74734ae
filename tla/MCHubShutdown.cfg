\* One client and the shutdown.
SPECIFICATION Spec
CONSTANTS
  Clients = {c1}
  Rooms = {m1}
  Producers = {p1}
  None = None
  Fragile = {}
  SendCap = 1
  BroadcastCap = 1
  MaxFrames = 2
  MaxEvents = 1
INVARIANT ShutdownIsClean
