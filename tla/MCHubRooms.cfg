\* One client in two rooms: subscribe, unsubscribe and subscribe again, with
\* two messages per channel and two events per room.
SPECIFICATION Spec
CONSTANTS
  Clients = {c1}
  Rooms = {m1, m2}
  Producers = {p1}
  None = None
  Fragile = {}
  SendCap = 2
  BroadcastCap = 2
  MaxFrames = 3
  MaxEvents = 2
SYMMETRY RoomSymmetry
INVARIANTS
  MembershipMirrored
  EventsInOrder
  UnsubscribedIsFinal
PROPERTIES
  ImplementsFeed
