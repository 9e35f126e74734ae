\* Two clients, one room, overflow at two messages: every interleaving of the
\* hub, two ReadPumps, two WritePumps, one broadcaster and the shutdown.
SPECIFICATION Spec
CONSTANTS
  Clients = {c1, c2}
  Rooms = {m1}
  Producers = {p1}
  None = None
  Fragile = {}
  SendCap = 1
  BroadcastCap = 1
  MaxFrames = 2
  MaxEvents = 1
SYMMETRY ClientSymmetry
INVARIANTS
  TypeOK
  MembersAreServed
  MemberIsCurrent
  NoneLeftOpen
PROPERTIES
  NoPanicWhileServing
  LeavesByItself
