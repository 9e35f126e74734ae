------------------------------ MODULE HubProofs ------------------------------
(***************************************************************************)
(* Theorems about the realtime hub, for any numbers of clients, rooms and  *)
(* broadcasting requests and any channel capacities.                       *)
(***************************************************************************)
EXTENDS Hub, TLAPS

\* The hub starts in a state of the right types.
LEMMA TypeInit == Init => TypeOK
BY CapsAssumption, NoneAssumption
   DEF Init, TypeOK, Event, Reply, Frame, NoFrame, NoEvent

\* A call of BroadcastToRoom keeps the types.
LEMMA TypeProducer ==
  ASSUME TypeOK, NEW p \in Producers, Producer(p)
  PROVE  TypeOK'
<1> USE CapsAssumption, NoneAssumption DEF hubVars, mainVars, peerVars, readVars, histVars, feedVars
<1>1. ASSUME NEW r \in Rooms, Call(p, r) PROVE TypeOK'
  BY <1>1 DEF TypeOK, Call
<1>2. CASE Enqueue(p)
  <2>1. NewEvent(p) \in Event
    BY <1>2 DEF Enqueue, Accept, TypeOK, NewEvent, Event
  <2>2. queue' \in Seq(Event) /\ Len(queue') <= BroadcastCap
    BY <1>2, <2>1 DEF Enqueue, Accept, TypeOK
  <2>. QED BY <1>2, <2>2 DEF Enqueue, Accept, TypeOK
<1>3. CASE CallStopped(p)
  BY <1>3 DEF TypeOK, CallStopped
<1>. QED BY <1>1, <1>2, <1>3 DEF Producer
\* What a client's removal from some rooms, and its closing, do to the types.
LEMMA TypeRemove ==
  ASSUME TypeOK, NEW c \in Clients, NEW rs \in SUBSET Rooms, RemoveFromRooms(c, rs)
  PROVE  /\ members' \in [Rooms -> SUBSET Clients]
         /\ subs' \in [Clients -> SUBSET Rooms]
         /\ last' \in [Clients -> [Rooms -> Nat]]
BY DEF TypeOK, RemoveFromRooms, Without, Forget

LEMMA TypeClose ==
  ASSUME TypeOK, NEW c \in Clients, CloseClient(c)
  PROVE  /\ closed' \in [Clients -> BOOLEAN]
         /\ conn' \in [Clients -> {"none", "open", "broken", "closed"}]
BY DEF TypeOK, CloseClient

\* A step of Hub.Run keeps the types.
LEMMA TypeRun ==
  ASSUME TypeOK, Run
  PROVE  TypeOK'
<1> USE CapsAssumption, NoneAssumption
    DEF hubVars, mainVars, peerVars, readVars, histVars, feedVars
<1>1. ASSUME NEW c \in Clients, HubRegister(c) PROVE TypeOK'
  BY <1>1 DEF TypeOK, HubRegister, Case, Goto, Frame
<1>2. ASSUME NEW c \in Clients, HubUnregister(c) PROVE TypeOK'
  <2>1. subs[c] \in SUBSET Rooms
    BY DEF TypeOK
  <2>. QED BY <1>2, <2>1, TypeRemove, TypeClose DEF TypeOK, HubUnregister, Case, Goto
<1>3. ASSUME NEW c \in Clients, HubSubscribe(c) PROVE TypeOK'
  <2>1. frame[c].room \in Rooms
    BY <1>3 DEF TypeOK, HubSubscribe, Frame
  <2>. QED BY <1>3, <2>1 DEF TypeOK, HubSubscribe, Case, Goto
<1>4. ASSUME NEW c \in Clients, HubUnsubscribe(c) PROVE TypeOK'
  <2>1. frame[c].room \in Rooms
    BY <1>4 DEF TypeOK, HubUnsubscribe, Frame
  <2>2. {frame[c].room} \in SUBSET Rooms
    BY <2>1
  <2>3. RemoveFromRooms(c, {frame[c].room})
    BY <1>4 DEF HubUnsubscribe
  <2>. QED BY <1>4, <2>1, <2>2, <2>3, TypeRemove DEF TypeOK, HubUnsubscribe, Case, Goto
<1>5. ASSUME NEW c \in Clients, FanOutSend(c) PROVE TypeOK'
  <2>1. fanout \in [room : Rooms, n : Nat \ {0}, todo : SUBSET Clients] /\ fanout # NoEvent
    BY <1>5 DEF TypeOK, FanOutSend, Serving
  <2>2. [room |-> fanout.room, n |-> fanout.n] \in Event
    BY <2>1 DEF Event
  <2>3. send' \in [Clients -> Seq(Event \cup {Reply})] /\ \A d \in Clients : Len(send'[d]) <= SendCap
    BY <1>5, <2>2 DEF TypeOK, FanOutSend, Give
  <2>4. fanout' \in [room : Rooms, n : Nat \ {0}, todo : SUBSET Clients] /\ fanout' # NoEvent
    BY <1>5, <2>1 DEF FanOutSend, Give, NoEvent
  <2>5. last' \in [Clients -> [Rooms -> Nat]]
    BY <1>5, <2>1 DEF TypeOK, FanOutSend, Give
  <2>. QED BY <1>5, <2>1, <2>3, <2>4, <2>5 DEF TypeOK, FanOutSend, Serving, Give
<1>6. ASSUME NEW c \in Clients, FanOutDrop(c) PROVE TypeOK'
  <2>1. fanout \in [room : Rooms, n : Nat \ {0}, todo : SUBSET Clients] /\ fanout # NoEvent
    BY <1>6 DEF TypeOK, FanOutDrop, Overflowing, Serving
  <2>2. fanout' \in [room : Rooms, n : Nat \ {0}, todo : SUBSET Clients] /\ fanout' # NoEvent
    BY <1>6, <2>1 DEF FanOutDrop, NoEvent
  <2>3. {fanout.room} \in SUBSET Rooms /\ RemoveFromRooms(c, {fanout.room})
    BY <1>6, <2>1 DEF FanOutDrop
  <2>. QED BY <1>6, <2>1, <2>2, <2>3, TypeRemove DEF TypeOK, FanOutDrop, Overflowing, Serving
<1>7. ASSUME NEW c \in Clients, FanOutPanic(c) PROVE TypeOK'
  BY <1>7 DEF TypeOK, FanOutPanic
<1>8. ASSUME NEW c \in Clients, ShutdownClose(c) PROVE TypeOK'
  BY <1>8, TypeClose DEF TypeOK, ShutdownClose
<1>9. CASE HubBroadcast
  <2>1. Head(queue) \in Event /\ Tail(queue) \in Seq(Event) /\ Len(Tail(queue)) <= BroadcastCap
    BY <1>9 DEF TypeOK, HubBroadcast
  <2>2. fanout' \in [room : Rooms, n : Nat \ {0}, todo : SUBSET Clients] /\ fanout' # NoEvent
    BY <1>9, <2>1 DEF TypeOK, HubBroadcast, Event, NoEvent
  <2>3. taken' \in [Rooms -> Nat]
    BY <1>9, <2>1 DEF TypeOK, HubBroadcast, Event
  <2>. QED BY <1>9, <2>1, <2>2, <2>3 DEF TypeOK, HubBroadcast
<1>10. CASE FanOutEnd
  BY <1>10 DEF TypeOK, FanOutEnd
<1>11. CASE HubShutdown
  BY <1>11 DEF TypeOK, HubShutdown
<1>12. CASE ShutdownEnd
  BY <1>12 DEF TypeOK, ShutdownEnd
<1>. QED BY <1>1, <1>2, <1>3, <1>4, <1>5, <1>6, <1>7, <1>8, <1>9, <1>10, <1>11, <1>12 DEF Run

\* A step of a client's handler or ReadPump keeps the types.
LEMMA TypeReader ==
  ASSUME TypeOK, NEW c \in Clients, Reader(c)
  PROVE  TypeOK'
<1> USE CapsAssumption, NoneAssumption
    DEF hubVars, mainVars, peerVars, readVars, histVars, feedVars, Goto
<1>1. CASE Connect(c)
  BY <1>1 DEF TypeOK, Connect
<1>2. CASE RegisterStopped(c)
  BY <1>2 DEF TypeOK, RegisterStopped
<1>0. NoFrame \in Frame
  BY DEF Frame, NoFrame
<1>a. [frame EXCEPT ![c] = NoFrame] \in [Clients -> Frame]
  BY <1>0 DEF TypeOK
<1>3. CASE ReadFrame(c)
  <2>1. \A t \in {"subscribe", "unsubscribe"}, r \in Rooms : [type |-> t, room |-> r] \in Frame
    BY DEF Frame
  <2>2. /\ frame' \in [Clients -> Frame]
        /\ \E to \in {"request", "check"} : pc' = [pc EXCEPT ![c] = to]
    BY <1>3, <1>0, <2>1 DEF TypeOK, ReadFrame
  <2>. QED BY <1>3, <2>2 DEF TypeOK, ReadFrame
<1>4. CASE RequestStopped(c)
  BY <1>4 DEF TypeOK, RequestStopped, Frame, NoFrame
<1>5. CASE CheckStop(c)
  <2>1. /\ frame' \in [Clients -> Frame]
        /\ \E to \in {"read", "push"} : pc' = [pc EXCEPT ![c] = to]
    <3>1. CASE StopClosed
      BY <1>5, <1>a, <3>1 DEF CheckStop
    <3>2. CASE ~StopClosed
      BY <1>5, <3>2 DEF CheckStop, TypeOK
    <3>. QED BY <3>1, <3>2
  <2>. QED BY <1>5, <2>1 DEF TypeOK, CheckStop
<1>6. CASE Push(c)
  <2>1. send' \in [Clients -> Seq(Event \cup {Reply})] /\ \A d \in Clients : Len(send'[d]) <= SendCap
    <3>1. CASE Len(send[c]) < SendCap
      <4>1. Append(send[c], Reply) \in Seq(Event \cup {Reply})
        BY DEF TypeOK
      <4>2. Len(Append(send[c], Reply)) <= SendCap
        BY <3>1 DEF TypeOK
      <4>3. send' = [send EXCEPT ![c] = Append(send[c], Reply)]
        BY <1>6, <3>1 DEF Push
      <4>. QED BY <4>1, <4>2, <4>3 DEF TypeOK
    <3>2. CASE ~(Len(send[c]) < SendCap)
      BY <1>6, <3>2 DEF TypeOK, Push
    <3>. QED BY <3>1, <3>2
  <2>2. told' \in [Clients -> [Rooms -> {"nothing", "subscribe", "unsubscribe"}]]
    <3>1. frame[c].room # None => /\ frame[c].type \in {"subscribe", "unsubscribe"}
                                  /\ frame[c].room \in Rooms
      BY DEF TypeOK, Frame
    <3>2. \/ told' = told
          \/ frame[c].room # None /\ told' = [told EXCEPT ![c][frame[c].room] = frame[c].type]
      <4>1. CASE Len(send[c]) < SendCap
        BY <1>6, <4>1 DEF Push
      <4>2. CASE ~(Len(send[c]) < SendCap)
        BY <1>6, <4>2 DEF Push
      <4>. QED BY <4>1, <4>2
    <3>3. told \in [Clients -> [Rooms -> {"nothing", "subscribe", "unsubscribe"}]]
      BY DEF TypeOK
    <3>4. CASE told' = told
      BY <3>3, <3>4
    <3>5. CASE /\ frame[c].room # None
               /\ told' = [told EXCEPT ![c][frame[c].room] = frame[c].type]
      BY <3>1, <3>3, <3>5
    <3>. QED BY <3>2, <3>4, <3>5
  <2>3. frame' \in [Clients -> Frame] /\ pc' = [pc EXCEPT ![c] = "read"]
    BY <1>6, <1>a DEF Push
  <2>. QED BY <1>6, <2>1, <2>2, <2>3 DEF TypeOK, Push
<1>7. CASE PushPanic(c)
  <2>1. /\ frame' \in [Clients -> Frame]
        /\ \E to \in {"gone", "unregister"} : pc' = [pc EXCEPT ![c] = to]
        /\ dying' \in SUBSET Clients
    BY <1>7, <1>0 DEF TypeOK, PushPanic
  <2>. QED BY <1>7, <2>1 DEF TypeOK, PushPanic
<1>8. CASE ReadFail(c)
  BY <1>8 DEF TypeOK, ReadFail
<1>9. CASE UnregisterStopped(c)
  BY <1>9 DEF TypeOK, UnregisterStopped
<1>10. CASE ReaderClose(c)
  BY <1>10, TypeClose DEF TypeOK, ReaderClose
<1>. QED BY <1>1, <1>2, <1>3, <1>4, <1>5, <1>6, <1>7, <1>8, <1>9, <1>10 DEF Reader

\* A step of a WritePump, of a peer or of main keeps the types.
LEMMA TypeWriter ==
  ASSUME TypeOK, NEW c \in Clients, Writer(c) \/ Break(c)
  PROVE  TypeOK'
<1> USE DEF hubVars, mainVars, peerVars, readVars, histVars, feedVars
<1>0. ASSUME send[c] # <<>>, send' = [send EXCEPT ![c] = Tail(@)]
      PROVE  /\ send' \in [Clients -> Seq(Event \cup {Reply})]
             /\ \A d \in Clients : Len(send'[d]) <= SendCap
  <2>1. Tail(send[c]) \in Seq(Event \cup {Reply}) /\ Len(Tail(send[c])) <= SendCap
    BY <1>0, CapsAssumption DEF TypeOK
  <2>. QED BY <1>0, <2>1 DEF TypeOK
<1>1. CASE Write(c)
  BY <1>0, <1>1 DEF TypeOK, Write
<1>2. CASE WriteFail(c)
  BY <1>0, <1>2 DEF TypeOK, WriteFail, WriterEnds
<1>3. CASE WriteClosed(c)
  BY <1>3 DEF TypeOK, WriteClosed, WriterEnds
<1>4. CASE Break(c)
  BY <1>4 DEF TypeOK, Break
<1>. QED BY <1>1, <1>2, <1>3, <1>4 DEF Writer

LEMMA TypeMain ==
  ASSUME TypeOK, Main
  PROVE  TypeOK'
BY DEF TypeOK, Main, AppCancel, Stop, Exit, MainStep, hubVars, peerVars, readVars,
       histVars, feedVars

\* Type correctness: no channel ever holds more than its capacity, and every
\* frame a reader asks the hub about names a room.
THEOREM TypeCorrect == Spec => []TypeOK
<1>1. TypeOK /\ [Next]_vars => TypeOK'
  <2> SUFFICES ASSUME TypeOK, [Next]_vars PROVE TypeOK'
    OBVIOUS
  <2>1. CASE Next
    BY <2>1, TypeProducer, TypeRun, TypeReader, TypeWriter, TypeMain DEF Next, Ended, vars, TypeOK
  <2>2. CASE UNCHANGED vars
    BY <2>2 DEF vars, TypeOK
  <2>. QED BY <2>1, <2>2
<1>. QED BY <1>1, TypeInit, PTL DEF Spec
-----------------------------------------------------------------------------
(* Order of a client's life.                                               *)

LEMMA OrderInit == Init => OrderInv
BY NoneAssumption
   DEF Init, OrderInv, MembershipMirrored, RegisteredInOrder, MembersAreServed, Looping,
       UnsubscribedIsFinal, Served, NoEvent

\* The variables OrderInv speaks of.
orderVars == <<life, phase, clients, members, subs, fanout, pc, frame, closed,
               dying, told>>

LEMMA OrderUnchanged ==
  ASSUME OrderInv, UNCHANGED orderVars
  PROVE  OrderInv'
BY DEF orderVars, OrderInv, MembershipMirrored, RegisteredInOrder, MembersAreServed, Looping,
       UnsubscribedIsFinal, Served

\* removeClientFromRoom removes the client from exactly these rooms, on both
\* sides.
LEMMA RemoveEffect ==
  ASSUME TypeOK, NEW c \in Clients, NEW rs \in SUBSET Rooms, RemoveFromRooms(c, rs)
  PROVE  \A d \in Clients, r \in Rooms :
           /\ d \in members'[r] <=> d \in members[r] /\ ~(d = c /\ r \in rs)
           /\ r \in subs'[d] <=> r \in subs[d] /\ ~(d = c /\ r \in rs)
           /\ last'[d][r] = IF d = c /\ r \in rs THEN 0 ELSE last[d][r]
BY DEF TypeOK, RemoveFromRooms, Without, Forget

\* A step of Hub.Run keeps the order.
LEMMA OrderRun ==
  ASSUME TypeOK, OrderInv, Run
  PROVE  OrderInv'
<1> USE CapsAssumption, NoneAssumption
    DEF hubVars, mainVars, peerVars, readVars, histVars, feedVars, Case, Goto,
        OrderInv, MembershipMirrored, RegisteredInOrder, MembersAreServed, Looping,
        UnsubscribedIsFinal, Served, Alive, CtxDone
<1>0. \A d \in Clients : frame[d].type = "unsubscribe" => frame[d].room \in Rooms
  BY DEF TypeOK, Frame
<1>1. ASSUME NEW c \in Clients, HubRegister(c) PROVE OrderInv'
  BY <1>1 DEF TypeOK, HubRegister
<1>2. ASSUME NEW c \in Clients, HubUnregister(c) PROVE OrderInv'
  <2>1. subs[c] \in SUBSET Rooms
    BY DEF TypeOK
  <2>2. \A d \in Clients, r \in Rooms :
          /\ d \in members'[r] <=> d \in members[r] /\ ~(d = c /\ r \in subs[c])
          /\ r \in subs'[d] <=> r \in subs[d] /\ ~(d = c /\ r \in subs[c])
    BY <1>2, <2>1, RemoveEffect DEF HubUnregister
  <2>3. members' \in [Rooms -> SUBSET Clients]
    BY <1>2, <2>1, TypeRemove DEF HubUnregister
  <2>a. MembershipMirrored'
    BY <1>2, <2>2, <2>3 DEF TypeOK, HubUnregister, CloseClient
  <2>b. RegisteredInOrder'
    BY <1>2, <2>2, <2>3 DEF TypeOK, HubUnregister, CloseClient
  <2>c. MembersAreServed'
    BY <1>2, <2>2, <2>3 DEF TypeOK, HubUnregister, CloseClient
  <2>d. (life = "serving" => Looping /\ dying = {})'
    BY <1>2, <2>2, <2>3 DEF TypeOK, HubUnregister, CloseClient
  <2>e. (phase = "fanout" => fanout.todo \subseteq members[fanout.room])'
    BY <1>2, <2>2, <2>3 DEF TypeOK, HubUnregister, CloseClient
  <2>f. UnsubscribedIsFinal'
    BY <1>2, <2>2, <2>3 DEF TypeOK, HubUnregister, CloseClient
  <2>g. (\A d \in Clients :
          pc[d] \in {"check", "push"} /\ frame[d].type = "unsubscribe" =>
            d \notin members[frame[d].room])'
    BY <1>0, <1>2, <2>2, <2>3 DEF TypeOK, HubUnregister, CloseClient
  <2>. QED BY <2>a, <2>b, <2>c, <2>d, <2>e, <2>f, <2>g
<1>3. ASSUME NEW c \in Clients, HubSubscribe(c) PROVE OrderInv'
  <2>1. frame[c].room \in Rooms
    BY <1>3 DEF TypeOK, HubSubscribe, Frame
  <2>2. \A d \in Clients, r \in Rooms :
          /\ d \in members'[r] <=> d \in members[r] \/ (d = c /\ r = frame[c].room)
          /\ r \in subs'[d] <=> r \in subs[d] \/ (d = c /\ r = frame[c].room)
    <3>1. /\ members \in [Rooms -> SUBSET Clients]
          /\ subs \in [Clients -> SUBSET Rooms]
      BY DEF TypeOK
    <3>2. /\ members' = [members EXCEPT ![frame[c].room] = @ \cup {c}]
          /\ subs' = [subs EXCEPT ![c] = @ \cup {frame[c].room}]
      BY <1>3 DEF HubSubscribe
    <3>. QED BY <2>1, <3>1, <3>2
  <2>3. members' \in [Rooms -> SUBSET Clients]
    BY <1>3, <2>1 DEF TypeOK, HubSubscribe
  <2>a. MembershipMirrored'
    BY <1>3, <2>1, <2>2, <2>3 DEF TypeOK, HubSubscribe
  <2>b. RegisteredInOrder'
    BY <1>3, <2>1, <2>2, <2>3 DEF TypeOK, HubSubscribe
  <2>c. MembersAreServed'
    BY <1>3, <2>1, <2>2, <2>3 DEF TypeOK, HubSubscribe
  <2>d. (life = "serving" => Looping /\ dying = {})'
    BY <1>3, <2>1, <2>2, <2>3 DEF TypeOK, HubSubscribe
  <2>e. (phase = "fanout" => fanout.todo \subseteq members[fanout.room])'
    BY <1>3, <2>1, <2>2, <2>3 DEF TypeOK, HubSubscribe
  <2>f. UnsubscribedIsFinal'
    BY <1>3, <2>1, <2>2, <2>3 DEF TypeOK, HubSubscribe
  <2>g. (\A d \in Clients :
          pc[d] \in {"check", "push"} /\ frame[d].type = "unsubscribe" =>
            d \notin members[frame[d].room])'
    BY <1>0, <1>3, <2>1, <2>2, <2>3 DEF TypeOK, HubSubscribe
  <2>. QED BY <2>a, <2>b, <2>c, <2>d, <2>e, <2>f, <2>g
<1>4. ASSUME NEW c \in Clients, HubUnsubscribe(c) PROVE OrderInv'
  <2>1. frame[c].room \in Rooms
    BY <1>4 DEF TypeOK, HubUnsubscribe, Frame
  <2>2. \A d \in Clients, r \in Rooms :
          /\ d \in members'[r] <=> d \in members[r] /\ ~(d = c /\ r = frame[c].room)
          /\ r \in subs'[d] <=> r \in subs[d] /\ ~(d = c /\ r = frame[c].room)
    BY <1>4, <2>1, RemoveEffect DEF HubUnsubscribe
  <2>3. members' \in [Rooms -> SUBSET Clients]
    BY <1>4, <2>1, TypeRemove DEF HubUnsubscribe
  <2>a. MembershipMirrored'
    BY <1>4, <2>1, <2>2, <2>3 DEF TypeOK, HubUnsubscribe
  <2>b. RegisteredInOrder'
    BY <1>4, <2>1, <2>2, <2>3 DEF TypeOK, HubUnsubscribe
  <2>c. MembersAreServed'
    BY <1>4, <2>1, <2>2, <2>3 DEF TypeOK, HubUnsubscribe
  <2>d. (life = "serving" => Looping /\ dying = {})'
    BY <1>4, <2>1, <2>2, <2>3 DEF TypeOK, HubUnsubscribe
  <2>e. (phase = "fanout" => fanout.todo \subseteq members[fanout.room])'
    BY <1>4, <2>1, <2>2, <2>3 DEF TypeOK, HubUnsubscribe
  <2>f. UnsubscribedIsFinal'
    BY <1>4, <2>1, <2>2, <2>3 DEF TypeOK, HubUnsubscribe
  <2>g. (\A d \in Clients :
          pc[d] \in {"check", "push"} /\ frame[d].type = "unsubscribe" =>
            d \notin members[frame[d].room])'
    BY <1>0, <1>4, <2>1, <2>2, <2>3 DEF TypeOK, HubUnsubscribe
  <2>. QED BY <2>a, <2>b, <2>c, <2>d, <2>e, <2>f, <2>g
<1>5. ASSUME NEW c \in Clients, FanOutSend(c) PROVE OrderInv'
  BY <1>5 DEF TypeOK, FanOutSend, Serving, Give
<1>6. ASSUME NEW c \in Clients, FanOutDrop(c) PROVE OrderInv'
  <2>1. fanout \in [room : Rooms, n : Nat \ {0}, todo : SUBSET Clients]
    BY <1>6 DEF TypeOK, FanOutDrop, Overflowing, Serving
  <2>2. \A d \in Clients, r \in Rooms :
          /\ d \in members'[r] <=> d \in members[r] /\ ~(d = c /\ r = fanout.room)
          /\ r \in subs'[d] <=> r \in subs[d] /\ ~(d = c /\ r = fanout.room)
    BY <1>6, <2>1, RemoveEffect DEF FanOutDrop
  <2>3. members' \in [Rooms -> SUBSET Clients]
    BY <1>6, <2>1, TypeRemove DEF FanOutDrop
  <2>a. MembershipMirrored'
    BY <1>6, <2>1, <2>2, <2>3 DEF TypeOK, FanOutDrop, Overflowing, Serving
  <2>b. RegisteredInOrder'
    BY <1>6, <2>1, <2>2, <2>3 DEF TypeOK, FanOutDrop, Overflowing, Serving
  <2>c. MembersAreServed'
    BY <1>6, <2>1, <2>2, <2>3 DEF TypeOK, FanOutDrop, Overflowing, Serving
  <2>d. (life = "serving" => Looping /\ dying = {})'
    BY <1>6, <2>1, <2>2, <2>3 DEF TypeOK, FanOutDrop, Overflowing, Serving
  <2>e. (phase = "fanout" => fanout.todo \subseteq members[fanout.room])'
    BY <1>6, <2>1, <2>2, <2>3 DEF TypeOK, FanOutDrop, Overflowing, Serving
  <2>f. UnsubscribedIsFinal'
    BY <1>6, <2>1, <2>2, <2>3 DEF TypeOK, FanOutDrop, Overflowing, Serving
  <2>g. (\A d \in Clients :
          pc[d] \in {"check", "push"} /\ frame[d].type = "unsubscribe" =>
            d \notin members[frame[d].room])'
    BY <1>0, <1>6, <2>1, <2>2, <2>3 DEF TypeOK, FanOutDrop, Overflowing, Serving
  <2>. QED BY <2>a, <2>b, <2>c, <2>d, <2>e, <2>f, <2>g
<1>7. ASSUME NEW c \in Clients, FanOutPanic(c) PROVE OrderInv'
  BY <1>7 DEF TypeOK, FanOutPanic
<1>8. ASSUME NEW c \in Clients, ShutdownClose(c) PROVE OrderInv'
  BY <1>8 DEF TypeOK, ShutdownClose, CloseClient
<1>9. CASE HubBroadcast
  BY <1>9 DEF TypeOK, HubBroadcast
<1>10. CASE FanOutEnd
  BY <1>10 DEF TypeOK, FanOutEnd
<1>11. CASE HubShutdown
  BY <1>11 DEF TypeOK, HubShutdown
<1>12. CASE ShutdownEnd
  <2>a. MembershipMirrored'
    BY <1>12 DEF TypeOK, ShutdownEnd
  <2>b. RegisteredInOrder'
    BY <1>12 DEF TypeOK, ShutdownEnd
  <2>c. MembersAreServed'
    BY <1>12 DEF TypeOK, ShutdownEnd
  <2>d. (life = "serving" => Looping /\ dying = {})'
    BY <1>12 DEF TypeOK, ShutdownEnd
  <2>e. (phase = "fanout" => fanout.todo \subseteq members[fanout.room])'
    BY <1>12 DEF TypeOK, ShutdownEnd
  <2>f. UnsubscribedIsFinal'
    BY <1>12 DEF TypeOK, ShutdownEnd
  <2>g. (\A d \in Clients :
          pc[d] \in {"check", "push"} /\ frame[d].type = "unsubscribe" =>
            d \notin members[frame[d].room])'
    BY <1>0, <1>12 DEF TypeOK, ShutdownEnd
  <2>. QED BY <2>a, <2>b, <2>c, <2>d, <2>e, <2>f, <2>g
<1>. QED BY <1>1, <1>2, <1>3, <1>4, <1>5, <1>6, <1>7, <1>8, <1>9, <1>10, <1>11, <1>12 DEF Run

\* A step of a client's handler or ReadPump keeps the order.
LEMMA OrderReader ==
  ASSUME TypeOK, OrderInv, NEW c \in Clients, Reader(c)
  PROVE  OrderInv'
<1> USE CapsAssumption, NoneAssumption
    DEF hubVars, mainVars, peerVars, readVars, histVars, feedVars, Goto,
        OrderInv, MembershipMirrored, RegisteredInOrder, MembersAreServed, Looping,
        UnsubscribedIsFinal, Served, Alive, StopClosed
<1>0. \A d \in Clients : frame[d].type = "unsubscribe" => frame[d].room \in Rooms
  BY DEF TypeOK, Frame
<1>1. CASE Connect(c)
  BY <1>1 DEF TypeOK, Connect
<1>2. CASE RegisterStopped(c)
  BY <1>2 DEF TypeOK, RegisterStopped
<1>3. CASE ReadFrame(c)
  <2>1. /\ pc[c] = "read" /\ \A d \in Clients \ {c} : pc'[d] = pc[d]
        /\ pc'[c] \in {"request", "check"}
        /\ pc'[c] = "check" => frame'[c].type # "unsubscribe"
        /\ \A d \in Clients \ {c} : frame'[d] = frame[d]
    BY <1>3 DEF TypeOK, ReadFrame, NoFrame
  <2>a. MembershipMirrored'
    BY <1>3, <2>1 DEF TypeOK, ReadFrame
  <2>b. RegisteredInOrder'
    BY <1>3, <2>1 DEF TypeOK, ReadFrame
  <2>c. MembersAreServed'
    BY <1>3, <2>1 DEF TypeOK, ReadFrame
  <2>d. (life = "serving" => Looping /\ dying = {})'
    BY <1>3, <2>1 DEF TypeOK, ReadFrame
  <2>e. (phase = "fanout" => fanout.todo \subseteq members[fanout.room])'
    BY <1>3, <2>1 DEF TypeOK, ReadFrame
  <2>f. UnsubscribedIsFinal'
    BY <1>3, <2>1 DEF TypeOK, ReadFrame
  <2>g. (\A d \in Clients :
          pc[d] \in {"check", "push"} /\ frame[d].type = "unsubscribe" =>
            d \notin members[frame[d].room])'
    BY <1>0, <1>3, <2>1 DEF TypeOK, ReadFrame
  <2>. QED BY <2>a, <2>b, <2>c, <2>d, <2>e, <2>f, <2>g
<1>4. CASE RequestStopped(c)
  BY <1>4 DEF TypeOK, RequestStopped, NoFrame
<1>5. CASE CheckStop(c)
  <2>1. /\ pc[c] = "check" /\ \A d \in Clients \ {c} : pc'[d] = pc[d]
        /\ pc'[c] \in {"read", "push"}
        /\ pc'[c] = "push" => frame' = frame
        /\ \A d \in Clients \ {c} : frame'[d] = frame[d]
    <3>1. CASE StopClosed
      BY <1>5, <3>1 DEF TypeOK, CheckStop, NoFrame
    <3>2. CASE ~StopClosed
      BY <1>5, <3>2 DEF TypeOK, CheckStop, NoFrame
    <3>. QED BY <3>1, <3>2
  <2>a. MembershipMirrored'
    BY <1>5, <2>1 DEF TypeOK, CheckStop
  <2>b. RegisteredInOrder'
    BY <1>5, <2>1 DEF TypeOK, CheckStop
  <2>c. MembersAreServed'
    BY <1>5, <2>1 DEF TypeOK, CheckStop
  <2>d. (life = "serving" => Looping /\ dying = {})'
    BY <1>5, <2>1 DEF TypeOK, CheckStop
  <2>e. (phase = "fanout" => fanout.todo \subseteq members[fanout.room])'
    BY <1>5, <2>1 DEF TypeOK, CheckStop
  <2>f. UnsubscribedIsFinal'
    BY <1>5, <2>1 DEF TypeOK, CheckStop
  <2>g. (\A d \in Clients :
          pc[d] \in {"check", "push"} /\ frame[d].type = "unsubscribe" =>
            d \notin members[frame[d].room])'
    BY <1>0, <1>5, <2>1 DEF TypeOK, CheckStop
  <2>. QED BY <2>a, <2>b, <2>c, <2>d, <2>e, <2>f, <2>g
<1>6. CASE Push(c)
  <2>1. \A d \in Clients, r \in Rooms :
          told'[d][r] = told[d][r] \/ (d = c /\ r = frame[c].room /\ told'[d][r] = frame[c].type)
    <3>1. told \in [Clients -> [Rooms -> {"nothing", "subscribe", "unsubscribe"}]]
      BY DEF TypeOK
    <3>2. \/ told' = told
          \/ frame[c].room # None /\ told' = [told EXCEPT ![c][frame[c].room] = frame[c].type]
      <4>1. CASE Len(send[c]) < SendCap
        BY <1>6, <4>1 DEF Push
      <4>2. CASE ~(Len(send[c]) < SendCap)
        BY <1>6, <4>2 DEF Push
      <4>. QED BY <4>1, <4>2
    <3>. QED BY <3>1, <3>2
  <2>a. MembershipMirrored'
    BY <1>6, <2>1 DEF TypeOK, Push
  <2>b. RegisteredInOrder'
    BY <1>6, <2>1 DEF TypeOK, Push
  <2>c. MembersAreServed'
    BY <1>6, <2>1 DEF TypeOK, Push
  <2>d. (life = "serving" => Looping /\ dying = {})'
    BY <1>6, <2>1 DEF TypeOK, Push
  <2>e. (phase = "fanout" => fanout.todo \subseteq members[fanout.room])'
    BY <1>6, <2>1 DEF TypeOK, Push
  <2>2. frame[c].type = "unsubscribe" => c \notin members[frame[c].room]
    BY <1>6 DEF Push
  <2>3. members' = members
    BY <1>6 DEF Push
  <2>f. UnsubscribedIsFinal'
    BY <2>1, <2>2, <2>3
  <2>g. (\A d \in Clients :
          pc[d] \in {"check", "push"} /\ frame[d].type = "unsubscribe" =>
            d \notin members[frame[d].room])'
    BY <1>0, <1>6, <2>1 DEF TypeOK, Push
  <2>. QED BY <2>a, <2>b, <2>c, <2>d, <2>e, <2>f, <2>g
<1>7. CASE PushPanic(c)
  BY <1>7 DEF TypeOK, PushPanic, NoFrame
<1>8. CASE ReadFail(c)
  BY <1>8 DEF TypeOK, ReadFail
<1>9. CASE UnregisterStopped(c)
  BY <1>9 DEF TypeOK, UnregisterStopped
<1>10. CASE ReaderClose(c)
  BY <1>10 DEF TypeOK, ReaderClose, CloseClient
<1>. QED BY <1>1, <1>2, <1>3, <1>4, <1>5, <1>6, <1>7, <1>8, <1>9, <1>10 DEF Reader

\* The WritePumps and the peers do not disturb it, nor do the broadcasting
\* requests and main.
LEMMA OrderNext ==
  ASSUME TypeOK, OrderInv, [Next]_vars
  PROVE  OrderInv'
<1> USE DEF hubVars, mainVars, peerVars, readVars, histVars, feedVars, orderVars
<1>1. ASSUME NEW p \in Producers, Producer(p) PROVE OrderInv'
  <2>1. UNCHANGED orderVars
    BY <1>1 DEF Producer, Call, Enqueue, Accept, CallStopped
  <2>. QED BY <2>1, OrderUnchanged
<1>2. ASSUME NEW c \in Clients, Writer(c) \/ Break(c) PROVE OrderInv'
  <2>1. UNCHANGED orderVars
    BY <1>2 DEF Writer, Break, Write, WriteFail, WriteClosed, WriterEnds
  <2>. QED BY <2>1, OrderUnchanged
<1>3. CASE Main
  BY <1>3 DEF Main, AppCancel, Stop, Exit, MainStep, OrderInv, MembershipMirrored,
       RegisteredInOrder, MembersAreServed, Looping, UnsubscribedIsFinal, Served
<1>4. CASE UNCHANGED vars
  BY <1>4, OrderUnchanged DEF vars
<1>. QED BY <1>1, <1>2, <1>3, <1>4, OrderRun, OrderReader DEF Next, Ended

LEMMA OrderAlways == Spec => []OrderInv
<1>1. TypeOK /\ OrderInv /\ [Next]_vars => OrderInv'
  BY OrderNext
<1>. QED BY <1>1, OrderInit, TypeCorrect, PTL DEF Spec

\* Until the hub is stopped a member of a room is a registered client with an
\* open send channel, though Hub.Run checks none of this when it subscribes it.
THEOREM MembersAreAlwaysServed == Spec => []MembersAreServed
<1>1. OrderInv => MembersAreServed
  BY DEF OrderInv
<1>. QED BY <1>1, OrderAlways, PTL

\* h.rooms and c.rooms agree: cleanupClientInfo, which walks c.rooms only,
\* leaves no room behind.
THEOREM MembershipIsMirrored == Spec => []MembershipMirrored
<1>1. OrderInv => MembershipMirrored
  BY DEF OrderInv
<1>. QED BY <1>1, OrderAlways, PTL

\* No event of a room follows the answer "unsubscribed" in a client's channel.
THEOREM UnsubscribedForGood == Spec => []UnsubscribedIsFinal
<1>1. OrderInv => UnsubscribedIsFinal
  BY DEF OrderInv
<1>. QED BY <1>1, OrderAlways, PTL

\* No step of a serving server sends on a closed channel.
THEOREM NeverPanicsWhileServing == Spec => NoPanicWhileServing
<1>1. TypeOK /\ OrderInv /\ [Next]_vars =>
        [life = "serving" => life' # "crashed" /\ dying' = {}]_vars
  <2> SUFFICES ASSUME TypeOK, OrderInv, Next, life = "serving"
               PROVE  life' # "crashed" /\ dying' = {}
    BY DEF vars
  <2> USE DEF hubVars, mainVars, peerVars, readVars, histVars, feedVars
  <2>1. dying = {} /\ Looping
    BY DEF OrderInv
  <2>2. ASSUME NEW p \in Producers, Producer(p) PROVE UNCHANGED mainVars
    BY <2>2 DEF Producer, Call, Enqueue, Accept, CallStopped
  <2>3. ASSUME NEW c \in Clients, FanOutPanic(c) PROVE FALSE
    <3>1. c \in fanout.todo /\ closed[c] /\ phase = "fanout"
      BY <2>3 DEF FanOutPanic
    <3>2. c \in members[fanout.room] /\ fanout.room \in Rooms
      BY <3>1 DEF OrderInv, TypeOK
    <3>3. MembersAreServed
      BY DEF OrderInv
    <3>. QED BY <2>1, <3>1, <3>2, <3>3 DEF MembersAreServed, Looping
  <2>4. CASE Run
    BY <2>1, <2>3, <2>4 DEF Run, HubRegister, HubUnregister, HubSubscribe, HubUnsubscribe,
         FanOutSend, Give, FanOutDrop, ShutdownClose, HubBroadcast, FanOutEnd,
         HubShutdown, ShutdownEnd
  <2>5. ASSUME NEW c \in Clients, Reader(c) PROVE life' # "crashed" /\ dying' = {}
    <3>1. ~ReaderClose(c) \/ life' # "crashed"
      BY <2>1 DEF ReaderClose
    <3>2. ASSUME PushPanic(c) PROVE FALSE
      <4>1. pc[c] = "push" /\ closed[c]
        BY <3>2 DEF PushPanic, Goto
      <4>. QED BY <2>1, <4>1 DEF OrderInv, RegisteredInOrder, Served
    <3>. QED BY <2>1, <2>5, <3>1, <3>2 DEF Reader, Connect, RegisterStopped, ReadFrame,
              RequestStopped, CheckStop, Push, ReadFail, UnregisterStopped, ReaderClose
  <2>6. ASSUME NEW c \in Clients, Writer(c) \/ Break(c) PROVE UNCHANGED mainVars
    BY <2>6 DEF Writer, Break, Write, WriteFail, WriteClosed, WriterEnds
  <2>7. CASE Main
    BY <2>7, <2>1 DEF Main, AppCancel, Stop, Exit, MainStep
  <2>. QED BY <2>1, <2>2, <2>4, <2>5, <2>6, <2>7 DEF Next, Ended, vars
<1>. QED BY <1>1, OrderAlways, TypeCorrect, PTL DEF Spec, NoPanicWhileServing

\* Only Hub.Run changes the rooms, and each of its steps only for the client it
\* serves: nothing a client does, and nothing it fails to do, costs another one
\* its subscription.
THEOREM ClientsLeaveByThemselves == Spec => LeavesByItself
<1> DEFINE Cause(c, r) == \/ pc[c] = "request" /\ frame[c] = [type |-> "unsubscribe", room |-> r]
                          \/ pc[c] = "unregister"
                          \/ phase = "fanout" /\ fanout.room = r /\ Len(send[c]) = SendCap
                          \/ phase = "closing"
<1>1. ASSUME TypeOK, Next, NEW c \in Clients, NEW r \in Rooms, c \in members[r], c \notin members'[r]
      PROVE  Cause(c, r)
  <2> USE DEF hubVars, mainVars, peerVars, readVars, histVars, feedVars
  <2>1. Run
    <3>1. ASSUME NEW p \in Producers, Producer(p) PROVE members' = members
      BY <3>1 DEF Producer, Call, Enqueue, Accept, CallStopped
    <3>2. ASSUME NEW d \in Clients, Reader(d) \/ Writer(d) \/ Break(d) PROVE members' = members
      BY <3>2 DEF Reader, Connect, RegisterStopped, ReadFrame, RequestStopped, CheckStop, Push,
           PushPanic, ReadFail, UnregisterStopped, ReaderClose, Writer, Break, Write, WriteFail,
           WriteClosed, WriterEnds
    <3>3. CASE Main \/ Ended
      BY <1>1, <3>3 DEF Main, AppCancel, Stop, Exit, MainStep, Ended, vars
    <3>. QED BY <1>1, <3>1, <3>2, <3>3 DEF Next
  <2>2. ASSUME NEW d \in Clients, HubUnregister(d) PROVE Cause(c, r)
    <3>1. c = d
      BY <1>1, <2>2 DEF HubUnregister, RemoveFromRooms, Without, TypeOK
    <3>. QED BY <2>2, <3>1 DEF HubUnregister, Case, Goto
  <2>3. ASSUME NEW d \in Clients, HubUnsubscribe(d) PROVE Cause(c, r)
    <3>1. c = d /\ frame[d].room = r
      BY <1>1, <2>3 DEF HubUnsubscribe, RemoveFromRooms, Without, TypeOK
    <3>2. frame[d] \in Frame /\ frame[d].type = "unsubscribe" /\ pc[d] = "request"
      BY <1>1, <2>3 DEF HubUnsubscribe, Case, Goto, TypeOK
    <3>3. frame[d] = [type |-> "unsubscribe", room |-> r]
      BY <3>1, <3>2 DEF Frame
    <3>. QED BY <3>1, <3>2, <3>3
  <2>4. ASSUME NEW d \in Clients, FanOutDrop(d) PROVE Cause(c, r)
    <3>1. c = d /\ fanout.room = r
      BY <1>1, <2>4 DEF FanOutDrop, RemoveFromRooms, Without, TypeOK
    <3>2. phase = "fanout" /\ Len(send[d]) >= SendCap
      BY <2>4 DEF FanOutDrop, Overflowing, Serving
    <3>3. Len(send[d]) <= SendCap /\ Len(send[d]) \in Nat
      BY <1>1 DEF TypeOK
    <3>. QED BY <3>1, <3>2, <3>3, CapsAssumption
  <2>5. CASE ShutdownEnd
    BY <2>5 DEF ShutdownEnd
  <2>6. ASSUME NEW d \in Clients, HubSubscribe(d) PROVE FALSE
    BY <1>1, <2>6 DEF HubSubscribe, TypeOK
  <2>7. ASSUME \/ \E d \in Clients : HubRegister(d) \/ FanOutSend(d) \/ FanOutPanic(d) \/ ShutdownClose(d)
               \/ HubBroadcast \/ FanOutEnd \/ HubShutdown
        PROVE  FALSE
    BY <1>1, <2>7 DEF HubRegister, FanOutSend, Give, FanOutPanic, ShutdownClose, HubBroadcast,
         FanOutEnd, HubShutdown
  <2>. QED BY <2>1, <2>2, <2>3, <2>4, <2>5, <2>6, <2>7 DEF Run
<1>2. TypeOK /\ [Next]_vars =>
        [\A c \in Clients, r \in Rooms : c \in members[r] /\ c \notin members'[r] => Cause(c, r)]_vars
  BY <1>1
<1>. QED BY <1>2, TypeCorrect, PTL DEF Spec, LeavesByItself
-----------------------------------------------------------------------------
(* What a shutdown leaves behind.                                          *)

LEMMA KnownNext ==
  ASSUME TypeOK, KnownOrClosed, [Next]_vars
  PROVE  KnownOrClosed'
<1> USE DEF mainVars, hubVars, feedVars, peerVars, readVars, histVars
<1>1. CASE UNCHANGED <<pc, clients, conn, phase>>
  BY <1>1 DEF KnownOrClosed
<1>2. ASSUME NEW p \in Producers, Producer(p) PROVE UNCHANGED <<pc, clients, conn, phase>>
  BY <1>2 DEF Producer, Call, Enqueue, Accept, CallStopped
<1>3. ASSUME NEW c \in Clients, HubRegister(c) PROVE KnownOrClosed'
  BY <1>3 DEF KnownOrClosed, HubRegister, Case, Goto, TypeOK
<1>4. ASSUME NEW c \in Clients, HubUnregister(c) PROVE KnownOrClosed'
  BY <1>4 DEF KnownOrClosed, HubUnregister, Case, Goto, CloseClient, TypeOK
<1>5. ASSUME NEW c \in Clients, HubSubscribe(c) \/ HubUnsubscribe(c) PROVE KnownOrClosed'
  BY <1>5 DEF KnownOrClosed, HubSubscribe, HubUnsubscribe, Case, Goto, TypeOK
<1>6. ASSUME NEW c \in Clients, FanOutSend(c) \/ FanOutDrop(c) \/ FanOutPanic(c)
      PROVE  UNCHANGED <<pc, clients, conn, phase>>
  BY <1>6 DEF FanOutSend, Give, FanOutDrop, FanOutPanic
<1>7. ASSUME NEW c \in Clients, ShutdownClose(c) PROVE KnownOrClosed'
  BY <1>7 DEF KnownOrClosed, ShutdownClose, CloseClient, TypeOK
<1>8. CASE HubBroadcast \/ FanOutEnd \/ HubShutdown \/ ShutdownEnd
  BY <1>8 DEF KnownOrClosed, HubBroadcast, FanOutEnd, HubShutdown, ShutdownEnd
<1>9. ASSUME NEW c \in Clients, Reader(c) PROVE KnownOrClosed'
  <2>1. CASE Connect(c)
    BY <2>1 DEF KnownOrClosed, Connect, Goto, TypeOK
  <2>2. CASE RegisterStopped(c)
    BY <2>2 DEF KnownOrClosed, RegisterStopped, Goto, TypeOK
  <2>3. CASE ReadFrame(c) \/ RequestStopped(c) \/ CheckStop(c) \/ Push(c) \/ PushPanic(c)
             \/ ReadFail(c) \/ UnregisterStopped(c)
    <3>1. UNCHANGED <<clients, conn, phase>> /\ pc[c] \notin {"none", "register"}
      BY <2>3 DEF ReadFrame, RequestStopped, CheckStop, Push, PushPanic, ReadFail,
           UnregisterStopped, Goto
    <3>2. \A d \in Clients : d # c => pc'[d] = pc[d]
      BY <2>3 DEF ReadFrame, RequestStopped, CheckStop, Push, PushPanic, ReadFail,
           UnregisterStopped, Goto, TypeOK
    <3>. QED BY <3>1, <3>2 DEF KnownOrClosed
  <2>4. CASE ReaderClose(c)
    BY <2>4 DEF KnownOrClosed, ReaderClose, Goto, CloseClient, TypeOK
  <2>. QED BY <1>9, <2>1, <2>2, <2>3, <2>4 DEF Reader
<1>10. ASSUME NEW c \in Clients, Writer(c) \/ Break(c) PROVE KnownOrClosed'
  BY <1>10 DEF KnownOrClosed, Writer, Write, WriteFail, WriteClosed, WriterEnds, Break, TypeOK
<1>11. CASE Main \/ Ended \/ UNCHANGED vars
  BY <1>1, <1>11 DEF Main, AppCancel, Stop, Exit, MainStep, Ended, vars
<1>. QED BY <1>1, <1>2, <1>3, <1>4, <1>5, <1>6, <1>7, <1>8, <1>9, <1>10, <1>11 DEF Next, Run

\* However many connections are opened, read, lost and closed while the server
\* stops, none that got past RegisterClient outlives Hub.Run.
THEOREM ShutdownClosesAll == Spec => []NoneLeftOpen
<1>1. Init => KnownOrClosed
  BY DEF Init, KnownOrClosed
<1>2. TypeOK /\ KnownOrClosed /\ [Next]_vars => KnownOrClosed'
  BY KnownNext
<1>3. KnownOrClosed => NoneLeftOpen
  BY DEF KnownOrClosed, NoneLeftOpen
<1>. QED BY <1>1, <1>2, <1>3, TypeCorrect, PTL DEF Spec
=============================================================================
