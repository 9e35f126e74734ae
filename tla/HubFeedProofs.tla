---------------------------- MODULE HubFeedProofs ----------------------------
(***************************************************************************)
(* The realtime hub delivers the events of a room without a gap and in     *)
(* order, for any numbers of clients, rooms and broadcasting requests and  *)
(* any channel capacities: the hub implements RoomFeed.                    *)
(***************************************************************************)
EXTENDS HubProofs

\* The event taken from the Broadcast channel is the next one of its room.
LEMMA HeadIsNext ==
  ASSUME TypeOK, QueueInv, queue # <<>>
  PROVE  /\ Head(queue) \in Event
         /\ Head(queue).n = taken[Head(queue).room] + 1
<1> DEFINE e == Head(queue)
<1>1. queue \in Seq(Event) /\ Len(queue) \in Nat /\ Len(queue) > 0 /\ 1 \in DOMAIN queue /\ e = queue[1]
  BY DEF TypeOK
<1>2. e \in Event
  BY <1>1
<1>3. e.room \in Rooms /\ e.n \in Nat /\ taken[e.room] \in Nat /\ posted[e.room] \in Nat
  BY <1>2 DEF TypeOK, Event
<1>4. taken[e.room] < e.n /\ e.n <= posted[e.room]
  BY <1>1 DEF QueueInv
<1>5. PICK i \in DOMAIN queue : queue[i] = [room |-> e.room, n |-> taken[e.room] + 1]
  <2>1. taken[e.room] + 1 \in taken[e.room] + 1 .. posted[e.room]
    BY <1>3, <1>4
  <2>. QED BY <1>3, <2>1 DEF QueueInv
<1>6. CASE i = 1
  BY <1>1, <1>2, <1>5, <1>6
<1>7. CASE i # 1
  <2>1. 1 < i
    BY <1>1, <1>7
  <2>2. e.n < taken[e.room] + 1
    BY <1>1, <1>5, <2>1 DEF QueueInv
  <2>. QED BY <1>3, <1>4, <2>2
<1>. QED BY <1>2, <1>6, <1>7

\* An event that enters the Broadcast channel keeps it complete and in order.
LEMMA QueueEnqueue ==
  ASSUME TypeOK, QueueInv, NEW p \in Producers, Enqueue(p)
  PROVE  QueueInv'
<1> DEFINE r0 == prod[p]
           e == [room |-> r0, n |-> posted[r0] + 1]
<1>1. /\ queue' = Append(queue, e)
      /\ posted' = [posted EXCEPT ![r0] = @ + 1]
      /\ taken' = taken
  BY DEF Enqueue, Accept, NewEvent, hubVars
<1>2. /\ r0 \in Rooms
      /\ posted \in [Rooms -> Nat] /\ taken \in [Rooms -> Nat]
      /\ queue \in Seq(Event) /\ Len(queue) \in Nat
  BY DEF Enqueue, Accept, TypeOK
<1>3. /\ DOMAIN queue = 1 .. Len(queue) /\ DOMAIN queue' = 1 .. Len(queue) + 1
      /\ \A i \in DOMAIN queue : queue'[i] = queue[i] /\ queue[i] \in Event
      /\ queue'[Len(queue) + 1] = e
  BY <1>1, <1>2
<1>4. (\A r \in Rooms : taken[r] <= posted[r])'
  BY <1>1, <1>2 DEF QueueInv
<1>5. (\A r \in Rooms : \A n \in taken[r] + 1 .. posted[r] :
         \E i \in DOMAIN queue : queue[i] = [room |-> r, n |-> n])'
  <2> SUFFICES ASSUME NEW r \in Rooms, NEW n \in taken[r] + 1 .. posted'[r]
               PROVE  \E i \in DOMAIN queue' : queue'[i] = [room |-> r, n |-> n]
    BY <1>1
  <2>1. CASE n \in taken[r] + 1 .. posted[r]
    <3>1. PICK i \in DOMAIN queue : queue[i] = [room |-> r, n |-> n]
      BY <2>1 DEF QueueInv
    <3>. QED BY <1>2, <1>3, <3>1
  <2>2. CASE n \notin taken[r] + 1 .. posted[r]
    <3>1. r = r0 /\ n = posted[r0] + 1
      BY <1>1, <1>2, <2>2
    <3>2. Len(queue) + 1 \in DOMAIN queue' /\ queue'[Len(queue) + 1] = [room |-> r, n |-> n]
      BY <1>2, <1>3, <3>1
    <3>. QED BY <3>2
  <2>. QED BY <2>1, <2>2
<1>6. (\A i \in DOMAIN queue : /\ taken[queue[i].room] < queue[i].n
                             /\ queue[i].n <= posted[queue[i].room])'
  <2> SUFFICES ASSUME NEW i \in DOMAIN queue'
               PROVE  /\ taken[queue'[i].room] < queue'[i].n
                      /\ queue'[i].n <= posted'[queue'[i].room]
    BY <1>1
  <2>1. CASE i \in DOMAIN queue
    BY <1>1, <1>2, <1>3, <2>1 DEF QueueInv, Event
  <2>2. CASE i = Len(queue) + 1
    BY <1>1, <1>2, <1>3, <2>2 DEF QueueInv
  <2>. QED BY <1>2, <1>3, <2>1, <2>2
<1>7. (\A i, j \in DOMAIN queue :
         i < j /\ queue[i].room = queue[j].room => queue[i].n < queue[j].n)'
  <2> SUFFICES ASSUME NEW i \in DOMAIN queue', NEW j \in DOMAIN queue',
                      i < j, queue'[i].room = queue'[j].room
               PROVE  queue'[i].n < queue'[j].n
    OBVIOUS
  <2>1. CASE j \in DOMAIN queue
    <3>1. i \in DOMAIN queue
      BY <1>2, <1>3, <2>1
    <3>. QED BY <1>3, <2>1, <3>1 DEF QueueInv
  <2>2. CASE j = Len(queue) + 1
    <3>1. i \in DOMAIN queue
      BY <1>2, <1>3, <2>2
    <3>2. queue[i].n <= posted[queue[i].room] /\ queue[i].room = r0
      BY <1>3, <2>2, <3>1 DEF QueueInv
    <3>. QED BY <1>2, <1>3, <2>2, <3>1, <3>2 DEF Event
  <2>. QED BY <1>2, <1>3, <2>1, <2>2
<1>. QED BY <1>4, <1>5, <1>6, <1>7 DEF QueueInv

\* An event that leaves the Broadcast channel keeps it complete and in order.
LEMMA QueueTake ==
  ASSUME TypeOK, QueueInv, HubBroadcast
  PROVE  QueueInv'
<1> DEFINE e == Head(queue)
<1>1. /\ queue' = Tail(queue) /\ queue # <<>>
      /\ taken' = [taken EXCEPT ![e.room] = e.n]
      /\ posted' = posted
  BY DEF HubBroadcast
<1>2. /\ posted \in [Rooms -> Nat] /\ taken \in [Rooms -> Nat]
      /\ queue \in Seq(Event) /\ Len(queue) \in Nat \ {0}
      /\ e \in Event /\ e.room \in Rooms /\ e.n = taken[e.room] + 1 /\ e = queue[1]
  <2>1. posted \in [Rooms -> Nat] /\ taken \in [Rooms -> Nat] /\ queue \in Seq(Event)
    BY DEF TypeOK
  <2>2. Len(queue) \in Nat \ {0} /\ e = queue[1]
    BY <1>1, <2>1
  <2>3. e \in Event /\ e.n = taken[e.room] + 1
    BY <1>1, HeadIsNext
  <2>4. e.room \in Rooms
    BY <2>3 DEF Event
  <2>. QED BY <2>1, <2>2, <2>3, <2>4
<1>3. /\ DOMAIN queue = 1 .. Len(queue) /\ DOMAIN queue' = 1 .. Len(queue) - 1
      /\ \A i \in DOMAIN queue' : queue'[i] = queue[i + 1] /\ i + 1 \in DOMAIN queue
      /\ \A i \in DOMAIN queue : queue[i].room \in Rooms /\ queue[i].n \in Nat
  <2>1. DOMAIN queue = 1 .. Len(queue) /\ \A i \in DOMAIN queue : queue[i] \in Event
    BY <1>2
  <2>2. Len(queue') = Len(queue) - 1 /\ queue' \in Seq(Event)
    BY <1>1, <1>2
  <2>3. DOMAIN queue' = 1 .. Len(queue) - 1
    BY <1>2, <2>2
  <2>4. \A i \in DOMAIN queue' : queue'[i] = queue[i + 1]
    BY <1>1, <1>2, <2>3
  <2>5. \A i \in DOMAIN queue' : i + 1 \in DOMAIN queue
    BY <1>2, <2>1, <2>3
  <2>6. \A i \in DOMAIN queue : queue[i].room \in Rooms /\ queue[i].n \in Nat
    BY <2>1 DEF Event
  <2>. QED BY <2>1, <2>3, <2>4, <2>5, <2>6
<1>4. (\A r \in Rooms : taken[r] <= posted[r])'
  <2>1. e.n <= posted[e.room]
    BY <1>2, <1>3 DEF QueueInv
  <2>. QED BY <1>1, <1>2, <2>1 DEF QueueInv
<1>5. (\A r \in Rooms : \A n \in taken[r] + 1 .. posted[r] :
         \E i \in DOMAIN queue : queue[i] = [room |-> r, n |-> n])'
  <2> SUFFICES ASSUME NEW r \in Rooms, NEW n \in taken'[r] + 1 .. posted[r]
               PROVE  \E i \in DOMAIN queue' : queue'[i] = [room |-> r, n |-> n]
    BY <1>1
  <2>1. n \in taken[r] + 1 .. posted[r] /\ ~(r = e.room /\ n = e.n)
    BY <1>1, <1>2
  <2>2. PICK i \in DOMAIN queue : queue[i] = [room |-> r, n |-> n]
    BY <2>1 DEF QueueInv
  <2>3. i # 1
    BY <1>2, <2>1, <2>2
  <2>4. i - 1 \in DOMAIN queue' /\ queue'[i - 1] = queue[i]
    BY <1>2, <1>3, <2>3
  <2>. QED BY <2>2, <2>4
<1>6. (\A i \in DOMAIN queue : /\ taken[queue[i].room] < queue[i].n
                             /\ queue[i].n <= posted[queue[i].room])'
  <2> SUFFICES ASSUME NEW i \in DOMAIN queue'
               PROVE  /\ taken'[queue'[i].room] < queue'[i].n
                      /\ queue'[i].n <= posted[queue'[i].room]
    BY <1>1
  <2> DEFINE j == i + 1
  <2>1. j \in DOMAIN queue /\ queue'[i] = queue[j] /\ 1 \in DOMAIN queue /\ 1 < j
    BY <1>2, <1>3
  <2>2. queue[j].room = e.room => e.n < queue[j].n
    BY <1>2, <2>1 DEF QueueInv
  <2>3. taken[queue[j].room] < queue[j].n /\ queue[j].n <= posted[queue[j].room]
    BY <2>1 DEF QueueInv
  <2>. QED BY <1>1, <1>2, <1>3, <2>1, <2>2, <2>3
<1>7. (\A i, j \in DOMAIN queue :
         i < j /\ queue[i].room = queue[j].room => queue[i].n < queue[j].n)'
  <2> SUFFICES ASSUME NEW i \in DOMAIN queue', NEW j \in DOMAIN queue',
                      i < j, queue'[i].room = queue'[j].room
               PROVE  queue'[i].n < queue'[j].n
    OBVIOUS
  <2>1. i + 1 < j + 1 /\ i + 1 \in DOMAIN queue /\ j + 1 \in DOMAIN queue
    BY <1>2, <1>3
  <2>. QED BY <1>3, <2>1 DEF QueueInv
<1>. QED BY <1>4, <1>5, <1>6, <1>7 DEF QueueInv
-----------------------------------------------------------------------------
(* The steps that matter to the feed.                                      *)

\* The variables that FeedInv and the refinement mapping speak of.
quietVars == <<phase, members, fanout, queue, posted, taken, last, send>>

\* A step that changes c.send only, without a new event in it.
Drains(c) == \/ send[c] # <<>> /\ send' = [send EXCEPT ![c] = Tail(@)]
             \/ Len(send[c]) < SendCap /\ send' = [send EXCEPT ![c] = Append(@, Reply)]

\* Every step is one that the feed sees, moves a message that is no new event,
\* or changes none of these variables.
LEMMA StepKinds ==
  ASSUME [Next]_vars
  PROVE  \/ \E p \in Producers : Enqueue(p)
         \/ \E c \in Clients :
              \/ HubUnregister(c) \/ HubSubscribe(c) \/ HubUnsubscribe(c)
              \/ FanOutSend(c) \/ FanOutDrop(c)
              \/ Drains(c) /\ UNCHANGED <<phase, members, fanout, queue, posted, taken, last>>
         \/ HubBroadcast \/ FanOutEnd \/ HubShutdown \/ ShutdownEnd
         \/ UNCHANGED quietVars
<1> USE DEF hubVars, mainVars, peerVars, readVars, histVars, feedVars, quietVars
<1>1. ASSUME NEW p \in Producers, Producer(p), ~Enqueue(p) PROVE UNCHANGED quietVars
  BY <1>1 DEF Producer, Call, CallStopped
<1>2. ASSUME NEW c \in Clients,
             HubRegister(c) \/ FanOutPanic(c) \/ ShutdownClose(c)
      PROVE  UNCHANGED quietVars
  BY <1>2 DEF HubRegister, FanOutPanic, ShutdownClose
<1>3. ASSUME NEW c \in Clients, Push(c)
      PROVE  \/ Drains(c) /\ UNCHANGED <<phase, members, fanout, queue, posted, taken, last>>
             \/ UNCHANGED quietVars
  <2>1. CASE Len(send[c]) < SendCap
    BY <1>3, <2>1 DEF Push, Drains
  <2>2. CASE ~(Len(send[c]) < SendCap)
    BY <1>3, <2>2 DEF Push
  <2>. QED BY <2>1, <2>2
<1>4. ASSUME NEW c \in Clients, Reader(c), ~Push(c) PROVE UNCHANGED quietVars
  BY <1>4 DEF Reader, Connect, RegisterStopped, ReadFrame, RequestStopped, CheckStop,
       PushPanic, ReadFail, UnregisterStopped, ReaderClose
<1>5. ASSUME NEW c \in Clients, Writer(c) \/ Break(c)
      PROVE  \/ Drains(c) /\ UNCHANGED <<phase, members, fanout, queue, posted, taken, last>>
             \/ UNCHANGED quietVars
  BY <1>5 DEF Writer, Write, WriteFail, WriteClosed, WriterEnds, Break, Drains
<1>6. CASE Main
  BY <1>6 DEF Main, AppCancel, Stop, Exit, MainStep
<1>7. CASE UNCHANGED vars
  BY <1>7 DEF vars
<1>. QED BY <1>1, <1>2, <1>3, <1>4, <1>5, <1>6, <1>7 DEF Next, Run, Ended

\* The events in the channels are only ever taken up in order.
LEMMA QueueNext ==
  ASSUME TypeOK, QueueInv, [Next]_vars
  PROVE  QueueInv'
<1>1. CASE UNCHANGED <<queue, posted, taken>>
  BY <1>1 DEF QueueInv
<1>2. \/ \E p \in Producers : Enqueue(p)
      \/ HubBroadcast
      \/ UNCHANGED <<queue, posted, taken>>
  BY StepKinds DEF quietVars, HubUnregister, HubSubscribe, HubUnsubscribe, FanOutSend, Give,
       FanOutDrop, FanOutEnd, HubShutdown, ShutdownEnd, feedVars
<1>. QED BY <1>1, <1>2, QueueEnqueue, QueueTake
\* A client about to be served is in the room and was given every event but
\* this one.
LEMMA ServedIsNext ==
  ASSUME TypeOK, OrderInv, FeedInv, NEW c \in Clients, Serving(c)
  PROVE  /\ fanout \in [room : Rooms, n : Nat \ {0}, todo : SUBSET Clients]
         /\ c \in members[fanout.room]
         /\ taken[fanout.room] = fanout.n
         /\ last[c][fanout.room] = fanout.n - 1
<1>1. phase = "fanout" /\ c \in fanout.todo
  BY DEF Serving
<1>2. fanout \in [room : Rooms, n : Nat \ {0}, todo : SUBSET Clients]
  BY <1>1 DEF TypeOK
<1>3. c \in members[fanout.room]
  BY <1>1 DEF OrderInv
<1>4. taken[fanout.room] = fanout.n
  BY <1>1 DEF FeedInv
<1>5. last[c][fanout.room] = taken[fanout.room] - 1
  BY <1>1, <1>2, <1>3 DEF FeedInv, MemberIsCurrent, Looping
<1>. QED BY <1>2, <1>3, <1>4, <1>5

LEMMA CurrentNext ==
  ASSUME TypeOK, TypeOK', OrderInv, FeedInv, [Next]_vars
  PROVE  /\ MemberIsCurrent'
         /\ (phase = "fanout" => fanout.n = taken[fanout.room])'
<1> DEFINE FanOutIsTaken == phase = "fanout" => fanout.n = taken[fanout.room]
<1> USE NoneAssumption DEF Looping
<1>0. MemberIsCurrent /\ FanOutIsTaken
  BY DEF FeedInv
<1>t. /\ members \in [Rooms -> SUBSET Clients]
      /\ last \in [Clients -> [Rooms -> Nat]]
      /\ taken \in [Rooms -> Nat]
      /\ phase # "fanout" => \A r \in Rooms : fanout.room # r
  BY DEF TypeOK, NoEvent
<1>u. members' \in [Rooms -> SUBSET Clients]
  BY DEF TypeOK
<1>1. CASE UNCHANGED <<phase, members, fanout, taken, last>>
  BY <1>0, <1>1 DEF MemberIsCurrent
<1>2. ASSUME NEW c \in Clients, HubUnregister(c) PROVE MemberIsCurrent' /\ FanOutIsTaken'
  <2>1. subs[c] \in SUBSET Rooms
    BY DEF TypeOK
  <2>2. \A d \in Clients, r \in Rooms :
          d \in members'[r] => d \in members[r] /\ last'[d][r] = last[d][r]
    BY <1>2, <2>1, RemoveEffect DEF HubUnregister
  <2>3. UNCHANGED <<phase, fanout, taken>>
    BY <1>2 DEF HubUnregister, feedVars
  <2>. QED BY <1>0, <1>u, <2>2, <2>3 DEF MemberIsCurrent
<1>3. ASSUME NEW c \in Clients, HubUnsubscribe(c) PROVE MemberIsCurrent' /\ FanOutIsTaken'
  <2>1. {frame[c].room} \in SUBSET Rooms
    BY <1>3 DEF TypeOK, HubUnsubscribe, Frame
  <2>2. \A d \in Clients, r \in Rooms :
          d \in members'[r] => d \in members[r] /\ last'[d][r] = last[d][r]
    BY <1>3, <2>1, RemoveEffect DEF HubUnsubscribe
  <2>3. UNCHANGED <<phase, fanout, taken>>
    BY <1>3 DEF HubUnsubscribe, feedVars
  <2>. QED BY <1>0, <1>u, <2>2, <2>3 DEF MemberIsCurrent
<1>4. ASSUME NEW c \in Clients, HubSubscribe(c) PROVE MemberIsCurrent' /\ FanOutIsTaken'
  <2>1. frame[c].room \in Rooms
    BY <1>4 DEF TypeOK, HubSubscribe, Frame
  <2>2. \A d \in Clients, r \in Rooms :
          d \in members'[r] => \/ d \in members[r] /\ last'[d][r] = last[d][r]
                             \/ last'[d][r] = taken[r]
    <3>1. /\ members' = [members EXCEPT ![frame[c].room] = @ \cup {c}]
          /\ last' = [last EXCEPT ![c][frame[c].room] = taken[frame[c].room]]
      BY <1>4 DEF HubSubscribe
    <3>. QED BY <1>t, <2>1, <3>1
  <2>3. UNCHANGED <<phase, fanout, taken>> /\ phase = "select"
    BY <1>4 DEF HubSubscribe, feedVars, Case
  <2>. QED BY <1>0, <1>t, <1>u, <2>2, <2>3 DEF MemberIsCurrent
<1>5. ASSUME NEW c \in Clients, FanOutSend(c) PROVE MemberIsCurrent' /\ FanOutIsTaken'
  <2>1. Serving(c) /\ Give(c)
    BY <1>5 DEF FanOutSend
  <2>2. /\ fanout \in [room : Rooms, n : Nat \ {0}, todo : SUBSET Clients]
        /\ taken[fanout.room] = fanout.n
    BY <2>1, ServedIsNext
  <2>3. /\ last' = [last EXCEPT ![c][fanout.room] = fanout.n]
        /\ fanout' = [fanout EXCEPT !.todo = @ \ {c}]
        /\ UNCHANGED <<phase, members, taken>>
    BY <2>1 DEF Give, feedVars
  <2>4. FanOutIsTaken'
    BY <1>0, <2>2, <2>3
  <2>5. \A d \in Clients, r \in Rooms :
          last'[d][r] = IF d = c /\ r = fanout.room THEN taken[r] ELSE last[d][r]
    BY <1>t, <2>2, <2>3
  <2>6. fanout'.room = fanout.room /\ fanout'.todo = fanout.todo \ {c}
    BY <2>2, <2>3
  <2>. QED BY <1>0, <1>u, <2>3, <2>4, <2>5, <2>6 DEF MemberIsCurrent
<1>6. ASSUME NEW c \in Clients, FanOutDrop(c) PROVE MemberIsCurrent' /\ FanOutIsTaken'
  <2>1. Serving(c) /\ RemoveFromRooms(c, {fanout.room})
    BY <1>6 DEF FanOutDrop, Overflowing
  <2>2. fanout \in [room : Rooms, n : Nat \ {0}, todo : SUBSET Clients]
    BY <2>1, ServedIsNext
  <2>3. /\ fanout' = [fanout EXCEPT !.todo = @ \ {c}]
        /\ UNCHANGED <<phase, taken>>
    BY <1>6 DEF FanOutDrop, feedVars
  <2>4. \A d \in Clients, r \in Rooms :
          d \in members'[r] => /\ d \in members[r] /\ last'[d][r] = last[d][r]
                             /\ ~(d = c /\ r = fanout.room)
    BY <2>1, <2>2, RemoveEffect
  <2>5. fanout'.room = fanout.room /\ fanout'.n = fanout.n /\ fanout'.todo = fanout.todo \ {c}
    BY <2>2, <2>3
  <2>. QED BY <1>0, <1>u, <2>3, <2>4, <2>5 DEF MemberIsCurrent
<1>7. CASE HubBroadcast
  <2> DEFINE e == Head(queue)
  <2>1. e \in Event /\ e.n = taken[e.room] + 1
    BY <1>7, HeadIsNext DEF FeedInv, HubBroadcast
  <2>2. /\ phase = "select" /\ phase' = "fanout"
        /\ taken' = [taken EXCEPT ![e.room] = e.n]
        /\ fanout' = [room |-> e.room, n |-> e.n, todo |-> members[e.room]]
        /\ UNCHANGED <<members, last>>
    BY <1>7 DEF HubBroadcast, histVars
  <2>3. e.room \in Rooms /\ e.n \in Nat
    BY <2>1 DEF Event
  <2>. QED BY <1>0, <1>t, <2>1, <2>2, <2>3 DEF MemberIsCurrent
<1>8. CASE FanOutEnd
  <2>1. /\ phase = "fanout" /\ phase' = "select" /\ fanout.todo = {} /\ fanout' = NoEvent
        /\ UNCHANGED <<members, taken, last>>
    BY <1>8 DEF FanOutEnd, feedVars, histVars
  <2>. QED BY <1>0, <2>1 DEF MemberIsCurrent, NoEvent
<1>9. CASE HubShutdown \/ ShutdownEnd
  BY <1>9 DEF HubShutdown, ShutdownEnd, MemberIsCurrent
<1>. QED BY <1>1, <1>2, <1>3, <1>4, <1>5, <1>6, <1>7, <1>8, <1>9, StepKinds
         DEF Enqueue, Accept, hubVars, histVars, quietVars
\* What a sequence contains after an Append and after a Tail.
LEMMA AppendContents ==
  ASSUME NEW S, NEW s \in Seq(S), NEW e, NEW t, t = Append(s, e)
  PROVE  /\ DOMAIN s = 1 .. Len(s) /\ Len(s) \in Nat
         /\ DOMAIN t = 1 .. Len(s) + 1
         /\ \A i \in DOMAIN s : t[i] = s[i]
         /\ t[Len(s) + 1] = e
OBVIOUS

LEMMA TailContents ==
  ASSUME NEW S, NEW s \in Seq(S), s # <<>>, NEW t, t = Tail(s)
  PROVE  /\ DOMAIN s \subseteq Nat /\ DOMAIN t \subseteq Nat
         /\ \A i \in DOMAIN t : i + 1 \in DOMAIN s /\ t[i] = s[i + 1]
<1>1. Len(s) \in Nat \ {0} /\ DOMAIN s = 1 .. Len(s)
  OBVIOUS
<1>2. Len(t) = Len(s) - 1 /\ DOMAIN t = 1 .. Len(s) - 1
  BY <1>1
<1>3. \A i \in DOMAIN t : t[i] = s[i + 1]
  BY <1>1, <1>2
<1>. QED BY <1>1, <1>2, <1>3

\* The events of each client's channel are in order: the first half of
\* EventsInOrder.
InOrder(s) == \A i, j \in DOMAIN s :
                i < j /\ s[i].room # None /\ s[i].room = s[j].room => s[i].n < s[j].n

LEMMA SentNext ==
  ASSUME TypeOK, TypeOK', OrderInv, FeedInv, [Next]_vars
  PROVE  SentInv' /\ (\A c \in Clients : InOrder(send[c]))'
<1> USE NoneAssumption DEF Looping
<1>0. SentInv /\ \A c \in Clients : InOrder(send[c])
  BY DEF FeedInv, EventsInOrder, InOrder
<1>t. /\ members \in [Rooms -> SUBSET Clients]
      /\ last \in [Clients -> [Rooms -> Nat]]
      /\ taken \in [Rooms -> Nat]
  BY DEF TypeOK
<1>1. ASSUME UNCHANGED send,
             \A r \in Rooms : taken'[r] \in Nat /\ taken[r] <= taken'[r],
             \A d \in Clients, r \in Rooms :
               Looping' /\ d \in members'[r] =>
                 \/ Looping /\ d \in members[r] /\ last'[d][r] = last[d][r]
                 \/ last'[d][r] = taken[r]
      PROVE  SentInv' /\ (\A c \in Clients : InOrder(send[c]))'
  <2>1. \A d \in Clients : \A i \in DOMAIN send[d] : \A r \in Rooms :
          send[d][i].room = r => send[d][i].n \in Nat
    BY DEF TypeOK, Event, Reply
  <2>. QED BY <1>0, <1>t, <1>1, <2>1 DEF SentInv, InOrder
<1>2. ASSUME NEW c \in Clients, HubUnregister(c)
      PROVE  SentInv' /\ (\A d \in Clients : InOrder(send[d]))'
  <2>1. subs[c] \in SUBSET Rooms
    BY DEF TypeOK
  <2>2. \A d \in Clients, r \in Rooms :
          d \in members'[r] => d \in members[r] /\ last'[d][r] = last[d][r]
    BY <1>2, <2>1, RemoveEffect DEF HubUnregister
  <2>3. UNCHANGED <<phase, taken, send>>
    BY <1>2 DEF HubUnregister, feedVars
  <2>. QED BY <1>1, <1>t, <2>2, <2>3
<1>3. ASSUME NEW c \in Clients, HubUnsubscribe(c)
      PROVE  SentInv' /\ (\A d \in Clients : InOrder(send[d]))'
  <2>1. {frame[c].room} \in SUBSET Rooms
    BY <1>3 DEF TypeOK, HubUnsubscribe, Frame
  <2>2. \A d \in Clients, r \in Rooms :
          d \in members'[r] => d \in members[r] /\ last'[d][r] = last[d][r]
    BY <1>3, <2>1, RemoveEffect DEF HubUnsubscribe
  <2>3. UNCHANGED <<phase, taken, send>>
    BY <1>3 DEF HubUnsubscribe, feedVars
  <2>. QED BY <1>1, <1>t, <2>2, <2>3
<1>4. ASSUME NEW c \in Clients, HubSubscribe(c)
      PROVE  SentInv' /\ (\A d \in Clients : InOrder(send[d]))'
  <2>1. frame[c].room \in Rooms
    BY <1>4 DEF TypeOK, HubSubscribe, Frame
  <2>2. \A d \in Clients, r \in Rooms :
          d \in members'[r] => \/ d \in members[r] /\ last'[d][r] = last[d][r]
                             \/ last'[d][r] = taken[r]
    <3>1. /\ members' = [members EXCEPT ![frame[c].room] = @ \cup {c}]
          /\ last' = [last EXCEPT ![c][frame[c].room] = taken[frame[c].room]]
      BY <1>4 DEF HubSubscribe
    <3>. QED BY <1>t, <2>1, <3>1
  <2>3. UNCHANGED <<phase, taken, send>>
    BY <1>4 DEF HubSubscribe, feedVars
  <2>. QED BY <1>1, <1>t, <2>2, <2>3
<1>5. ASSUME NEW c \in Clients, FanOutSend(c)
      PROVE  SentInv' /\ (\A d \in Clients : InOrder(send[d]))'
  <2> DEFINE e == [room |-> fanout.room, n |-> fanout.n]
  <2>1. Serving(c) /\ Give(c)
    BY <1>5 DEF FanOutSend
  <2>2. /\ fanout.room \in Rooms /\ fanout.n \in Nat
        /\ taken[fanout.room] = fanout.n
        /\ c \in members[fanout.room]
        /\ last[c][fanout.room] = fanout.n - 1
        /\ phase = "fanout"
    BY <2>1, ServedIsNext DEF Serving
  <2>3. /\ last' = [last EXCEPT ![c][fanout.room] = fanout.n]
        /\ send' = [send EXCEPT ![c] = Append(@, e)]
        /\ UNCHANGED <<phase, members, taken>>
    BY <2>1 DEF Give, feedVars
  <2>4. /\ \A d \in Clients \ {c} : send'[d] = send[d]
        /\ DOMAIN send[c] = 1 .. Len(send[c]) /\ Len(send[c]) \in Nat
        /\ DOMAIN send'[c] = 1 .. Len(send[c]) + 1
        /\ \A i \in DOMAIN send[c] : send'[c][i] = send[c][i]
        /\ send'[c][Len(send[c]) + 1] = e
    <3>1. send[c] \in Seq(Event \cup {Reply}) /\ send'[c] = Append(send[c], e)
          /\ \A d \in Clients \ {c} : send'[d] = send[d]
      BY <2>3 DEF TypeOK
    <3>. QED BY <3>1, AppendContents
  <2>5. \A i \in DOMAIN send[c] : send[c][i].room = fanout.room =>
          send[c][i].n \in Nat /\ send[c][i].n <= fanout.n - 1
    <3>1. \A i \in DOMAIN send[c] : send[c][i].room = fanout.room => send[c][i].n \in Nat
      BY <2>2 DEF TypeOK, Event, Reply
    <3>. QED BY <1>0, <2>2, <3>1 DEF SentInv
  <2>6. \A d \in Clients, r \in Rooms :
          last'[d][r] = IF d = c /\ r = fanout.room THEN fanout.n ELSE last[d][r]
    BY <1>t, <2>2, <2>3
  <2>7. SentInv'
    <3> SUFFICES ASSUME NEW d \in Clients, NEW i \in DOMAIN send'[d], NEW r \in Rooms,
                        send'[d][i].room = r
                 PROVE  /\ send'[d][i].n <= taken[r]
                        /\ Looping /\ d \in members[r] => send'[d][i].n <= last'[d][r]
      BY <2>3 DEF SentInv
    <3>1. CASE d # c
      BY <1>0, <2>3, <2>4, <2>6, <3>1 DEF SentInv
    <3>2. CASE d = c /\ i \in DOMAIN send[c]
      BY <1>0, <2>2, <2>4, <2>5, <2>6, <3>2 DEF SentInv
    <3>3. CASE d = c /\ i = Len(send[c]) + 1
      BY <2>2, <2>4, <2>6, <3>3
    <3>. QED BY <2>4, <3>1, <3>2, <3>3
  <2>8. InOrder(send[c])'
    <3> SUFFICES ASSUME NEW i \in DOMAIN send'[c], NEW j \in DOMAIN send'[c],
                        i < j, send'[c][i].room # None, send'[c][i].room = send'[c][j].room
                 PROVE  send'[c][i].n < send'[c][j].n
      BY DEF InOrder
    <3>0. i \in DOMAIN send[c]
      BY <2>4
    <3>1. CASE j \in DOMAIN send[c]
      BY <1>0, <2>4, <3>0, <3>1 DEF InOrder
    <3>2. CASE j = Len(send[c]) + 1
      BY <2>2, <2>4, <2>5, <3>0, <3>2
    <3>. QED BY <2>4, <3>1, <3>2
  <2>. QED BY <1>0, <2>4, <2>7, <2>8 DEF InOrder
<1>6. ASSUME NEW c \in Clients, FanOutDrop(c)
      PROVE  SentInv' /\ (\A d \in Clients : InOrder(send[d]))'
  <2>1. Serving(c) /\ RemoveFromRooms(c, {fanout.room})
    BY <1>6 DEF FanOutDrop, Overflowing
  <2>2. {fanout.room} \in SUBSET Rooms
    BY <2>1, ServedIsNext
  <2>3. \A d \in Clients, r \in Rooms :
          d \in members'[r] => d \in members[r] /\ last'[d][r] = last[d][r]
    BY <2>1, <2>2, RemoveEffect
  <2>4. UNCHANGED <<phase, taken, send>>
    BY <1>6 DEF FanOutDrop, feedVars
  <2>. QED BY <1>1, <1>t, <2>3, <2>4
<1>7. CASE HubBroadcast
  <2> DEFINE e == Head(queue)
  <2>1. e \in Event /\ e.n = taken[e.room] + 1
    BY <1>7, HeadIsNext DEF FeedInv, HubBroadcast
  <2>2. /\ phase = "select" /\ taken' = [taken EXCEPT ![e.room] = e.n]
        /\ UNCHANGED <<members, last, send>>
    BY <1>7 DEF HubBroadcast, histVars
  <2>3. e.room \in Rooms /\ e.n \in Nat
    BY <2>1 DEF Event
  <2>4. \A r \in Rooms : taken'[r] \in Nat /\ taken[r] <= taken'[r]
    BY <1>t, <2>1, <2>2, <2>3
  <2>. QED BY <1>1, <2>2, <2>4
<1>8. CASE FanOutEnd \/ HubShutdown \/ ShutdownEnd
  <2>1. /\ UNCHANGED <<taken, send, last>>
        /\ Looping' => Looping /\ UNCHANGED members
    BY <1>8 DEF FanOutEnd, HubShutdown, ShutdownEnd, feedVars, histVars
  <2>. QED BY <1>1, <1>t, <2>1
<1>9. ASSUME NEW c \in Clients, Drains(c), UNCHANGED <<phase, members, taken, last>>
      PROVE  SentInv' /\ (\A d \in Clients : InOrder(send[d]))'
  <2>1. CASE send[c] # <<>> /\ send' = [send EXCEPT ![c] = Tail(@)]
    <3>1. /\ \A d \in Clients \ {c} : send'[d] = send[d]
          /\ DOMAIN send[c] \subseteq Nat /\ DOMAIN send'[c] \subseteq Nat
          /\ \A i \in DOMAIN send'[c] : i + 1 \in DOMAIN send[c] /\ send'[c][i] = send[c][i + 1]
      <4>1. send[c] \in Seq(Event \cup {Reply}) /\ send'[c] = Tail(send[c])
            /\ \A d \in Clients \ {c} : send'[d] = send[d]
        BY <2>1 DEF TypeOK
      <4>2. send[c] # <<>>
        BY <2>1
      <4>3. /\ DOMAIN send[c] \subseteq Nat /\ DOMAIN send'[c] \subseteq Nat
            /\ \A i \in DOMAIN send'[c] : i + 1 \in DOMAIN send[c] /\ send'[c][i] = send[c][i + 1]
        BY <4>1, <4>2, TailContents
      <4>. QED BY <4>1, <4>3
    <3>2. InOrder(send[c])'
      <4> SUFFICES ASSUME NEW i \in DOMAIN send'[c], NEW j \in DOMAIN send'[c],
                          i < j, send'[c][i].room # None, send'[c][i].room = send'[c][j].room
                   PROVE  send'[c][i].n < send'[c][j].n
        BY DEF InOrder
      <4>1. i + 1 < j + 1
        BY <3>1
      <4>. QED BY <1>0, <3>1, <4>1 DEF InOrder
    <3>3. SentInv'
      BY <1>0, <1>9, <3>1 DEF SentInv
    <3>. QED BY <1>0, <3>1, <3>2, <3>3 DEF InOrder
  <2>2. CASE send' = [send EXCEPT ![c] = Append(@, Reply)]
    <3>1. /\ \A d \in Clients \ {c} : send'[d] = send[d]
          /\ DOMAIN send[c] = 1 .. Len(send[c]) /\ Len(send[c]) \in Nat
          /\ DOMAIN send'[c] = 1 .. Len(send[c]) + 1
          /\ \A i \in DOMAIN send[c] : send'[c][i] = send[c][i]
          /\ send'[c][Len(send[c]) + 1].room = None
      <4>1. send[c] \in Seq(Event \cup {Reply}) /\ send'[c] = Append(send[c], Reply)
            /\ \A d \in Clients \ {c} : send'[d] = send[d]
        BY <2>2 DEF TypeOK
      <4>. QED BY <4>1, AppendContents DEF Reply
    <3>2. \A i \in DOMAIN send'[c] :
            i \in DOMAIN send[c] \/ send'[c][i].room = None
      BY <3>1
    <3>3. InOrder(send[c])'
      BY <1>0, <3>1, <3>2 DEF InOrder
    <3>4. SentInv'
      BY <1>0, <1>9, <3>1, <3>2 DEF SentInv
    <3>. QED BY <1>0, <3>1, <3>3, <3>4 DEF InOrder
  <2>. QED BY <1>9, <2>1, <2>2 DEF Drains
<1>10. CASE UNCHANGED <<phase, members, taken, last, send>>
  BY <1>0, <1>10 DEF SentInv, InOrder
<1>. QED BY <1>2, <1>3, <1>4, <1>5, <1>6, <1>7, <1>8, <1>9, <1>10, StepKinds
         DEF Enqueue, Accept, hubVars, histVars, quietVars
LEMMA FeedInit == Init => FeedInv
BY NoneAssumption
   DEF Init, FeedInv, QueueInv, SentInv, MemberIsCurrent, EventsInOrder, Looping, NoEvent

LEMMA FeedNext ==
  ASSUME TypeOK, TypeOK', OrderInv, FeedInv, [Next]_vars
  PROVE  FeedInv'
<1>1. QueueInv'
  BY QueueNext DEF FeedInv
<1>2. SentInv' /\ (\A c \in Clients : InOrder(send[c]))'
  BY SentNext
<1>3. MemberIsCurrent' /\ (phase = "fanout" => fanout.n = taken[fanout.room])'
  BY CurrentNext
<1>4. EventsInOrder'
  <2> SUFFICES ASSUME NEW c \in Clients, NEW i \in DOMAIN send'[c],
                      NEW j \in DOMAIN queue', send'[c][i].room = queue'[j].room
               PROVE  send'[c][i].n < queue'[j].n
    BY <1>2 DEF EventsInOrder, InOrder
  <2>1. queue'[j] \in Event
    BY DEF TypeOK
  <2>2. queue'[j].room \in Rooms /\ queue'[j].n \in Nat /\ taken'[queue'[j].room] \in Nat
    BY <2>1 DEF Event, TypeOK
  <2>3. send'[c] \in Seq(Event \cup {Reply})
    BY DEF TypeOK
  <2>4. send'[c][i] \in Event \cup {Reply}
    BY <2>3
  <2>5. send'[c][i].n \in Nat
    BY <2>4 DEF Event, Reply
  <2>6. send'[c][i].n <= taken'[queue'[j].room]
    BY <1>2, <2>2 DEF SentInv
  <2>7. taken'[queue'[j].room] < queue'[j].n
    BY <1>1 DEF QueueInv
  <2>. QED BY <2>2, <2>5, <2>6, <2>7
<1>. QED BY <1>1, <1>2, <1>3, <1>4 DEF FeedInv

LEMMA FeedAlways == Spec => []FeedInv
<1>1. TypeOK /\ TypeOK' /\ OrderInv /\ FeedInv /\ [Next]_vars => FeedInv'
  BY FeedNext
<1>. QED BY <1>1, FeedInit, TypeCorrect, OrderAlways, PTL DEF Spec

\* A client that stays in a room misses none of its events.
THEOREM MembersMissNothing == Spec => []MemberIsCurrent
<1>1. FeedInv => MemberIsCurrent
  BY DEF FeedInv
<1>. QED BY <1>1, FeedAlways, PTL

\* A client's channel never holds two events of a room out of order, nor one
\* twice, whatever the subscriptions and overflows in between.
THEOREM EventsStayInOrder == Spec => []EventsInOrder
<1>1. FeedInv => EventsInOrder
  BY DEF FeedInv
<1>. QED BY <1>1, FeedAlways, PTL

-----------------------------------------------------------------------------
(* The hub implements a gap-free feed.                                     *)

\* The cursor of the abstract feed.
cursorMap == [c \in Clients |-> [r \in Rooms |-> IF c \in members[r] THEN last[c][r] ELSE -1]]

LEMMA FeedInitMaps == Init => Feed!Init
BY DEF Init, Feed!Init, Feed!Off

\* Clients that leave rooms, and change nothing else, take a Leave step or a
\* stuttering one.
LEMMA LeavingMaps ==
  ASSUME TypeOK, members' \in [Rooms -> SUBSET Clients], UNCHANGED <<posted, taken>>,
         \A c \in Clients, r \in Rooms :
           c \in members'[r] => c \in members[r] /\ last'[c][r] = last[c][r]
  PROVE  [Feed!Next]_(Feed!vars)
<1> DEFINE gone == {x \in Clients \X Rooms : x[1] \in members[x[2]] /\ x[1] \notin members'[x[2]]}
<1>1. \A c \in Clients, r \in Rooms :
        <<c, r>> \in gone <=> c \in members[r] /\ c \notin members'[r]
  OBVIOUS
<1>2. cursorMap' = [c \in Clients |-> [r \in Rooms |->
                      IF <<c, r>> \in gone THEN -1 ELSE cursorMap[c][r]]]
  BY <1>1 DEF cursorMap
<1>3. CASE gone = {}
  <2>1. cursorMap' = cursorMap
    <3>1. \A c \in Clients, r \in Rooms :
            /\ c \in members'[r] <=> c \in members[r]
            /\ c \in members'[r] => last'[c][r] = last[c][r]
      BY <1>1, <1>3
    <3>. QED BY <3>1 DEF cursorMap
  <2>. QED BY <2>1 DEF cursorMap, Feed!vars
<1>4. CASE gone # {}
  <2>1. gone \in SUBSET (Clients \X Rooms)
    OBVIOUS
  <2>2. Feed!Leave
    BY <1>2, <1>4, <2>1 DEF Feed!Leave, Feed!Off, cursorMap
  <2>. QED BY <2>2 DEF Feed!Next
<1>. QED BY <1>3, <1>4
\* Two-dimensional arrays that differ in one place only.
LEMMA OneEntry ==
  ASSUME NEW A, NEW B, NEW f \in [A -> [B -> Int]], NEW g \in [A -> [B -> Int]],
         NEW a \in A, NEW b \in B, NEW v,
         \A x \in A, y \in B : g[x][y] = IF x = a /\ y = b THEN v ELSE f[x][y]
  PROVE  g = [f EXCEPT ![a][b] = v]
<1> DEFINE h == [f EXCEPT ![a][b] = v]
<1>1. ASSUME NEW x \in A PROVE g[x] = h[x]
  <2>1. CASE x # a
    <3>1. \A y \in B : g[x][y] = f[x][y]
      BY <2>1
    <3>. QED BY <2>1, <3>1
  <2>2. CASE x = a
    <3>1. h[a] = [f[a] EXCEPT ![b] = v]
      OBVIOUS
    <3>. QED BY <2>2, <3>1
  <2>. QED BY <2>1, <2>2
<1>2. DOMAIN g = A /\ DOMAIN h = A
  OBVIOUS
<1>. QED BY <1>1, <1>2

LEMMA StepMaps ==
  ASSUME TypeOK, TypeOK', OrderInv, FeedInv, [Next]_vars
  PROVE  [Feed!Next]_(Feed!vars)
<1> USE NoneAssumption
<1>t. /\ members \in [Rooms -> SUBSET Clients] /\ members' \in [Rooms -> SUBSET Clients]
      /\ last \in [Clients -> [Rooms -> Nat]] /\ last' \in [Clients -> [Rooms -> Nat]]
      /\ taken \in [Rooms -> Nat] /\ posted \in [Rooms -> Nat]
  BY DEF TypeOK
<1>m. /\ cursorMap \in [Clients -> [Rooms -> Int]] /\ cursorMap' \in [Clients -> [Rooms -> Int]]
      /\ \A c \in Clients, r \in Rooms :
           /\ cursorMap[c][r] = IF c \in members[r] THEN last[c][r] ELSE -1
           /\ cursorMap'[c][r] = IF c \in members'[r] THEN last'[c][r] ELSE -1
  BY <1>t DEF cursorMap
<1>c. \A c \in Clients, r \in Rooms :
        phase = "select" /\ c \in members[r] => last[c][r] = taken[r]
  <2>1. phase = "select" => fanout = NoEvent
    BY DEF TypeOK
  <2>. QED BY <1>t, <2>1 DEF FeedInv, MemberIsCurrent, Looping, NoEvent
<1>1. ASSUME NEW p \in Producers, Enqueue(p) PROVE [Feed!Next]_(Feed!vars)
  <2>1. /\ prod[p] \in Rooms
        /\ posted' = [posted EXCEPT ![prod[p]] = @ + 1]
        /\ UNCHANGED <<members, last, taken>>
    BY <1>1 DEF Enqueue, Accept, TypeOK, hubVars, histVars
  <2>2. Feed!Post(prod[p])
    BY <2>1 DEF Feed!Post
  <2>. QED BY <2>1, <2>2 DEF Feed!Next
<1>2. ASSUME NEW c \in Clients, HubUnregister(c) PROVE [Feed!Next]_(Feed!vars)
  <2>1. subs[c] \in SUBSET Rooms
    BY DEF TypeOK
  <2>2. \A d \in Clients, r \in Rooms :
          d \in members'[r] => d \in members[r] /\ last'[d][r] = last[d][r]
    BY <1>2, <2>1, RemoveEffect DEF HubUnregister
  <2>. QED BY <1>2, <1>t, <2>2, LeavingMaps DEF HubUnregister, feedVars
<1>3. ASSUME NEW c \in Clients, HubUnsubscribe(c) PROVE [Feed!Next]_(Feed!vars)
  <2>1. {frame[c].room} \in SUBSET Rooms
    BY <1>3 DEF TypeOK, HubUnsubscribe, Frame
  <2>2. \A d \in Clients, r \in Rooms :
          d \in members'[r] => d \in members[r] /\ last'[d][r] = last[d][r]
    BY <1>3, <2>1, RemoveEffect DEF HubUnsubscribe
  <2>. QED BY <1>3, <1>t, <2>2, LeavingMaps DEF HubUnsubscribe, feedVars
<1>4. ASSUME NEW c \in Clients, HubSubscribe(c) PROVE [Feed!Next]_(Feed!vars)
  <2>0. PICK r \in Rooms : r = frame[c].room
    BY <1>4 DEF TypeOK, HubSubscribe, Frame
  <2>1. r \in Rooms /\ phase = "select"
    BY <1>4 DEF HubSubscribe, Case
  <2>2. /\ members' = [members EXCEPT ![r] = @ \cup {c}]
        /\ last' = [last EXCEPT ![c][r] = taken[r]]
        /\ UNCHANGED <<posted, taken>>
    BY <1>4, <2>0 DEF HubSubscribe, feedVars
  <2>3. cursorMap' = [cursorMap EXCEPT ![c][r] = taken[r]]
    <3>1. \A d \in Clients, q \in Rooms :
            /\ d \in members'[q] <=> d \in members[q] \/ (d = c /\ q = r)
            /\ last'[d][q] = IF d = c /\ q = r THEN taken[r] ELSE last[d][q]
      BY <1>t, <2>1, <2>2
    <3>2. \A d \in Clients, q \in Rooms :
            cursorMap'[d][q] = IF d = c /\ q = r THEN taken[r] ELSE cursorMap[d][q]
      BY <1>m, <3>1
    <3>. QED BY <1>m, <2>1, <3>2, OneEntry
  <2>4. CASE c \in members[r]
    <3>1. cursorMap[c][r] = taken[r]
      BY <1>c, <2>1, <2>4 DEF cursorMap
    <3>2. cursorMap' = cursorMap
      BY <1>m, <2>1, <2>3, <3>1
    <3>. QED BY <2>2, <3>2 DEF Feed!vars, cursorMap
  <2>5. CASE c \notin members[r]
    <3>0. cursorMap[c][r] = -1
      BY <1>m, <2>1, <2>5
    <3>1. Feed!Join(c, r)
      <4>1. /\ cursorMap[c][r] = -1
            /\ cursorMap' = [cursorMap EXCEPT ![c][r] = taken[r]]
            /\ UNCHANGED <<posted, taken>>
        BY <2>2, <2>3, <3>0
      <4>. QED BY <4>1, Zenon DEF Feed!Join, Feed!Off, cursorMap
    <3>. QED BY <2>1, <3>1 DEF Feed!Next
  <2>. QED BY <2>4, <2>5
<1>5. ASSUME NEW c \in Clients, FanOutSend(c) PROVE [Feed!Next]_(Feed!vars)
  <2>1. Serving(c) /\ Give(c)
    BY <1>5 DEF FanOutSend
  <2>0. PICK r \in Rooms : r = fanout.room
    BY <2>1, ServedIsNext
  <2>2. /\ r \in Rooms /\ fanout.n \in Nat \ {0}
        /\ taken[r] = fanout.n /\ c \in members[r] /\ last[c][r] = fanout.n - 1
    BY <2>0, <2>1, ServedIsNext
  <2>3. /\ last' = [last EXCEPT ![c][r] = fanout.n]
        /\ UNCHANGED <<members, posted, taken>>
    BY <2>0, <2>1 DEF Give, feedVars
  <2>4. cursorMap[c][r] = fanout.n - 1
    BY <2>2 DEF cursorMap
  <2>5. cursorMap' = [cursorMap EXCEPT ![c][r] = fanout.n]
    <3>1. \A d \in Clients, q \in Rooms :
            last'[d][q] = IF d = c /\ q = r THEN fanout.n ELSE last[d][q]
      BY <1>t, <2>2, <2>3
    <3>2. \A d \in Clients, q \in Rooms :
            cursorMap'[d][q] = IF d = c /\ q = r THEN fanout.n ELSE cursorMap[d][q]
      BY <1>m, <2>2, <2>3, <3>1
    <3>. QED BY <1>m, <2>2, <3>2, OneEntry
  <2>6. cursorMap' = [cursorMap EXCEPT ![c][r] = cursorMap[c][r] + 1]
    <3>1. fanout.n = cursorMap[c][r] + 1
      BY <2>2, <2>4
    <3>. QED BY <2>5, <3>1
  <2>7. cursorMap[c][r] # -1 /\ cursorMap[c][r] < taken[r]
    BY <2>2, <2>4
  <2>8. Feed!Deliver(c, r)
    <3>1. /\ cursorMap[c][r] # -1
          /\ cursorMap[c][r] < taken[r]
          /\ cursorMap' = [cursorMap EXCEPT ![c][r] = cursorMap[c][r] + 1]
          /\ UNCHANGED <<posted, taken>>
      BY <2>3, <2>6, <2>7
    <3>. QED BY <3>1, Zenon DEF Feed!Deliver, Feed!Off, cursorMap
  <2>. QED BY <2>2, <2>8 DEF Feed!Next
<1>6. ASSUME NEW c \in Clients, FanOutDrop(c) PROVE [Feed!Next]_(Feed!vars)
  <2>1. Serving(c) /\ RemoveFromRooms(c, {fanout.room})
    BY <1>6 DEF FanOutDrop, Overflowing
  <2>2. {fanout.room} \in SUBSET Rooms
    BY <2>1, ServedIsNext
  <2>3. \A d \in Clients, r \in Rooms :
          d \in members'[r] => d \in members[r] /\ last'[d][r] = last[d][r]
    BY <2>1, <2>2, RemoveEffect
  <2>. QED BY <1>6, <1>t, <2>3, LeavingMaps DEF FanOutDrop, feedVars
<1>7. CASE HubBroadcast
  <2> DEFINE r == Head(queue).room
  <2>1. Head(queue) \in Event /\ Head(queue).n = taken[r] + 1
    BY <1>7, HeadIsNext DEF FeedInv, HubBroadcast
  <2>2. r \in Rooms /\ phase = "select"
    BY <1>7, <2>1 DEF Event, HubBroadcast
  <2>3. /\ taken' = [taken EXCEPT ![r] = @ + 1]
        /\ UNCHANGED <<members, last, posted>>
    BY <1>7, <1>t, <2>1, <2>2 DEF HubBroadcast, histVars
  <2>4. taken[r] < posted[r]
    <3>1. queue # <<>> /\ queue \in Seq(Event)
      BY <1>7 DEF HubBroadcast, TypeOK
    <3>2. 1 \in DOMAIN queue /\ queue[1] = Head(queue)
      BY <3>1
    <3>3. queue[1].n <= posted[queue[1].room]
      BY <3>2 DEF FeedInv, QueueInv
    <3>. QED BY <1>t, <2>1, <2>2, <3>2, <3>3
  <2>5. \A c \in Clients : cursorMap[c][r] \in {-1, taken[r]}
    BY <1>c, <2>2 DEF cursorMap
  <2>6. Feed!Take(r)
    BY <2>2, <2>3, <2>4, <2>5 DEF Feed!Take, Feed!Off, cursorMap
  <2>. QED BY <2>2, <2>6 DEF Feed!Next
<1>8. CASE ShutdownEnd
  <2>1. members' = [r \in Rooms |-> {}] /\ UNCHANGED <<posted, taken>>
    BY <1>8 DEF ShutdownEnd, feedVars
  <2>. QED BY <1>t, <2>1, LeavingMaps
<1>9. CASE UNCHANGED <<members, last, posted, taken>>
  BY <1>9 DEF Feed!vars
<1>. QED BY <1>1, <1>2, <1>3, <1>4, <1>5, <1>6, <1>7, <1>8, <1>9, StepKinds
         DEF FanOutEnd, HubShutdown, quietVars, feedVars, histVars

\* The hub, its goroutines and its bounded channels implement RoomFeed: every
\* subscriber gets every event of its room once and in order, from the moment
\* it joins until it leaves.
THEOREM HubImplementsFeed == Spec => ImplementsFeed
<1>1. TypeOK /\ TypeOK' /\ OrderInv /\ FeedInv /\ [Next]_vars => [Feed!Next]_(Feed!vars)
  BY StepMaps
<1>. QED BY <1>1, FeedInitMaps, TypeCorrect, OrderAlways, FeedAlways, PTL
         DEF Spec, ImplementsFeed, Feed!Spec
=============================================================================
