-------------------------------- MODULE Hub ---------------------------------
(***************************************************************************)
(* The realtime hub: the goroutine Hub.Run (hub.go), the two pumps of each *)
(* WebSocket client (client.go), the handler that creates a client         *)
(* (websocket_handler.go), the callers of BroadcastToRoom, and main's      *)
(* shutdown sequence (cmd/server/main.go).                                 *)
(*                                                                         *)
(* A rendezvous on an unbuffered channel (Register, Unregister, Subscribe, *)
(* Unsubscribe) is one step of Hub.Run and of the waiting goroutine; Go's  *)
(* select takes any ready case, so the cases of one select are alternative *)
(* actions.  A send on the closed channel c.send is a Go panic.            *)
(***************************************************************************)
EXTENDS Integers, Sequences, FiniteSets

CONSTANTS Clients,      \* the WebSocket connections that may be opened
          Rooms,        \* the match ids clients subscribe to
          Producers,    \* request goroutines that call BroadcastToRoom
          SendCap,      \* capacity of a client's send channel (256 in code)
          BroadcastCap, \* capacity of the Broadcast channel (64 in code)
          MaxFrames,    \* bound: frames all clients send to the server
          MaxEvents,    \* bound: events accepted on the Broadcast channel per room
          Fragile,      \* the clients whose connection may be lost silently
          None          \* no room

ASSUME CapsAssumption == /\ SendCap \in Nat \ {0}
                         /\ BroadcastCap \in Nat \ {0}
ASSUME BoundsAssumption == /\ MaxFrames \in Nat /\ MaxEvents \in Nat
                           /\ Fragile \subseteq Clients
ASSUME NoneAssumption == None \notin Rooms

VARIABLES
  life,     \* main: "serving", "cancelled" (appCancel), "stopped" (Hub.Stop),
            \* "exited" (main returned) or "crashed" (unrecovered panic)
  phase,    \* Hub.Run: "select", "fanout", "closing" (shutdown), "done"
  clients,  \* h.clients
  members,  \* members[r]: h.rooms[r].clients, {} when the room is absent
  subs,     \* subs[c]: c.rooms, the hub's mirror of members
  queue,    \* h.Broadcast, the buffered channel of events
  fanout,   \* the event being fanned out and the members still to serve
  prod,     \* prod[p]: the room p is broadcasting to, or None
  pc,       \* pc[c]: where c's handler, then its ReadPump, stands
  frame,    \* frame[c]: the message being answered on c, or NoFrame
  send,     \* send[c]: c.send, the buffered channel read by WritePump
  closed,   \* closed[c]: c.Close has run (connection and c.send closed)
  conn,     \* conn[c]: "none", "open", "broken" (by the peer), "closed"
  writer,   \* writer[c]: c's WritePump, "none", "running", "gone"
  dying,    \* clients whose ReadPump is unwinding from a panic
  frames,   \* frames read so far, for the bound MaxFrames
  posted,   \* history: posted[r] events of r entered the Broadcast channel
  taken,    \* history: taken[r] of them were taken up by Hub.Run
  last,     \* history: last[c][r], last event of r put in c.send (or the
            \* last one taken up when c subscribed)
  told      \* history: told[c][r], the answer about r put in c.send since
            \* c's last request about r

mainVars == <<life, dying>>
hubVars  == <<phase, clients, members, subs, fanout>>
feedVars == <<queue, prod, posted, taken>>
peerVars == <<conn, writer, closed, frames>>
readVars == <<pc, frame>>
histVars == <<last, told>>
vars == <<life, phase, clients, members, subs, queue, fanout, prod, pc, frame,
          send, closed, conn, writer, dying, frames, posted, taken, last, told>>

Alive   == life \in {"serving", "cancelled", "stopped"}
CtxDone == life \in {"cancelled", "stopped"}   \* <-ctx.Done() is ready
StopClosed == life = "stopped"                 \* <-h.stop is ready

Event == [room : Rooms, n : Nat \ {0}]
Reply == [room |-> None, n |-> 0]    \* welcome, pong, acknowledgement, error
Frame == [type : {"welcome", "other"}, room : {None}]
         \cup [type : {"subscribe", "unsubscribe"}, room : Rooms]
NoFrame == [type |-> "other", room |-> None]
NoEvent == [room |-> None, n |-> 0, todo |-> {}]

Init == /\ life = "serving"
        /\ phase = "select"
        /\ clients = {}
        /\ members = [r \in Rooms |-> {}]
        /\ subs = [c \in Clients |-> {}]
        /\ queue = <<>>
        /\ fanout = NoEvent
        /\ prod = [p \in Producers |-> None]
        /\ pc = [c \in Clients |-> "none"]
        /\ frame = [c \in Clients |-> NoFrame]
        /\ send = [c \in Clients |-> <<>>]
        /\ closed = [c \in Clients |-> FALSE]
        /\ conn = [c \in Clients |-> "none"]
        /\ writer = [c \in Clients |-> "none"]
        /\ dying = {}
        /\ frames = 0
        /\ posted = [r \in Rooms |-> 0]
        /\ taken = [r \in Rooms |-> 0]
        /\ last = [c \in Clients |-> [r \in Rooms |-> 0]]
        /\ told = [c \in Clients |-> [r \in Rooms |-> "nothing"]]

-----------------------------------------------------------------------------
(* The service side: BroadcastToRoom called by request goroutines.         *)

\* A request goroutine calls BroadcastToRoom(r).  MaxEvents bounds the calls.
Call(p, r) ==
  /\ Alive /\ prod[p] = None
  /\ \A x \in Rooms : posted[x] < MaxEvents
  /\ prod' = [prod EXCEPT ![p] = r]
  /\ UNCHANGED <<mainVars, hubVars, peerVars, readVars, send, queue, posted,
                 taken, histVars>>

\* The event of p enters the Broadcast channel, whose content becomes q.
Accept(p, q) ==
  /\ Alive /\ prod[p] # None
  /\ Len(queue) < BroadcastCap
  /\ posted' = [posted EXCEPT ![prod[p]] = @ + 1]
  /\ queue' = q
  /\ prod' = [prod EXCEPT ![p] = None]
  /\ UNCHANGED <<mainVars, hubVars, peerVars, readVars, send, taken, histVars>>

NewEvent(p) == [room |-> prod[p], n |-> posted[prod[p]] + 1]

\* Faulty variant of Enqueue: the newest event goes in front of the others,
\* as when each call sends from a goroutine of its own.
EnqueueUnordered(p) == Accept(p, <<NewEvent(p)>> \o queue)

\* case h.Broadcast <- payload: there is room in the channel's buffer.
Enqueue(p) == Accept(p, Append(queue, NewEvent(p)))

\* case <-h.stop: the event is given up.
CallStopped(p) ==
  /\ StopClosed /\ prod[p] # None
  /\ prod' = [prod EXCEPT ![p] = None]
  /\ UNCHANGED <<mainVars, hubVars, peerVars, readVars, send, queue, posted,
                 taken, histVars>>

-----------------------------------------------------------------------------
(* Hub.Run.                                                                *)

Without(c, rs) == [r \in Rooms |-> IF r \in rs THEN members[r] \ {c} ELSE members[r]]
Forget(c, rs) == [last EXCEPT ![c] = [r \in Rooms |-> IF r \in rs THEN 0 ELSE @[r]]]

\* Faulty variant of RemoveFromRooms: c.rooms is not updated.
RemoveFromRoomsOneSided(c, rs) ==
  members' = Without(c, rs) /\ subs' = subs /\ last' = Forget(c, rs)

\* removeClientFromRoom for every room of rs.
RemoveFromRooms(c, rs) ==
  /\ members' = Without(c, rs)
  /\ subs' = [subs EXCEPT ![c] = @ \ rs]
  /\ last' = Forget(c, rs)

\* Client.Close: once, close the connection and the send channel.
CloseClient(c) == /\ closed' = [closed EXCEPT ![c] = TRUE]
                  /\ conn' = [conn EXCEPT ![c] = "closed"]

\* c's handler, then its ReadPump, goes from one point to another.
Goto(c, from, to) == /\ Alive /\ pc[c] = from
                     /\ pc' = [pc EXCEPT ![c] = to]

\* Hub.Run is at its select and c is the sender of the case taken.
Case(c, from, to) == phase = "select" /\ Goto(c, from, to)

\* case client := <-h.Register; ServeWS goes on, starting the WritePump.
HubRegister(c) ==
  /\ Case(c, "register", "check")
  /\ clients' = clients \cup {c}
  /\ writer' = [writer EXCEPT ![c] = "running"]
  /\ frame' = [frame EXCEPT ![c] = [type |-> "welcome", room |-> None]]
  /\ UNCHANGED <<mainVars, phase, members, subs, fanout, feedVars, conn,
                 closed, frames, send, histVars>>

\* Faulty variant of HubUnregister: no cleanupClientInfo.
HubUnregisterKeepsRooms(c) ==
  /\ Case(c, "unregister", "close")
  /\ clients' = clients \ {c}
  /\ CloseClient(c)
  /\ UNCHANGED <<mainVars, phase, members, subs, fanout, feedVars, writer,
                 frames, frame, send, histVars>>

\* case client := <-h.Unregister: forget the client, its rooms, close it.
HubUnregister(c) ==
  /\ Case(c, "unregister", "close")
  /\ clients' = clients \ {c}
  /\ RemoveFromRooms(c, subs[c])
  /\ CloseClient(c)
  /\ UNCHANGED <<mainVars, phase, fanout, feedVars, writer, frames, frame,
                 send, told>>

\* case subReq := <-h.Subscribe.
HubSubscribe(c) ==
  LET r == frame[c].room IN
  /\ Case(c, "request", "check")
  /\ frame[c].type = "subscribe"
  /\ members' = [members EXCEPT ![r] = @ \cup {c}]
  /\ subs' = [subs EXCEPT ![c] = @ \cup {r}]
  /\ last' = [last EXCEPT ![c][r] = taken[r]]
  /\ told' = [told EXCEPT ![c][r] = "nothing"]
  /\ UNCHANGED <<mainVars, phase, clients, fanout, feedVars, peerVars, frame,
                 send>>

\* Faulty variant of HubUnsubscribe: only c.rooms is updated.
HubUnsubscribeKeeps(c) ==
  LET r == frame[c].room IN
  /\ Case(c, "request", "check")
  /\ frame[c].type = "unsubscribe"
  /\ subs' = [subs EXCEPT ![c] = @ \ {r}]
  /\ told' = [told EXCEPT ![c][r] = "nothing"]
  /\ UNCHANGED <<mainVars, phase, clients, members, fanout, feedVars, peerVars,
                 frame, send, last>>

\* case unsubReq := <-h.Unsubscribe.
HubUnsubscribe(c) ==
  LET r == frame[c].room IN
  /\ Case(c, "request", "check")
  /\ frame[c].type = "unsubscribe"
  /\ RemoveFromRooms(c, {r})
  /\ told' = [told EXCEPT ![c][r] = "nothing"]
  /\ UNCHANGED <<mainVars, phase, clients, fanout, feedVars, peerVars, frame,
                 send>>

\* case payload := <-h.Broadcast: start the loop over the room's clients.
HubBroadcast ==
  /\ Alive /\ phase = "select" /\ queue # <<>>
  /\ LET e == Head(queue) IN
       /\ taken' = [taken EXCEPT ![e.room] = e.n]
       /\ fanout' = [room |-> e.room, n |-> e.n, todo |-> members[e.room]]
  /\ queue' = Tail(queue)
  /\ phase' = "fanout"
  /\ UNCHANGED <<mainVars, clients, members, subs, peerVars, readVars, send,
                 prod, posted, histVars>>

\* The loop is at c, whose send channel is open.
Serving(c) == Alive /\ phase = "fanout" /\ c \in fanout.todo /\ ~closed[c]

\* c is given the event and the loop goes on.
Give(c) ==
  /\ send' = [send EXCEPT ![c] = Append(@, [room |-> fanout.room, n |-> fanout.n])]
  /\ last' = [last EXCEPT ![c][fanout.room] = fanout.n]
  /\ fanout' = [fanout EXCEPT !.todo = @ \ {c}]
  /\ UNCHANGED <<mainVars, phase, clients, members, subs, feedVars, peerVars,
                 readVars, told>>

\* Faulty variant of FanOutSend: the buffer is not looked at.
FanOutSendUnbounded(c) == Serving(c) /\ Give(c)

\* case client.send <- payload.Message: the buffer of c has room.
FanOutSend(c) == Serving(c) /\ Len(send[c]) < SendCap /\ Give(c)

Overflowing(c) == Serving(c) /\ Len(send[c]) >= SendCap

\* Faulty variants of FanOutDrop: the event is skipped and c stays; c is
\* closed on the spot by the hub; the whole room is deleted; the hub waits.
FanOutSkip(c) ==
  /\ Overflowing(c)
  /\ fanout' = [fanout EXCEPT !.todo = @ \ {c}]
  /\ UNCHANGED <<mainVars, phase, clients, members, subs, feedVars, peerVars,
                 readVars, send, histVars>>
FanOutDropCloses(c) ==
  /\ Overflowing(c)
  /\ RemoveFromRooms(c, subs[c])
  /\ CloseClient(c)
  /\ fanout' = [fanout EXCEPT !.todo = @ \ {c}]
  /\ UNCHANGED <<mainVars, phase, clients, feedVars, writer, frames, readVars,
                 send, told>>
FanOutDropRoom(c) ==
  /\ Overflowing(c)
  /\ members' = [members EXCEPT ![fanout.room] = {}]
  /\ subs' = [subs EXCEPT ![c] = @ \ {fanout.room}]
  /\ fanout' = [fanout EXCEPT !.todo = {}]
  /\ UNCHANGED <<mainVars, phase, clients, feedVars, peerVars, readVars, send,
                 histVars>>
FanOutWaits(c) == Overflowing(c) /\ UNCHANGED vars

\* default: the buffer is full, and c loses this room.
FanOutDrop(c) ==
  /\ Overflowing(c)
  /\ RemoveFromRooms(c, {fanout.room})
  /\ fanout' = [fanout EXCEPT !.todo = @ \ {c}]
  /\ UNCHANGED <<mainVars, phase, clients, feedVars, peerVars, readVars, send,
                 told>>

\* The send channel of c is closed: Hub.Run panics and the process ends.
FanOutPanic(c) ==
  /\ Alive /\ phase = "fanout" /\ c \in fanout.todo /\ closed[c]
  /\ life' = "crashed"
  /\ UNCHANGED <<hubVars, feedVars, peerVars, readVars, dying, send, histVars>>

FanOutEnd ==
  /\ Alive /\ phase = "fanout" /\ fanout.todo = {}
  /\ phase' = "select"
  /\ fanout' = NoEvent
  /\ UNCHANGED <<mainVars, clients, members, subs, feedVars, peerVars,
                 readVars, send, histVars>>

\* case <-ctx.Done() and case <-h.stop: h.shutdown() begins.
HubShutdown ==
  /\ CtxDone /\ phase = "select"
  /\ phase' = "closing"
  /\ UNCHANGED <<mainVars, clients, members, subs, fanout, feedVars, peerVars,
                 readVars, send, histVars>>

\* One turn of shutdown's loop over h.clients.
ShutdownClose(c) ==
  /\ Alive /\ phase = "closing" /\ c \in clients
  /\ CloseClient(c)
  /\ clients' = clients \ {c}
  /\ UNCHANGED <<mainVars, phase, members, subs, fanout, feedVars, writer,
                 frames, readVars, send, histVars>>

\* shutdown ends: the rooms are dropped, c.rooms is left as it is.
ShutdownEnd ==
  /\ Alive /\ phase = "closing" /\ clients = {}
  /\ members' = [r \in Rooms |-> {}]
  /\ phase' = "done"
  /\ UNCHANGED <<mainVars, clients, subs, fanout, feedVars, peerVars, readVars,
                 send, histVars>>

-----------------------------------------------------------------------------
(* A client: ServeWS, then ReadPump, are one sequential process.           *)

\* ServeWS: upgrade the connection and create the client.
Connect(c) ==
  /\ life = "serving"
  /\ Goto(c, "none", "register")
  /\ conn' = [conn EXCEPT ![c] = "open"]
  /\ UNCHANGED <<mainVars, hubVars, feedVars, closed, writer, frames, frame,
                 send, histVars>>

\* Faulty variant of RegisterStopped: ServeWS only returns.
RegisterStoppedOpen(c) ==
  /\ StopClosed
  /\ Goto(c, "register", "gone")
  /\ UNCHANGED <<mainVars, hubVars, feedVars, peerVars, frame, send, histVars>>

\* RegisterClient returns false: ServeWS closes the connection and returns.
RegisterStopped(c) ==
  /\ StopClosed
  /\ Goto(c, "register", "gone")
  /\ conn' = [conn EXCEPT ![c] = "closed"]
  /\ UNCHANGED <<mainVars, hubVars, feedVars, closed, writer, frames, frame,
                 send, histVars>>

\* ReadMessage returns a frame, perhaps one buffered before the connection
\* was lost, and processMessage begins.  An invalid frame, a ping or an
\* unknown type is "other": it only gets an answer.
ReadFrame(c) ==
  /\ frames < MaxFrames
  /\ frames' = frames + 1
  /\ \/ \E t \in {"subscribe", "unsubscribe"}, r \in Rooms :
          /\ Goto(c, "read", "request")
          /\ frame' = [frame EXCEPT ![c] = [type |-> t, room |-> r]]
     \/ /\ Goto(c, "read", "check")
        /\ frame' = [frame EXCEPT ![c] = NoFrame]
  /\ UNCHANGED <<mainVars, hubVars, feedVars, conn, writer, closed, send,
                 histVars>>

\* SubscribeClient or UnsubscribeClient returns false: no answer.
RequestStopped(c) ==
  /\ StopClosed
  /\ Goto(c, "request", "read")
  /\ frame' = [frame EXCEPT ![c] = NoFrame]
  /\ UNCHANGED <<mainVars, hubVars, feedVars, peerVars, send, histVars>>

\* The first select of SendDirect, sendEvent and sendError.
CheckStop(c) ==
  /\ IF StopClosed
     THEN /\ Goto(c, "check", "read")
          /\ frame' = [frame EXCEPT ![c] = NoFrame]
     ELSE Goto(c, "check", "push") /\ UNCHANGED frame
  /\ UNCHANGED <<mainVars, hubVars, feedVars, peerVars, send, histVars>>

\* Their second select: the answer enters c.send, or is dropped when the
\* buffer is full.  After the welcome, ServeWS starts ReadPump.
Push(c) ==
  LET f == frame[c] IN
  /\ Goto(c, "push", "read") /\ ~closed[c]
  /\ frame' = [frame EXCEPT ![c] = NoFrame]
  /\ IF Len(send[c]) < SendCap
     THEN /\ send' = [send EXCEPT ![c] = Append(@, Reply)]
          /\ told' = IF f.room = None THEN told
                     ELSE [told EXCEPT ![c][f.room] = f.type]
     ELSE UNCHANGED <<send, told>>
  /\ UNCHANGED <<mainVars, hubVars, feedVars, peerVars, last>>

\* The channel is closed.  In ServeWS the Recover middleware catches the
\* panic and ReadPump is never started; in ReadPump the panic first runs the
\* deferred UnregisterClient and Close.
PushPanic(c) ==
  /\ closed[c]
  /\ IF frame[c].type = "welcome"
     THEN Goto(c, "push", "gone") /\ UNCHANGED dying
     ELSE Goto(c, "push", "unregister") /\ dying' = dying \cup {c}
  /\ frame' = [frame EXCEPT ![c] = NoFrame]
  /\ UNCHANGED <<life, hubVars, feedVars, peerVars, send, histVars>>

\* Faulty variant of ReadFail: ReadPump ends without UnregisterClient.
ReadFailSilently(c) ==
  /\ Goto(c, "read", "close")
  /\ UNCHANGED <<mainVars, hubVars, feedVars, peerVars, frame, send, histVars>>

\* ReadMessage returns an error: the connection is lost or closed, the peer
\* closed it, broke the size limit or let the read deadline pass.
ReadFail(c) ==
  /\ Goto(c, "read", "unregister")
  /\ UNCHANGED <<mainVars, hubVars, feedVars, peerVars, frame, send, histVars>>

\* UnregisterClient: case <-h.stop.
UnregisterStopped(c) ==
  /\ StopClosed
  /\ Goto(c, "unregister", "close")
  /\ UNCHANGED <<mainVars, hubVars, feedVars, peerVars, frame, send, histVars>>

\* The deferred c.Close of ReadPump; a panic then ends the process.
ReaderClose(c) ==
  /\ Goto(c, "close", "gone")
  /\ CloseClient(c)
  /\ life' = IF c \in dying THEN "crashed" ELSE life
  /\ UNCHANGED <<dying, hubVars, feedVars, writer, frames, frame, send,
                 histVars>>

-----------------------------------------------------------------------------
(* WritePump, the peer, and main.                                          *)

\* A message is taken from c.send and written.
Write(c) ==
  /\ Alive /\ writer[c] = "running" /\ conn[c] # "closed"
  /\ send[c] # <<>>
  /\ send' = [send EXCEPT ![c] = Tail(@)]
  /\ UNCHANGED <<mainVars, hubVars, feedVars, peerVars, readVars, histVars>>

\* WritePump returns, and its deferred call closes the connection.
WriterEnds(c) ==
  /\ Alive /\ writer[c] = "running"
  /\ writer' = [writer EXCEPT ![c] = "gone"]
  /\ conn' = [conn EXCEPT ![c] = "closed"]
  /\ UNCHANGED <<mainVars, hubVars, feedVars, closed, frames, readVars,
                 histVars>>

\* The write of a message or of a ping fails, or passes its deadline.
WriteFail(c) ==
  /\ \/ UNCHANGED send
     \/ send[c] # <<>> /\ send' = [send EXCEPT ![c] = Tail(@)]
  /\ WriterEnds(c)

\* c.send is closed and drained: write a close frame and return.
WriteClosed(c) == closed[c] /\ send[c] = <<>> /\ UNCHANGED send /\ WriterEnds(c)

\* The peer goes away, or stops answering, without closing.
Break(c) ==
  /\ Alive /\ c \in Fragile /\ conn[c] = "open"
  /\ conn' = [conn EXCEPT ![c] = "broken"]
  /\ UNCHANGED <<mainVars, hubVars, feedVars, writer, closed, frames, readVars,
                 send, histVars>>

\* After SIGTERM and srv.Shutdown, main calls appCancel(), then cleanup()
\* which is Hub.Stop, and returns without waiting for Hub.Run.
MainStep(from, to) ==
  /\ life = from /\ life' = to
  /\ UNCHANGED <<dying, hubVars, feedVars, peerVars, readVars, send, histVars>>
AppCancel == MainStep("serving", "cancelled")
Stop == MainStep("cancelled", "stopped")
Exit == MainStep("stopped", "exited")

\* The process has ended.
Ended == ~Alive /\ UNCHANGED vars

-----------------------------------------------------------------------------
Producer(p) == (\E r \in Rooms : Call(p, r)) \/ Enqueue(p) \/ CallStopped(p)

Run == \/ \E c \in Clients : \/ HubRegister(c) \/ HubUnregister(c)
                             \/ HubSubscribe(c) \/ HubUnsubscribe(c)
                             \/ FanOutSend(c) \/ FanOutDrop(c)
                             \/ FanOutPanic(c) \/ ShutdownClose(c)
       \/ HubBroadcast \/ FanOutEnd \/ HubShutdown \/ ShutdownEnd

Reader(c) == \/ Connect(c) \/ RegisterStopped(c) \/ ReadFrame(c)
             \/ RequestStopped(c) \/ CheckStop(c) \/ Push(c) \/ PushPanic(c)
             \/ ReadFail(c) \/ UnregisterStopped(c) \/ ReaderClose(c)

Writer(c) == Write(c) \/ WriteFail(c) \/ WriteClosed(c)

Main == AppCancel \/ Stop \/ Exit

Next == \/ \E p \in Producers : Producer(p)
        \/ Run
        \/ \E c \in Clients : Reader(c) \/ Writer(c) \/ Break(c)
        \/ Main
        \/ Ended

Spec == Init /\ [][Next]_vars
(***************************************************************************)
(* Fairness.  Every goroutine that can run is run (weak fairness).  Go's   *)
(* select chooses uniformly among the ready cases, so a case of Hub.Run    *)
(* that is ready again and again is taken (strong fairness), and a sender  *)
(* blocked on a full channel is queued first come first served.  Nothing   *)
(* makes a peer send or read frames, makes WritePump progress on an open   *)
(* connection, or makes the operator stop the server.                      *)
(***************************************************************************)
HubFairness ==
  /\ \A c \in Clients : /\ SF_vars(HubRegister(c))
                        /\ SF_vars(HubUnregister(c))
                        /\ SF_vars(HubSubscribe(c) \/ HubUnsubscribe(c))
                        /\ WF_vars(FanOutSend(c) \/ FanOutDrop(c) \/ FanOutPanic(c))
                        /\ WF_vars(ShutdownClose(c))
  /\ SF_vars(HubBroadcast)
  /\ SF_vars(HubShutdown)
  /\ WF_vars(FanOutEnd \/ ShutdownEnd)

ClientFairness ==
  \A c \in Clients :
    /\ WF_vars(RegisterStopped(c) \/ RequestStopped(c) \/ UnregisterStopped(c))
    /\ WF_vars(CheckStop(c) \/ Push(c) \/ PushPanic(c) \/ ReaderClose(c))
    /\ WF_vars(conn[c] # "open" /\ ReadFail(c))
    /\ WF_vars(conn[c] # "open" /\ (WriteFail(c) \/ WriteClosed(c)))

Fairness == /\ HubFairness
            /\ ClientFairness
            /\ \A p \in Producers : SF_vars(Enqueue(p)) /\ WF_vars(CallStopped(p))
            /\ WF_vars(Stop \/ Exit)

FairSpec == Spec /\ Fairness

-----------------------------------------------------------------------------
(* Properties.                                                             *)

\* Every variable has its type, and both kinds of channel respect their
\* capacity (make(chan ..., n) in NewHub and NewClient).
TypeOK ==
  /\ life \in {"serving", "cancelled", "stopped", "exited", "crashed"}
  /\ phase \in {"select", "fanout", "closing", "done"}
  /\ clients \in SUBSET Clients
  /\ members \in [Rooms -> SUBSET Clients]
  /\ subs \in [Clients -> SUBSET Rooms]
  /\ queue \in Seq(Event) /\ Len(queue) <= BroadcastCap
  /\ fanout \in {NoEvent} \cup [room : Rooms, n : Nat \ {0}, todo : SUBSET Clients]
  /\ fanout = NoEvent <=> phase # "fanout"
  /\ prod \in [Producers -> Rooms \cup {None}]
  /\ pc \in [Clients -> {"none", "register", "check", "push", "read", "request",
                         "unregister", "close", "gone"}]
  /\ frame \in [Clients -> Frame]
  /\ send \in [Clients -> Seq(Event \cup {Reply})]
  /\ \A c \in Clients : Len(send[c]) <= SendCap
  /\ closed \in [Clients -> BOOLEAN]
  /\ conn \in [Clients -> {"none", "open", "broken", "closed"}]
  /\ writer \in [Clients -> {"none", "running", "gone"}]
  /\ dying \in SUBSET Clients
  /\ frames \in Nat
  /\ posted \in [Rooms -> Nat]
  /\ taken \in [Rooms -> Nat]
  /\ last \in [Clients -> [Rooms -> Nat]]
  /\ told \in [Clients -> [Rooms -> {"nothing", "subscribe", "unsubscribe"}]]

Looping == phase \in {"select", "fanout"}   \* Hub.Run is in its event loop

\* The two copies of room membership, h.rooms and c.rooms, agree as long as
\* the event loop runs: cleanupClientInfo walks c.rooms only, so a room
\* missing there would keep a closed client as a member for ever.
MembershipMirrored ==
  Looping => \A c \in Clients, r \in Rooms : c \in members[r] <=> r \in subs[c]

\* Hub.Run never checks that a subscriber is registered or open.  Until Stop
\* is called, the order of each client's requests alone ensures it: a member
\* of a room is a registered client with an open send channel and a reader
\* that is still to unregister it.
MembersAreServed ==
  Looping /\ life \in {"serving", "cancelled"} =>
    \A r \in Rooms : \A c \in members[r] :
      /\ c \in clients
      /\ ~closed[c]
      /\ pc[c] \in {"check", "push", "read", "request", "unregister"}

\* A member misses no event: it has been given every event of its room taken
\* up since it subscribed, the one being fanned out excepted.  A client whose
\* buffer is full loses the room, never a single event in the middle.
MemberIsCurrent ==
  Looping => \A r \in Rooms : \A c \in members[r] :
    last[c][r] = IF fanout.room = r /\ c \in fanout.todo
                 THEN taken[r] - 1 ELSE taken[r]

\* In c.send the events of a room are in the order of the Broadcast channel,
\* none twice, whatever subscriptions came and went in between, and those
\* still to be fanned out come after them.
EventsInOrder ==
  /\ \A c \in Clients : \A i, j \in DOMAIN send[c] :
       /\ i < j
       /\ send[c][i].room # None
       /\ send[c][i].room = send[c][j].room
       => send[c][i].n < send[c][j].n
  /\ \A c \in Clients : \A i \in DOMAIN send[c] : \A j \in DOMAIN queue :
       send[c][i].room = queue[j].room => send[c][i].n < queue[j].n

\* Once the answer "unsubscribed" is in c.send, no event of that room follows
\* it until the client asks to subscribe again.
UnsubscribedIsFinal ==
  \A c \in Clients, r \in Rooms :
    told[c][r] = "unsubscribe" => c \notin members[r]

\* No send on a closed channel, by the hub or by a reader, while the server
\* is serving: neither a panic unwinding nor a crash of the process.
NoPanicWhileServing ==
  [][life = "serving" => life' # "crashed" /\ dying' = {}]_vars

\* A client leaves a room only by its own request, its own disconnection, its
\* own full buffer or the end of the hub, never by what another client does.
LeavesByItself ==
  [][\A c \in Clients, r \in Rooms :
       c \in members[r] /\ c \notin members'[r] =>
         \/ pc[c] = "request" /\ frame[c] = [type |-> "unsubscribe", room |-> r]
         \/ pc[c] = "unregister"
         \/ phase = "fanout" /\ fanout.room = r /\ Len(send[c]) = SendCap
         \/ phase = "closing"]_vars

\* When Hub.Run has returned, no connection is left open but those whose
\* handler still waits in RegisterClient: each was in h.clients when shutdown
\* walked it, or was closed by its own goroutine.
NoneLeftOpen ==
  phase = "done" => \A c \in Clients : pc[c] \in {"none", "register"} \/ conn[c] = "closed"

\* README.md:56: a client too slow (buffer overflow) "is instantly closed and
\* actively removed from all subscribed rooms".  hub.go:90 only removes it
\* from the room being served.  Stated for a client that is in a second room r
\* too, and at its weakest: the step that drops the client closes it or at
\* least takes it out of r.
SlowClientClosed ==
  [][\A c \in Clients, r \in Rooms :
       /\ Overflowing(c) /\ c \notin fanout'.todo
       /\ r # fanout.room /\ c \in members[r]
       => closed'[c] \/ c \notin members'[r]]_vars

\* .ai-context/docs/operations.md:47: graceful shutdown must "close shared
\* resources cleanly": a shutdown never ends in a panic.
ShutdownIsClean == life # "crashed"

\* The hub implements a gap-free feed per room: see RoomFeed.
Feed == INSTANCE RoomFeed WITH
          cursor <- [c \in Clients |-> [r \in Rooms |->
                       IF c \in members[r] THEN last[c][r] ELSE -1]]
ImplementsFeed == Feed!Spec

\* BroadcastToRoom returns: no client, however slow, blocks a request.
BroadcastReturns ==
  \A p \in Producers : prod[p] # None ~> (prod[p] = None \/ ~Alive)

\* A lost connection is cleaned up: both pumps end and the hub forgets the
\* client and its rooms.
Released(c) == /\ pc[c] \in {"none", "gone"}
               /\ writer[c] # "running"
               /\ c \notin clients
               /\ \A r \in Rooms : c \notin members[r]
LostClientReleased ==
  \A c \in Clients : conn[c] \in {"broken", "closed"} ~> (Released(c) \/ ~Alive)
-----------------------------------------------------------------------------
(* The inductive invariants behind the theorems of HubProofs.tla.          *)

Served == {"check", "push", "read", "request", "unregister"}

\* Until Stop is called, the hub holds exactly the clients whose goroutine
\* stands between RegisterClient and UnregisterClient, and none of these is
\* closed.
RegisteredInOrder ==
  Looping /\ life \in {"serving", "cancelled"} =>
    \A c \in Clients : /\ c \in clients <=> pc[c] \in Served
                       /\ pc[c] \in Served \cup {"none", "register"} => ~closed[c]

\* Nothing goes wrong while serving; the clients still to be given an event
\* are in its room; and a client waiting to be answered "unsubscribed" is not
\* in that room.
OrderInv ==
  /\ MembershipMirrored /\ RegisteredInOrder /\ MembersAreServed
  /\ life = "serving" => Looping /\ dying = {}
  /\ phase = "fanout" => fanout.todo \subseteq members[fanout.room]
  /\ UnsubscribedIsFinal
  /\ \A c \in Clients :
       pc[c] \in {"check", "push"} /\ frame[c].type = "unsubscribe" =>
         c \notin members[frame[c].room]

\* The hub knows every connection that is registered and not closed yet.
KnownOrClosed ==
  /\ \A c \in Clients : \/ pc[c] \in {"none", "register"}
                        \/ c \in clients
                        \/ conn[c] = "closed"
  /\ phase = "done" => clients = {}

\* The Broadcast channel holds the events posted and not yet taken up: all of
\* them, once, and in order.
QueueInv ==
  /\ \A r \in Rooms : taken[r] <= posted[r]
  /\ \A r \in Rooms : \A n \in taken[r] + 1 .. posted[r] :
       \E i \in DOMAIN queue : queue[i] = [room |-> r, n |-> n]
  /\ \A i \in DOMAIN queue : /\ taken[queue[i].room] < queue[i].n
                            /\ queue[i].n <= posted[queue[i].room]
  /\ \A i, j \in DOMAIN queue :
       i < j /\ queue[i].room = queue[j].room => queue[i].n < queue[j].n

\* A client's channel holds no event that was not taken up or, while the client
\* is in the room, that it was not given.
SentInv ==
  \A c \in Clients : \A i \in DOMAIN send[c] : \A r \in Rooms :
    send[c][i].room = r =>
      /\ send[c][i].n <= taken[r]
      /\ Looping /\ c \in members[r] => send[c][i].n <= last[c][r]

FeedInv == /\ QueueInv /\ SentInv
           /\ phase = "fanout" => fanout.n = taken[fanout.room]
           /\ MemberIsCurrent /\ EventsInOrder
=============================================================================
