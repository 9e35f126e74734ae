------------------------------ MODULE RoomFeed ------------------------------
(***************************************************************************)
(* What the realtime hub promises, without its goroutines and channels.    *)
(*                                                                         *)
(* Every room (one per match) is a log of events.  posted[r] events have   *)
(* been handed to the hub, and taken[r] of them have been taken up, in     *)
(* order.  A subscriber reads the log through a cursor: it joins at the    *)
(* last event taken up, then gets every later event exactly once and in    *)
(* order, until it leaves.  There are no gaps: a subscriber that misses an *)
(* event has left the room.  Hub.tla is shown to implement this module.    *)
(***************************************************************************)
EXTENDS Integers

CONSTANTS Clients,   \* the WebSocket clients
          Rooms      \* the rooms, one per match

VARIABLES posted,    \* posted[r]: events of room r handed to the hub
          taken,     \* taken[r]: events of room r the hub has taken up
          cursor     \* cursor[c][r]: last event of r c was given, or Off

vars == <<posted, taken, cursor>>

Off == -1            \* the cursor of a client that is not in the room

TypeOK == /\ posted \in [Rooms -> Nat]
          /\ taken \in [Rooms -> Nat]
          /\ cursor \in [Clients -> [Rooms -> Nat \cup {Off}]]

Init == /\ posted = [r \in Rooms |-> 0]
        /\ taken = [r \in Rooms |-> 0]
        /\ cursor = [c \in Clients |-> [r \in Rooms |-> Off]]

\* An event of room r is handed to the hub.
Post(r) == /\ posted' = [posted EXCEPT ![r] = @ + 1]
           /\ UNCHANGED <<taken, cursor>>

\* The hub takes up the next event of r, once every subscriber of r has
\* been given the one before.
Take(r) == /\ taken[r] < posted[r]
           /\ \A c \in Clients : cursor[c][r] \in {Off, taken[r]}
           /\ taken' = [taken EXCEPT ![r] = @ + 1]
           /\ UNCHANGED <<posted, cursor>>

\* A subscriber gets the next event of r.
Deliver(c, r) == /\ cursor[c][r] # Off
                 /\ cursor[c][r] < taken[r]
                 /\ cursor' = [cursor EXCEPT ![c][r] = @ + 1]
                 /\ UNCHANGED <<posted, taken>>

\* A client joins r at the last event taken up.
Join(c, r) == /\ cursor[c][r] = Off
              /\ cursor' = [cursor EXCEPT ![c][r] = taken[r]]
              /\ UNCHANGED <<posted, taken>>

\* Some clients leave some rooms: an unsubscription, a client that fell
\* behind, a disconnection (every room of one client) or the end of the hub.
Leave == \E gone \in SUBSET (Clients \X Rooms) :
            /\ gone # {}
            /\ cursor' = [c \in Clients |-> [r \in Rooms |->
                            IF <<c, r>> \in gone THEN Off ELSE cursor[c][r]]]
            /\ UNCHANGED <<posted, taken>>

Next == \/ \E r \in Rooms : Post(r) \/ Take(r)
        \/ \E c \in Clients, r \in Rooms : Deliver(c, r) \/ Join(c, r)
        \/ Leave

Spec == Init /\ [][Next]_vars
=============================================================================
