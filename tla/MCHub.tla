------------------------------- MODULE MCHub --------------------------------
(* Small instances of the realtime hub for TLC. *)
EXTENDS Hub, TLC

\* Clients are interchangeable, and so are rooms.
ClientSymmetry == Permutations(Clients)
RoomSymmetry == Permutations(Rooms)
=============================================================================
