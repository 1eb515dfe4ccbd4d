------------------------------- MODULE MCRooms -------------------------------
(* The main loop on small instances. *)
EXTENDS Rooms, TLC

\* Connections, visitors and rooms are interchangeable unless named apart.
Symmetry == Permutations(Client) \cup Permutations(Visitor) \cup Permutations(RoomId)
=============================================================================
