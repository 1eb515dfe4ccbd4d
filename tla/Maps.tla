-------------------------------- MODULE Maps --------------------------------
(***************************************************************************)
(* Go maps as functions whose domain is the set of keys present.  The      *)
(* server keeps its whole state in such maps (Rooms.Rooms,                 *)
(* Rooms.connected, Room.Users, Room.Sessions).                            *)
(***************************************************************************)

Empty == [k \in {} |-> k]

\* m is a map from some of the keys K to values in V.
IsMap(m, K, V) == DOMAIN m \subseteq K /\ m \in [DOMAIN m -> V]

\* m[k] = v
Put(m, k, v) == [x \in DOMAIN m \cup {k} |-> IF x = k THEN v ELSE m[x]]

\* delete(m, k) for every k in K
Without(m, K) == [x \in DOMAIN m \ K |-> m[x]]
=============================================================================
