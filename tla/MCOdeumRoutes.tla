---------------------------- MODULE MCOdeumRoutes ----------------------------
(* Two requests at a time over two sessions of one event, by its creator   *)
(* and by a user who is a member of one of two projects.                   *)
EXTENDS OdeumRoutes, TLC

CONSTANTS u1, u2, e1, j1, j2

MCPlaces == {e1, u1}
MCCreatorOf == e1 :> u1
MCProjectMembers == (j1 :> {u2}) @@ (j2 :> {})

Symmetry == Permutations(Requests) \cup Permutations(Sessions)
=============================================================================
