--------------------------- MODULE MCSpacesState ---------------------------
(* SpacesState for TLC: two resources with keys of their own.  In the order *)
(* of a bucket the state object of a resource precedes its lock object.     *)
EXTENDS SpacesState, TLC

CONSTANTS r1, r2, k1, k2

DistinctKeys == r1 :> k1 @@ r2 :> k2
StateObjects == k1 :> 1 @@ k2 :> 3
LockObjects  == k1 :> 2 @@ k2 :> 4

=============================================================================
