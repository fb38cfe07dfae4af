---------------------------- MODULE MCOwnerTags ----------------------------
EXTENDS OwnerTags

CONSTANTS d, v, b, k

\* One resource of each type; database and cache share a listing, which has
\* two pages.
OneOfEach == d :> "droplet" @@ v :> "volume" @@ b :> "database" @@ k :> "cache"

Symmetry == Permutations(Callers) \cup Permutations(Owners)
=============================================================================
