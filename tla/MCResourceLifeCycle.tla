------------------------ MODULE MCResourceLifeCycle -------------------------
EXTENDS ResourceLifeCycle, TLC

CONSTANTS n1, n2

\* Every type once, beside a network.
EachBesideVPC == {n1 :> k @@ n2 :> "vpc" : k \in Kinds}
=============================================================================
