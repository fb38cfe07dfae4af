--------------------------- MODULE ResourceLedger ---------------------------
(***************************************************************************)
(* What the provider promises to the state that the host keeps: a ledger   *)
(* with at most one cloud resource per name.  The cloud changes on its own *)
(* account; the ledger only ever takes up a resource that exists and was   *)
(* made under that name, whoever made it, never lets go of one that still  *)
(* exists, and never moves from one that exists to another.                *)
(***************************************************************************)
CONSTANTS
    Names,      \* the declared resources
    Ids,        \* the identities the cloud can issue
    None

VARIABLES
    ledger,     \* the identity the state holds for each name, or None
    live,       \* the identities of the resources that exist
    issued      \* the name each identity was issued for, or None

vars == <<ledger, live, issued>>

Init ==
    /\ live \subseteq Ids
    /\ issued \in [Ids -> Names \cup {None}]
    /\ \A id \in Ids : (id \in live) <=> (issued[id] # None)
    /\ ledger \in [Names -> live \cup {None}]
    /\ \A n \in Names : ledger[n] # None => issued[ledger[n]] = n

\* The name is free to be bound to id: what it names is gone, or is id.
Free(n, id) == ledger[n] \in live => ledger[n] = id

\* The cloud gains a resource the ledger does not know.
Appear(n, id) ==
    /\ issued[id] = None
    /\ issued' = [issued EXCEPT ![id] = n]
    /\ live' = live \cup {id}
    /\ UNCHANGED ledger

\* A resource ceases to exist.
Vanish(id) ==
    /\ id \in live
    /\ live' = live \ {id}
    /\ UNCHANGED <<ledger, issued>>

\* A resource is made for a name and entered.
Provision(n, id) ==
    /\ issued[id] = None
    /\ Free(n, id)
    /\ issued' = [issued EXCEPT ![id] = n]
    /\ live' = live \cup {id}
    /\ ledger' = [ledger EXCEPT ![n] = id]

\* A resource that exists is entered under its name.
Enter(n, id) ==
    /\ id \in live
    /\ issued[id] = n
    /\ Free(n, id)
    /\ ledger' = [ledger EXCEPT ![n] = id]
    /\ UNCHANGED <<live, issued>>

\* Entries of resources that no longer exist are taken out.
Strike(S) ==
    /\ \A n \in S : ledger[n] \notin live
    /\ ledger' = [n \in Names |-> IF n \in S THEN None ELSE ledger[n]]
    /\ UNCHANGED <<live, issued>>

Next ==
    \/ \E n \in Names, id \in Ids : Appear(n, id) \/ Provision(n, id) \/ Enter(n, id)
    \/ \E id \in Ids : Vanish(id)
    \/ \E S \in SUBSET Names : Strike(S)

Spec == Init /\ [][Next]_vars
=============================================================================
