------------------------- MODULE ResourceLifeCycle --------------------------
(***************************************************************************)
(* The life of a resource as the provider's operations shape it: Create,   *)
(* Update, Scale, Destroy, DetectDrift and Import over the drivers of      *)
(* ResourceDrivers, one API call at a time, with the state the host        *)
(* (wfctl) keeps from their results.  Between two calls others may create  *)
(* or delete resources in the account; a call may fail, or take effect and *)
(* lose its answer; the host may die, which loses the whole result.        *)
(*                                                                         *)
(* An id stands for one incarnation of a resource.  A Legacy entry is a    *)
(* state written by an older version, which holds the resource's name      *)
(* where its UUID belongs; the API rejects it as malformed.                *)
(***************************************************************************)
EXTENDS ResourceDrivers, FiniteSets

CONSTANTS
    Names,      \* the declared resources
    Ids,        \* the identities the API can issue (a bound)
    OldNames,   \* names that may have a state of an older version
    Accounts,   \* the possible resource types of the names
    TwinKinds,  \* the types of which the API allows several with one name
    MaxFaults,  \* calls that fail or lose their answer, deaths of the host
    MaxOutside, \* creations and deletions by others
    None, Legacy

\* The operations and the calls they make.
Operations == {"create", "update", "scale", "destroy", "drift", "import"}
Calls == {"heal", "create", "find", "put", "read", "delete"}

ASSUME LifeCycleAssumption ==
    /\ IsFiniteSet(Names) /\ IsFiniteSet(Ids)
    /\ OldNames \subseteq Names
    /\ Accounts \subseteq [Names -> Kinds]
    /\ MaxFaults \in Nat /\ MaxOutside \in Nat
    /\ {None, Legacy} \cap (Names \cup Ids) = {} /\ None # Legacy
    /\ None \notin Operations \cup Calls

\* The service: a name is taken once it is used, except for access keys.  The
\* registry driver sees one registry per account, whatever the plan, so at most
\* one declared name is that; others an account may have are out of its sight.
ASSUME ServiceAssumption ==
    /\ TwinKinds \subseteq {"spaces_key"}
    /\ \A a \in Accounts : \A m, n \in Names :
          a[m] = "registry" /\ a[n] = "registry" => m = n

\* The bound on the ids leaves one for every resource from before.
ASSUME EnoughIds ==
    \E f \in [OldNames -> Ids] : \A m, n \in OldNames : f[m] = f[n] => m = n

VARIABLES
    account,    \* the resource type of each name
    entry,      \* the host's state: the recorded ProviderID, Legacy or None
    meant,      \* the resource a Legacy entry was written for
    live,       \* the resources that exist
    issued,     \* the name each id was issued for, or None
    op,         \* the operation under way
    spent       \* faults and outside events so far

vars == <<account, entry, meant, live, issued, op, spent>>

cloud == <<live, issued>>

\* An operation under way: the refs still to be done, the ref at hand, its
\* resolved ProviderID, the next call for it, and the refs of the result
\* (Destroyed, or the ghosts).
Idle == [what |-> None, todo |-> {}, name |-> None, id |-> None, call |-> None,
         done |-> {}]

D(n) == Driver[account[n]]

\* The resources of a name that exist: what listing by name finds.
Named(n) == {id \in live : issued[id] = n}
Spare == {id \in Ids : issued[id] = None}

\* The API issues a new id for a name; which one makes no difference.
NewId == CHOOSE id \in Spare : TRUE
Issue(n) ==
    /\ live' = live \cup {NewId}
    /\ issued' = [issued EXCEPT ![NewId] = n]

TypeOK ==
    /\ account \in Accounts
    /\ entry \in [Names -> Ids \cup {None, Legacy}]
    /\ meant \in [Names -> Ids \cup {None}]
    /\ live \subseteq Ids
    /\ issued \in [Ids -> Names \cup {None}]
    /\ op \in [what : Operations \cup {None}, todo : SUBSET Names,
               name : Names \cup {None}, id : Ids \cup {None, Legacy},
               call : Calls \cup {None}, done : SUBSET Names]
    /\ spent \in [faults : 0 .. MaxFaults, outside : 0 .. MaxOutside]

\* Some names have a resource from before, recorded under its name.
Init ==
    /\ account \in Accounts
    /\ \E old \in SUBSET {n \in OldNames : D(n).heals} :
       LET made == CHOOSE f \in [old -> Ids] : \A m, n \in old : f[m] = f[n] => m = n IN
          /\ entry = [n \in Names |-> IF n \in old THEN Legacy ELSE None]
          /\ meant = [n \in Names |-> IF n \in old THEN made[n] ELSE None]
          /\ live = {made[n] : n \in old}
          /\ issued = [id \in Ids |-> IF \E n \in old : made[n] = id
                                      THEN CHOOSE n \in old : made[n] = id ELSE None]
    /\ op = Idle
    /\ spent = [faults |-> 0, outside |-> 0]

---------------------------------------------------------------------------
(* The host's requests.                                                    *)

Begin(what, todo) ==
    /\ op = Idle
    /\ todo # {}
    /\ op' = [Idle EXCEPT !.what = what, !.todo = todo]
    /\ UNCHANGED <<account, entry, meant, cloud, spent>>

\* Create, for a declared resource that has no state.
RequestCreate(n) == entry[n] = None /\ Spare # {} /\ Begin("create", {n})

\* Update; the bucket driver refuses it without a call.
RequestUpdate(n) ==
    /\ entry[n] # None
    /\ D(n).update # "refuse"
    /\ D(n).update = "replace" => Spare # {}
    /\ Begin("update", {n})

\* Scale, where the driver has it.  Its first call, a Get, fails where the
\* call after it would.
RequestScale(n) == entry[n] # None /\ D(n).scales /\ Begin("scale", {n})

RequestDestroy(S) == (\A n \in S : entry[n] # None) /\ Begin("destroy", S)

\* The refresh of the whole state.
Recorded == {n \in Names : entry[n] # None}
RequestDrift == Begin("drift", Recorded)

\* Import of an id somebody saw in the account: it may be gone by now.
RequestImport(n, id) ==
    /\ op = Idle
    /\ entry[n] = None
    /\ issued[id] = n
    /\ op' = [Idle EXCEPT !.what = "import", !.name = n, !.id = id, !.call = "read"]
    /\ UNCHANGED <<account, entry, meant, cloud, spent>>

---------------------------------------------------------------------------
(* One operation, call by call.                                            *)

\* The call an operation makes for a name once its ProviderID is known.
MainCall(what, n) ==
    CASE what = "create"  -> "create"
      [] what = "update"  -> CASE D(n).update = "replace" -> "delete"
                               [] D(n).update = "read"    -> "read"
                               [] OTHER                   -> "put"
      [] what = "scale"   -> "put"
      [] what = "destroy" -> "delete"
      [] OTHER            -> "read"

\* resolveProviderID: an id that is no UUID is looked up by name first.  Read
\* does not do so.
resolveProviderID(what, n) ==
    IF what \in {"update", "scale", "destroy"} /\ D(n).heals /\ entry[n] = Legacy
    THEN "heal" ELSE MainCall(what, n)

\* The provider takes the next ref of the request.
Take(n) ==
    /\ n \in op.todo
    /\ op.name = None
    /\ op' = [op EXCEPT !.todo = @ \ {n}, !.name = n, !.id = entry[n],
                        !.call = resolveProviderID(op.what, n)]
    /\ UNCHANGED <<account, entry, meant, cloud, spent>>

\* The ref at hand is dealt with, with or without a place in the result.
NextRef(result) ==
    op' = [op EXCEPT !.name = None, !.id = None, !.call = None, !.done = @ \cup result]

\* Mutant: an error counts as a result.
Failed_AsResult ==
    IF op.what \in {"destroy", "drift"} THEN NextRef({op.name}) ELSE op' = Idle

\* An error: Destroy notes it and goes on with the next ref; DetectDrift
\* discards what it found; the others return it.
Failed == IF op.what = "destroy" THEN NextRef({}) ELSE op' = Idle

\* The output of a successful call is recorded by the host.
Record(id) ==
    /\ entry' = [entry EXCEPT ![op.name] = id]
    /\ op' = Idle

Fault ==
    /\ spent.faults < MaxFaults
    /\ spent' = [spent EXCEPT !.faults = @ + 1]

\* The resources a Read or Delete for a ref reaches.
Reach(n, id) ==
    CASE D(n).lookup = "name"    -> Named(n)
      [] D(n).lookup = "account" -> {i \in live : account[issued[i]] = account[n]}
      [] OTHER                   -> {id} \cap live

Addressed == Reach(op.name, op.id)

\* Mutant: the upsert path calls Create again with what it found.
FindByName_Recreate ==
    /\ op.call \in {"heal", "find"}
    /\ \/ \E id \in Named(op.name) :
             op' = [op EXCEPT !.id = id, !.call = MainCall(op.what, op.name)]
       \/ Named(op.name) = {} /\ Failed
    /\ UNCHANGED <<account, entry, meant, cloud, spent>>

\* findByName: the pages of the list are searched for the first match; no
\* match is ErrResourceNotFound.  The state-heal of Update, Scale and Delete
\* and the Read of the upsert path (no ProviderID) continue with the id found.
FindByName ==
    /\ op.call \in {"heal", "find"}
    /\ \/ \E id \in Named(op.name) :
             op' = [op EXCEPT !.id = id,
                              !.call = IF op.call = "find" THEN "put"
                                       ELSE MainCall(op.what, op.name)]
       \/ Named(op.name) = {} /\ Failed
    /\ UNCHANGED <<account, entry, meant, cloud, spent>>

\* Driver.Create: a name already taken is a conflict, which the host of an
\* upserting driver answers by looking the resource up.
CreateCall ==
    /\ op.call = "create"
    /\ IF Named(op.name) # {} /\ account[op.name] \notin TwinKinds
       THEN /\ IF D(op.name).upsert THEN op' = [op EXCEPT !.call = "find"]
               ELSE op' = Idle
            /\ UNCHANGED <<entry, cloud>>
       ELSE Issue(op.name) /\ Record(NewId)
    /\ UNCHANGED <<account, meant, spent>>

\* The resource was made and the caller does not learn of it: the answer is
\* lost, or App Platform's DNS step fails after the app exists.
CreateLost ==
    /\ op.call = "create"
    /\ Named(op.name) = {} \/ account[op.name] \in TwinKinds
    /\ Issue(op.name)
    /\ op' = Idle
    /\ Fault
    /\ UNCHANGED <<account, entry, meant>>

\* The update call; Scale and the cache driver read the resource back.
PutCall ==
    /\ op.call = "put"
    /\ IF op.id \in live
       THEN IF op.what = "scale" \/ D(op.name).update = "put_read"
            THEN op' = [op EXCEPT !.call = "read"] /\ UNCHANGED entry
            ELSE Record(op.id)
       ELSE op' = Idle /\ UNCHANGED entry
    /\ UNCHANGED <<account, meant, cloud, spent>>

\* Mutant: the wrapped error is compared with ==, not errors.Is.
Ghost_NotUnwrapped == op.what = "drift" /\ D(op.name).upsert /\ op.id # Legacy

\* The classes of DetectDriftWithSpecs that concern the state: a ref whose
\* Read says ErrResourceNotFound is a ghost; every other error aborts.
Ghost == op.what = "drift" /\ D(op.name).sentinel /\ op.id # Legacy

\* Driver.Read: the last call of an update, a drift check or an import.
ReadCall ==
    /\ op.call = "read"
    /\ \/ \E id \in Addressed :
             IF op.what = "drift" THEN NextRef({}) /\ UNCHANGED entry
             ELSE Record(id)
       \/ /\ Addressed = {}
          /\ IF Ghost THEN NextRef({op.name}) ELSE op' = Idle
          /\ UNCHANGED entry
    /\ UNCHANGED <<account, meant, cloud, spent>>

\* After a successful Delete: a replacing update goes on to Create, Destroy
\* adds the name to Destroyed.
Deleted == IF op.what = "update" THEN op' = [op EXCEPT !.call = "create"]
           ELSE NextRef({op.name})

\* Driver.Delete.
DeleteCall ==
    /\ op.call = "delete"
    /\ \/ \E id \in Addressed : live' = live \ {id} /\ Deleted
       \/ /\ Addressed = {}
          /\ IF D(op.name).goneOK THEN NextRef({op.name}) ELSE Failed
          /\ UNCHANGED live
    /\ UNCHANGED <<account, entry, meant, issued, spent>>

\* The resource is gone and the caller is told of an error.
DeleteLost ==
    /\ op.call = "delete"
    /\ \E id \in Addressed : live' = live \ {id}
    /\ Failed
    /\ Fault
    /\ UNCHANGED <<account, entry, meant, issued>>

\* Any call may fail without effect: rate limit, 5xx, network.  A 405 is not
\* among them: it is taken for a 404, the answer for an absent resource.
CallFails ==
    /\ op.call # None
    /\ Failed
    /\ Fault
    /\ UNCHANGED <<account, entry, meant, cloud>>

\* The result of a list operation reaches the host, which takes the destroyed
\* resources, or the ghosts, out of its state.
Report ==
    /\ op # Idle /\ op.name = None /\ op.todo = {}
    /\ entry' = [n \in Names |-> IF n \in op.done THEN None ELSE entry[n]]
    /\ op' = Idle
    /\ UNCHANGED <<account, meant, cloud, spent>>

---------------------------------------------------------------------------
(* The rest of the world.                                                  *)

\* The host dies: no result of the operation is ever recorded.
HostDies ==
    /\ op # Idle
    /\ op' = Idle
    /\ Fault
    /\ UNCHANGED <<account, entry, meant, cloud>>

\* Others delete a resource, or create one (not with the last id).
Outside ==
    /\ spent.outside < MaxOutside
    /\ spent' = [spent EXCEPT !.outside = @ + 1]
    /\ \/ \E id \in live : live' = live \ {id} /\ UNCHANGED issued
       \/ \E n \in Names :
            /\ Named(n) = {} \/ account[n] \in TwinKinds
            /\ Cardinality(Spare) > 1
            /\ Issue(n)
    /\ UNCHANGED <<account, entry, meant, op>>

Request ==
    \/ \E n \in Names : RequestCreate(n) \/ RequestUpdate(n) \/ RequestScale(n)
    \/ \E S \in SUBSET Names : RequestDestroy(S)
    \/ RequestDrift
    \/ \E n \in Names, id \in Ids : RequestImport(n, id)

Step ==
    \/ \E n \in Names : Take(n)
    \/ FindByName \/ CreateCall \/ PutCall \/ ReadCall \/ DeleteCall \/ Report

Next == Request \/ Step \/ CreateLost \/ DeleteLost \/ CallFails \/ HostDies \/ Outside

Spec == Init /\ [][Next]_vars

\* A call returns.  The host comes back to what it wants: it refreshes its
\* state, and creates what is declared and missing, again and again.
FairSpec ==
    /\ Spec
    /\ WF_vars(Step)
    /\ SF_vars(RequestDrift)
    /\ \A n \in Names : SF_vars(RequestCreate(n))

---------------------------------------------------------------------------
(* Correctness.                                                            *)

\* A Legacy entry denotes the resource it was written for.
Ledger == INSTANCE ResourceLedger WITH
    ledger <- [n \in Names |-> IF entry[n] = Legacy THEN meant[n] ELSE entry[n]]

\* The operations keep the ledger: whatever calls fail, lose their answer or
\* race with others, the state never drops or rebinds an entry whose resource
\* still exists, and never names one made under another name (Destroy,
\* DetectDriftWithSpecs, the state-heal and the upsert path).
LedgerKept == Ledger!Spec

\* The state has the resource, the cloud has not.
Gone(n) == entry[n] \in Ids /\ Reach(n, entry[n]) = {}

\* A recorded resource that is gone is taken out of the state in the end,
\* by the ghost path of DetectDriftWithSpecs, when every driver asked reports
\* absence as ErrResourceNotFound and no id is malformed.
GhostsForgotten ==
    \A n \in Names :
       (Gone(n) /\ \A m \in Names : D(m).sentinel /\ entry[m] # Legacy) ~> ~Gone(n)

\* A declared resource of an upserting driver is recorded in the end, even
\* when the answer to its creation was lost (SupportsUpsert).
CreatesConverge ==
    \A n \in Names :
       (entry[n] = None /\ D(n).upsert) ~> (entry[n] # None \/ Spare = {})
=============================================================================
