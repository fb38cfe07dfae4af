-------------------------- MODULE Provider_proofs --------------------------
(***************************************************************************)
(* The provider's two parts that work on resources through its drivers.    *)
(*                                                                         *)
(* First ResourceLifeCycle, which implements ResourceLedger: for any       *)
(* names, resource types, number of faults and of events outside, the      *)
(* state never drops or rebinds an entry whose resource still exists.      *)
(*                                                                         *)
(* Then OwnerTags, for any number of callers, resources, owners, calls and *)
(* faults: what SetOwner leaves behind, and what a listing that takes many *)
(* calls reports while others tag.                                         *)
(***************************************************************************)
EXTENDS ResourceLifeCycle, OwnerTags, FiniteSetTheorems, TLAPS

---------------------------------------------------------------------------
(* The ledger.  Safe is the inductive invariant: what the cloud, the host's *)
(* state and the operation under way must agree on for each call to be one  *)
(* step of the ledger.                                                      *)

(* The resource an entry stands for.                                        *)
Led(n) == IF entry[n] = Legacy THEN meant[n] ELSE entry[n]

(* The cloud: what exists was issued for a name, and names are unique       *)
(* except for access keys.                                                  *)
CloudOK ==
    /\ \A id \in live : issued[id] \in Names
    /\ \A n \in Names : account[n] \notin TwinKinds => \A i, j \in Named(n) : i = j

(* The host's state: entries name resources made for them, and only the     *)
(* healing drivers have entries of an older version.                        *)
LedgerOK ==
    \A n \in Names :
       /\ Led(n) # None => issued[Led(n)] = n
       /\ entry[n] = Legacy => meant[n] \in Ids /\ D(n).heals

(* The names an operation has still to deal with, the one at hand included. *)
Pending == op.todo \cup ({op.name} \cap Names)

Replacing(n) == op.what = "update" /\ D(n).update = "replace"

(* The operation: what it will report is gone, it creates only what has no  *)
(* state or was just deleted, and an id is left for it.                     *)
OpOK ==
    /\ \A n \in op.done : Led(n) \notin live
    /\ op.what \in {"create", "import"} => \A n \in Pending : entry[n] = None
    /\ (\E n \in Pending : op.what = "create" \/ Replacing(n)) => Spare # {}
    /\ op.name = None => op.call = None

(* The ref at hand: its id is the recorded one, or one found by its name.   *)
RefOK ==
    op.name # None =>
       /\ op.id \in Ids => issued[op.id] = op.name
       /\ entry[op.name] \in Ids => op.id = entry[op.name]
       /\ op.what = "drift" => op.id = entry[op.name]
       /\ op.call = "heal" => entry[op.name] = Legacy /\ op.what # "drift"
       /\ op.call = "find" => op.what = "create"
       /\ op.call = "create" => op.what = "create" \/ Replacing(op.name)
       /\ op.call = "delete" => op.what = "destroy" \/ Replacing(op.name)

Safe == TypeOK /\ CloudOK /\ LedgerOK /\ OpOK /\ RefOK

---------------------------------------------------------------------------
(* Facts about the table of drivers.                                        *)

(* Only drivers that look up by an id have keys that may share a name; only *)
(* the registry is looked up by account; a replacing driver neither upserts *)
(* nor takes an absent resource for success; none that does so heals.       *)
LEMMA DriverFacts ==
  ASSUME NEW k \in Kinds
  PROVE  /\ Driver[k].heals => k # "spaces_key"
         /\ Driver[k].lookup \in {"name", "account"} => k # "spaces_key"
         /\ Driver[k].lookup = "account" => k = "registry"
         /\ Driver[k].update = "replace" => k # "spaces_key" /\ ~Driver[k].upsert /\ ~Driver[k].goneOK
         /\ Driver[k].goneOK => ~Driver[k].heals
  <1>1. k \in {"container_service", "vpc", "firewall", "load_balancer", "k8s_cluster", "api_gateway",
              "cache", "certificate", "registry", "spaces_key", "storage"}
    BY DEF Kinds, Driver
  <1> DEFINE Heals(d) == d.heals /\ d.lookup \in {"id", "id_or_name"} /\ ~d.goneOK
  <1>2. Heals(AppPlatformDriver) /\ Heals(VPCDriver) /\ Heals(FirewallDriver)
    BY DEF AppPlatformDriver, VPCDriver, FirewallDriver, ByUUID
  <1>3. Heals(LoadBalancerDriver) /\ Heals(KubernetesDriver) /\ Heals(APIGatewayDriver)
    BY DEF LoadBalancerDriver, KubernetesDriver, APIGatewayDriver, ByUUID
  <1>4. Heals(CacheDriver) /\ Heals(CertificateDriver) /\ ~CertificateDriver.upsert
    BY DEF CacheDriver, CertificateDriver, ByUUID
  <1>5. /\ AppPlatformDriver.update # "replace" /\ VPCDriver.update # "replace"
        /\ FirewallDriver.update # "replace" /\ LoadBalancerDriver.update # "replace"
        /\ KubernetesDriver.update # "replace" /\ APIGatewayDriver.update # "replace"
        /\ CacheDriver.update # "replace"
    BY DEF AppPlatformDriver, VPCDriver, FirewallDriver, LoadBalancerDriver, KubernetesDriver,
           APIGatewayDriver, CacheDriver, ByUUID
  <1>6. LET r == Driver["registry"] IN ~r.heals /\ r.update # "replace" /\ ~r.goneOK
    BY DEF Driver, RegistryDriver, ByUUID
  <1>7. LET s == Driver["spaces_key"] IN ~s.heals /\ s.update # "replace" /\ s.lookup = "id_or_name"
    BY DEF Driver, SpacesKeyDriver, ByUUID
  <1>8. LET b == Driver["storage"] IN ~b.heals /\ b.update # "replace" /\ ~b.goneOK /\ b.lookup = "name"
    BY DEF Driver, SpacesDriver, ByUUID
  <1> QED
    BY <1>1, <1>2, <1>3, <1>4, <1>5, <1>6, <1>7, <1>8 DEF Driver

LEMMA KindOf ==
  ASSUME TypeOK, NEW n \in Names
  PROVE  account[n] \in Kinds
  BY LifeCycleAssumption DEF TypeOK

(* A driver that heals, looks up by name or account, or replaces, has names *)
(* that are unique.                                                         *)
LEMMA UniqueNames ==
  ASSUME TypeOK, CloudOK, NEW n \in Names,
         D(n).heals \/ D(n).lookup \in {"name", "account"} \/ D(n).update = "replace"
  PROVE  account[n] \notin TwinKinds /\ \A i, j \in Named(n) : i = j
  <1>1. account[n] # "spaces_key"
    BY DriverFacts, KindOf DEF D
  <1> QED
    BY <1>1, ServiceAssumption DEF CloudOK

(* An entry that exists is among the resources of its name.                 *)
LEMMA LedFacts ==
  ASSUME TypeOK, LedgerOK, NEW n \in Names
  PROVE  /\ Led(n) \in Ids \cup {None}
         /\ Led(n) \in live => Led(n) \in Named(n)
         /\ None \notin live
  <1>1. Led(n) \in Ids \cup {None}
    BY DEF TypeOK, LedgerOK, Led
  <1>2. None \notin live
    BY LifeCycleAssumption DEF TypeOK
  <1> QED
    BY <1>1, <1>2 DEF LedgerOK, Named

(* The id at hand, once it exists, was issued for the name at hand, and is  *)
(* what its entry stands for if that exists.                                *)
LEMMA IdRight ==
  ASSUME Safe, op.name # None, op.id \in live
  PROVE  /\ issued[op.id] = op.name
         /\ Led(op.name) \in live => Led(op.name) = op.id
  <1> DEFINE n == op.name
  <1>1. n \in Names
    BY DEF Safe, TypeOK
  <1>2. issued[op.id] = n
    BY DEF Safe, RefOK, TypeOK
  <1>3. CASE entry[n] = Legacy
    <2>1. \A i, j \in Named(n) : i = j
      BY <1>1, <1>3, UniqueNames DEF Safe, LedgerOK
    <2> QED
      BY <1>1, <1>2, <2>1, LedFacts DEF Safe, Named
  <1>4. CASE entry[n] # Legacy
    <2>1. Led(n) \in live => Led(n) = entry[n] /\ entry[n] \in Ids
      BY <1>4 DEF Led, Safe, TypeOK
    <2> QED
      BY <1>2, <2>1 DEF Safe, RefOK
  <1> QED
    BY <1>3, <1>4

(* What a Read or Delete reaches was made for the name at hand, and is what *)
(* its entry stands for if that exists.                                     *)
LEMMA ReachRight ==
  ASSUME Safe, op.name # None, NEW id \in Addressed
  PROVE  /\ id \in live /\ issued[id] = op.name
         /\ Led(op.name) \in live => Led(op.name) = id
  <1> DEFINE n == op.name
  <1>1. n \in Names
    BY DEF Safe, TypeOK
  <1>2. CASE D(n).lookup = "name"
    <2>1. id \in Named(n)
      BY <1>2 DEF Addressed, Reach
    <2>2. \A i, j \in Named(n) : i = j
      BY <1>1, <1>2, UniqueNames DEF Safe
    <2> QED
      BY <1>1, <2>1, <2>2, LedFacts DEF Safe, Named
  <1>3. CASE D(n).lookup = "account"
    <2>1. id \in live /\ account[issued[id]] = account[n]
      BY <1>3 DEF Addressed, Reach
    <2>2. account[n] = "registry"
      BY <1>1, <1>3, DriverFacts, KindOf DEF D, Safe
    <2>3. issued[id] = n
      BY <1>1, <2>1, <2>2, ServiceAssumption DEF Safe, CloudOK, TypeOK
    <2>4. \A i, j \in Named(n) : i = j
      BY <1>1, <1>3, UniqueNames DEF Safe
    <2> QED
      BY <1>1, <2>1, <2>3, <2>4, LedFacts DEF Safe, Named
  <1>4. CASE D(n).lookup \notin {"name", "account"}
    <2>1. id = op.id /\ id \in live
      BY <1>4 DEF Addressed, Reach
    <2> QED
      BY <2>1, IdRight
  <1> QED
    BY <1>2, <1>3, <1>4

(* A ref that reaches nothing by its recorded id, its name or its account   *)
(* has an entry whose resource is gone.                                     *)
LEMMA ReachNothing ==
  ASSUME Safe, op.name # None, Addressed = {}, Ghost \/ D(op.name).goneOK
  PROVE  Led(op.name) \notin live
  <1> DEFINE n == op.name
  <1>1. n \in Names
    BY DEF Safe, TypeOK
  <1>2. CASE D(n).lookup \in {"name", "account"}
    <2>1. Named(n) \subseteq Addressed
      BY <1>1, <1>2 DEF Addressed, Reach, Named
    <2> QED
      BY <1>1, <2>1, LedFacts DEF Safe
  <1>3. CASE D(n).lookup \notin {"name", "account"}
    <2>1. op.id \notin live
      BY <1>3 DEF Addressed, Reach
    <2>2. entry[n] # Legacy
      <3>1. CASE Ghost
        BY <3>1 DEF Ghost, Safe, RefOK
      <3>2. CASE D(n).goneOK
        BY <1>1, <3>2, DriverFacts, KindOf DEF D, Safe, LedgerOK
      <3> QED
        BY <3>1, <3>2
    <2> QED
      BY <1>1, <2>1, <2>2, LedFacts DEF Safe, RefOK, Led, TypeOK
  <1> QED
    BY <1>2, <1>3

---------------------------------------------------------------------------
(* The invariant.                                                           *)

LEMMA IdleFacts ==
  /\ Idle.what = None /\ Idle.todo = {} /\ Idle.name = None /\ Idle.id = None
  /\ Idle.call = None /\ Idle.done = {}
  /\ Idle \in [what : Operations \cup {None}, todo : SUBSET Names,
               name : Names \cup {None}, id : Ids \cup {None, Legacy},
               call : Calls \cup {None}, done : SUBSET Names]
  BY DEF Idle

(* At first the ledger and the cloud agree, too.                            *)
LEMMA SafeInit ==
  ASSUME Init
  PROVE  /\ Safe
         /\ \A id \in Ids : id \in live <=> issued[id] # None
         /\ \A n \in Names : Led(n) \in live \cup {None}
  <1>1. PICK old \in SUBSET {n \in OldNames : D(n).heals} :
          LET made == CHOOSE f \in [old -> Ids] : \A m, n \in old : f[m] = f[n] => m = n IN
          /\ entry = [n \in Names |-> IF n \in old THEN Legacy ELSE None]
          /\ meant = [n \in Names |-> IF n \in old THEN made[n] ELSE None]
          /\ live = {made[n] : n \in old}
          /\ issued = [id \in Ids |-> IF \E n \in old : made[n] = id
                                      THEN CHOOSE n \in old : made[n] = id ELSE None]
    BY DEF Init
  <1> DEFINE made == CHOOSE f \in [old -> Ids] : \A m, n \in old : f[m] = f[n] => m = n
  <1>2. old \subseteq Names /\ old \subseteq OldNames
    BY LifeCycleAssumption
  <1>3. made \in [old -> Ids] /\ \A m, n \in old : made[m] = made[n] => m = n
    <2>1. PICK f \in [OldNames -> Ids] : \A m, n \in OldNames : f[m] = f[n] => m = n
      BY EnoughIds
    <2> DEFINE g == [n \in old |-> f[n]]
    <2>2. g \in [old -> Ids] /\ \A m, n \in old : g[m] = g[n] => m = n
      BY <1>2, <2>1
    <2> QED
      BY <2>2
  <1> HIDE DEF made
  <1>4. /\ entry = [n \in Names |-> IF n \in old THEN Legacy ELSE None]
        /\ meant = [n \in Names |-> IF n \in old THEN made[n] ELSE None]
        /\ live = {made[n] : n \in old}
        /\ issued = [id \in Ids |-> IF \E n \in old : made[n] = id
                                    THEN CHOOSE n \in old : made[n] = id ELSE None]
    BY <1>1 DEF made
  <1>5. \A n \in old : issued[made[n]] = n
    BY <1>3, <1>4
  <1>6. \A id \in Ids : id \notin live => issued[id] = None
    BY <1>3, <1>4
  <1>7. TypeOK
    <2>1. issued \in [Ids -> Names \cup {None}]
      <3>1. \A id \in Ids : issued[id] \in Names \cup {None}
        BY <1>2, <1>4, <1>5, <1>6
      <3> QED
        BY <1>4, <3>1
    <2>2. /\ entry \in [Names -> Ids \cup {None, Legacy}] /\ meant \in [Names -> Ids \cup {None}]
          /\ live \subseteq Ids
      BY <1>2, <1>3, <1>4
    <2>3. spent \in [faults : 0 .. MaxFaults, outside : 0 .. MaxOutside]
      BY LifeCycleAssumption DEF Init
    <2> QED
      BY <2>1, <2>2, <2>3, IdleFacts DEF TypeOK, Init
  <1>8. CloudOK
    BY <1>2, <1>4, <1>5 DEF CloudOK, Named
  <1>9. LedgerOK
    <2> SUFFICES ASSUME NEW n \in Names
                 PROVE  /\ Led(n) # None => issued[Led(n)] = n
                        /\ entry[n] = Legacy => meant[n] \in Ids /\ D(n).heals
      BY DEF LedgerOK
    <2> QED
      BY <1>3, <1>4, <1>5, LifeCycleAssumption DEF Led
  <1>10. \A n \in Names : Led(n) \in live \cup {None}
    BY <1>4, LifeCycleAssumption DEF Led
  <1>11. \A id \in Ids : id \in live <=> issued[id] # None
    BY <1>6, <1>8, LifeCycleAssumption DEF CloudOK
  <1>12. OpOK /\ RefOK
    BY IdleFacts, LifeCycleAssumption DEF OpOK, RefOK, Pending, Init
  <1> QED
    BY <1>7, <1>8, <1>9, <1>10, <1>11, <1>12 DEF Safe

(* The cloud and the host's state stand as they were.                       *)
Still == UNCHANGED <<account, entry, meant, cloud>>

LEMMA StillKeeps ==
  ASSUME Safe, Still
  PROVE  CloudOK' /\ LedgerOK' /\ \A n \in Names : Led(n)' = Led(n)
  BY DEF Safe, Still, cloud, CloudOK, LedgerOK, Led, Named, D

(* A result that ends the operation leaves nothing to agree on.             *)
LEMMA IdleKeeps ==
  ASSUME op' = Idle
  PROVE  OpOK' /\ RefOK'
  BY IdleFacts, LifeCycleAssumption DEF OpOK, RefOK, Pending

LEMMA RequestSafe == ASSUME Safe, Request PROVE Safe' /\ Still
  <1>1. ASSUME NEW what \in Operations, NEW todo \in SUBSET Names, Begin(what, todo),
               what = "create" => \A n \in todo : entry[n] = None,
               (\E n \in todo : what = "create" \/ (what = "update" /\ D(n).update = "replace"))
                  => Spare # {},
               what # "import"
        PROVE  Safe' /\ Still
    <2>1. /\ op' = [Idle EXCEPT !.what = what, !.todo = todo] /\ Still /\ UNCHANGED spent
      BY <1>1 DEF Begin, Still
    <2>2. /\ op'.what = what /\ op'.todo = todo /\ op'.name = None /\ op'.call = None
          /\ op'.done = {} /\ TypeOK'
      BY <2>1 DEF Idle, Safe, TypeOK, Still, cloud
    <2>3. Pending' = todo
      BY <2>2, LifeCycleAssumption DEF Pending
    <2>4. OpOK'
      BY <1>1, <2>1, <2>2, <2>3 DEF OpOK, Spare, Replacing, D, Still, cloud
    <2> QED
      BY <2>1, <2>2, <2>4, StillKeeps DEF Safe, RefOK
  <1>2. ASSUME NEW n \in Names, RequestCreate(n) PROVE Safe' /\ Still
    BY <1>1, <1>2 DEF RequestCreate, Operations
  <1>3. ASSUME NEW n \in Names, RequestUpdate(n) PROVE Safe' /\ Still
    BY <1>1, <1>3 DEF RequestUpdate, Operations
  <1>4. ASSUME NEW n \in Names, RequestScale(n) PROVE Safe' /\ Still
    BY <1>1, <1>4 DEF RequestScale, Operations
  <1>5. ASSUME NEW S \in SUBSET Names, RequestDestroy(S) PROVE Safe' /\ Still
    BY <1>1, <1>5 DEF RequestDestroy, Operations
  <1>6. ASSUME RequestDrift PROVE Safe' /\ Still
    BY <1>1, <1>6 DEF RequestDrift, Operations, Recorded
  <1>7. ASSUME NEW n \in Names, NEW id \in Ids, RequestImport(n, id) PROVE Safe' /\ Still
    <2>1. /\ op' = [Idle EXCEPT !.what = "import", !.name = n, !.id = id, !.call = "read"]
          /\ Still /\ UNCHANGED spent /\ entry[n] = None /\ issued[id] = n
      BY <1>7 DEF RequestImport, Still
    <2>2. /\ op'.what = "import" /\ op'.todo = {} /\ op'.name = n /\ op'.id = id
          /\ op'.call = "read" /\ op'.done = {}
      BY <2>1 DEF Idle
    <2>3. TypeOK'
      BY <2>1, ZenonT(60) DEF Idle, Safe, TypeOK, Still, cloud, Operations, Calls
    <2>4. Pending' = {n}
      BY <2>2 DEF Pending
    <2>5. OpOK' /\ RefOK'
      BY <2>1, <2>2, <2>4, LifeCycleAssumption DEF OpOK, RefOK, Replacing, Still, cloud
    <2> QED
      BY <2>1, <2>3, <2>5, StillKeeps DEF Safe
  <1> QED
    BY <1>2, <1>3, <1>4, <1>5, <1>6, <1>7 DEF Request

OpStates == [what : Operations \cup {None}, todo : SUBSET Names,
             name : Names \cup {None}, id : Ids \cup {None, Legacy},
             call : Calls \cup {None}, done : SUBSET Names]

(* Resources may cease to exist, the rest stands as it was.                 *)
Fewer == live' \subseteq live /\ UNCHANGED <<account, entry, meant, issued>>

LEMMA FewerKeeps ==
  ASSUME Safe, Fewer
  PROVE  /\ CloudOK' /\ LedgerOK' /\ Spare' = Spare
         /\ \A n \in Names : Led(n)' = Led(n)
         /\ \A n \in op.done : Led(n) \notin live'
  BY DEF Safe, Fewer, CloudOK, LedgerOK, OpOK, Led, Named, D, Spare

LEMMA FaultType ==
  ASSUME Safe, Fault
  PROVE  spent' \in [faults : 0 .. MaxFaults, outside : 0 .. MaxOutside]
  BY LifeCycleAssumption DEF Safe, TypeOK, Fault

(* The ref at hand is dealt with; what joins the result is gone.            *)
LEMMA NextRefKeeps ==
  ASSUME Safe, Fewer, NEW result \in SUBSET Names, NextRef(result),
         \A n \in result : Led(n) \notin live'
  PROVE  OpOK' /\ RefOK' /\ op' \in OpStates
  <1>1. op \in OpStates
    BY DEF Safe, TypeOK, OpStates
  <1>2. /\ op'.what = op.what /\ op'.todo = op.todo /\ op'.name = None /\ op'.call = None
        /\ op'.done = op.done \cup result /\ op' \in OpStates
    BY <1>1 DEF NextRef, OpStates
  <1>3. Pending' \subseteq Pending
    BY <1>2, LifeCycleAssumption DEF Pending
  <1>4. op'.done \subseteq Names
    BY <1>2 DEF OpStates
  <1>5. \A n \in op'.done : Led(n)' \notin live'
    BY <1>2, <1>4, FewerKeeps
  <1>6. /\ op'.what \in {"create", "import"} => \A n \in Pending' : entry'[n] = None
        /\ (\E n \in Pending' : op'.what = "create" \/ Replacing(n)') => Spare' # {}
    BY <1>2, <1>3, FewerKeeps DEF Safe, OpOK, Replacing, D, Fewer
  <1> QED
    BY <1>2, <1>5, <1>6 DEF OpOK, RefOK

LEMMA FailedKeeps ==
  ASSUME Safe, Fewer, Failed
  PROVE  OpOK' /\ RefOK' /\ op' \in OpStates
  <1>1. CASE op' = Idle
    BY <1>1, IdleKeeps, IdleFacts DEF OpStates
  <1>2. CASE NextRef({})
    BY <1>2, NextRefKeeps
  <1> QED
    BY <1>1, <1>2 DEF Failed

(* The operation goes on with the same ref and result, with another call.   *)
LEMMA SameRefKeeps ==
  ASSUME Safe, Fewer, op.name # None,
         NEW id \in Ids \cup {None, Legacy}, NEW next \in Calls,
         op' = [op EXCEPT !.id = id, !.call = next],
         id \in Ids => issued[id] = op.name,
         entry[op.name] \in Ids => id = entry[op.name],
         op.what = "drift" => id = entry[op.name],
         next # "heal",
         next = "find" => op.what = "create",
         next = "create" => op.what = "create" \/ Replacing(op.name),
         next = "delete" => op.what = "destroy" \/ Replacing(op.name)
  PROVE  OpOK' /\ RefOK' /\ op' \in OpStates
  <1>1. op \in OpStates
    BY DEF Safe, TypeOK, OpStates
  <1>2. /\ op'.what = op.what /\ op'.todo = op.todo /\ op'.name = op.name /\ op'.call = next
        /\ op'.id = id /\ op'.done = op.done /\ op' \in OpStates
    BY <1>1 DEF OpStates
  <1>3. /\ Pending' = Pending /\ op.done \subseteq Names
        /\ \A n : Replacing(n)' = Replacing(n)
    BY <1>1, <1>2 DEF Pending, OpStates, Replacing, D, Fewer
  <1>4. OpOK'
    BY <1>2, <1>3, FewerKeeps DEF Safe, OpOK, Fewer
  <1>5. RefOK'
    BY <1>2, <1>3 DEF RefOK, Fewer
  <1> QED
    BY <1>2, <1>4, <1>5

LEMMA TakeSafe == ASSUME Safe, NEW n \in Names, Take(n) PROVE Safe' /\ Still
  <1> DEFINE next == resolveProviderID(op.what, n)
  <1>1. /\ op \in OpStates /\ n \in op.todo /\ op.name = None /\ Still /\ UNCHANGED spent
        /\ op' = [op EXCEPT !.todo = @ \ {n}, !.name = n, !.id = entry[n], !.call = next]
    BY DEF Take, Still, Safe, TypeOK, OpStates
  <1>2. /\ next \in Calls
        /\ next = "heal" => entry[n] = Legacy /\ op.what # "drift"
        /\ next # "find"
        /\ next = "create" => op.what = "create"
        /\ next = "delete" => op.what = "destroy" \/ Replacing(n)
    BY DEF resolveProviderID, MainCall, Calls, Replacing
  <1>3. entry[n] \in Ids \cup {None, Legacy}
    BY DEF Safe, TypeOK
  <1> HIDE DEF next
  <1>4. /\ op'.what = op.what /\ op'.todo = op.todo \ {n} /\ op'.name = n /\ op'.call = next
        /\ op'.id = entry[n] /\ op'.done = op.done /\ op' \in OpStates
    BY <1>1, <1>2, <1>3 DEF OpStates
  <1>5. /\ Pending' = Pending /\ op.done \subseteq Names
        /\ \A m : Replacing(m)' = Replacing(m)
    BY <1>1, <1>4, LifeCycleAssumption DEF Pending, OpStates, Replacing, D, Still, cloud
  <1>6. Fewer
    BY <1>1 DEF Still, Fewer, cloud
  <1>7. OpOK'
    BY <1>1, <1>4, <1>5, <1>6, FewerKeeps, LifeCycleAssumption DEF Safe, OpOK, Fewer
  <1>8. RefOK'
    <2>1. entry[n] \in Ids => issued[entry[n]] = n
      BY LifeCycleAssumption DEF Safe, LedgerOK, Led
    <2> QED
      BY <1>2, <1>4, <1>5, <1>6, <2>1 DEF RefOK, Fewer
  <1> QED
    BY <1>1, <1>4, <1>6, <1>7, <1>8, FewerKeeps DEF Safe, TypeOK, Still, cloud, OpStates

LEMMA FindByNameSafe == ASSUME Safe, FindByName PROVE Safe' /\ Still
  <1>1. /\ Still /\ Fewer /\ UNCHANGED spent /\ op.call \in {"heal", "find"} /\ op.name # None
    BY LifeCycleAssumption DEF FindByName, Still, Fewer, cloud, Safe, OpOK, Calls
  <1>2. ASSUME NEW id \in Named(op.name),
               op' = [op EXCEPT !.id = id, !.call = IF op.call = "find" THEN "put"
                                                    ELSE MainCall(op.what, op.name)]
        PROVE  OpOK' /\ RefOK' /\ op' \in OpStates
    <2> DEFINE next == IF op.call = "find" THEN "put" ELSE MainCall(op.what, op.name)
    <2>1. /\ next \in Calls /\ next # "heal" /\ next # "find"
          /\ next = "create" => op.what = "create"
          /\ next = "delete" => op.what = "destroy" \/ Replacing(op.name)
      BY DEF MainCall, Calls, Replacing
    <2>2. id \in Ids /\ issued[id] = op.name
      BY DEF Safe, TypeOK, Named
    <2>3. entry[op.name] \notin Ids
      <3>1. CASE op.call = "heal"
        BY <1>1, <3>1, LifeCycleAssumption DEF Safe, RefOK
      <3>2. CASE op.call = "find"
        BY <1>1, <3>2, LifeCycleAssumption DEF Safe, RefOK, OpOK, Pending, TypeOK
      <3> QED
        BY <1>1, <3>1, <3>2
    <2>4. op.what # "drift"
      BY <1>1 DEF Safe, RefOK
    <2> HIDE DEF next
    <2> QED
      BY <1>1, <1>2, <2>1, <2>2, <2>3, <2>4, SameRefKeeps DEF next
  <1>3. OpOK' /\ RefOK' /\ op' \in OpStates
    BY <1>1, <1>2, FailedKeeps DEF FindByName
  <1> QED
    BY <1>1, <1>3, FewerKeeps DEF Safe, TypeOK, Still, cloud, OpStates

(* A new resource for a name that is free, or may be shared.                *)
LEMMA IssueKeeps ==
  ASSUME Safe, Spare # {}, NEW n \in Names, Issue(n), UNCHANGED <<account, meant>>,
         Named(n) = {} \/ account[n] \in TwinKinds,
         \A m \in Names \ {n} : entry'[m] = entry[m],
         entry'[n] \in {entry[n], NewId}
  PROVE  /\ CloudOK' /\ LedgerOK' /\ live' \subseteq Ids
         /\ issued' \in [Ids -> Names \cup {None}]
         /\ NewId \in Ids /\ issued[NewId] = None /\ NewId \notin live
         /\ \A id \in Ids : issued[id] # None => issued'[id] = issued[id]
         /\ \A m \in Names : Led(m)' = Led(m) /\ Led(m) \notin live => Led(m)' \notin live'
         /\ Spare' = Spare \ {NewId}
  <1>1. NewId \in Ids /\ issued[NewId] = None
    BY DEF NewId, Spare
  <1>2. live \subseteq Ids /\ issued \in [Ids -> Names \cup {None}]
    BY DEF Safe, TypeOK
  <1>3. NewId \notin live
    BY <1>1, LifeCycleAssumption DEF Safe, CloudOK
  <1>4. /\ live' = live \cup {NewId} /\ issued' = [issued EXCEPT ![NewId] = n]
        /\ issued' \in [Ids -> Names \cup {None}]
    BY <1>1, <1>2 DEF Issue
  <1>5. \A id \in Ids : issued[id] # None => issued'[id] = issued[id]
    BY <1>1, <1>2, <1>4
  <1>6. issued'[NewId] = n
    BY <1>1, <1>2, <1>4
  <1>7. CloudOK'
    <2>1. \A id \in live' : issued'[id] \in Names
      BY <1>2, <1>4, <1>5, <1>6, LifeCycleAssumption DEF Safe, CloudOK
    <2>2. ASSUME NEW m \in Names, account[m] \notin TwinKinds,
                 NEW i \in live', NEW j \in live', issued'[i] = m, issued'[j] = m
          PROVE  i = j
      <3>1. CASE m = n
        BY <1>2, <1>4, <2>2, <3>1 DEF Named
      <3>2. CASE m # n
        BY <1>2, <1>4, <1>6, <2>2, <3>2 DEF Named, Safe, CloudOK
      <3> QED
        BY <3>1, <3>2
    <2> QED
      BY <2>1, <2>2 DEF CloudOK, Named
  <1>8. LedgerOK'
    <2> SUFFICES ASSUME NEW m \in Names
                 PROVE  /\ Led(m)' # None => issued'[Led(m)'] = m
                        /\ entry'[m] = Legacy => meant'[m] \in Ids /\ D(m)'.heals
      BY DEF LedgerOK
    <2>1. CASE entry'[m] = entry[m]
      <3>1. Led(m)' = Led(m) /\ D(m)' = D(m) /\ meant'[m] = meant[m]
        BY <2>1 DEF Led, D
      <3>2. Led(m) # None => issued'[Led(m)] = m
        BY <1>5, LedFacts, LifeCycleAssumption DEF Safe, LedgerOK
      <3> QED
        BY <2>1, <3>1, <3>2 DEF Safe, LedgerOK
    <2>2. CASE m = n /\ entry'[m] = NewId
      BY <1>1, <1>6, <2>2, LifeCycleAssumption DEF Led
    <2> QED
      BY <2>1, <2>2
  <1>9. \A m \in Names : Led(m)' = Led(m) /\ Led(m) \notin live => Led(m)' \notin live'
    <2> SUFFICES ASSUME NEW m \in Names, Led(m) \notin live PROVE Led(m) # NewId
      BY <1>4
    <2> QED
      BY <1>1, LifeCycleAssumption DEF Safe, LedgerOK
  <1>10. live' \subseteq Ids
    BY <1>1, <1>2, <1>4
  <1>11. Spare' = Spare \ {NewId}
    BY <1>1, <1>2, <1>4, <1>6, LifeCycleAssumption DEF Spare
  <1> QED
    BY <1>1, <1>3, <1>4, <1>5, <1>7, <1>8, <1>9, <1>10, <1>11

(* A name that Create finds free, or that may be shared, has no entry whose *)
(* resource exists.                                                         *)
LEMMA CreateRight ==
  ASSUME Safe, op.call = "create", Named(op.name) = {} \/ account[op.name] \in TwinKinds
  PROVE  /\ op.name \in Names /\ Spare # {}
         /\ Led(op.name) \notin live
  <1>1. op.name \in Names
    BY LifeCycleAssumption DEF Safe, TypeOK, OpOK, Calls
  <1>2. op.what = "create" \/ Replacing(op.name)
    BY <1>1, LifeCycleAssumption DEF Safe, RefOK
  <1>3. Spare # {}
    BY <1>1, <1>2 DEF Safe, OpOK, Pending
  <1>4. CASE op.what = "create"
    <2>1. Led(op.name) = None
      BY <1>1, <1>4, LifeCycleAssumption DEF Safe, OpOK, Pending, Led
    <2> QED
      BY <1>1, <1>3, <2>1, LedFacts DEF Safe
  <1>5. CASE Replacing(op.name)
    <2>1. account[op.name] \notin TwinKinds
      BY <1>1, <1>5, UniqueNames DEF Safe, Replacing
    <2> QED
      BY <1>1, <1>3, <2>1, LedFacts DEF Safe
  <1> QED
    BY <1>2, <1>4, <1>5

LEMMA CreateCallSafe == ASSUME Safe, CreateCall PROVE Safe'
  <1>1. /\ op.call = "create" /\ op.name # None /\ op.name \in Names
        /\ UNCHANGED <<account, meant, spent>>
    BY LifeCycleAssumption DEF CreateCall, Safe, OpOK, Calls, TypeOK
  <1>2. CASE Named(op.name) # {} /\ account[op.name] \notin TwinKinds
    <2>1. Fewer /\ UNCHANGED live
      BY <1>2 DEF CreateCall, Fewer, cloud
    <2>2. CASE op' = Idle
      BY <1>1, <2>1, <2>2, IdleKeeps, IdleFacts, FewerKeeps DEF Safe, TypeOK, Fewer
    <2>3. CASE D(op.name).upsert /\ op' = [op EXCEPT !.call = "find"]
      <3>1. op.what = "create"
        BY <1>1, <2>3, DriverFacts, KindOf DEF Safe, RefOK, Replacing, D
      <3>2. op' = [op EXCEPT !.id = op.id, !.call = "find"] /\ op.id \in Ids \cup {None, Legacy}
        BY <2>3 DEF Safe, TypeOK
      <3>3. OpOK' /\ RefOK' /\ op' \in OpStates
        BY <1>1, <2>1, <3>1, <3>2, SameRefKeeps DEF Safe, RefOK, Calls
      <3> QED
        BY <1>1, <2>1, <3>3, FewerKeeps DEF Safe, TypeOK, Fewer, OpStates
    <2> QED
      BY <1>2, <2>2, <2>3 DEF CreateCall
  <1>3. CASE Named(op.name) = {} \/ account[op.name] \in TwinKinds
    <2>1. Issue(op.name) /\ Record(NewId)
      BY <1>3 DEF CreateCall
    <2>2. /\ entry' = [entry EXCEPT ![op.name] = NewId] /\ op' = Idle
          /\ entry \in [Names -> Ids \cup {None, Legacy}]
      BY <2>1 DEF Record, Safe, TypeOK
    <2>3. /\ CloudOK' /\ LedgerOK' /\ live' \subseteq Ids /\ NewId \in Ids
          /\ issued' \in [Ids -> Names \cup {None}]
      BY <1>1, <1>3, <2>1, <2>2, CreateRight, IssueKeeps
    <2>4. entry' \in [Names -> Ids \cup {None, Legacy}]
      BY <2>2, <2>3
    <2> QED
      BY <1>1, <2>2, <2>3, <2>4, IdleKeeps, IdleFacts DEF Safe, TypeOK
  <1> QED
    BY <1>2, <1>3

LEMMA CreateLostSafe == ASSUME Safe, CreateLost PROVE Safe'
  <1>1. /\ op.name \in Names /\ Spare # {} /\ Issue(op.name) /\ op' = Idle
        /\ Named(op.name) = {} \/ account[op.name] \in TwinKinds
        /\ UNCHANGED <<account, entry, meant>>
    BY CreateRight DEF CreateLost
  <1>2. /\ CloudOK' /\ LedgerOK' /\ live' \subseteq Ids
        /\ issued' \in [Ids -> Names \cup {None}]
    BY <1>1, IssueKeeps
  <1>3. spent' \in [faults : 0 .. MaxFaults, outside : 0 .. MaxOutside]
    BY FaultType DEF CreateLost
  <1> QED
    BY <1>1, <1>2, <1>3, IdleKeeps, IdleFacts DEF Safe, TypeOK

(* A resource that exists and was made for the name at hand is recorded.    *)
LEMMA RecordKeeps ==
  ASSUME Safe, op.name # None, NEW id \in live, issued[id] = op.name, Record(id),
         UNCHANGED <<account, meant, cloud, spent>>
  PROVE  Safe'
  <1>1. /\ entry' = [entry EXCEPT ![op.name] = id] /\ op' = Idle /\ op.name \in Names /\ id \in Ids
        /\ entry \in [Names -> Ids \cup {None, Legacy}]
    BY DEF Record, Safe, TypeOK
  <1>2. LedgerOK'
    <2> SUFFICES ASSUME NEW m \in Names
                 PROVE  /\ Led(m)' # None => issued'[Led(m)'] = m
                        /\ entry'[m] = Legacy => meant'[m] \in Ids /\ D(m)'.heals
      BY DEF LedgerOK
    <2>1. CASE m = op.name
      BY <1>1, <2>1, LifeCycleAssumption DEF Led, cloud
    <2>2. CASE m # op.name
      <3>1. entry'[m] = entry[m] /\ Led(m)' = Led(m) /\ D(m)' = D(m)
        BY <1>1, <2>2 DEF Led, D
      <3> QED
        BY <3>1 DEF Safe, LedgerOK, cloud
    <2> QED
      BY <2>1, <2>2
  <1>3. CloudOK'
    BY DEF Safe, CloudOK, Named, cloud
  <1> QED
    BY <1>1, <1>2, <1>3, IdleKeeps, IdleFacts DEF Safe, TypeOK, cloud

LEMMA CallHasName ==
  ASSUME Safe, op.call # None
  PROVE  op.name # None /\ op.name \in Names
  BY DEF Safe, OpOK, TypeOK

LEMMA PutCallSafe == ASSUME Safe, PutCall PROVE Safe'
  <1>1. op.name # None /\ op.name \in Names /\ UNCHANGED <<account, meant, cloud, spent>>
    BY CallHasName, LifeCycleAssumption DEF PutCall, Calls
  <1>2. CASE op' = Idle /\ UNCHANGED entry
    BY <1>1, <1>2, IdleKeeps, IdleFacts, StillKeeps DEF Safe, TypeOK, Still, cloud
  <1>3. CASE op.id \in live /\ Record(op.id)
    BY <1>1, <1>3, RecordKeeps DEF Safe, RefOK, TypeOK
  <1>4. CASE op' = [op EXCEPT !.call = "read"] /\ UNCHANGED entry
    <2>1. op' = [op EXCEPT !.id = op.id, !.call = "read"] /\ op.id \in Ids \cup {None, Legacy}
      BY <1>4 DEF Safe, TypeOK
    <2>2. Fewer
      BY <1>1, <1>4 DEF Fewer, cloud
    <2>3. OpOK' /\ RefOK' /\ op' \in OpStates
      BY <1>1, <2>1, <2>2, SameRefKeeps DEF Safe, RefOK, Calls
    <2> QED
      BY <1>1, <2>2, <2>3, FewerKeeps DEF Safe, TypeOK, Fewer, OpStates, cloud
  <1> QED
    BY <1>2, <1>3, <1>4 DEF PutCall

LEMMA ReadCallSafe == ASSUME Safe, ReadCall PROVE Safe'
  <1>1. op.name # None /\ op.name \in Names /\ UNCHANGED <<account, meant, cloud, spent>>
    BY CallHasName, LifeCycleAssumption DEF ReadCall, Calls
  <1>2. ASSUME NEW id \in Addressed, Record(id) PROVE Safe'
    BY <1>1, <1>2, ReachRight, RecordKeeps
  <1>3. ASSUME UNCHANGED entry, OpOK' /\ RefOK' /\ op' \in OpStates PROVE Safe'
    BY <1>1, <1>3, StillKeeps DEF Safe, TypeOK, OpStates, Still, cloud
  <1>4. CASE NextRef({}) /\ UNCHANGED entry
    BY <1>1, <1>3, <1>4, NextRefKeeps DEF Fewer, cloud
  <1>5. CASE Addressed = {} /\ Ghost /\ NextRef({op.name}) /\ UNCHANGED entry
    BY <1>1, <1>3, <1>5, ReachNothing, NextRefKeeps DEF Fewer, cloud
  <1>6. CASE op' = Idle /\ UNCHANGED entry
    BY <1>3, <1>6, IdleKeeps, IdleFacts DEF OpStates
  <1> QED
    BY <1>2, <1>4, <1>5, <1>6 DEF ReadCall

LEMMA DeleteRight ==
  ASSUME Safe, op.call = "delete", NEW id \in Addressed, live' = live \ {id},
         UNCHANGED <<account, entry, meant, issued>>
  PROVE  /\ op.name # None /\ op.name \in Names /\ Fewer
         /\ Led(op.name) \notin live'
  <1>1. op.name # None /\ op.name \in Names
    BY CallHasName, LifeCycleAssumption DEF Calls
  <1> QED
    BY <1>1, ReachRight DEF Fewer

LEMMA DeleteCallSafe == ASSUME Safe, DeleteCall PROVE Safe'
  <1>1. /\ op.name # None /\ op.name \in Names /\ op.call = "delete"
        /\ UNCHANGED <<account, entry, meant, issued, spent>>
    BY CallHasName, LifeCycleAssumption DEF DeleteCall, Calls
  <1>2. ASSUME Fewer, OpOK' /\ RefOK' /\ op' \in OpStates PROVE Safe'
    BY <1>1, <1>2, FewerKeeps DEF Safe, TypeOK, OpStates, Fewer
  <1>3. ASSUME NEW id \in Addressed, live' = live \ {id}, Deleted PROVE Safe'
    <2>1. Fewer /\ Led(op.name) \notin live'
      BY <1>1, <1>3, DeleteRight
    <2>2. CASE op.what = "update"
      <3>1. op' = [op EXCEPT !.id = op.id, !.call = "create"] /\ op.id \in Ids \cup {None, Legacy}
        BY <1>3, <2>2 DEF Deleted, Safe, TypeOK
      <3>2. Replacing(op.name)
        BY <1>1, <2>2 DEF Safe, RefOK
      <3> QED
        BY <1>1, <1>2, <2>1, <3>1, <3>2, SameRefKeeps DEF Safe, RefOK, Calls
    <2>3. CASE op.what # "update"
      BY <1>1, <1>2, <1>3, <2>1, <2>3, NextRefKeeps DEF Deleted
    <2> QED
      BY <2>2, <2>3
  <1>4. CASE Addressed = {} /\ D(op.name).goneOK /\ NextRef({op.name}) /\ UNCHANGED live
    BY <1>1, <1>2, <1>4, ReachNothing, NextRefKeeps DEF Fewer
  <1>5. CASE Failed /\ UNCHANGED live
    BY <1>1, <1>2, <1>5, FailedKeeps DEF Fewer
  <1> QED
    BY <1>3, <1>4, <1>5 DEF DeleteCall

LEMMA DeleteLostSafe == ASSUME Safe, DeleteLost PROVE Safe'
  <1>1. Fewer /\ Failed /\ live' \subseteq live /\ Fault
    BY DEF DeleteLost, Fewer
  <1> QED
    BY <1>1, FailedKeeps, FewerKeeps, FaultType DEF Safe, TypeOK, OpStates, Fewer

LEMMA CallFailsSafe == ASSUME Safe, CallFails PROVE Safe' /\ Still
  <1>1. Fewer /\ Still /\ Failed /\ Fault
    BY DEF CallFails, Fewer, Still, cloud
  <1> QED
    BY <1>1, FailedKeeps, FewerKeeps, FaultType DEF Safe, TypeOK, OpStates, Fewer

LEMMA ReportSafe == ASSUME Safe, Report PROVE Safe'
  <1>1. /\ entry' = [n \in Names |-> IF n \in op.done THEN None ELSE entry[n]] /\ op' = Idle
        /\ UNCHANGED <<account, meant, cloud, spent>>
        /\ entry \in [Names -> Ids \cup {None, Legacy}]
    BY DEF Report, Safe, TypeOK
  <1>2. LedgerOK'
    <2> SUFFICES ASSUME NEW m \in Names
                 PROVE  /\ Led(m)' # None => issued'[Led(m)'] = m
                        /\ entry'[m] = Legacy => meant'[m] \in Ids /\ D(m)'.heals
      BY DEF LedgerOK
    <2>1. CASE m \in op.done
      BY <1>1, <2>1, LifeCycleAssumption DEF Led
    <2>2. CASE m \notin op.done
      <3>1. entry'[m] = entry[m] /\ Led(m)' = Led(m) /\ D(m)' = D(m)
        BY <1>1, <2>2 DEF Led, D
      <3> QED
        BY <1>1, <3>1 DEF Safe, LedgerOK, cloud
    <2> QED
      BY <2>1, <2>2
  <1>3. CloudOK'
    BY <1>1 DEF Safe, CloudOK, Named, cloud
  <1> QED
    BY <1>1, <1>2, <1>3, IdleKeeps, IdleFacts DEF Safe, TypeOK, cloud

LEMMA HostDiesSafe == ASSUME Safe, HostDies PROVE Safe' /\ Still
  <1>1. op' = Idle /\ Still /\ Fault
    BY DEF HostDies, Still
  <1> QED
    BY <1>1, StillKeeps, IdleKeeps, IdleFacts, FaultType DEF Safe, TypeOK, Still, cloud

LEMMA OutsideSafe == ASSUME Safe, Outside PROVE Safe'
  <1>1. /\ UNCHANGED <<account, entry, meant, op>>
        /\ spent' \in [faults : 0 .. MaxFaults, outside : 0 .. MaxOutside]
    BY LifeCycleAssumption DEF Outside, Safe, TypeOK
  <1>2. op \in OpStates /\ op.done \subseteq Names
    BY DEF Safe, TypeOK, OpStates
  <1>3. ASSUME NEW id \in live, live' = live \ {id}, UNCHANGED issued PROVE Safe'
    <2>1. Fewer
      BY <1>1, <1>3 DEF Fewer
    <2>2. OpOK'
      BY <1>1, <1>2, <2>1, FewerKeeps DEF Safe, OpOK, Pending, Replacing, D, Fewer
    <2>3. RefOK'
      BY <1>1, <1>3 DEF Safe, RefOK, Replacing, D
    <2> QED
      BY <1>1, <2>1, <2>2, <2>3, FewerKeeps DEF Safe, TypeOK, Fewer
  <1>4. ASSUME NEW n \in Names, Named(n) = {} \/ account[n] \in TwinKinds,
               Cardinality(Spare) > 1, Issue(n)
        PROVE  Safe'
    <2>1. Spare # {} /\ Spare \ {NewId} # {}
      <3>1. Cardinality({}) = 0 /\ Cardinality({NewId}) = 1
        BY FS_EmptySet, FS_Singleton
      <3>2. Spare # {}
        BY <1>4, <3>1
      <3>3. Spare # {NewId}
        BY <1>4, <3>1
      <3> QED
        BY <3>2, <3>3
    <2>2. /\ CloudOK' /\ LedgerOK' /\ live' \subseteq Ids
          /\ issued' \in [Ids -> Names \cup {None}]
          /\ \A i \in Ids : issued[i] # None => issued'[i] = issued[i]
          /\ \A m \in Names : Led(m)' = Led(m) /\ Led(m) \notin live => Led(m)' \notin live'
          /\ Spare' = Spare \ {NewId}
      BY <1>1, <1>4, <2>1, IssueKeeps
    <2>3. \A m \in Names : Led(m)' = Led(m)
      BY <1>1 DEF Led
    <2>4. OpOK'
      BY <1>1, <1>2, <2>1, <2>2, <2>3 DEF Safe, OpOK, Pending, Replacing, D
    <2>5. RefOK'
      BY <1>1, <2>2, LifeCycleAssumption DEF Safe, RefOK, Replacing, D, TypeOK
    <2> QED
      BY <1>1, <2>2, <2>4, <2>5 DEF Safe, TypeOK
  <1> QED
    BY <1>3, <1>4 DEF Outside

LEMMA SafeNext == ASSUME Safe, [Next]_vars PROVE Safe'
  <1>1. ASSUME Step PROVE Safe'
    BY <1>1, TakeSafe, FindByNameSafe, CreateCallSafe, PutCallSafe, ReadCallSafe, DeleteCallSafe,
       ReportSafe DEF Step
  <1>2. ASSUME UNCHANGED vars PROVE Safe'
    BY <1>2 DEF vars, cloud, Safe, TypeOK, CloudOK, LedgerOK, OpOK, RefOK, Led, Named, Spare, D,
       Pending, Replacing
  <1> QED
    BY <1>1, <1>2, RequestSafe, CreateLostSafe, DeleteLostSafe, CallFailsSafe, HostDiesSafe,
       OutsideSafe DEF Next

(* The invariant of the provider's operations, for every account.           *)
THEOREM SafeAlways == Spec => []Safe
  BY SafeInit, SafeNext, PTL DEF Spec

---------------------------------------------------------------------------
(* The refinement: each step is one of the ledger's, or leaves it alone.    *)

LEMMA LedgerStill ==
  ASSUME Still
  PROVE  UNCHANGED Ledger!vars
  BY DEF Still, cloud, Ledger!vars

LEMMA LedgerInit == ASSUME Init PROVE Ledger!Init
  BY SafeInit DEF Ledger!Init, Safe, TypeOK, LedgerOK, Led

(* A resource that exists is entered under the name it was made for.        *)
LEMMA LedgerEnters ==
  ASSUME Safe, NEW n \in Names, NEW id \in live, issued[id] = n,
         Led(n) \in live => Led(n) = id,
         entry' = [entry EXCEPT ![n] = id], UNCHANGED <<meant, live, issued>>
  PROVE  Ledger!Next
  <1>1. /\ id \in Ids /\ id # Legacy /\ entry \in [Names -> Ids \cup {None, Legacy}]
    BY LifeCycleAssumption DEF Safe, TypeOK
  <1>2. Ledger!Enter(n, id)
    BY <1>1 DEF Ledger!Enter, Ledger!Free, Led
  <1> QED
    BY <1>1, <1>2 DEF Ledger!Next

(* A resource is made, and entered or not.                                  *)
LEMMA LedgerIssues ==
  ASSUME Safe, Spare # {}, NEW n \in Names, Issue(n), UNCHANGED meant,
         \/ UNCHANGED entry
         \/ entry' = [entry EXCEPT ![n] = NewId] /\ Led(n) \notin live
  PROVE  Ledger!Next
  <1>1. /\ NewId \in Ids /\ issued[NewId] = None /\ NewId # Legacy
        /\ entry \in [Names -> Ids \cup {None, Legacy}]
    BY LifeCycleAssumption DEF NewId, Spare, Safe, TypeOK
  <1>2. PICK id \in Ids : id = NewId
    BY <1>1
  <1>3. CASE UNCHANGED entry
    <2>1. Ledger!Appear(n, id)
      BY <1>1, <1>2, <1>3 DEF Ledger!Appear, Issue
    <2> QED
      BY <2>1 DEF Ledger!Next
  <1>4. CASE entry' = [entry EXCEPT ![n] = NewId] /\ Led(n) \notin live
    <2>1. Ledger!Provision(n, id)
      BY <1>1, <1>2, <1>4 DEF Ledger!Provision, Ledger!Free, Led, Issue
    <2> QED
      BY <2>1 DEF Ledger!Next
  <1> QED
    BY <1>3, <1>4

(* A resource ceases to exist.                                              *)
LEMMA LedgerVanishes ==
  ASSUME Safe, NEW id \in live, live' = live \ {id}, UNCHANGED <<entry, meant, issued>>
  PROVE  Ledger!Next
  <1>1. id \in Ids
    BY DEF Safe, TypeOK
  <1>2. Ledger!Vanish(id)
    BY DEF Ledger!Vanish
  <1> QED
    BY <1>1, <1>2 DEF Ledger!Next

LEMMA LedgerSteps == ASSUME Safe, [Next]_vars PROVE [Ledger!Next]_(Ledger!vars)
  <1>1. ASSUME CreateCall PROVE [Ledger!Next]_(Ledger!vars)
    <2>1. CASE Named(op.name) # {} /\ account[op.name] \notin TwinKinds
      BY <1>1, <2>1, LedgerStill DEF CreateCall, Still, cloud
    <2>2. CASE Named(op.name) = {} \/ account[op.name] \in TwinKinds
      BY <1>1, <2>2, CreateRight, LedgerIssues DEF CreateCall, Record
    <2> QED
      BY <2>1, <2>2
  <1>2. ASSUME CreateLost PROVE Ledger!Next
    BY <1>2, CreateRight, LedgerIssues DEF CreateLost
  <1>3. ASSUME PutCall PROVE [Ledger!Next]_(Ledger!vars)
    <2>1. op.name # None /\ op.name \in Names /\ UNCHANGED <<account, meant, cloud, spent>>
      BY <1>3, CallHasName, LifeCycleAssumption DEF PutCall, Calls
    <2>2. CASE UNCHANGED entry
      BY <2>1, <2>2, LedgerStill DEF Still
    <2>3. CASE op.id \in live /\ Record(op.id)
      <3>1. issued[op.id] = op.name
        BY <2>1, <2>3 DEF Safe, RefOK, TypeOK
      <3>2. Led(op.name) \in live => Led(op.name) = op.id
        BY <2>1, <2>3, <3>1, IdRight
      <3> QED
        BY <2>1, <2>3, <3>1, <3>2, LedgerEnters DEF Record, cloud
    <2> QED
      BY <1>3, <2>2, <2>3 DEF PutCall
  <1>4. ASSUME ReadCall PROVE [Ledger!Next]_(Ledger!vars)
    <2>1. op.name # None /\ op.name \in Names /\ UNCHANGED <<account, meant, cloud, spent>>
      BY <1>4, CallHasName, LifeCycleAssumption DEF ReadCall, Calls
    <2>2. CASE UNCHANGED entry
      BY <2>1, <2>2, LedgerStill DEF Still
    <2>3. ASSUME NEW id \in Addressed, Record(id) PROVE Ledger!Next
      BY <2>1, <2>3, ReachRight, LedgerEnters DEF Record, cloud
    <2> QED
      BY <1>4, <2>2, <2>3 DEF ReadCall
  <1>5. ASSUME DeleteCall PROVE [Ledger!Next]_(Ledger!vars)
    <2>1. op.name # None /\ UNCHANGED <<account, entry, meant, issued>>
      BY <1>5, CallHasName, LifeCycleAssumption DEF DeleteCall, Calls
    <2>2. CASE UNCHANGED live
      BY <2>1, <2>2, LedgerStill DEF Still, cloud
    <2>3. ASSUME NEW id \in Addressed, live' = live \ {id} PROVE Ledger!Next
      BY <2>1, <2>3, ReachRight, LedgerVanishes
    <2> QED
      BY <1>5, <2>2, <2>3 DEF DeleteCall
  <1>6. ASSUME DeleteLost PROVE Ledger!Next
    <2>1. op.name # None
      BY <1>6, CallHasName, LifeCycleAssumption DEF DeleteLost, Calls
    <2> QED
      BY <1>6, <2>1, ReachRight, LedgerVanishes DEF DeleteLost
  <1>7. ASSUME Report PROVE Ledger!Next
    <2>1. /\ op.done \in SUBSET Names
          /\ entry' = [n \in Names |-> IF n \in op.done THEN None ELSE entry[n]]
          /\ UNCHANGED <<meant, live, issued>>
          /\ \A n \in op.done : Led(n) \notin live
      BY <1>7 DEF Report, Safe, TypeOK, OpOK, cloud
    <2>2. PICK S \in SUBSET Names : S = op.done
      BY <2>1
    <2>3. Ledger!Strike(S)
      BY <2>1, <2>2, LifeCycleAssumption DEF Ledger!Strike, Led
    <2> QED
      BY <2>3 DEF Ledger!Next
  <1>8. ASSUME Outside PROVE Ledger!Next
    <2>1. ASSUME NEW id \in live, live' = live \ {id}, UNCHANGED issued PROVE Ledger!Next
      BY <1>8, <2>1, LedgerVanishes DEF Outside
    <2>2. ASSUME NEW n \in Names, Cardinality(Spare) > 1, Issue(n) PROVE Ledger!Next
      <3>1. Spare # {}
        BY <2>2, FS_EmptySet
      <3> QED
        BY <1>8, <2>2, <3>1, LedgerIssues DEF Outside
    <2> QED
      BY <1>8, <2>1, <2>2 DEF Outside
  <1>9. ASSUME Request \/ (\E n \in Names : Take(n)) \/ FindByName \/ CallFails \/ HostDies
        PROVE  UNCHANGED Ledger!vars
    BY <1>9, RequestSafe, TakeSafe, FindByNameSafe, CallFailsSafe, HostDiesSafe, LedgerStill
  <1>10. ASSUME UNCHANGED vars PROVE UNCHANGED Ledger!vars
    BY <1>10, LedgerStill DEF vars, Still, cloud
  <1> QED
    BY <1>1, <1>2, <1>3, <1>4, <1>5, <1>6, <1>7, <1>8, <1>9, <1>10 DEF Next, Step

(* The operations keep the ledger: for any set of names and types, whatever *)
(* calls fail, lose their answer or race with others, and whenever the host *)
(* dies, the state is a ledger of what exists (LedgerKept, the refinement   *)
(* of ResourceLedger by Create, Update, Scale, Destroy, DetectDrift and     *)
(* Import).                                                                 *)
THEOREM LedgerImplemented == Spec => LedgerKept
  <1>1. Init => Ledger!Init
    BY LedgerInit
  <1>2. Safe /\ [Next]_vars => [Ledger!Next]_(Ledger!vars)
    BY LedgerSteps
  <1> QED
    BY <1>1, <1>2, SafeAlways, PTL DEF Spec, LedgerKept, Ledger!Spec

---------------------------------------------------------------------------
(* SetOwner.  A successful SetOwner that was alone on its resource is seen  *)
(* in the tags because nobody else can have touched them since it read      *)
(* them; a resource without an owner is one that a SetOwner works on, or    *)
(* whose last one failed.                                                   *)

Fields == {"at", "r", "o", "drop", "alone", "type", "owners", "page", "last", "pos", "out",
           "ever", "always"}

(* A caller on its way through SetOwner, or just done with it.              *)
Owning(c) == Setting(c) \/ call[c].at = "set"

AskedTypes == Types \cup {Unset}

CallShape == \A c \in Callers :
    /\ DOMAIN call[c] = Fields /\ call[c].type \in AskedTypes
    /\ Owning(c) => call[c].r \in Resources /\ call[c].o \in Owners /\ call[c].drop \subseteq Owners

Shape ==
    /\ tags \in [Resources -> SUBSET Owners]
    /\ DOMAIN call = Callers
    /\ CallShape

(* A caller that is alone shares its resource with no one, and what it has  *)
(* still to remove is all that stands between the resource and its owner.   *)
Alone ==
    \A c \in Callers : Owning(c) /\ call[c].alone =>
       /\ \A d \in Callers \ {c} : Setting(d) => call[d].r # call[c].r
       /\ call[c].at = "untag" => tags[call[c].r] \subseteq call[c].drop \cup {call[c].o}
       /\ call[c].at \in {"create", "tag"} => tags[call[c].r] \subseteq {call[c].o}
       /\ call[c].at = "set" => tags[call[c].r] = {call[c].o}

OwnerOK == Shape /\ Alone /\ OwnerlessExplained

---------------------------------------------------------------------------
(* A step of one caller.                                                    *)

LEMMA IdleShape == DOMAIN NoCall = Fields /\ NoCall.at = "idle" /\ NoCall.type \in AskedTypes
  BY DEF Fields, NoCall, AskedTypes

(* The part of a caller that SetOwner is about.                             *)
SameCall(x, y) == x.at = y.at /\ x.r = y.r /\ x.o = y.o /\ x.drop = y.drop /\ x.alone = y.alone
                  /\ x.type = y.type

(* Move changes the caller and the tags, and for the others nothing but the *)
(* histories of listings.                                                   *)
LEMMA MoveFacts ==
  ASSUME Shape, NEW c \in Callers, NEW new, DOMAIN new = Fields, NEW t, Move(c, new, t)
  PROVE  /\ tags' = t
         /\ DOMAIN call' = Callers
         /\ \A d \in Callers : DOMAIN call'[d] = Fields
         /\ SameCall(call'[c], new)
         /\ \A d \in Callers \ {c} : SameCall(call'[d], call[d])
  <1> DEFINE held == {p \in Pairs : p[2] \in t[p[1]]}
             cs == [call EXCEPT ![c] = new]
  <1>1. tags' = t /\ call' = Observed(cs, held)
    BY DEF Move
  <1>2. /\ DOMAIN cs = Callers /\ cs[c] = new /\ \A d \in Callers \ {c} : cs[d] = call[d]
        /\ \A d \in Callers : DOMAIN cs[d] = Fields
    <2>1. DOMAIN call = Callers /\ \A d \in Callers : DOMAIN call[d] = Fields
      BY DEF Shape, CallShape
    <2>2. DOMAIN cs = Callers /\ cs[c] = new /\ \A d \in Callers \ {c} : cs[d] = call[d]
      BY <2>1
    <2> QED
      BY <2>1, <2>2
  <1> HIDE DEF held, cs
  <1>3. /\ DOMAIN call' = Callers
        /\ \A d \in Callers : \/ call'[d] = cs[d]
                              \/ call'[d] = [cs[d] EXCEPT !.ever = @ \cup held, !.always = @ \cap held]
    BY <1>1 DEF Observed
  <1>4. \A d \in Callers : DOMAIN call'[d] = Fields /\ SameCall(call'[d], cs[d])
    <2> TAKE d \in Callers
    <2>1. CASE call'[d] = cs[d]
      BY <1>2, <2>1 DEF SameCall
    <2>2. CASE call'[d] = [cs[d] EXCEPT !.ever = @ \cup held, !.always = @ \cap held]
      <3>1. DOMAIN cs[d] = Fields
        BY <1>2
      <3> QED
        BY <2>2, <3>1, Zenon DEF SameCall, Fields
    <2> QED
      BY <1>3, <2>1, <2>2
  <1> QED
    BY <1>1, <1>2, <1>3, <1>4

(* A step of one caller, that touches the tags of no resource but its own.  *)
LEMMA StepKeeps ==
  ASSUME OwnerOK, NEW c \in Callers,
         tags' \in [Resources -> SUBSET Owners],
         DOMAIN call' = Callers, \A d \in Callers : DOMAIN call'[d] = Fields,
         call'[c].type \in AskedTypes,
         \A d \in Callers \ {c} : SameCall(call'[d], call[d]),
         \A q \in Resources : tags'[q] # tags[q] => Setting(c) /\ q = call[c].r,
         Owning(c)' => /\ Setting(c) /\ call'[c].r = call[c].r /\ call'[c].o = call[c].o
                       /\ call'[c].drop \subseteq Owners,
         Owning(c)' /\ call'[c].alone =>
            /\ call[c].alone
            /\ call'[c].at = "untag" => tags'[call[c].r] \subseteq call'[c].drop \cup {call[c].o}
            /\ call'[c].at \in {"create", "tag"} => tags'[call[c].r] \subseteq {call[c].o}
            /\ call'[c].at = "set" => tags'[call[c].r] = {call[c].o},
         failed \subseteq failed' \/ (Setting(c) /\ failed \ {call[c].r} \subseteq failed'),
         Setting(c) => \/ Setting(c)'
                       \/ call[c].r \in failed'
                       \/ tags'[call[c].r] # {}
  PROVE  OwnerOK'
  <1>0. \A d \in Callers : call'[d].type \in AskedTypes
    BY DEF OwnerOK, Shape, CallShape, SameCall
  <1>1. Shape'
    <2> SUFFICES ASSUME NEW d \in Callers, Owning(d)'
                 PROVE  /\ call'[d].r \in Resources /\ call'[d].o \in Owners
                        /\ call'[d].drop \subseteq Owners
      BY <1>0 DEF Shape, CallShape
    <2>1. CASE d = c
      BY <2>1 DEF OwnerOK, Shape, CallShape, Owning
    <2>2. CASE d # c
      BY <2>2 DEF OwnerOK, Shape, CallShape, SameCall, Owning, Setting
    <2> QED
      BY <2>1, <2>2
  <1>2. \A d \in Callers : Setting(d)' => Setting(d) /\ call'[d].r = call[d].r
    BY DEF SameCall, Setting, Owning
  <1>3. Alone'
    <2> SUFFICES ASSUME NEW b \in Callers, Owning(b)', call'[b].alone
                 PROVE  /\ \A d \in Callers \ {b} : Setting(d)' => call'[d].r # call'[b].r
                        /\ call'[b].at = "untag" => tags'[call'[b].r] \subseteq call'[b].drop \cup {call'[b].o}
                        /\ call'[b].at \in {"create", "tag"} => tags'[call'[b].r] \subseteq {call'[b].o}
                        /\ call'[b].at = "set" => tags'[call'[b].r] = {call'[b].o}
      BY DEF Alone
    <2>1. CASE b = c
      <3>1. Owning(c) /\ call[c].alone /\ call'[c].r = call[c].r /\ call'[c].o = call[c].o
        BY <2>1 DEF Owning
      <3>2. \A d \in Callers \ {c} : Setting(d) => call[d].r # call[c].r
        BY <3>1 DEF OwnerOK, Alone
      <3> QED
        BY <1>2, <2>1, <3>1, <3>2
    <2>2. CASE b # c
      <3>1. SameCall(call'[b], call[b]) /\ Owning(b) /\ call[b].alone /\ call[b].r \in Resources
        BY <2>2 DEF SameCall, Owning, Setting, OwnerOK, Shape, CallShape
      <3>2. /\ \A d \in Callers \ {b} : Setting(d) => call[d].r # call[b].r
            /\ call[b].at = "untag" => tags[call[b].r] \subseteq call[b].drop \cup {call[b].o}
            /\ call[b].at \in {"create", "tag"} => tags[call[b].r] \subseteq {call[b].o}
            /\ call[b].at = "set" => tags[call[b].r] = {call[b].o}
        BY <3>1 DEF OwnerOK, Alone
      <3>3. tags'[call[b].r] = tags[call[b].r]
        BY <2>2, <3>1, <3>2
      <3> QED
        BY <1>2, <3>1, <3>2, <3>3 DEF SameCall
    <2> QED
      BY <2>1, <2>2
  <1>4. OwnerlessExplained'
    <2> SUFFICES ASSUME NEW q \in Resources, tags'[q] = {}
                 PROVE  q \in failed' \/ \E d \in Callers : Setting(d)' /\ call'[d].r = q
      BY DEF OwnerlessExplained
    <2>1. CASE Setting(c) /\ q = call[c].r
      BY <1>2, <2>1
    <2>2. CASE ~(Setting(c) /\ q = call[c].r)
      <3>1. tags[q] = {}
        BY <2>2
      <3>2. q \in failed \/ \E d \in Callers : Setting(d) /\ call[d].r = q
        BY <3>1 DEF OwnerOK, OwnerlessExplained
      <3>3. CASE q \in failed
        BY <2>2, <3>3
      <3>4. ASSUME NEW d \in Callers, Setting(d), call[d].r = q
            PROVE  Setting(d)' /\ call'[d].r = q
        BY <2>2, <3>4 DEF SameCall, Setting
      <3> QED
        BY <3>2, <3>3, <3>4
    <2> QED
      BY <2>1, <2>2
  <1> QED
    BY <1>1, <1>3, <1>4 DEF OwnerOK

(* A caller that is not in SetOwner before or after the step, with the tags *)
(* left alone.                                                              *)
LEMMA OtherStepKeeps ==
  ASSUME OwnerOK, NEW c \in Callers, ~Setting(c), NEW new, DOMAIN new = Fields,
         new.type \in AskedTypes, Move(c, new, tags),
         new.at \notin {"read", "untag", "create", "tag", "set"}, UNCHANGED failed
  PROVE  OwnerOK'
  <1>1. /\ tags' = tags /\ DOMAIN call' = Callers /\ \A d \in Callers : DOMAIN call'[d] = Fields
        /\ SameCall(call'[c], new) /\ \A d \in Callers \ {c} : SameCall(call'[d], call[d])
    BY MoveFacts DEF OwnerOK
  <1>2. ~Owning(c)' /\ tags' \in [Resources -> SUBSET Owners] /\ call'[c].type \in AskedTypes
    BY <1>1 DEF Owning, Setting, SameCall, OwnerOK, Shape
  <1> QED
    BY <1>1, <1>2, StepKeeps

---------------------------------------------------------------------------
(* The actions.                                                             *)

LEMMA OwnerInit == TagsInit => OwnerOK
  <1> SUFFICES ASSUME TagsInit PROVE OwnerOK
    OBVIOUS
  <1>1. tags \in [Resources -> SUBSET Owners] /\ \A r \in Resources : tags[r] # {}
    <2>1. tags \in [Resources -> (SUBSET Owners) \ {{}}]
      BY DEF TagsInit
    <2> QED
      BY <2>1
  <1>2. DOMAIN call = Callers /\ \A c \in Callers : call[c] = NoCall
    BY DEF TagsInit
  <1>3. \A c \in Callers : DOMAIN call[c] = Fields /\ call[c].at = "idle" /\ call[c].type \in AskedTypes
    BY <1>2, IdleShape
  <1> QED
    BY <1>1, <1>2, <1>3 DEF OwnerOK, Shape, CallShape, Alone, OwnerlessExplained, Owning, Setting

LEMMA SetOwnerOK ==
  ASSUME OwnerOK, NEW c \in Callers, NEW r \in Resources, NEW o \in Owners, SetOwner(c, r, o)
  PROVE  OwnerOK'
  <1> DEFINE rivals == {d \in Callers : Setting(d) /\ call[d].r = r}
  <1>1. /\ DOMAIN call' = Callers /\ UNCHANGED <<tags, failed>> /\ call[c].at = "idle"
        /\ call'[c] = [NoCall EXCEPT !.at = "read", !.r = r, !.o = o, !.alone = (rivals = {})]
        /\ \A d \in Callers \ {c} :
              call'[d] = IF call[d].r = r THEN [call[d] EXCEPT !.alone = FALSE] ELSE call[d]
    BY DEF SetOwner
  <1> HIDE DEF rivals
  <1>2. /\ DOMAIN call'[c] = Fields /\ call'[c].at = "read" /\ call'[c].r = r /\ call'[c].o = o
        /\ call'[c].alone = (rivals = {}) /\ call'[c].drop = {} /\ call'[c].type \in AskedTypes
    BY <1>1 DEF Fields, NoCall, AskedTypes
  <1>3. ASSUME NEW d \in Callers \ {c}
        PROVE  /\ DOMAIN call'[d] = Fields /\ call'[d].at = call[d].at /\ call'[d].r = call[d].r
               /\ call'[d].o = call[d].o /\ call'[d].drop = call[d].drop
               /\ call'[d].type = call[d].type
               /\ call'[d].alone => call[d].r # r /\ call[d].alone
    <2>1. DOMAIN call[d] = Fields
      BY DEF OwnerOK, Shape, CallShape
    <2>2. CASE call[d].r = r
      <3>1. call'[d] = [call[d] EXCEPT !.alone = FALSE]
        BY <1>1, <2>2
      <3>2. /\ DOMAIN call'[d] = Fields /\ call'[d].at = call[d].at /\ call'[d].r = call[d].r
            /\ call'[d].o = call[d].o /\ call'[d].drop = call[d].drop
            /\ call'[d].alone = FALSE /\ call'[d].type = call[d].type
        BY <2>1, <3>1, Zenon DEF Fields
      <3> QED
        BY <3>2
    <2>3. CASE call[d].r # r
      <3>1. call'[d] = call[d]
        BY <1>1, <2>3
      <3> QED
        BY <2>1, <2>3, <3>1
    <2> QED
      BY <2>2, <2>3
  <1>4. Shape'
    <2>1. ASSUME NEW d \in Callers
          PROVE  /\ DOMAIN call'[d] = Fields /\ call'[d].type \in AskedTypes
                 /\ Owning(d)' => /\ call'[d].r \in Resources /\ call'[d].o \in Owners
                                  /\ call'[d].drop \subseteq Owners
      <3>1. CASE d = c
        BY <1>2, <3>1
      <3>2. CASE d # c
        BY <1>3, <3>2 DEF OwnerOK, Shape, CallShape, Owning, Setting
      <3> QED
        BY <3>1, <3>2
    <2>2. CallShape'
      BY <2>1 DEF CallShape
    <2> QED
      BY <1>1, <2>2 DEF OwnerOK, Shape
  <1>5. Alone'
    <2> SUFFICES ASSUME NEW b \in Callers, Owning(b)', call'[b].alone
                 PROVE  /\ \A d \in Callers \ {b} : Setting(d)' => call'[d].r # call'[b].r
                        /\ call'[b].at = "untag" => tags'[call'[b].r] \subseteq call'[b].drop \cup {call'[b].o}
                        /\ call'[b].at \in {"create", "tag"} => tags'[call'[b].r] \subseteq {call'[b].o}
                        /\ call'[b].at = "set" => tags'[call'[b].r] = {call'[b].o}
      BY DEF Alone
    <2>1. CASE b = c
      <3>1. rivals = {}
        BY <1>2, <2>1
      <3> QED
        BY <1>2, <1>3, <2>1, <3>1 DEF rivals, Setting
    <2>2. CASE b # c
      <3>1. Owning(b) /\ call[b].alone /\ call[b].r # r
        BY <1>3, <2>2 DEF Owning, Setting
      <3>2. /\ \A d \in Callers \ {b} : Setting(d) => call[d].r # call[b].r
            /\ call[b].at = "untag" => tags[call[b].r] \subseteq call[b].drop \cup {call[b].o}
            /\ call[b].at \in {"create", "tag"} => tags[call[b].r] \subseteq {call[b].o}
            /\ call[b].at = "set" => tags[call[b].r] = {call[b].o}
        BY <3>1 DEF OwnerOK, Alone
      <3>3. /\ call'[b].at = call[b].at /\ call'[b].r = call[b].r /\ call'[b].o = call[b].o
            /\ call'[b].drop = call[b].drop
        BY <1>3, <2>2
      <3>4. \A d \in Callers \ {b} : Setting(d)' => call'[d].r # call'[b].r
        BY <1>2, <1>3, <3>1, <3>2, <3>3 DEF Setting
      <3> QED
        BY <1>1, <3>2, <3>3, <3>4
    <2> QED
      BY <2>1, <2>2
  <1>6. OwnerlessExplained'
    <2>1. \A d \in Callers : Setting(d) => Setting(d)' /\ call'[d].r = call[d].r
      BY <1>1, <1>3 DEF Setting
    <2> QED
      BY <1>1, <2>1 DEF OwnerOK, OwnerlessExplained
  <1> QED
    BY <1>4, <1>5, <1>6 DEF OwnerOK

(* What a step of SetOwner knows of its caller.                             *)
LEMMA SetterFacts ==
  ASSUME OwnerOK, NEW c \in Callers, Setting(c)
  PROVE  /\ DOMAIN call[c] = Fields /\ Owning(c) /\ call[c].type \in AskedTypes
         /\ call[c].r \in Resources /\ call[c].o \in Owners /\ call[c].drop \subseteq Owners
         /\ tags \in [Resources -> SUBSET Owners]
         /\ call[c].alone =>
              /\ call[c].at = "untag" => tags[call[c].r] \subseteq call[c].drop \cup {call[c].o}
              /\ call[c].at \in {"create", "tag"} => tags[call[c].r] \subseteq {call[c].o}
  <1>1. DOMAIN call[c] = Fields /\ Owning(c) /\ call[c].type \in AskedTypes
    BY DEF OwnerOK, Shape, CallShape, Owning
  <1> QED
    BY <1>1 DEF OwnerOK, Shape, CallShape, Alone

LEMMA ReadTagsOK ==
  ASSUME OwnerOK, NEW c \in Callers, ReadTags(c)
  PROVE  OwnerOK'
  <1> DEFINE new == [call[c] EXCEPT !.drop = tags[call[c].r] \ {call[c].o}, !.at = "untag"]
  <1>1. Move(c, new, tags) /\ Setting(c) /\ failed' = failed
    BY DEF ReadTags, Setting
  <1>2. /\ DOMAIN call[c] = Fields /\ call[c].r \in Resources /\ call[c].o \in Owners
        /\ call[c].type \in AskedTypes
        /\ tags \in [Resources -> SUBSET Owners]
    BY <1>1, SetterFacts
  <1>3. /\ DOMAIN new = Fields /\ new.at = "untag" /\ new.drop = tags[call[c].r] \ {call[c].o}
        /\ new.r = call[c].r /\ new.o = call[c].o /\ new.alone = call[c].alone
        /\ new.type = call[c].type
    BY <1>2, Zenon DEF Fields
  <1> HIDE DEF new
  <1>4. /\ tags' = tags /\ DOMAIN call' = Callers /\ \A d \in Callers : DOMAIN call'[d] = Fields
        /\ SameCall(call'[c], new) /\ \A d \in Callers \ {c} : SameCall(call'[d], call[d])
    BY <1>1, <1>3, MoveFacts DEF OwnerOK
  <1>5. /\ call'[c].at = "untag" /\ call'[c].drop = tags[call[c].r] \ {call[c].o}
        /\ call'[c].r = call[c].r /\ call'[c].o = call[c].o /\ call'[c].alone = call[c].alone
        /\ call'[c].type = call[c].type
    BY <1>3, <1>4 DEF SameCall
  <1>6. Setting(c)' /\ tags[call[c].r] \subseteq call'[c].drop \cup {call[c].o}
                   /\ call'[c].drop \subseteq Owners
    BY <1>2, <1>5 DEF Setting
  <1> QED
    BY <1>1, <1>2, <1>4, <1>5, <1>6, StepKeeps

LEMMA UntagOK ==
  ASSUME OwnerOK, NEW c \in Callers, Untag(c)
  PROVE  OwnerOK'
  <1>1. Setting(c) /\ failed' = failed /\ call[c].at = "untag"
    BY DEF Untag, Setting
  <1>2. /\ DOMAIN call[c] = Fields /\ call[c].r \in Resources /\ call[c].o \in Owners
        /\ call[c].type \in AskedTypes
        /\ call[c].drop \subseteq Owners /\ tags \in [Resources -> SUBSET Owners]
        /\ call[c].alone => tags[call[c].r] \subseteq call[c].drop \cup {call[c].o}
    BY <1>1, SetterFacts
  <1>3. CASE call[c].drop = {}
    <2> DEFINE new == [call[c] EXCEPT !.at = "create"]
    <2>1. Move(c, new, tags)
      BY <1>3 DEF Untag
    <2>2. /\ DOMAIN new = Fields /\ new.at = "create" /\ new.drop = call[c].drop
          /\ new.r = call[c].r /\ new.o = call[c].o /\ new.alone = call[c].alone
          /\ new.type = call[c].type
      BY <1>2, Zenon DEF Fields
    <2> HIDE DEF new
    <2>3. /\ tags' = tags /\ DOMAIN call' = Callers /\ \A d \in Callers : DOMAIN call'[d] = Fields
          /\ SameCall(call'[c], new) /\ \A d \in Callers \ {c} : SameCall(call'[d], call[d])
      BY <2>1, <2>2, MoveFacts DEF OwnerOK
    <2>4. /\ call'[c].at = "create" /\ call'[c].drop = call[c].drop
          /\ call'[c].r = call[c].r /\ call'[c].o = call[c].o /\ call'[c].alone = call[c].alone
          /\ call'[c].type = call[c].type
      BY <2>2, <2>3 DEF SameCall
    <2>5. Setting(c)' /\ (call[c].alone => tags[call[c].r] \subseteq {call[c].o})
      BY <1>2, <1>3, <2>4 DEF Setting
    <2> QED
      BY <1>1, <1>2, <2>3, <2>4, <2>5, StepKeeps
  <1>4. ASSUME NEW x \in call[c].drop,
               Move(c, [call[c] EXCEPT !.drop = @ \ {x}], [tags EXCEPT ![call[c].r] = @ \ {x}])
        PROVE  OwnerOK'
    <2> DEFINE new == [call[c] EXCEPT !.drop = @ \ {x}]
               t == [tags EXCEPT ![call[c].r] = @ \ {x}]
    <2>1. Move(c, new, t)
      BY <1>4
    <2>2. /\ DOMAIN new = Fields /\ new.at = call[c].at /\ new.drop = call[c].drop \ {x}
          /\ new.r = call[c].r /\ new.o = call[c].o /\ new.alone = call[c].alone
          /\ new.type = call[c].type
      BY <1>2, Zenon DEF Fields
    <2>3. /\ t \in [Resources -> SUBSET Owners] /\ t[call[c].r] = tags[call[c].r] \ {x}
          /\ \A q \in Resources : q # call[c].r => t[q] = tags[q]
      BY <1>2
    <2> HIDE DEF new, t
    <2>4. /\ tags' = t /\ DOMAIN call' = Callers /\ \A d \in Callers : DOMAIN call'[d] = Fields
          /\ SameCall(call'[c], new) /\ \A d \in Callers \ {c} : SameCall(call'[d], call[d])
      BY <2>1, <2>2, MoveFacts DEF OwnerOK
    <2>5. /\ call'[c].at = "untag" /\ call'[c].drop = call[c].drop \ {x}
          /\ call'[c].r = call[c].r /\ call'[c].o = call[c].o /\ call'[c].alone = call[c].alone
          /\ call'[c].type = call[c].type
      BY <1>1, <2>2, <2>4 DEF SameCall
    <2>6. /\ Setting(c)' /\ call'[c].drop \subseteq Owners
          /\ call[c].alone => tags'[call[c].r] \subseteq call'[c].drop \cup {call[c].o}
      BY <1>2, <2>3, <2>4, <2>5 DEF Setting
    <2>7. \A q \in Resources : tags'[q] # tags[q] => q = call[c].r
      BY <2>3, <2>4
    <2>8. tags' \in [Resources -> SUBSET Owners]
      BY <2>3, <2>4
    <2> QED
      BY <1>1, <1>2, <2>4, <2>5, <2>6, <2>7, <2>8, StepKeeps
  <1> QED
    BY <1>3, <1>4 DEF Untag

LEMMA CreateTagOK ==
  ASSUME OwnerOK, NEW c \in Callers, CreateTag(c)
  PROVE  OwnerOK'
  <1> DEFINE new == [call[c] EXCEPT !.at = "tag"]
  <1>1. Move(c, new, tags) /\ Setting(c) /\ failed' = failed /\ call[c].at = "create"
    BY DEF CreateTag, Setting
  <1>2. /\ DOMAIN call[c] = Fields /\ call[c].r \in Resources /\ call[c].o \in Owners
        /\ call[c].type \in AskedTypes
        /\ call[c].drop \subseteq Owners /\ tags \in [Resources -> SUBSET Owners]
        /\ call[c].alone => tags[call[c].r] \subseteq {call[c].o}
    BY <1>1, SetterFacts
  <1>3. /\ DOMAIN new = Fields /\ new.at = "tag" /\ new.drop = call[c].drop
        /\ new.r = call[c].r /\ new.o = call[c].o /\ new.alone = call[c].alone
        /\ new.type = call[c].type
    BY <1>2, Zenon DEF Fields
  <1> HIDE DEF new
  <1>4. /\ tags' = tags /\ DOMAIN call' = Callers /\ \A d \in Callers : DOMAIN call'[d] = Fields
        /\ SameCall(call'[c], new) /\ \A d \in Callers \ {c} : SameCall(call'[d], call[d])
    BY <1>1, <1>3, MoveFacts DEF OwnerOK
  <1>5. /\ call'[c].at = "tag" /\ call'[c].drop = call[c].drop
        /\ call'[c].r = call[c].r /\ call'[c].o = call[c].o /\ call'[c].alone = call[c].alone
        /\ call'[c].type = call[c].type
    BY <1>3, <1>4 DEF SameCall
  <1>6. Setting(c)'
    BY <1>5 DEF Setting
  <1> QED
    BY <1>1, <1>2, <1>4, <1>5, <1>6, StepKeeps

LEMMA TagResourceOK ==
  ASSUME OwnerOK, NEW c \in Callers, TagResource(c)
  PROVE  OwnerOK'
  <1> DEFINE new == [call[c] EXCEPT !.at = "set"]
             t == [tags EXCEPT ![call[c].r] = @ \cup {call[c].o}]
  <1>1. Move(c, new, t) /\ Setting(c) /\ failed' = failed \ {call[c].r} /\ call[c].at = "tag"
    BY DEF TagResource, Setting
  <1>2. /\ DOMAIN call[c] = Fields /\ call[c].r \in Resources /\ call[c].o \in Owners
        /\ call[c].type \in AskedTypes
        /\ call[c].drop \subseteq Owners /\ tags \in [Resources -> SUBSET Owners]
        /\ call[c].alone => tags[call[c].r] \subseteq {call[c].o}
    BY <1>1, SetterFacts
  <1>3. /\ DOMAIN new = Fields /\ new.at = "set" /\ new.drop = call[c].drop
        /\ new.r = call[c].r /\ new.o = call[c].o /\ new.alone = call[c].alone
        /\ new.type = call[c].type
    BY <1>2, Zenon DEF Fields
  <1>4. /\ t \in [Resources -> SUBSET Owners] /\ t[call[c].r] = tags[call[c].r] \cup {call[c].o}
        /\ \A q \in Resources : q # call[c].r => t[q] = tags[q]
    BY <1>2
  <1> HIDE DEF new, t
  <1>5. /\ tags' = t /\ DOMAIN call' = Callers /\ \A d \in Callers : DOMAIN call'[d] = Fields
        /\ SameCall(call'[c], new) /\ \A d \in Callers \ {c} : SameCall(call'[d], call[d])
    BY <1>1, <1>3, MoveFacts DEF OwnerOK
  <1>6. /\ call'[c].at = "set" /\ call'[c].drop = call[c].drop
        /\ call'[c].r = call[c].r /\ call'[c].o = call[c].o /\ call'[c].alone = call[c].alone
        /\ call'[c].type = call[c].type
    BY <1>3, <1>5 DEF SameCall
  <1>7. /\ \A q \in Resources : tags'[q] # tags[q] => q = call[c].r
        /\ tags' \in [Resources -> SUBSET Owners]
        /\ tags'[call[c].r] # {}
        /\ call[c].alone => tags'[call[c].r] = {call[c].o}
    BY <1>2, <1>4, <1>5
  <1> QED
    BY <1>1, <1>2, <1>5, <1>6, <1>7, StepKeeps

(* A caller that gives up: its resource counts as failed.                   *)
LEMMA SetFailsOK ==
  ASSUME OwnerOK, NEW c \in Callers, SetFails(c)
  PROVE  OwnerOK'
  <1>1. Setting(c) /\ failed' = failed \cup {call[c].r}
    BY DEF SetFails
  <1>2. /\ call[c].r \in Resources /\ call[c].o \in Owners /\ tags \in [Resources -> SUBSET Owners]
    BY <1>1, SetterFacts
  <1>3. PICK t : /\ Move(c, NoCall, t)
                 /\ \/ t = tags
                    \/ \E x : t = [tags EXCEPT ![call[c].r] = @ \ {x}]
                    \/ t = [tags EXCEPT ![call[c].r] = @ \cup {call[c].o}]
    BY DEF SetFails
  <1>4. /\ t \in [Resources -> SUBSET Owners]
        /\ \A q \in Resources : q # call[c].r => t[q] = tags[q]
    BY <1>2, <1>3
  <1>5. /\ tags' = t /\ DOMAIN call' = Callers /\ \A d \in Callers : DOMAIN call'[d] = Fields
        /\ SameCall(call'[c], NoCall) /\ \A d \in Callers \ {c} : SameCall(call'[d], call[d])
    BY <1>3, IdleShape, MoveFacts DEF OwnerOK
  <1>6. ~Owning(c)' /\ call'[c].type \in AskedTypes
    BY <1>5, IdleShape DEF Owning, Setting, SameCall
  <1> QED
    BY <1>1, <1>4, <1>5, <1>6, StepKeeps

---------------------------------------------------------------------------
(* ListOwners leaves SetOwner's part of the state alone.                    *)

LEMMA ListOwnersOK ==
  ASSUME OwnerOK, NEW c \in Callers, NEW type \in AskedTypes, NEW o, ListOwners(c, type, o)
  PROVE  OwnerOK'
  <1>1. /\ call[c].at = "idle" /\ tags' = tags /\ failed' = failed
        /\ DOMAIN call = Callers /\ tags \in [Resources -> SUBSET Owners]
        /\ \A d \in Callers : DOMAIN call[d] = Fields
    BY DEF ListOwners, OwnerOK, Shape, CallShape
  <1>2. PICK new :
          /\ call' = [call EXCEPT ![c] = new]
          /\ new = [NoCall EXCEPT !.type = type, !.ever = Held, !.always = Held,
                               !.o = o, !.at = IF o = Unset THEN "tags" ELSE "probe",
                               !.owners = IF o = Unset THEN <<>> ELSE <<o>>]
    BY DEF ListOwners
  <1>3. DOMAIN new = Fields /\ new.at \in {"tags", "probe"} /\ new.type = type
    BY <1>2 DEF Fields, NoCall
  <1>4. DOMAIN call' = Callers /\ call'[c] = new /\ \A d \in Callers \ {c} : call'[d] = call[d]
    BY <1>1, <1>2
  <1>5. ~Owning(c)' /\ ~Setting(c) /\ call'[c].type \in AskedTypes
    BY <1>1, <1>3, <1>4 DEF Owning, Setting
  <1>6. /\ \A d \in Callers \ {c} : SameCall(call'[d], call[d])
        /\ \A d \in Callers : DOMAIN call'[d] = Fields
    BY <1>1, <1>3, <1>4 DEF SameCall
  <1> QED
    BY <1>1, <1>4, <1>5, <1>6, StepKeeps

ListStep(x) == x \notin {"read", "untag", "create", "tag", "set"}

(* The fields of a listing that a step from tag to tag leaves alone.         *)
SameAnswer(x, y) == /\ x.type = y.type /\ x.o = y.o /\ x.out = y.out
                    /\ x.ever = y.ever /\ x.always = y.always

SameSetter(x, y) == x.r = y.r /\ x.drop = y.drop /\ x.alone = y.alone

LEMMA NextTagFacts ==
  ASSUME NEW me, DOMAIN me = Fields
  PROVE  /\ DOMAIN NextTag(me) = Fields /\ SameAnswer(NextTag(me), me) /\ SameSetter(NextTag(me), me)
         /\ NextTag(me).owners = me.owners /\ NextTag(me).last = me.last
         /\ \/ /\ me.owners # <<>> /\ NextTag(me).at = "probe" /\ NextTag(me).page = me.page
               /\ NextTag(me).pos = 0
            \/ /\ me.owners = <<>> /\ me.last /\ NextTag(me).at = "listed"
               /\ NextTag(me).page = me.page /\ NextTag(me).pos = me.pos
            \/ /\ me.owners = <<>> /\ ~me.last /\ NextTag(me).at = "tags"
               /\ NextTag(me).page = me.page + 1 /\ NextTag(me).pos = me.pos
  <1>1. CASE me.owners # <<>>
    <2>1. NextTag(me) = [me EXCEPT !.at = "probe", !.pos = 0]
      BY <1>1, Zenon DEF NextTag
    <2> QED
      BY <1>1, <2>1, Zenon DEF Fields, SameAnswer, SameSetter
  <1>2. CASE me.owners = <<>> /\ me.last
    <2>1. NextTag(me) = [me EXCEPT !.at = "listed"]
      BY <1>2, Zenon DEF NextTag
    <2> QED
      BY <1>2, <2>1, Zenon DEF Fields, SameAnswer, SameSetter
  <1>3. CASE me.owners = <<>> /\ ~me.last
    <2>1. NextTag(me) = [me EXCEPT !.at = "tags", !.page = @ + 1]
      BY <1>3, Zenon DEF NextTag
    <2> QED
      BY <1>3, <2>1, Zenon DEF Fields, SameAnswer, SameSetter
  <1> QED
    BY <1>1, <1>2, <1>3

LEMMA NextTagShape ==
  ASSUME NEW me, DOMAIN me = Fields
  PROVE  DOMAIN NextTag(me) = Fields /\ ListStep(NextTag(me).at) /\ NextTag(me).type = me.type
  BY NextTagFacts DEF ListStep, SameAnswer

(* The owner tag at hand is done: its place is the next one's.               *)
LEMMA TagDoneFacts ==
  ASSUME NEW me, DOMAIN me = Fields
  PROVE  \E rest : /\ DOMAIN rest = Fields /\ SameAnswer(rest, me) /\ SameSetter(rest, me)
                   /\ rest.owners = Tail(me.owners)
                   /\ rest.last = me.last /\ rest.page = me.page /\ rest.pos = me.pos /\ rest.at = me.at
                   /\ TagDone(me) = NextTag(rest)
  <1>1. PICK rest : rest = [me EXCEPT !.owners = Tail(@)]
    OBVIOUS
  <1>2. /\ DOMAIN rest = Fields /\ SameAnswer(rest, me) /\ SameSetter(rest, me)
        /\ rest.owners = Tail(me.owners)
        /\ rest.last = me.last /\ rest.page = me.page /\ rest.pos = me.pos /\ rest.at = me.at
    BY <1>1, Zenon DEF Fields, SameAnswer, SameSetter
  <1>3. TagDone(me) = NextTag(rest)
    BY <1>1, Zenon DEF TagDone
  <1> QED
    BY <1>2, <1>3

LEMMA TagDoneShape ==
  ASSUME NEW me, DOMAIN me = Fields
  PROVE  DOMAIN TagDone(me) = Fields /\ ListStep(TagDone(me).at) /\ TagDone(me).type = me.type
  <1>1. PICK rest : /\ DOMAIN rest = Fields /\ SameAnswer(rest, me)
                    /\ TagDone(me) = NextTag(rest)
    BY TagDoneFacts
  <1> QED
    BY <1>1, NextTagShape DEF SameAnswer

LEMMA AfterPageShape ==
  ASSUME NEW me, DOMAIN me = Fields, ListStep(me.at), NEW s
  PROVE  /\ DOMAIN AfterPage(me, s) = Fields /\ ListStep(AfterPage(me, s).at)
         /\ AfterPage(me, s).type = me.type
  <1>1. CASE AfterPage(me, s) = [me EXCEPT !.pos = @ + 1]
    <2>1. /\ DOMAIN AfterPage(me, s) = Fields /\ AfterPage(me, s).at = me.at
          /\ AfterPage(me, s).type = me.type
      BY <1>1, Zenon DEF Fields
    <2> QED
      BY <2>1
  <1>2. CASE AfterPage(me, s)
               = [me EXCEPT !.pos = 0, !.at = IF me.at = "droplet" THEN "volume" ELSE "database"]
    <2>1. PICK next : next = IF me.at = "droplet" THEN "volume" ELSE "database"
      OBVIOUS
    <2>2. /\ DOMAIN AfterPage(me, s) = Fields /\ AfterPage(me, s).at = next
          /\ AfterPage(me, s).type = me.type
      BY <1>2, <2>1, Zenon DEF Fields
    <2> QED
      BY <2>1, <2>2 DEF ListStep
  <1>3. CASE AfterPage(me, s) = TagDone(me)
    BY <1>3, TagDoneShape
  <1> QED
    BY <1>1, <1>2, <1>3, Zenon DEF AfterPage

(* The same, of a step of a listing.                                        *)
LEMMA ListStepKeeps ==
  ASSUME OwnerOK, NEW c \in Callers, ~Setting(c), NEW new, DOMAIN new = Fields, ListStep(new.at),
         new.type \in AskedTypes, Move(c, new, tags), UNCHANGED failed
  PROVE  OwnerOK'
  BY OtherStepKeeps DEF ListStep

LEMMA ListTagsOK ==
  ASSUME OwnerOK, NEW c \in Callers, ListTags(c)
  PROVE  OwnerOK'
  <1>1. ~Setting(c) /\ failed' = failed /\ DOMAIN call[c] = Fields /\ call[c].type \in AskedTypes
    BY DEF ListTags, Setting, OwnerOK, Shape, CallShape
  <1>2. PICK me :
          /\ Move(c, NextTag(me), tags)
          /\ me = [call[c] EXCEPT !.owners = Page(known, call[c].page),
                                  !.last = IsLastPage(known, call[c].page)]
    BY Zenon DEF ListTags
  <1>3. DOMAIN me = Fields /\ me.type = call[c].type
    BY <1>1, <1>2, Zenon DEF Fields
  <1> QED
    BY <1>1, <1>2, <1>3, NextTagShape, ListStepKeeps

LEMMA ProbeOK ==
  ASSUME OwnerOK, NEW c \in Callers, Probe(c)
  PROVE  OwnerOK'
  <1>1. ~Setting(c) /\ failed' = failed /\ DOMAIN call[c] = Fields /\ call[c].type \in AskedTypes
    BY DEF Probe, Setting, OwnerOK, Shape, CallShape
  <1>2. CASE Move(c, TagDone(call[c]), tags)
    BY <1>1, <1>2, TagDoneShape, ListStepKeeps
  <1>3. CASE Move(c, [call[c] EXCEPT !.at = IF call[c].type = Unset THEN "droplet"
                                            ELSE ListingOf(call[c].type)], tags)
    <2>1. PICK at : at = IF call[c].type = Unset THEN "droplet" ELSE ListingOf(call[c].type)
      OBVIOUS
    <2>2. PICK new : new = [call[c] EXCEPT !.at = at] /\ Move(c, new, tags)
      BY <1>3, <2>1
    <2>3. DOMAIN new = Fields /\ new.at = at /\ new.type = call[c].type
      BY <1>1, <2>2, Zenon DEF Fields
    <2>4. ListStep(at)
      BY <1>1, <2>1 DEF ListStep, ListingOf, Types, AskedTypes
    <2> QED
      BY <1>1, <2>2, <2>3, <2>4, ListStepKeeps
  <1> QED
    BY <1>2, <1>3, Zenon DEF Probe

LEMMA ListPageOK ==
  ASSUME OwnerOK, NEW c \in Callers, ListPage(c)
  PROVE  OwnerOK'
  <1>1. /\ ~Setting(c) /\ failed' = failed /\ DOMAIN call[c] = Fields /\ ListStep(call[c].at)
        /\ call[c].type \in AskedTypes
    BY DEF ListPage, Setting, OwnerOK, Shape, CallShape, ListStep
  <1>2. PICK out, s : Move(c, AfterPage([call[c] EXCEPT !.out = out], s), tags)
    BY Zenon DEF ListPage
  <1>3. PICK me : me = [call[c] EXCEPT !.out = out]
    OBVIOUS
  <1>4. DOMAIN me = Fields /\ me.at = call[c].at /\ me.type = call[c].type
    BY <1>1, <1>3, Zenon DEF Fields
  <1>5. /\ DOMAIN AfterPage(me, s) = Fields /\ ListStep(AfterPage(me, s).at)
        /\ AfterPage(me, s).type \in AskedTypes
    BY <1>1, <1>4, AfterPageShape
  <1>6. Move(c, AfterPage(me, s), tags)
    BY <1>2, <1>3
  <1> QED
    BY <1>1, <1>5, <1>6, ListStepKeeps

(* The end of a call, with an error or with the answer.                     *)
LEMMA EndOK ==
  ASSUME OwnerOK, NEW c \in Callers, ListFails(c) \/ Return(c)
  PROVE  OwnerOK'
  <1>1. ~Setting(c) /\ failed' = failed /\ Move(c, NoCall, tags)
    BY DEF ListFails, Return, Setting, Listing
  <1> QED
    BY <1>1, IdleShape, ListStepKeeps DEF ListStep

---------------------------------------------------------------------------
LEMMA OwnerNext == OwnerOK /\ [TagsNext]_tagVars => OwnerOK'
  <1> SUFFICES ASSUME OwnerOK, [TagsNext]_tagVars PROVE OwnerOK'
    OBVIOUS
  <1>1. CASE UNCHANGED tagVars
    <2>1. tags' = tags /\ call' = call /\ failed' = failed
      BY <1>1 DEF tagVars
    <2> QED
      BY <2>1 DEF OwnerOK, Shape, CallShape, Alone, OwnerlessExplained, Owning, Setting
  <1>2. ASSUME NEW c \in Callers, NEW r \in Resources, NEW o \in Owners, SetOwner(c, r, o)
        PROVE  OwnerOK'
    BY <1>2, SetOwnerOK
  <1>3. ASSUME NEW c \in Callers, NEW type \in Types \cup {Unset}, NEW o \in Owners \cup {Unset},
               ListOwners(c, type, o)
        PROVE  OwnerOK'
    BY <1>3, ListOwnersOK DEF AskedTypes
  <1>4. ASSUME NEW c \in Callers,
               \/ ReadTags(c) \/ Untag(c) \/ CreateTag(c) \/ TagResource(c) \/ SetFails(c)
               \/ ListTags(c) \/ Probe(c) \/ ListPage(c) \/ ListFails(c) \/ Return(c)
        PROVE  OwnerOK'
    BY <1>4, ReadTagsOK, UntagOK, CreateTagOK, TagResourceOK, SetFailsOK, ListTagsOK, ProbeOK,
       ListPageOK, EndOK
  <1> QED
    BY <1>1, <1>2, <1>3, <1>4 DEF TagsNext

LEMMA OwnerAlways == TagsSpec => []OwnerOK
  BY OwnerInit, OwnerNext, PTL DEF TagsSpec

(* A SetOwner that succeeds with no other on the resource at the time has   *)
(* left it with its owner and no other, whatever the tags were before and   *)
(* whatever calls failed (SetOwner removes every owner tag it read).        *)
THEOREM OwnerIsApplied == TagsSpec => []OwnerApplied
  <1>1. OwnerOK => OwnerApplied
    BY DEF OwnerOK, Alone, OwnerApplied, Owning
  <1> QED
    BY <1>1, OwnerAlways, PTL

(* A resource without an owner is explained: a SetOwner on it is under way, *)
(* or the last one to end failed (SetOwner untags before it tags).          *)
THEOREM OwnerlessIsExplained == TagsSpec => []OwnerlessExplained
  <1>1. OwnerOK => OwnerlessExplained
    BY DEF OwnerOK
  <1> QED
    BY <1>1, OwnerAlways, PTL

---------------------------------------------------------------------------
(* Pages.  The entry at a place from the page's first on is on the page, or *)
(* the page is not the last and the entry's place is from the next page's   *)
(* first on.                                                                *)

LEMMA PageBounds ==
  ASSUME NEW p \in Nat
  PROVE  /\ PageSize \in Nat \ {0} /\ p * PageSize \in Nat /\ (p + 1) * PageSize \in Nat
         /\ p * PageSize < (p + 1) * PageSize
  <1>1. PageSize \in Nat \ {0}
    BY OwnerTagsAssumption
  <1>2. p * PageSize \in Nat /\ (p + 1) * PageSize = p * PageSize + PageSize
    BY <1>1
  <1> QED
    BY <1>1, <1>2

LEMMA PageType ==
  ASSUME NEW S, NEW s \in Seq(S), NEW p \in Nat
  PROVE  Page(s, p) \in Seq(S)
  <1>1. PICK a \in Nat : a = p * PageSize
    BY PageBounds
  <1>2. PICK e \in Nat : e = (p + 1) * PageSize
    BY PageBounds
  <1>3. Page(s, p) = SubSeq(s, a + 1, IF e >= Len(s) THEN Len(s) ELSE e)
    BY <1>1, <1>2 DEF Page, IsLastPage
  <1> QED
    BY <1>3

LEMMA PageHas ==
  ASSUME NEW S, NEW s \in Seq(S), NEW p \in Nat, NEW i \in p * PageSize + 1 .. Len(s)
  PROVE  s[i] \in ToSet(Page(s, p)) \/ (~IsLastPage(s, p) /\ i \in (p + 1) * PageSize + 1 .. Len(s))
  <1>1. PICK a \in Nat, e \in Nat : a = p * PageSize /\ e = (p + 1) * PageSize /\ a < e
    BY PageBounds
  <1>2. PICK last \in Nat : last = IF e >= Len(s) THEN Len(s) ELSE e
    OBVIOUS
  <1>3. Page(s, p) = SubSeq(s, a + 1, last)
    BY <1>1, <1>2 DEF Page, IsLastPage
  <1>4. i \in a + 1 .. Len(s) /\ last <= Len(s)
    BY <1>1, <1>2
  <1>5. CASE i <= last
    <2>1. i - a \in 1 .. Len(SubSeq(s, a + 1, last)) /\ SubSeq(s, a + 1, last)[i - a] = s[i]
      BY <1>4, <1>5
    <2>2. SubSeq(s, a + 1, last) \in Seq(S)
      BY <1>4
    <2>3. PICK q : q = SubSeq(s, a + 1, last)
      OBVIOUS
    <2>4. i - a \in DOMAIN q /\ q[i - a] = s[i]
      BY <2>1, <2>2, <2>3
    <2> QED
      BY <1>3, <2>3, <2>4, Zenon DEF ToSet
  <1>6. CASE i > last
    BY <1>1, <1>2, <1>4, <1>6 DEF IsLastPage
  <1> QED
    BY <1>4, <1>5, <1>6

LEMMA HeadAndTail ==
  ASSUME NEW S, NEW s \in Seq(S), s # <<>>
  PROVE  /\ Head(s) \in S /\ Tail(s) \in Seq(S)
         /\ \A x \in ToSet(s) : x = Head(s) \/ x \in ToSet(Tail(s))
  <1>1. Head(s) \in S /\ Tail(s) \in Seq(S) /\ Len(Tail(s)) = Len(s) - 1 /\ Len(s) \in Nat \ {0}
    OBVIOUS
  <1>2. ASSUME NEW i \in 1 .. Len(s), i # 1
        PROVE  s[i] \in ToSet(Tail(s))
    <2>1. i - 1 \in 1 .. Len(Tail(s)) /\ Tail(s)[i - 1] = s[i]
      BY <1>1, <1>2
    <2>2. DOMAIN Tail(s) = 1 .. Len(Tail(s))
      BY <1>1
    <2> QED
      BY <2>1, <2>2 DEF ToSet
  <1>3. DOMAIN s = 1 .. Len(s) /\ s[1] = Head(s)
    OBVIOUS
  <1> QED
    BY <1>1, <1>2, <1>3 DEF ToSet

(* A numbering without repetition of a finite set reaches all of it.        *)
LEMMA NumberingReaches ==
  ASSUME NEW S, IsFiniteSet(S), NEW f \in [1 .. Cardinality(S) -> S], IsInjective(f), NEW x \in S
  PROVE  \E i \in 1 .. Cardinality(S) : f[i] = x
  <1>1. Cardinality(S) \in Nat
    BY FS_CardinalityType
  <1>2. IsFiniteSet(1 .. Cardinality(S)) /\ Cardinality(1 .. Cardinality(S)) = Cardinality(S)
    BY <1>1, FS_Interval
  <1>3. f \in Injection(1 .. Cardinality(S), S)
    BY DEF Injection
  <1>4. f \in Surjection(1 .. Cardinality(S), S)
    BY <1>2, <1>3, FS_Injection
  <1> QED
    BY <1>4 DEF Surjection

LEMMA ListFrom ==
  ASSUME NEW S, NEW T, S \subseteq T, NEW n \in Nat, NEW f \in [1 .. n -> S]
  PROVE  f \in Seq(T) /\ Len(f) = n
  OBVIOUS

(* A listing has every resource of its types.                               *)
LEMMA ListingHas ==
  ASSUME NEW r \in Resources
  PROVE  /\ All(ListingOf(Type[r])) \in Seq(Resources)
         /\ \E i \in 1 .. Len(All(ListingOf(Type[r]))) : All(ListingOf(Type[r]))[i] = r
  <1> DEFINE S == {q \in Resources : ListingOf(Type[q]) = ListingOf(Type[r])}
             f == All(ListingOf(Type[r]))
             n == Cardinality(S)
  <1>1. IsFiniteSet(S) /\ r \in S
    BY OwnerTagsAssumption, FS_Subset
  <1>2. n \in Nat /\ \E g \in [1 .. n -> S] : IsInjective(g)
    BY <1>1, FS_CardinalityType DEF ExistsBijection, Bijection, Injection
  <1>3. f = CHOOSE g \in [1 .. n -> S] : IsInjective(g)
    BY DEF All, SetToSeq
  <1> HIDE DEF f
  <1>4. f \in [1 .. n -> S] /\ IsInjective(f)
    BY <1>2, <1>3
  <1>5. \E i \in 1 .. n : f[i] = r
    BY <1>1, <1>4, NumberingReaches
  <1>6. f \in Seq(Resources) /\ Len(f) = n
    <2>1. S \subseteq Resources
      OBVIOUS
    <2> HIDE DEF S, n
    <2> QED
      BY <1>2, <1>4, <2>1, ListFrom
  <1> QED
    BY <1>5, <1>6 DEF f


---------------------------------------------------------------------------
(* Where a listing stands.  Of a pair it must still report, the tag is on a  *)
(* page of tags to come, or later on this one, or it is the tag at hand and  *)
(* the resource is in a listing, or on a page of one, to come.               *)

InListing(at) == at \in {"droplet", "volume", "database"}

Walking(at) == at \in {"tags", "probe"} \/ InListing(at)

Beyond(kn, n, o) == \E i \in n + 1 .. Len(kn) : kn[i] = o

NextPages(kn, me, o) == ~me.last /\ Beyond(kn, (me.page + 1) * PageSize, o)

Ahead(me, r) ==
    \/ /\ me.at = ListingOf(Type[r])
       /\ \E i \in me.pos * PageSize + 1 .. Len(All(me.at)) : All(me.at)[i] = r
    \/ me.type = Unset /\ me.at = "droplet"
    \/ me.type = Unset /\ me.at = "volume" /\ ListingOf(Type[r]) = "database"

ToCome(kn, me, p) ==
    \/ me.at = "tags" /\ Beyond(kn, me.page * PageSize, p[2])
    \/ me.at = "probe" /\ (p[2] \in ToSet(me.owners) \/ NextPages(kn, me, p[2]))
    \/ InListing(me.at) /\ (p[2] \in ToSet(Tail(me.owners)) \/ NextPages(kn, me, p[2]))
    \/ InListing(me.at) /\ p[2] = Head(me.owners) /\ Ahead(me, p[1])

Place(kn, me) ==
    /\ me.at = "probe" \/ InListing(me.at) => me.owners # <<>>
    /\ me.at = "probe" => me.pos = 0
    /\ Walking(me.at) \/ me.at = "listed" =>
         \A p \in me.always : Asked(me, p) => p \in me.out \/ ToCome(kn, me, p)

(* What it has found was held, and what was held all along still is.         *)
History(held, me) ==
    /\ Walking(me.at) => me.always \subseteq held
    /\ Walking(me.at) \/ me.at = "listed" => me.out \subseteq me.ever

CallType(x) ==
    /\ x.at \in Steps
    /\ x.r \in Resources \cup {Unset}
    /\ x.o \in Owners \cup {Unset}
    /\ x.drop \subseteq Owners
    /\ x.alone \in BOOLEAN
    /\ x.type \in Types \cup {Unset}
    /\ x.owners \in Seq(Owners)
    /\ x.page \in Nat /\ x.pos \in Nat /\ x.last \in BOOLEAN
    /\ x.out \subseteq Pairs
    /\ x.ever \subseteq Pairs /\ x.always \subseteq Pairs

CallOK(kn, held, x) ==
    /\ CallType(x)
    /\ x.at = "tag" => x.o \in ToSet(kn)
    /\ Place(kn, x)
    /\ History(held, x)

AccountOK ==
    /\ known \in Seq(Owners) /\ IsInjective(known)
    /\ \A p \in Held : p[2] \in ToSet(known)

CountsOK == failed \subseteq Resources /\ faults \in 0 .. MaxTagFaults /\ calls \in 0 .. MaxCalls

ListOK == OwnerOK /\ AccountOK /\ CountsOK /\ \A c \in Callers : CallOK(known, Held, call[c])

---------------------------------------------------------------------------
(* A step seen from a call.                                                  *)

SamePlace(x, y) ==
    /\ SameCall(x, y)
    /\ x.owners = y.owners /\ x.page = y.page /\ x.last = y.last /\ x.pos = y.pos
    /\ x.out = y.out

(* What the histories of a call become when the pairs of held are.           *)
Watched(x, y, held) ==
    IF Walking(y.at) THEN x.ever = y.ever \cup held /\ x.always = y.always \cap held
    ELSE x.ever = y.ever /\ x.always = y.always

Sees(x, y, held) == x.ever = y.ever \cup held /\ x.always = y.always \cap held

LEMMA ObservedFacts ==
  ASSUME NEW y, DOMAIN y = Fields, NEW held, NEW x,
         x = [y EXCEPT !.ever = @ \cup held, !.always = @ \cap held]
  PROVE  SamePlace(x, y) /\ Sees(x, y, held)
  BY Zenon DEF SamePlace, SameCall, Sees, Fields

LEMMA MoveLists ==
  ASSUME Shape, NEW c \in Callers, NEW new, DOMAIN new = Fields, NEW t, Move(c, new, t)
  PROVE  LET held == {p \in Pairs : p[2] \in t[p[1]]} IN
         /\ tags' = t /\ Held' = held
         /\ \A d \in Callers \ {c} : SamePlace(call'[d], call[d]) /\ Watched(call'[d], call[d], held)
         /\ SamePlace(call'[c], new)
         /\ IF Listing(c) /\ new.at # "idle" THEN Sees(call'[c], new, held)
            ELSE call'[c].ever = new.ever /\ call'[c].always = new.always
  <1> DEFINE held == {p \in Pairs : p[2] \in t[p[1]]}
             cs == [call EXCEPT ![c] = new]
  <1>1. tags' = t /\ call' = Observed(cs, held)
    BY DEF Move
  <1>2. Held' = held
    BY <1>1 DEF Held, Pairs
  <1>3. /\ cs[c] = new /\ \A d \in Callers \ {c} : cs[d] = call[d]
        /\ \A d \in Callers : DOMAIN cs[d] = Fields
    <2>1. DOMAIN call = Callers /\ \A d \in Callers : DOMAIN call[d] = Fields
      BY DEF Shape, CallShape
    <2> QED
      BY <2>1
  <1> HIDE DEF held, cs
  <1>4. \A d \in Callers :
          call'[d] = IF Listing(d) /\ cs[d].at # "idle"
                     THEN [cs[d] EXCEPT !.ever = @ \cup held, !.always = @ \cap held]
                     ELSE cs[d]
    BY <1>1 DEF Observed
  <1>5. ASSUME NEW d \in Callers
        PROVE  /\ SamePlace(call'[d], cs[d])
               /\ IF Listing(d) /\ cs[d].at # "idle" THEN Sees(call'[d], cs[d], held)
                  ELSE call'[d].ever = cs[d].ever /\ call'[d].always = cs[d].always
    <2>1. CASE Listing(d) /\ cs[d].at # "idle"
      <3>1. call'[d] = [cs[d] EXCEPT !.ever = @ \cup held, !.always = @ \cap held]
        BY <1>4, <2>1
      <3>2. SamePlace(call'[d], cs[d]) /\ Sees(call'[d], cs[d], held)
        BY <1>3, <3>1, ObservedFacts
      <3> QED
        BY <2>1, <3>2
    <2>2. CASE ~(Listing(d) /\ cs[d].at # "idle")
      <3>1. call'[d] = cs[d]
        BY <1>4, <2>2
      <3> QED
        BY <2>2, <3>1 DEF SamePlace, SameCall
    <2> QED
      BY <2>1, <2>2
  <1>6. ASSUME NEW d \in Callers \ {c}
        PROVE  SamePlace(call'[d], call[d]) /\ Watched(call'[d], call[d], held)
    <2>1. Listing(d) <=> Walking(call[d].at)
      BY DEF Listing, Walking, InListing
    <2>2. Walking(call[d].at) => call[d].at # "idle"
      BY DEF Walking, InListing
    <2> QED
      BY <1>3, <1>5, <2>1, <2>2 DEF Watched, Sees
  <1> QED
    BY <1>1, <1>2, <1>3, <1>5, <1>6 DEF held

(* A call whose place does not change, while others change tags.             *)
Extends(kn, ln) ==
    Len(kn) \in Nat /\ Len(ln) \in Nat /\ Len(kn) <= Len(ln) /\ \A i \in 1 .. Len(kn) : ln[i] = kn[i]

LEMMA ExtendsBeyond ==
  ASSUME NEW kn, NEW ln, Extends(kn, ln), NEW n \in Nat, NEW o, Beyond(kn, n, o)
  PROVE  Beyond(ln, n, o)
  BY DEF Extends, Beyond

LEMMA ExtendsHas ==
  ASSUME NEW kn \in Seq(Owners), NEW ln \in Seq(Owners), Extends(kn, ln), NEW o \in ToSet(kn)
  PROVE  o \in ToSet(ln)
  BY DEF Extends, ToSet

(* What the place of a call depends on.                                      *)
SameSpot(x, y) ==
    /\ x.at = y.at /\ x.o = y.o /\ x.type = y.type /\ x.owners = y.owners /\ x.page = y.page
    /\ x.last = y.last /\ x.pos = y.pos /\ x.out = y.out

LEMMA SamePlaceSpot == ASSUME NEW x, NEW y, SamePlace(y, x) PROVE SameSpot(y, x)
  BY DEF SamePlace, SameCall, SameSpot

LEMMA PlaceStays ==
  ASSUME NEW kn, NEW ln, Extends(kn, ln), NEW x, NEW y, CallType(x), Place(kn, x),
         SameSpot(y, x), y.always \subseteq x.always
  PROVE  Place(ln, y)
  <1> SUFFICES ASSUME Walking(y.at) \/ y.at = "listed", NEW p \in y.always, Asked(y, p)
               PROVE  p \in y.out \/ ToCome(ln, y, p)
    BY DEF Place, SameSpot
  <1>1. p \in x.out \/ ToCome(kn, x, p)
    <2>1. p \in x.always /\ (Walking(x.at) \/ x.at = "listed")
      BY DEF SameSpot
    <2>2. Asked(x, p)
      BY DEF SameSpot, Asked
    <2> QED
      BY <2>1, <2>2 DEF Place
  <1>2. x.page \in Nat /\ x.page * PageSize \in Nat /\ (x.page + 1) * PageSize \in Nat
    BY PageBounds DEF CallType
  <1>3. ToCome(kn, x, p) => ToCome(ln, x, p)
    BY <1>2, ExtendsBeyond DEF ToCome, NextPages
  <1>4. Ahead(x, p[1]) = Ahead(y, p[1])
    BY DEF SameSpot, Ahead
  <1>5. NextPages(ln, x, p[2]) = NextPages(ln, y, p[2])
    BY DEF SameSpot, NextPages
  <1>6. ToCome(ln, x, p) = ToCome(ln, y, p)
    BY <1>4, <1>5 DEF SameSpot, ToCome
  <1> QED
    BY <1>1, <1>3, <1>6 DEF SameSpot


LEMMA TypeStays ==
  ASSUME NEW x, NEW y, CallType(x), SamePlace(y, x), y.ever \subseteq Pairs, y.always \subseteq Pairs
  PROVE  CallType(y)
  BY DEF CallType, SamePlace, SameCall

(* A call that somebody else's step passes by.                               *)
LEMMA OtherCall ==
  ASSUME NEW kn \in Seq(Owners), NEW ln \in Seq(Owners), Extends(kn, ln),
         NEW old, NEW held \in SUBSET Pairs, NEW x, NEW y, CallOK(kn, old, x),
         SamePlace(y, x), Watched(y, x, held)
  PROVE  CallOK(ln, held, y)
  <1>1. CallType(x) /\ Place(kn, x) /\ History(old, x)
    BY DEF CallOK
  <1>2. y.at = x.at /\ y.o = x.o /\ y.out = x.out
    BY DEF SamePlace, SameCall
  <1>3. y.ever \subseteq Pairs /\ y.always \subseteq x.always /\ x.ever \subseteq y.ever
        /\ x.always \subseteq Pairs
    BY <1>1 DEF Watched, CallType
  <1>4. CallType(y) /\ Place(ln, y)
    BY <1>1, <1>3, TypeStays, PlaceStays, SamePlaceSpot
  <1>5. y.at = "tag" => y.o \in ToSet(ln)
    BY <1>2, ExtendsHas DEF CallOK
  <1>6. History(held, y)
    BY <1>1, <1>2, <1>3 DEF History, Watched
  <1> QED
    BY <1>4, <1>5, <1>6 DEF CallOK

(* The caller's own step, of a listing, and of anything else.                *)
LEMMA OwnListing ==
  ASSUME NEW kn, Len(kn) \in Nat, NEW held \in SUBSET Pairs, NEW new, NEW y, CallType(new), Place(kn, new),
         new.at # "tag", new.out \subseteq new.ever \cup held,
         SamePlace(y, new), Sees(y, new, held)
  PROVE  CallOK(kn, held, y)
  <1>1. y.ever \subseteq Pairs /\ y.always \subseteq new.always /\ y.always \subseteq Pairs
    BY DEF Sees, CallType
  <1>2. CallType(y) /\ Place(kn, y)
    BY <1>1, TypeStays, PlaceStays, SamePlaceSpot DEF Extends
  <1>3. History(held, y) /\ y.at # "tag"
    BY DEF History, Sees, SamePlace, SameCall
  <1> QED
    BY <1>2, <1>3 DEF CallOK

LEMMA NoPlace ==
  ASSUME NEW kn, NEW held, NEW x, ~Walking(x.at), x.at # "listed"
  PROVE  Place(kn, x) /\ History(held, x)
  BY DEF Place, History, Walking

LEMMA OwnOther ==
  ASSUME NEW kn, NEW held \in SUBSET Pairs, NEW new, NEW y, CallType(new),
         new.at = "tag" => new.o \in ToSet(kn), ~Walking(new.at), new.at # "listed",
         SamePlace(y, new),
         Sees(y, new, held) \/ (y.ever = new.ever /\ y.always = new.always)
  PROVE  CallOK(kn, held, y)
  <1>1. y.ever \subseteq Pairs /\ y.always \subseteq Pairs
    BY DEF Sees, CallType
  <1>2. CallType(y) /\ y.at = new.at /\ y.o = new.o
    BY <1>1, TypeStays DEF SamePlace, SameCall
  <1> QED
    BY <1>2, NoPlace DEF CallOK

(* Every step but the start of a call.                                       *)
ListsOn(c, kn, held, new) ==
    /\ Listing(c) /\ new.at \notin {"idle", "tag"} /\ Place(kn, new)
    /\ new.out \subseteq new.ever \cup held
LeavesLists(kn, new) ==
    ~Walking(new.at) /\ new.at # "listed" /\ (new.at = "tag" => new.o \in ToSet(kn))

LEMMA StepLists ==
  ASSUME ListOK, OwnerOK', AccountOK', CountsOK', Extends(known, known'),
         NEW c \in Callers, NEW new, DOMAIN new = Fields, CallType(new), NEW t, Move(c, new, t),
         ListsOn(c, known', Held', new) \/ LeavesLists(known', new)
  PROVE  ListOK'
  <1>1. /\ \A d \in Callers \ {c} : SamePlace(call'[d], call[d]) /\ Watched(call'[d], call[d], Held')
        /\ SamePlace(call'[c], new)
        /\ IF Listing(c) /\ new.at # "idle" THEN Sees(call'[c], new, Held')
           ELSE call'[c].ever = new.ever /\ call'[c].always = new.always
    BY MoveLists DEF ListOK, OwnerOK
  <1>2. Held' \in SUBSET Pairs /\ known \in Seq(Owners) /\ known' \in Seq(Owners)
    BY DEF Held, ListOK, AccountOK
  <1>3. ASSUME NEW d \in Callers \ {c}
        PROVE  CallOK(known', Held', call'[d])
    <2>1. CallOK(known, Held, call[d])
      BY DEF ListOK
    <2> QED
      BY <1>1, <1>2, <2>1, OtherCall
  <1>4. CallOK(known', Held', call'[c])
    <2>1. CASE ListsOn(c, known', Held', new)
      <3>1. Len(known') \in Nat
        BY <1>2
      <3> QED
        BY <1>1, <1>2, <2>1, <3>1, OwnListing DEF ListsOn
    <2>2. CASE LeavesLists(known', new)
      BY <1>1, <1>2, <2>2, OwnOther DEF LeavesLists
    <2> QED
      BY <2>1, <2>2
  <1> QED
    BY <1>3, <1>4 DEF ListOK

(* Tags that are put on are tags the account has.                            *)
LEMMA AccountStays ==
  ASSUME ListOK, UNCHANGED known,
         \A q \in Resources : tags'[q] \subseteq tags[q] \cup ToSet(known)
  PROVE  AccountOK' /\ Extends(known, known')
  <1>1. Extends(known, known')
    BY DEF Extends, ListOK, AccountOK
  <1>2. ASSUME NEW p \in Held' PROVE p[2] \in ToSet(known)
    <2>1. p \in Pairs /\ p[2] \in tags'[p[1]] /\ p[1] \in Resources
      BY DEF Held, Pairs
    <2>2. p[2] \in tags[p[1]] => p \in Held
      BY <2>1 DEF Held
    <2> QED
      BY <2>1, <2>2 DEF ListOK, AccountOK
  <1> QED
    BY <1>1, <1>2 DEF ListOK, AccountOK

LEMMA AccountSame ==
  ASSUME ListOK, UNCHANGED <<known, tags>>
  PROVE  AccountOK' /\ Extends(known, known') /\ Held' = Held
  <1>1. AccountOK' /\ Extends(known, known')
    BY AccountStays
  <1> QED
    BY <1>1 DEF Held


---------------------------------------------------------------------------
(* The steps of SetOwner.                                                    *)

LEMMA NoCallType == CallType(NoCall) /\ DOMAIN NoCall = Fields /\ NoCall.at = "idle"
  BY DEF CallType, NoCall, Steps, Fields

LEMMA AloneKeeps ==
  ASSUME NEW kn, Len(kn) \in Nat, NEW held, NEW x, DOMAIN x = Fields, CallOK(kn, held, x),
         NEW y, y = [x EXCEPT !.alone = FALSE]
  PROVE  CallOK(kn, held, y)
  <1>1. /\ SameSpot(y, x) /\ y.r = x.r /\ y.drop = x.drop /\ y.alone = FALSE
        /\ y.ever = x.ever /\ y.always = x.always
    BY Zenon DEF Fields, SameSpot
  <1>2. Place(kn, y)
    <2>1. Extends(kn, kn) /\ CallType(x) /\ Place(kn, x) /\ y.always \subseteq x.always
      BY <1>1 DEF Extends, CallOK
    <2> QED
      BY <1>1, <2>1, PlaceStays
  <1> QED
    BY <1>1, <1>2 DEF CallOK, CallType, History, SameSpot

LEMMA StartedCounts == ASSUME CountsOK, Started, UNCHANGED <<failed, faults>> PROVE CountsOK'
  BY OwnerTagsAssumption DEF CountsOK, Started

LEMMA FaultCounts ==
  ASSUME CountsOK, TagFault, failed' \subseteq Resources, UNCHANGED calls
  PROVE  CountsOK'
  BY OwnerTagsAssumption DEF CountsOK, TagFault

LEMMA SetOwnerLists ==
  ASSUME ListOK, OwnerOK', NEW c \in Callers, NEW r \in Resources, NEW o \in Owners, SetOwner(c, r, o)
  PROVE  ListOK'
  <1>1. UNCHANGED <<known, tags>> /\ CountsOK'
    BY StartedCounts DEF SetOwner, ListOK
  <1>2. AccountOK' /\ Held' = Held /\ Len(known) \in Nat
    BY <1>1, AccountSame DEF ListOK, AccountOK
  <1>3. PICK a \in BOOLEAN :
          /\ call'[c] = [NoCall EXCEPT !.at = "read", !.r = r, !.o = o, !.alone = a]
          /\ \A d \in Callers \ {c} :
               call'[d] = IF call[d].r = r THEN [call[d] EXCEPT !.alone = FALSE] ELSE call[d]
    BY DEF SetOwner
  <1>4. CallOK(known, Held, call'[c])
    <2>1. CallType(call'[c]) /\ call'[c].at = "read"
      BY <1>3 DEF CallType, NoCall, Steps
    <2> QED
      BY <2>1, NoPlace DEF CallOK, Walking, InListing
  <1>5. ASSUME NEW d \in Callers \ {c}
        PROVE  CallOK(known, Held, call'[d])
    <2>1. CallOK(known, Held, call[d]) /\ DOMAIN call[d] = Fields
      BY DEF ListOK, OwnerOK, Shape, CallShape
    <2> QED
      BY <1>2, <1>3, <2>1, AloneKeeps
  <1> QED
    BY <1>1, <1>2, <1>4, <1>5 DEF ListOK

(* What a step of SetOwner does to the call and the tags.                    *)
LEMMA SetterLists ==
  ASSUME ListOK, OwnerOK', CountsOK', NEW c \in Callers, UNCHANGED known,
         NEW new, DOMAIN new = Fields, CallType(new), NEW t, Move(c, new, t),
         LeavesLists(known, new),
         \A q \in Resources : t[q] \subseteq tags[q] \cup ToSet(known)
  PROVE  ListOK'
  <1>1. tags' = t
    BY DEF Move
  <1>2. AccountOK' /\ Extends(known, known')
    BY <1>1, AccountStays
  <1> QED
    BY <1>2, StepLists

LEMMA SetterKnows ==
  ASSUME ListOK, NEW c \in Callers
  PROVE  /\ DOMAIN call[c] = Fields /\ CallOK(known, Held, call[c]) /\ CallType(call[c])
         /\ tags \in [Resources -> SUBSET Owners] /\ known \in Seq(Owners)
         /\ Setting(c) => call[c].r \in Resources /\ call[c].o \in Owners
  <1>1. DOMAIN call[c] = Fields /\ CallOK(known, Held, call[c]) /\ known \in Seq(Owners)
    BY DEF ListOK, OwnerOK, Shape, CallShape, AccountOK
  <1>2. Setting(c) => call[c].r \in Resources /\ call[c].o \in Owners
    BY DEF ListOK, OwnerOK, Shape, CallShape, Owning
  <1> QED
    BY <1>1, <1>2 DEF ListOK, OwnerOK, Shape, CallOK

(* A caller whose step changes.                                              *)
LEMMA AtType ==
  ASSUME NEW x, DOMAIN x = Fields, CallType(x), NEW at \in Steps, NEW y, y = [x EXCEPT !.at = at]
  PROVE  DOMAIN y = Fields /\ CallType(y) /\ y.at = at /\ y.o = x.o
  <1>1. /\ DOMAIN y = Fields /\ y.at = at /\ y.drop = x.drop /\ SameAnswer(y, x)
        /\ y.r = x.r /\ y.alone = x.alone /\ y.owners = x.owners /\ y.page = x.page
        /\ y.pos = x.pos /\ y.last = x.last
    BY Zenon DEF Fields, SameAnswer
  <1> QED
    BY <1>1 DEF CallType, SameAnswer

LEMMA ReadTagsLists ==
  ASSUME ListOK, OwnerOK', NEW c \in Callers, ReadTags(c)
  PROVE  ListOK'
  <1>1. PICK drop : drop = tags[call[c].r] \ {call[c].o}
    OBVIOUS
  <1>2. PICK new : new = [call[c] EXCEPT !.drop = drop, !.at = "untag"]
    OBVIOUS
  <1>3. Move(c, new, tags) /\ UNCHANGED <<known, failed, faults, calls>> /\ Setting(c)
    BY <1>1, <1>2 DEF ReadTags, Setting
  <1>4. drop \subseteq Owners
    BY <1>1, <1>3, SetterKnows
  <1>5. DOMAIN new = Fields /\ CallType(new) /\ new.at = "untag"
    <2>1. DOMAIN call[c] = Fields /\ CallType(call[c])
      BY SetterKnows
    <2>2. /\ DOMAIN new = Fields /\ new.at = "untag" /\ new.drop = drop /\ SameAnswer(new, call[c])
          /\ new.r = call[c].r /\ new.alone = call[c].alone /\ new.owners = call[c].owners
          /\ new.page = call[c].page /\ new.pos = call[c].pos /\ new.last = call[c].last
      BY <1>2, <2>1, Zenon DEF Fields, SameAnswer
    <2> QED
      BY <1>4, <2>1, <2>2 DEF CallType, SameAnswer, Steps
  <1>6. LeavesLists(known, new) /\ CountsOK'
    BY <1>3, <1>5 DEF LeavesLists, Walking, InListing, ListOK, CountsOK
  <1> QED
    BY <1>3, <1>5, <1>6, SetterLists


LEMMA UntagLists ==
  ASSUME ListOK, OwnerOK', NEW c \in Callers, Untag(c)
  PROVE  ListOK'
  <1>1. /\ UNCHANGED <<known, failed, faults, calls>> /\ Setting(c) /\ call[c].at = "untag"
        /\ CountsOK'
    BY DEF Untag, Setting, ListOK, CountsOK
  <1>2. /\ DOMAIN call[c] = Fields /\ CallType(call[c]) /\ call[c].r \in Resources
        /\ tags \in [Resources -> SUBSET Owners] /\ "create" \in Steps /\ "untag" \in Steps
    BY <1>1, SetterKnows DEF Steps
  <1>3. CASE call[c].drop = {}
    <2>1. PICK new : new = [call[c] EXCEPT !.at = "create"] /\ Move(c, new, tags)
      BY <1>3 DEF Untag
    <2>2. DOMAIN new = Fields /\ CallType(new) /\ new.at = "create"
      BY <1>2, <2>1, AtType
    <2>3. LeavesLists(known, new)
      BY <2>2 DEF LeavesLists, Walking, InListing
    <2> QED
      BY <1>1, <2>1, <2>2, <2>3, SetterLists
  <1>4. ASSUME NEW x \in call[c].drop,
               Move(c, [call[c] EXCEPT !.drop = @ \ {x}], [tags EXCEPT ![call[c].r] = @ \ {x}])
        PROVE  ListOK'
    <2>1. PICK new, t : /\ new = [call[c] EXCEPT !.drop = @ \ {x}]
                        /\ t = [tags EXCEPT ![call[c].r] = @ \ {x}] /\ Move(c, new, t)
      BY <1>4
    <2>2. PICK drop : drop = call[c].drop \ {x}
      OBVIOUS
    <2>3. /\ DOMAIN new = Fields /\ new.at = "untag" /\ new.drop = drop /\ SameAnswer(new, call[c])
          /\ new.r = call[c].r /\ new.alone = call[c].alone /\ new.owners = call[c].owners
          /\ new.page = call[c].page /\ new.pos = call[c].pos /\ new.last = call[c].last
      BY <1>1, <1>2, <2>1, <2>2, Zenon DEF Fields, SameAnswer
    <2>4. CallType(new)
      BY <1>2, <2>2, <2>3 DEF CallType, SameAnswer
    <2>5. LeavesLists(known, new)
      BY <2>3 DEF LeavesLists, Walking, InListing
    <2>6. \A q \in Resources : t[q] \subseteq tags[q] \cup ToSet(known)
      BY <1>2, <2>1
    <2> QED
      BY <1>1, <2>1, <2>3, <2>4, <2>5, <2>6, SetterLists
  <1> QED
    BY <1>3, <1>4 DEF Untag

(* A tag that is made is the account's last.                                 *)
LEMMA KnownGrows ==
  ASSUME NEW s \in Seq(Owners), IsInjective(s), NEW o \in Owners, o \notin ToSet(s),
         NEW q, q = Append(s, o)
  PROVE  /\ q \in Seq(Owners) /\ IsInjective(q) /\ Extends(s, q) /\ o \in ToSet(q)
         /\ ToSet(s) \subseteq ToSet(q)
  <1>1. /\ q \in Seq(Owners) /\ Len(q) = Len(s) + 1 /\ q[Len(s) + 1] = o
        /\ \A i \in 1 .. Len(s) : q[i] = s[i]
    OBVIOUS
  <1>2. DOMAIN q = 1 .. Len(s) + 1 /\ DOMAIN s = 1 .. Len(s) /\ Len(s) \in Nat
    BY <1>1
  <1>3. IsInjective(q)
    <2> SUFFICES ASSUME NEW i \in 1 .. Len(s) + 1, NEW j \in 1 .. Len(s) + 1, q[i] = q[j], i # j
                 PROVE  FALSE
      BY <1>2 DEF IsInjective
    <2>1. \A k \in 1 .. Len(s) : s[k] # o
      BY <1>2 DEF ToSet
    <2> QED
      BY <1>1, <1>2, <2>1 DEF IsInjective
  <1>4. Extends(s, q) /\ o \in ToSet(q) /\ ToSet(s) \subseteq ToSet(q)
    BY <1>1, <1>2 DEF Extends, ToSet
  <1> QED
    BY <1>1, <1>3, <1>4

LEMMA WithTagFacts ==
  ASSUME known \in Seq(Owners), IsInjective(known), NEW o \in Owners, known' = WithTag(o)
  PROVE  /\ known' \in Seq(Owners) /\ IsInjective(known)' /\ Extends(known, known')
         /\ o \in ToSet(known') /\ ToSet(known) \subseteq ToSet(known')
  <1>1. CASE o \in ToSet(known)
    BY <1>1 DEF WithTag, Extends
  <1>2. CASE o \notin ToSet(known)
    <2>1. PICK q : q = known' /\ q = Append(known, o)
      BY <1>2 DEF WithTag
    <2>2. /\ q \in Seq(Owners) /\ IsInjective(q) /\ Extends(known, q)
          /\ o \in ToSet(q) /\ ToSet(known) \subseteq ToSet(q)
      BY <1>2, <2>1, KnownGrows
    <2> QED
      BY <2>1, <2>2
  <1> QED
    BY <1>1, <1>2

LEMMA CreateTagLists ==
  ASSUME ListOK, OwnerOK', NEW c \in Callers, CreateTag(c)
  PROVE  ListOK'
  <1>1. UNCHANGED <<failed, faults, calls>> /\ Setting(c) /\ CountsOK'
    BY DEF CreateTag, Setting, ListOK, CountsOK
  <1>2. PICK new : new = [call[c] EXCEPT !.at = "tag"] /\ Move(c, new, tags)
    BY DEF CreateTag
  <1>3. /\ DOMAIN call[c] = Fields /\ CallType(call[c]) /\ call[c].o \in Owners /\ "tag" \in Steps
        /\ known \in Seq(Owners) /\ IsInjective(known)
    BY <1>1, SetterKnows DEF Steps, ListOK, AccountOK
  <1>4. DOMAIN new = Fields /\ CallType(new) /\ new.at = "tag" /\ new.o = call[c].o
    BY <1>2, <1>3, AtType
  <1>5. /\ known' \in Seq(Owners) /\ IsInjective(known)' /\ Extends(known, known')
        /\ call[c].o \in ToSet(known') /\ ToSet(known) \subseteq ToSet(known')
    BY <1>3, WithTagFacts DEF CreateTag
  <1>6. AccountOK'
    <2>1. Held' = Held
      BY <1>2 DEF Move, Held
    <2> QED
      BY <1>5, <2>1 DEF ListOK, AccountOK
  <1>7. LeavesLists(known', new)
    BY <1>4, <1>5 DEF LeavesLists, Walking, InListing
  <1> QED
    BY <1>1, <1>2, <1>4, <1>5, <1>6, <1>7, StepLists

LEMMA TagResourceLists ==
  ASSUME ListOK, OwnerOK', NEW c \in Callers, TagResource(c)
  PROVE  ListOK'
  <1>1. /\ UNCHANGED <<known, faults, calls>> /\ Setting(c) /\ CountsOK' /\ call[c].at = "tag"
    BY DEF TagResource, Setting, ListOK, CountsOK
  <1>2. PICK new, t : /\ new = [call[c] EXCEPT !.at = "set"] /\ Move(c, new, t)
                      /\ t = [tags EXCEPT ![call[c].r] = @ \cup {call[c].o}]
    BY DEF TagResource
  <1>3. /\ DOMAIN call[c] = Fields /\ CallType(call[c]) /\ "set" \in Steps
        /\ tags \in [Resources -> SUBSET Owners] /\ call[c].o \in ToSet(known)
    BY <1>1, SetterKnows DEF Steps, CallOK
  <1>4. DOMAIN new = Fields /\ CallType(new) /\ new.at = "set"
    BY <1>2, <1>3, AtType
  <1>5. LeavesLists(known, new) /\ \A q \in Resources : t[q] \subseteq tags[q] \cup ToSet(known)
    BY <1>2, <1>3, <1>4 DEF LeavesLists, Walking, InListing
  <1> QED
    BY <1>1, <1>2, <1>4, <1>5, SetterLists

LEMMA SetFailsLists ==
  ASSUME ListOK, OwnerOK', NEW c \in Callers, SetFails(c)
  PROVE  ListOK'
  <1>1. Setting(c) /\ UNCHANGED calls /\ TagFault /\ failed' = failed \cup {call[c].r}
    BY DEF SetFails
  <1>2. /\ call[c].r \in Resources /\ call[c].o \in Owners /\ tags \in [Resources -> SUBSET Owners]
        /\ known \in Seq(Owners) /\ IsInjective(known)
    BY <1>1, SetterKnows DEF ListOK, AccountOK
  <1>3. CountsOK'
    BY <1>1, <1>2, FaultCounts DEF ListOK, CountsOK
  <1>4. CASE /\ UNCHANGED known
             /\ \E t : /\ Move(c, NoCall, t)
                      /\ \/ t = tags
                         \/ \E x : t = [tags EXCEPT ![call[c].r] = @ \ {x}]
                         \/ call[c].at = "tag" /\ t = [tags EXCEPT ![call[c].r] = @ \cup {call[c].o}]
    <2>1. PICK t : /\ Move(c, NoCall, t)
                   /\ \/ t = tags
                      \/ \E x : t = [tags EXCEPT ![call[c].r] = @ \ {x}]
                      \/ call[c].at = "tag" /\ t = [tags EXCEPT ![call[c].r] = @ \cup {call[c].o}]
      BY <1>4
    <2>2. call[c].at = "tag" => call[c].o \in ToSet(known)
      BY <1>1, SetterKnows DEF CallOK
    <2>3. \A q \in Resources : t[q] \subseteq tags[q] \cup ToSet(known)
      BY <1>2, <2>1, <2>2
    <2>4. LeavesLists(known, NoCall)
      BY NoCallType DEF LeavesLists, Walking, InListing
    <2> QED
      BY <1>1, <1>3, <1>4, <2>1, <2>3, <2>4, NoCallType, SetterLists
  <1>5. CASE known' = WithTag(call[c].o) /\ Move(c, NoCall, tags)
    <2>1. /\ known' \in Seq(Owners) /\ IsInjective(known)' /\ Extends(known, known')
          /\ ToSet(known) \subseteq ToSet(known')
      BY <1>2, <1>5, WithTagFacts
    <2>2. Held' = Held
      BY <1>5 DEF Move, Held
    <2>3. AccountOK'
      BY <1>1, <1>2, <2>1, <2>2 DEF ListOK, AccountOK
    <2>4. LeavesLists(known', NoCall)
      BY NoCallType DEF LeavesLists, Walking, InListing
    <2> QED
      BY <1>1, <1>3, <1>5, <2>1, <2>3, <2>4, NoCallType, StepLists
  <1> QED
    BY <1>4, <1>5 DEF SetFails

(* The end of a call.                                                        *)
LEMMA EndLists ==
  ASSUME ListOK, OwnerOK', NEW c \in Callers, ListFails(c) \/ Return(c)
  PROVE  ListOK'
  <1>1. UNCHANGED <<known, failed, calls>> /\ Move(c, NoCall, tags) /\ (TagFault \/ faults' = faults)
    BY DEF ListFails, Return
  <1>2. CountsOK'
    <2>1. CASE TagFault
      BY <1>1, <2>1, FaultCounts DEF ListOK, CountsOK
    <2>2. CASE faults' = faults
      BY <1>1, <2>2 DEF ListOK, CountsOK
    <2> QED
      BY <1>1, <2>1, <2>2
  <1>3. LeavesLists(known, NoCall)
    BY NoCallType DEF LeavesLists, Walking, InListing
  <1> QED
    BY <1>1, <1>2, <1>3, NoCallType, SetterLists


---------------------------------------------------------------------------
(* The steps of ListOwners.                                                  *)

LEMMA ListerKnows ==
  ASSUME ListOK, NEW c \in Callers, Listing(c)
  PROVE  /\ DOMAIN call[c] = Fields /\ CallType(call[c]) /\ Place(known, call[c])
         /\ call[c].always \subseteq Held /\ call[c].out \subseteq call[c].ever
         /\ known \in Seq(Owners) /\ \A p \in Held : p[2] \in ToSet(known)
  <1>1. CallOK(known, Held, call[c]) /\ DOMAIN call[c] = Fields
    BY SetterKnows
  <1>2. Walking(call[c].at)
    BY DEF Listing, Walking, InListing
  <1> QED
    BY <1>1, <1>2 DEF CallOK, History, ListOK, AccountOK

LEMMA ListerLists ==
  ASSUME ListOK, OwnerOK', NEW c \in Callers, Listing(c), UNCHANGED <<known, failed, faults, calls>>,
         NEW new, DOMAIN new = Fields, CallType(new), Move(c, new, tags),
         new.at \notin {"idle", "tag"}, Place(known, new), new.out \subseteq new.ever \cup Held
  PROVE  ListOK'
  <1>1. UNCHANGED <<known, tags>> /\ CountsOK'
    BY DEF Move, ListOK, CountsOK
  <1>2. AccountOK' /\ Extends(known, known') /\ Held' = Held
    BY <1>1, AccountSame
  <1>3. ListsOn(c, known', Held', new)
    BY <1>1, <1>2 DEF ListsOn
  <1> QED
    BY <1>1, <1>2, <1>3, StepLists

(* From tag to tag: whatever is not found is on this page of tags, or on one *)
(* to come.                                                                  *)
StillDue(kn, me) ==
    \A p \in me.always : Asked(me, p) =>
       p \in me.out \/ p[2] \in ToSet(me.owners) \/ NextPages(kn, me, p[2])

LEMMA NextTagPlace ==
  ASSUME NEW kn, NEW me, DOMAIN me = Fields, CallType(me), StillDue(kn, me), NEW n, n = NextTag(me)
  PROVE  /\ DOMAIN n = Fields /\ CallType(n) /\ Place(kn, n) /\ n.at \notin {"idle", "tag"}
         /\ n.out = me.out /\ n.ever = me.ever
  <1>1. /\ DOMAIN n = Fields /\ SameAnswer(n, me) /\ SameSetter(n, me)
        /\ n.owners = me.owners /\ n.last = me.last
        /\ \/ me.owners # <<>> /\ n.at = "probe" /\ n.page = me.page /\ n.pos = 0
           \/ me.owners = <<>> /\ me.last /\ n.at = "listed" /\ n.page = me.page /\ n.pos = me.pos
           \/ me.owners = <<>> /\ ~me.last /\ n.at = "tags" /\ n.page = me.page + 1 /\ n.pos = me.pos
    BY NextTagFacts
  <1>2. CallType(n)
    BY <1>1 DEF CallType, SameAnswer, SameSetter, Steps
  <1>3. ASSUME NEW p \in n.always, Asked(n, p)
        PROVE  p \in n.out \/ ToCome(kn, n, p)
    <2>1. p \in me.out \/ p[2] \in ToSet(me.owners) \/ NextPages(kn, me, p[2])
      BY <1>1, <1>3 DEF SameAnswer, Asked, StillDue
    <2>2. CASE p[2] \in ToSet(me.owners)
      <3>1. me.owners # <<>>
        BY <2>2 DEF ToSet
      <3> QED
        BY <1>1, <2>2, <3>1 DEF ToCome
    <2>3. CASE NextPages(kn, me, p[2])
      <3>1. ~me.last /\ Beyond(kn, (me.page + 1) * PageSize, p[2])
        BY <2>3 DEF NextPages
      <3>2. CASE me.owners # <<>>
        BY <1>1, <2>3, <3>2 DEF ToCome, NextPages
      <3>3. CASE me.owners = <<>>
        BY <1>1, <3>1, <3>3 DEF ToCome
      <3> QED
        BY <3>2, <3>3
    <2> QED
      BY <1>1, <2>1, <2>2, <2>3 DEF SameAnswer
  <1>4. Place(kn, n) /\ n.at \notin {"idle", "tag"}
    BY <1>1, <1>3 DEF Place, InListing
  <1> QED
    BY <1>1, <1>2, <1>4 DEF SameAnswer

LEMMA TagDonePlace ==
  ASSUME NEW kn, NEW me, DOMAIN me = Fields, CallType(me), me.owners # <<>>,
         \A p \in me.always : Asked(me, p) =>
            p \in me.out \/ p[2] \in ToSet(Tail(me.owners)) \/ NextPages(kn, me, p[2]),
         NEW n, n = TagDone(me)
  PROVE  /\ DOMAIN n = Fields /\ CallType(n) /\ Place(kn, n) /\ n.at \notin {"idle", "tag"}
         /\ n.out = me.out /\ n.ever = me.ever
  <1>1. PICK rest : /\ DOMAIN rest = Fields /\ SameAnswer(rest, me) /\ SameSetter(rest, me)
                    /\ rest.owners = Tail(me.owners)
                    /\ rest.last = me.last /\ rest.page = me.page /\ rest.pos = me.pos /\ rest.at = me.at
                    /\ n = NextTag(rest)
    BY TagDoneFacts
  <1>2. CallType(rest)
    <2>1. rest.owners \in Seq(Owners)
      BY <1>1, HeadAndTail DEF CallType
    <2>2. /\ rest.at = me.at
          /\ rest.r = me.r /\ rest.drop = me.drop /\ rest.alone = me.alone
      BY <1>1 DEF SameSetter
    <2> QED
      BY <1>1, <2>1, <2>2 DEF CallType, SameAnswer
  <1>3. StillDue(kn, rest)
    BY <1>1 DEF StillDue, SameAnswer, Asked, NextPages
  <1>4. /\ DOMAIN n = Fields /\ CallType(n) /\ Place(kn, n) /\ n.at \notin {"idle", "tag"}
        /\ n.out = rest.out /\ n.ever = rest.ever
    BY <1>1, <1>2, <1>3, NextTagPlace
  <1> QED
    BY <1>1, <1>4 DEF SameAnswer


LEMMA ListOwnersLists ==
  ASSUME ListOK, OwnerOK', NEW c \in Callers, NEW type \in AskedTypes,
         NEW o \in Owners \cup {Unset}, ListOwners(c, type, o)
  PROVE  ListOK'
  <1>1. UNCHANGED <<known, tags>> /\ CountsOK'
    BY StartedCounts DEF ListOwners, ListOK
  <1>2. AccountOK' /\ Held' = Held /\ known \in Seq(Owners) /\ \A p \in Held : p[2] \in ToSet(known)
    BY <1>1, AccountSame DEF ListOK, AccountOK
  <1>3. PICK new, at, owners :
          /\ at = IF o = Unset THEN "tags" ELSE "probe"
          /\ owners = IF o = Unset THEN <<>> ELSE <<o>>
          /\ new = [NoCall EXCEPT !.type = type, !.ever = Held, !.always = Held,
                                  !.o = o, !.at = at, !.owners = owners]
          /\ call'[c] = new /\ \A d \in Callers \ {c} : call'[d] = call[d]
    <2>1. DOMAIN call = Callers
      BY DEF ListOK, OwnerOK, Shape
    <2> QED
      BY <2>1 DEF ListOwners
  <1>4. /\ new.at = at /\ new.owners = owners /\ new.o = o /\ new.type = type
        /\ new.ever = Held /\ new.always = Held
        /\ new.r = Unset /\ new.drop = {} /\ new.alone = TRUE /\ new.page = 0 /\ new.pos = 0
        /\ new.last = TRUE /\ new.out = {}
    BY <1>3 DEF NoCall
  <1>5. Held \subseteq Pairs /\ owners \in Seq(Owners)
    BY <1>3 DEF Held
  <1>6. CallType(new)
    <2>1. at \in Steps
      BY <1>3 DEF Steps
    <2>2. new.alone \in BOOLEAN /\ new.last \in BOOLEAN
      BY <1>4, Zenon
    <2> QED
      BY <1>4, <1>5, <2>1, <2>2 DEF CallType, AskedTypes
  <1>7. ASSUME NEW p \in Held, Asked(new, p)
        PROVE  ToCome(known, new, p)
    <2>1. CASE o = Unset
      <3>1. PICK i \in 1 .. Len(known) : known[i] = p[2]
        BY <1>2, <1>7 DEF ToSet
      <3>2. 0 * PageSize = 0
        BY PageBounds
      <3> QED
        BY <1>3, <1>4, <2>1, <3>1, <3>2 DEF ToCome, Beyond
    <2>2. CASE o # Unset
      <3>1. p[2] = o /\ owners = <<o>> /\ at = "probe"
        BY <1>3, <1>4, <1>7, <2>2 DEF Asked
      <3>2. o \in ToSet(owners)
        BY <3>1 DEF ToSet
      <3> QED
        BY <1>4, <3>1, <3>2 DEF ToCome
    <2> QED
      BY <2>1, <2>2
  <1>8. CallOK(known, Held, new)
    <2>1. at = "probe" => owners # <<>>
      BY <1>3
    <2>2. at \in {"tags", "probe"}
      BY <1>3
    <2> QED
      BY <1>4, <1>6, <1>7, <2>1, <2>2 DEF CallOK, Place, History, InListing
  <1> QED
    BY <1>1, <1>2, <1>3, <1>8 DEF ListOK

LEMMA ListTagsLists ==
  ASSUME ListOK, OwnerOK', NEW c \in Callers, ListTags(c)
  PROVE  ListOK'
  <1>1. Listing(c) /\ UNCHANGED <<known, failed, faults, calls>> /\ call[c].at = "tags"
    BY DEF ListTags, Listing
  <1>2. PICK x, me, n :
          /\ x = call[c] /\ me = [x EXCEPT !.owners = Page(known, x.page),
                                          !.last = IsLastPage(known, x.page)]
          /\ n = NextTag(me) /\ Move(c, n, tags)
    BY Zenon DEF ListTags
  <1>3. /\ DOMAIN x = Fields /\ CallType(x) /\ Place(known, x) /\ x.at = "tags"
        /\ x.out \subseteq x.ever /\ known \in Seq(Owners)
    BY <1>1, <1>2, ListerKnows
  <1>4. /\ DOMAIN me = Fields /\ SameAnswer(me, x) /\ SameSetter(me, x) /\ me.at = x.at
        /\ me.page = x.page /\ me.pos = x.pos
        /\ me.owners = Page(known, x.page) /\ me.last = IsLastPage(known, x.page)
    BY <1>2, <1>3, Zenon DEF Fields, SameAnswer, SameSetter
  <1>5. CallType(me)
    <2>1. x.page \in Nat
      BY <1>3 DEF CallType
    <2>2. Page(known, x.page) \in Seq(Owners)
      BY <1>3, <2>1, PageType
    <2>3. IsLastPage(known, x.page) \in BOOLEAN
      BY DEF IsLastPage
    <2> QED
      BY <1>3, <1>4, <2>2, <2>3 DEF CallType, SameAnswer, SameSetter
  <1>6. StillDue(known, me)
    <2> SUFFICES ASSUME NEW p \in me.always, Asked(me, p), p \notin me.out
                 PROVE  p[2] \in ToSet(me.owners) \/ NextPages(known, me, p[2])
      BY DEF StillDue
    <2>1. ToCome(known, x, p)
      BY <1>3, <1>4 DEF Place, Walking, SameAnswer, Asked
    <2>2. PICK i \in x.page * PageSize + 1 .. Len(known) : known[i] = p[2]
      BY <1>3, <2>1 DEF ToCome, InListing, Beyond
    <2>3. x.page \in Nat
      BY <1>3 DEF CallType
    <2>4. \/ known[i] \in ToSet(Page(known, x.page))
          \/ ~IsLastPage(known, x.page) /\ i \in (x.page + 1) * PageSize + 1 .. Len(known)
      BY <1>3, <2>3, PageHas
    <2> QED
      BY <1>4, <2>2, <2>4 DEF NextPages, Beyond
  <1>7. /\ DOMAIN n = Fields /\ CallType(n) /\ Place(known, n) /\ n.at \notin {"idle", "tag"}
        /\ n.out = me.out /\ n.ever = me.ever
    <2>1. n = NextTag(me)
      BY <1>2
    <2> QED
      BY <1>4, <1>5, <1>6, <2>1, NextTagPlace
  <1>8. n.out \subseteq n.ever \cup Held
    BY <1>3, <1>4, <1>7 DEF SameAnswer
  <1> QED
    BY <1>1, <1>2, <1>7, <1>8, ListerLists

LEMMA ListingOfTypes ==
  ASSUME NEW r \in Resources
  PROVE  InListing(ListingOf(Type[r])) /\ (ListingOf(Type[r]) = "droplet" => Type[r] = "droplet")
  BY OwnerTagsAssumption DEF InListing, ListingOf, Types

(* The tag at hand is known: its listings begin.                             *)
LEMMA ListingStarts ==
  ASSUME NEW kn, NEW x, DOMAIN x = Fields, CallType(x), Place(kn, x), x.at = "probe",
         NEW at, at = IF x.type = Unset THEN "droplet" ELSE ListingOf(x.type),
         NEW n, n = [x EXCEPT !.at = at]
  PROVE  /\ DOMAIN n = Fields /\ CallType(n) /\ Place(kn, n) /\ n.at \notin {"idle", "tag"}
         /\ n.out = x.out /\ n.ever = x.ever
  <1>1. InListing(at)
    BY DEF InListing, ListingOf, CallType, Types
  <1>2. at \in Steps
    BY <1>1 DEF InListing, Steps
  <1>3. /\ DOMAIN n = Fields /\ n.at = at /\ SameAnswer(n, x) /\ SameSetter(n, x)
        /\ n.owners = x.owners /\ n.page = x.page /\ n.pos = x.pos /\ n.last = x.last
    BY Zenon DEF Fields, SameAnswer, SameSetter
  <1>4. CallType(n)
    BY <1>2, <1>3 DEF CallType, SameAnswer, SameSetter
  <1>5. x.owners \in Seq(Owners) /\ x.owners # <<>> /\ x.pos = 0 /\ x.always \subseteq Pairs
    BY DEF CallType, Place
  <1>6. ASSUME NEW p \in n.always, Asked(n, p)
        PROVE  p \in n.out \/ ToCome(kn, n, p)
    <2>1. p \in x.out \/ p[2] \in ToSet(x.owners) \/ NextPages(kn, x, p[2])
      BY <1>3, <1>6 DEF Place, Walking, SameAnswer, Asked, ToCome, InListing
    <2>2. p[1] \in Resources
      BY <1>3, <1>5, <1>6 DEF Pairs, SameAnswer
    <2>3. Ahead(n, p[1])
      <3>1. CASE x.type = Unset
        BY <1>3, <3>1 DEF Ahead, SameAnswer
      <3>2. CASE x.type # Unset
        <4>1. at = ListingOf(Type[p[1]])
          BY <1>3, <1>6, <3>2 DEF Asked, SameAnswer
        <4>2. \E i \in 1 .. Len(All(at)) : All(at)[i] = p[1]
          BY <2>2, <4>1, ListingHas
        <4>3. n.pos * PageSize + 1 = 1
          BY <1>3, <1>5, PageBounds
        <4> QED
          BY <1>3, <4>1, <4>2, <4>3 DEF Ahead
      <3> QED
        BY <3>1, <3>2
    <2>4. p[2] \in ToSet(x.owners) => p[2] = Head(x.owners) \/ p[2] \in ToSet(Tail(x.owners))
      BY <1>5, HeadAndTail
    <2>5. NextPages(kn, x, p[2]) = NextPages(kn, n, p[2])
      BY <1>3 DEF NextPages
    <2> QED
      BY <1>1, <1>3, <2>1, <2>3, <2>4, <2>5 DEF ToCome, SameAnswer
  <1>7. Place(kn, n) /\ n.at \notin {"idle", "tag"}
    BY <1>1, <1>3, <1>5, <1>6 DEF Place, InListing
  <1> QED
    BY <1>3, <1>4, <1>7 DEF SameAnswer

LEMMA ProbeLists ==
  ASSUME ListOK, OwnerOK', NEW c \in Callers, Probe(c)
  PROVE  ListOK'
  <1>1. Listing(c) /\ UNCHANGED <<known, failed, faults, calls>> /\ call[c].at = "probe"
    BY DEF Probe, Listing
  <1>2. PICK x : x = call[c]
    OBVIOUS
  <1>3. /\ DOMAIN x = Fields /\ CallType(x) /\ Place(known, x) /\ x.at = "probe"
        /\ x.always \subseteq Held /\ x.out \subseteq x.ever
        /\ \A p \in Held : p[2] \in ToSet(known)
        /\ x.owners \in Seq(Owners) /\ x.owners # <<>>
    BY <1>1, <1>2, ListerKnows DEF Place, CallType
  <1>4. \E n : /\ Move(c, n, tags) /\ DOMAIN n = Fields /\ CallType(n) /\ Place(known, n)
               /\ n.at \notin {"idle", "tag"} /\ n.out = x.out /\ n.ever = x.ever
    <2>1. CASE Head(x.owners) \notin ToSet(known)
      <3>1. PICK n : n = TagDone(x) /\ Move(c, n, tags)
        BY <1>2, <2>1, Zenon DEF Probe
      <3>2. ASSUME NEW p \in x.always, Asked(x, p)
            PROVE  p \in x.out \/ p[2] \in ToSet(Tail(x.owners)) \/ NextPages(known, x, p[2])
        <4>1. p \in x.out \/ p[2] \in ToSet(x.owners) \/ NextPages(known, x, p[2])
          BY <1>3, <3>2 DEF Place, Walking, ToCome, InListing
        <4>2. p[2] # Head(x.owners)
          BY <1>3, <2>1, <3>2
        <4> QED
          BY <1>3, <4>1, <4>2, HeadAndTail
      <3> QED
        BY <1>3, <3>1, <3>2, TagDonePlace
    <2>2. CASE Head(x.owners) \in ToSet(known)
      <3>1. PICK n, at : /\ at = IF x.type = Unset THEN "droplet" ELSE ListingOf(x.type)
                         /\ n = [x EXCEPT !.at = at] /\ Move(c, n, tags)
        BY <1>2, <2>2, Zenon DEF Probe
      <3> QED
        BY <1>3, <3>1, ListingStarts
    <2> QED
      BY <2>1, <2>2
  <1>5. PICK n : /\ Move(c, n, tags) /\ DOMAIN n = Fields /\ CallType(n) /\ Place(known, n)
                 /\ n.at \notin {"idle", "tag"} /\ n.out \subseteq n.ever \cup Held
    BY <1>3, <1>4
  <1> QED
    BY <1>1, <1>5, ListerLists


(* A page of a listing: the pairs it adds, and where it leaves the call.     *)
Found(x) == {r \in Resources :
               /\ r \in ToSet(Page(Listed(x.at, Head(x.owners)), x.pos)) /\ Head(x.owners) \in tags[r]
               /\ x.type = Unset \/ Type[r] = x.type} \X {Head(x.owners)}

LEMMA FoundHeld ==
  ASSUME NEW x, x.owners \in Seq(Owners), x.owners # <<>>
  PROVE  Found(x) \subseteq Held
  <1>1. Head(x.owners) \in Owners
    BY HeadAndTail
  <1> QED
    BY <1>1 DEF Found, Held, Pairs

(* A pair held all along, whose resource is on the page at hand or on one to *)
(* come, is found now or comes later.                                        *)
LEMMA PageFinds ==
  ASSUME NEW x, x.pos \in Nat, NEW p \in Held, Asked(x, p), p[2] = Head(x.owners),
         x.at = ListingOf(Type[p[1]]),
         NEW i \in x.pos * PageSize + 1 .. Len(All(x.at)), All(x.at)[i] = p[1]
  PROVE  \/ p \in Found(x)
         \/ /\ ~IsLastPage(Listed(x.at, Head(x.owners)), x.pos)
            /\ i \in (x.pos + 1) * PageSize + 1 .. Len(All(x.at))
  <1>1. p \in Pairs /\ p[1] \in Resources /\ p[2] \in tags[p[1]] /\ p = <<p[1], p[2]>>
    BY DEF Held, Pairs
  <1>2. x.at # "droplet"
    BY <1>1, ListingOfTypes DEF Asked
  <1>3. Listed(x.at, Head(x.owners)) = All(x.at)
    BY <1>2 DEF Listed
  <1>4. All(x.at) \in Seq(Resources)
    BY <1>1, ListingHas
  <1>5. \/ All(x.at)[i] \in ToSet(Page(All(x.at), x.pos))
        \/ ~IsLastPage(All(x.at), x.pos) /\ i \in (x.pos + 1) * PageSize + 1 .. Len(All(x.at))
    BY <1>4, PageHas
  <1>6. CASE p[1] \in ToSet(Page(All(x.at), x.pos))
    <2>1. p[1] \in {r \in Resources :
               /\ r \in ToSet(Page(Listed(x.at, Head(x.owners)), x.pos)) /\ Head(x.owners) \in tags[r]
               /\ x.type = Unset \/ Type[r] = x.type}
      BY <1>1, <1>3, <1>6 DEF Asked
    <2> QED
      BY <1>1, <2>1 DEF Found
  <1> QED
    BY <1>3, <1>5, <1>6

(* After the page: y is the call with what it found, n where it goes.        *)
With(x, y) ==
    /\ DOMAIN y = Fields /\ y.out = x.out \cup Found(x) /\ SameSetter(y, x)
    /\ y.at = x.at /\ y.type = x.type /\ y.o = x.o /\ y.owners = x.owners /\ y.page = x.page
    /\ y.last = x.last /\ y.pos = x.pos /\ y.ever = x.ever /\ y.always = x.always

AtListing(x) ==
    /\ CallType(x) /\ Place(known, x) /\ InListing(x.at) /\ x.owners # <<>>
    /\ x.always \subseteq Held

Arrives(y, n) ==
    /\ DOMAIN n = Fields /\ CallType(n) /\ Place(known, n) /\ n.at \notin {"idle", "tag"}
    /\ n.out = y.out /\ n.ever = y.ever

LEMMA WithType ==
  ASSUME NEW x, NEW y, With(x, y), AtListing(x)
  PROVE  CallType(y)
  <1>1. Found(x) \subseteq Pairs
    BY FoundHeld DEF AtListing, CallType, Held
  <1> QED
    BY <1>1 DEF With, AtListing, CallType, SameSetter

(* What a pair still to be reported is waiting for.                          *)
LEMMA StillToCome ==
  ASSUME NEW x, NEW y, With(x, y), AtListing(x), NEW p \in y.always, Asked(y, p)
  PROVE  /\ p \in Held /\ p[1] \in Resources /\ Asked(x, p)
         /\ \/ p \in y.out
            \/ p[2] \in ToSet(Tail(x.owners)) \/ NextPages(known, x, p[2])
            \/ p[2] = Head(x.owners) /\ Ahead(x, p[1])
  <1>1. p \in Held /\ p \in x.always
    BY DEF With, AtListing
  <1>2. Asked(x, p)
    BY DEF With, Asked
  <1>3. p \in x.out \/ ToCome(known, x, p)
    BY <1>1, <1>2 DEF AtListing, Place, Walking
  <1> QED
    BY <1>1, <1>2, <1>3 DEF Held, Pairs, With, AtListing, InListing, ToCome


(* The next page of the same listing.                                        *)
LEMMA NextPage ==
  ASSUME NEW x, NEW y, With(x, y), AtListing(x),
         ~IsLastPage(Listed(x.at, Head(x.owners)), x.pos),
         NEW n, n = [y EXCEPT !.pos = @ + 1]
  PROVE  Arrives(y, n)
  <1>1. /\ DOMAIN n = Fields /\ n.at = y.at /\ SameAnswer(n, y) /\ SameSetter(n, y)
        /\ n.owners = y.owners /\ n.page = y.page /\ n.pos = y.pos + 1 /\ n.last = y.last
    BY Zenon DEF With, Fields, SameAnswer, SameSetter
  <1>2. CallType(n)
    BY <1>1, WithType DEF CallType, SameAnswer, SameSetter
  <1>3. /\ n.at = x.at /\ n.type = x.type /\ n.o = x.o /\ n.owners = x.owners /\ n.page = x.page
        /\ n.last = x.last /\ n.pos = x.pos + 1 /\ n.out = y.out /\ n.always = y.always
        /\ n.ever = y.ever
    BY <1>1 DEF With, SameAnswer
  <1>4. x.pos \in Nat /\ InListing(x.at) /\ x.owners # <<>>
    BY DEF AtListing, CallType
  <1>5. ASSUME NEW p \in n.always, Asked(n, p), p \notin n.out
        PROVE  ToCome(known, n, p)
    <2>1. Asked(y, p) /\ p \in y.always /\ p \notin y.out
      BY <1>1, <1>5 DEF Asked, SameAnswer
    <2>2. /\ p \in Held /\ Asked(x, p)
          /\ \/ p[2] \in ToSet(Tail(x.owners)) \/ NextPages(known, x, p[2])
             \/ p[2] = Head(x.owners) /\ Ahead(x, p[1])
      BY <2>1, StillToCome
    <2>3. CASE p[2] \in ToSet(Tail(x.owners)) \/ NextPages(known, x, p[2])
      BY <1>3, <1>4, <2>3 DEF ToCome, NextPages
    <2>4. CASE p[2] = Head(x.owners) /\ Ahead(x, p[1])
      <3>1. Ahead(n, p[1])
        <4>1. ASSUME x.at = ListingOf(Type[p[1]]),
                     NEW i \in x.pos * PageSize + 1 .. Len(All(x.at)), All(x.at)[i] = p[1]
              PROVE  Ahead(n, p[1])
          <5>1. p \notin Found(x)
            BY <2>1 DEF With
          <5>2. i \in (x.pos + 1) * PageSize + 1 .. Len(All(x.at))
            BY <1>4, <2>2, <2>4, <4>1, <5>1, PageFinds
          <5> QED
            BY <1>3, <4>1, <5>2 DEF Ahead
        <4>2. CASE x.type = Unset /\ (\/ x.at = "droplet"
                                      \/ x.at = "volume" /\ ListingOf(Type[p[1]]) = "database")
          BY <1>3, <4>2 DEF Ahead
        <4> QED
          BY <2>4, <4>1, <4>2 DEF Ahead
      <3> QED
        BY <1>3, <1>4, <2>4, <3>1 DEF ToCome
    <2> QED
      BY <2>2, <2>3, <2>4
  <1>6. Place(known, n) /\ n.at \notin {"idle", "tag"}
    BY <1>3, <1>4, <1>5 DEF Place, InListing
  <1> QED
    BY <1>1, <1>2, <1>3, <1>6 DEF Arrives

(* After the last page of a listing, what waits for a listing waits for      *)
(* another one.                                                              *)
LEMMA ListingOver ==
  ASSUME NEW x, AtListing(x), IsLastPage(Listed(x.at, Head(x.owners)), x.pos),
         NEW p \in Held, Asked(x, p), p[2] = Head(x.owners), p \notin Found(x), Ahead(x, p[1])
  PROVE  /\ x.type = Unset
         /\ x.at = "droplet" \/ (x.at = "volume" /\ ListingOf(Type[p[1]]) = "database")
  <1>1. ASSUME x.at = ListingOf(Type[p[1]]),
               NEW i \in x.pos * PageSize + 1 .. Len(All(x.at)), All(x.at)[i] = p[1]
        PROVE  FALSE
    BY <1>1, PageFinds DEF AtListing, CallType
  <1> QED
    BY <1>1 DEF Ahead

(* The next listing, when all types are asked for.                           *)
LEMMA NextListing ==
  ASSUME NEW x, NEW y, With(x, y), AtListing(x), x.type = Unset, x.at # "database",
         IsLastPage(Listed(x.at, Head(x.owners)), x.pos),
         NEW at, at = IF x.at = "droplet" THEN "volume" ELSE "database",
         NEW n, n = [y EXCEPT !.pos = 0, !.at = at]
  PROVE  Arrives(y, n)
  <1>1. /\ DOMAIN n = Fields /\ n.at = at /\ SameAnswer(n, y) /\ SameSetter(n, y)
        /\ n.owners = y.owners /\ n.page = y.page /\ n.pos = 0 /\ n.last = y.last
    BY Zenon DEF With, Fields, SameAnswer, SameSetter
  <1>2. CallType(n)
    <2>1. at \in Steps
      BY DEF Steps
    <2> QED
      BY <1>1, <2>1, WithType DEF CallType, SameAnswer, SameSetter
  <1>3. /\ n.type = x.type /\ n.o = x.o /\ n.owners = x.owners /\ n.page = x.page
        /\ n.last = x.last /\ n.out = y.out /\ n.always = y.always /\ n.ever = y.ever
    BY <1>1 DEF With, SameAnswer
  <1>4. InListing(x.at) /\ x.owners # <<>> /\ InListing(at)
    BY DEF AtListing, InListing
  <1>5. ASSUME NEW p \in n.always, Asked(n, p), p \notin n.out
        PROVE  ToCome(known, n, p)
    <2>1. Asked(y, p) /\ p \in y.always /\ p \notin y.out
      BY <1>1, <1>5 DEF Asked, SameAnswer
    <2>2. /\ p \in Held /\ Asked(x, p) /\ p[1] \in Resources
          /\ \/ p[2] \in ToSet(Tail(x.owners)) \/ NextPages(known, x, p[2])
             \/ p[2] = Head(x.owners) /\ Ahead(x, p[1])
      BY <2>1, StillToCome
    <2>3. CASE p[2] \in ToSet(Tail(x.owners)) \/ NextPages(known, x, p[2])
      BY <1>1, <1>3, <1>4, <2>3 DEF ToCome, NextPages
    <2>4. CASE p[2] = Head(x.owners) /\ Ahead(x, p[1])
      <3>1. p \notin Found(x)
        BY <2>1 DEF With
      <3>2. x.at = "droplet" \/ (x.at = "volume" /\ ListingOf(Type[p[1]]) = "database")
        BY <2>2, <2>4, <3>1, ListingOver
      <3>3. ListingOf(Type[p[1]]) \in {"volume", "database"}
        BY <2>2, ListingOfTypes DEF Asked, InListing
      <3>4. CASE ListingOf(Type[p[1]]) = at
        <4>1. \E i \in 1 .. Len(All(at)) : All(at)[i] = p[1]
          BY <2>2, <3>4, ListingHas
        <4>2. n.pos * PageSize + 1 = 1
          BY <1>1, PageBounds
        <4>3. Ahead(n, p[1])
          BY <1>1, <3>4, <4>1, <4>2 DEF Ahead
        <4> QED
          BY <1>1, <1>3, <1>4, <2>4, <4>3 DEF ToCome
      <3>5. CASE ListingOf(Type[p[1]]) # at
        <4>1. at = "volume" /\ ListingOf(Type[p[1]]) = "database"
          BY <3>2, <3>3, <3>5
        <4>2. Ahead(n, p[1])
          BY <1>1, <1>3, <4>1 DEF Ahead
        <4> QED
          BY <1>1, <1>3, <1>4, <2>4, <4>2 DEF ToCome
      <3> QED
        BY <3>4, <3>5
    <2> QED
      BY <2>2, <2>3, <2>4
  <1>6. Place(known, n) /\ n.at \notin {"idle", "tag"}
    BY <1>1, <1>3, <1>4, <1>5 DEF Place, InListing
  <1> QED
    BY <1>1, <1>2, <1>3, <1>6 DEF Arrives

LEMMA LastListing ==
  ASSUME NEW x, NEW y, With(x, y), AtListing(x), x.type # Unset \/ x.at = "database",
         IsLastPage(Listed(x.at, Head(x.owners)), x.pos), NEW n, n = TagDone(y)
  PROVE  Arrives(y, n)
  <1>1. DOMAIN y = Fields /\ CallType(y) /\ y.owners # <<>>
    BY WithType DEF With, AtListing
  <1>2. ASSUME NEW p \in y.always, Asked(y, p)
        PROVE  p \in y.out \/ p[2] \in ToSet(Tail(y.owners)) \/ NextPages(known, y, p[2])
    <2>1. /\ p \in Held /\ Asked(x, p)
          /\ \/ p \in y.out
             \/ p[2] \in ToSet(Tail(x.owners)) \/ NextPages(known, x, p[2])
             \/ p[2] = Head(x.owners) /\ Ahead(x, p[1])
      BY <1>2, StillToCome
    <2>2. CASE p[2] = Head(x.owners) /\ Ahead(x, p[1])
      <3>1. p \in Found(x)
        BY <2>1, <2>2, ListingOver
      <3> QED
        BY <3>1 DEF With
    <2>3. CASE p[2] \in ToSet(Tail(x.owners)) \/ NextPages(known, x, p[2])
      BY <2>3 DEF With, NextPages
    <2> QED
      BY <2>1, <2>2, <2>3
  <1>3. /\ DOMAIN n = Fields /\ CallType(n) /\ Place(known, n) /\ n.at \notin {"idle", "tag"}
        /\ n.out = y.out /\ n.ever = y.ever
    BY <1>1, <1>2, TagDonePlace
  <1> QED
    BY <1>3 DEF Arrives


LEMMA ListPageLists ==
  ASSUME ListOK, OwnerOK', NEW c \in Callers, ListPage(c)
  PROVE  ListOK'
  <1>1. Listing(c) /\ UNCHANGED <<known, failed, faults, calls>> /\ InListing(call[c].at)
    BY DEF ListPage, Listing, InListing
  <1>2. PICK x, y, s, n :
          /\ x = call[c] /\ s = Listed(x.at, Head(x.owners))
          /\ y = [x EXCEPT !.out = @ \cup Found(x)] /\ n = AfterPage(y, s) /\ Move(c, n, tags)
    BY Zenon DEF ListPage, Found
  <1>3. DOMAIN x = Fields /\ AtListing(x) /\ x.out \subseteq x.ever
    BY <1>1, <1>2, ListerKnows DEF AtListing, Place
  <1>4. With(x, y)
    BY <1>2, <1>3, Zenon DEF With, Fields, SameSetter
  <1>5. y.at = x.at /\ y.type = x.type /\ y.pos = x.pos
    BY <1>4 DEF With
  <1>6. Arrives(y, n)
    <2>1. CASE ~IsLastPage(s, y.pos)
      <3>1. n = [y EXCEPT !.pos = @ + 1]
        BY <1>2, <2>1, Zenon DEF AfterPage
      <3>2. ~IsLastPage(Listed(x.at, Head(x.owners)), x.pos)
        BY <1>2, <1>5, <2>1
      <3> QED
        BY <1>3, <1>4, <3>1, <3>2, NextPage
    <2>2. CASE IsLastPage(s, y.pos) /\ y.type = Unset /\ y.at # "database"
      <3>1. PICK at : /\ at = IF y.at = "droplet" THEN "volume" ELSE "database"
                      /\ n = [y EXCEPT !.pos = 0, !.at = at]
        BY <1>2, <2>2, Zenon DEF AfterPage
      <3>2. IsLastPage(Listed(x.at, Head(x.owners)), x.pos) /\ x.type = Unset /\ x.at # "database"
        BY <1>2, <1>5, <2>2
      <3>3. at = IF x.at = "droplet" THEN "volume" ELSE "database"
        BY <1>5, <3>1
      <3> QED
        BY <1>3, <1>4, <3>1, <3>2, <3>3, NextListing
    <2>3. CASE IsLastPage(s, y.pos) /\ (y.type # Unset \/ y.at = "database")
      <3>1. n = TagDone(y)
        BY <1>2, <2>3, Zenon DEF AfterPage
      <3>2. IsLastPage(Listed(x.at, Head(x.owners)), x.pos) /\ (x.type # Unset \/ x.at = "database")
        BY <1>2, <1>5, <2>3
      <3> QED
        BY <1>3, <1>4, <3>1, <3>2, LastListing
    <2> QED
      BY <2>1, <2>2, <2>3
  <1>7. n.out \subseteq n.ever \cup Held
    <2>1. Found(x) \subseteq Held
      BY <1>3, FoundHeld DEF AtListing, CallType
    <2> QED
      BY <1>3, <1>4, <1>6, <2>1 DEF With, Arrives
  <1>8. Move(c, n, tags) /\ DOMAIN n = Fields /\ CallType(n) /\ n.at \notin {"idle", "tag"}
        /\ Place(known, n)
    BY <1>2, <1>6 DEF Arrives
  <1> QED
    BY <1>1, <1>7, <1>8, ListerLists

---------------------------------------------------------------------------
(* In the beginning the account has the tags its resources carry.            *)
LEMMA KnownInit ==
  ASSUME NEW S, IsFiniteSet(S), NEW s \in SetToSeqs(S)
  PROVE  s \in Seq(S) /\ IsInjective(s) /\ S \subseteq ToSet(s)
  <1>1. PICK n : n = Cardinality(S) /\ n \in Nat
    BY FS_CardinalityType
  <1>2. s \in [1 .. n -> S] /\ \A i, j \in 1 .. n : i # j => s[i] # s[j]
    BY <1>1 DEF SetToSeqs
  <1>3. IsInjective(s)
    BY <1>2 DEF IsInjective
  <1>4. \A x \in S : \E i \in 1 .. n : s[i] = x
    BY <1>1, <1>2, <1>3, NumberingReaches
  <1>5. S \subseteq ToSet(s)
    BY <1>2, <1>4 DEF ToSet
  <1> QED
    BY <1>1, <1>2, <1>3, <1>5, ListFrom

LEMMA ListInit == TagsInit => ListOK
  <1> SUFFICES ASSUME TagsInit PROVE ListOK
    OBVIOUS
  <1>1. OwnerOK /\ tags \in [Resources -> SUBSET Owners]
    BY OwnerInit DEF OwnerOK, Shape
  <1>2. PICK S : S = UNION {tags[r] : r \in Resources}
    OBVIOUS
  <1>3. S \subseteq Owners /\ \A p \in Held : p[2] \in S
    BY <1>1, <1>2 DEF Held, Pairs
  <1>4. known \in Seq(S) /\ IsInjective(known) /\ S \subseteq ToSet(known)
    <2>1. IsFiniteSet(S)
      BY <1>3, OwnerTagsAssumption, FS_Subset
    <2>2. known \in SetToSeqs(S)
      BY <1>2 DEF TagsInit
    <2> QED
      BY <2>1, <2>2, KnownInit
  <1>5. AccountOK
    <2>1. known \in Seq(Owners)
      BY <1>3, <1>4
    <2> QED
      BY <1>3, <1>4, <2>1 DEF AccountOK
  <1>6. CountsOK
    BY OwnerTagsAssumption DEF CountsOK, TagsInit
  <1>7. ASSUME NEW c \in Callers PROVE CallOK(known, Held, call[c])
    <2>1. call[c] = NoCall
      BY DEF TagsInit
    <2> QED
      BY <2>1, NoCallType, NoPlace DEF CallOK, Walking, InListing
  <1> QED
    BY <1>1, <1>5, <1>6, <1>7 DEF ListOK

LEMMA ListNext == ListOK /\ [TagsNext]_tagVars => ListOK'
  <1> SUFFICES ASSUME ListOK, [TagsNext]_tagVars PROVE ListOK'
    OBVIOUS
  <1>0. OwnerOK'
    BY OwnerNext DEF ListOK
  <1>1. CASE UNCHANGED tagVars
    <2>1. UNCHANGED <<tags, known, call, failed, faults, calls>>
      BY <1>1 DEF tagVars
    <2>2. Held' = Held
      BY <2>1 DEF Held
    <2> QED
      BY <1>0, <2>1, <2>2 DEF ListOK, AccountOK, CountsOK
  <1>2. ASSUME NEW c \in Callers, NEW r \in Resources, NEW o \in Owners, SetOwner(c, r, o)
        PROVE  ListOK'
    BY <1>0, <1>2, SetOwnerLists
  <1>3. ASSUME NEW c \in Callers, NEW type \in Types \cup {Unset}, NEW o \in Owners \cup {Unset},
               ListOwners(c, type, o)
        PROVE  ListOK'
    BY <1>0, <1>3, ListOwnersLists DEF AskedTypes
  <1>4. ASSUME NEW c \in Callers,
               \/ ReadTags(c) \/ Untag(c) \/ CreateTag(c) \/ TagResource(c) \/ SetFails(c)
               \/ ListTags(c) \/ Probe(c) \/ ListPage(c) \/ ListFails(c) \/ Return(c)
        PROVE  ListOK'
    BY <1>0, <1>4, ReadTagsLists, UntagLists, CreateTagLists, TagResourceLists, SetFailsLists,
       ListTagsLists, ProbeLists, ListPageLists, EndLists
  <1> QED
    BY <1>1, <1>2, <1>3, <1>4 DEF TagsNext

LEMMA ListAlways == TagsSpec => []ListOK
  BY ListInit, ListNext, PTL DEF TagsSpec

(* Every value the calls and the account's tags take is one of its kind, the *)
(* account has no tag twice, and every tag a resource carries is one of the  *)
(* account's (SetOwner makes the tag before it uses it).                     *)
THEOREM TagTypes == TagsSpec => []TagsTypeOK
  <1>1. ListOK => TagsTypeOK
    BY DEF ListOK, OwnerOK, Shape, AccountOK, CountsOK, CallOK, CallType, TagsTypeOK
  <1> QED
    BY <1>1, ListAlways, PTL

(* A listing that ends has nothing but pairs some resource carried while it  *)
(* ran, and misses no pair carried all along, of the type and the owner      *)
(* asked for, droplets aside: whatever the number of tags and pages, and     *)
(* whatever others tag and untag between its calls (ListOwners,              *)
(* listOwnersForTag, EnumerateByTag).                                        *)
THEOREM ListingSound == TagsSpec => []ListSound
  <1>1. ListOK => ListSound
    <2> SUFFICES ASSUME ListOK, NEW c \in Callers, call[c].at = "listed"
                 PROVE  /\ call[c].out \subseteq call[c].ever
                        /\ {p \in call[c].always : Asked(call[c], p)} \subseteq call[c].out
      BY DEF ListSound
    <2>1. Place(known, call[c]) /\ History(Held, call[c])
      BY DEF ListOK, CallOK
    <2>2. \A p : ~ToCome(known, call[c], p)
      BY DEF ToCome, InListing
    <2> QED
      BY <2>1, <2>2 DEF Place, History
  <1> QED
    BY <1>1, ListAlways, PTL

=============================================================================
