------------------------ MODULE AppSpecWriters_proofs ------------------------
(***************************************************************************)
(* The operations that write one app's spec, for any number of callers,     *)
(* calls, domains, records, deployments and faults. One inductive           *)
(* invariant, Safe, has three parts beside the types of the state.          *)
(*                                                                          *)
(* WritesOK: a call that has read the spec holds the app's spec, or a       *)
(* deployment was made since, so that a write based on a stale read is the  *)
(* only one that can undo the work of another call; a repair has its job to *)
(* itself.                                                                  *)
(*                                                                          *)
(* HealthOK: the slots hold ever newer deployments, the wait names what was *)
(* active before the last Update, and a HealthCheck that goes on to the     *)
(* records has found a deployment newer than that.                          *)
(*                                                                          *)
(* RecordsOK: while a name has records, one of them, its keeper, is in no   *)
(* plan's list to delete, whichever call made the plan and however old the  *)
(* listing is that it was made from.                                        *)
(***************************************************************************)
EXTENDS AppSpecWriters, WellFoundedInduction, TLAPS

(* A call in flight is one that was asked for, at a step of its operation.  *)
Repairing == {"put", "wait", "cancel", "restore_get", "restore_put"}

InOrder(c) ==
    /\ c.pc # "idle" => <<c.op, c.arg>> \in Requests
    /\ c.pc \in Repairing \ {"put"} => c.op = "repair"
    /\ c.op = "repair" => c.pc \in Repairing \cup {"get"}
    /\ c.pc \in {"list", "dns", "probe"} => c.op \in {"update", "health"}

Slots ==
    /\ lastDep \in DepIDs /\ pending \in DepRefs /\ inProgress \in DepRefs /\ active \in DepRefs
    /\ dep \in [DepIDs -> [spec : Specs, phase : DepPhases]]
    /\ prev \in [DepIDs -> DepRefs]

(* The types the arguments rest on.                                         *)
Shape ==
    /\ spec \in Specs /\ Slots
    /\ menu \in [Callers -> SUBSET Requests]
    /\ call \in [Callers -> Calls]
    /\ \A p \in Callers : InOrder(call[p])
    /\ wait \in Waits
    /\ records \in Records
    /\ bound \in SUBSET Domains
    /\ repair \in [Jobs -> {"none", "succeeded", "failed", "unrestored"}]
    /\ undone \in SUBSET Jobs
    /\ baseline \in DepRefs
    /\ crossed \in BOOLEAN
    /\ health \in [ok : BOOLEAN, active : DepRefs, baseline : DepRefs]

-----------------------------------------------------------------------------
(* Writes.  What a call has read is what the app still has, or a deployment *)
(* was made since; a repair has its job to itself.                          *)

Reads(c) == c.op # "update" /\ c.pc \in {"put", "restore_put"}

ReadCurrent ==
    \A p \in Callers : Reads(call[p]) =>
        call[p].at <= lastDep /\ (call[p].at = lastDep => call[p].copy = spec)

OneJob ==
    /\ \A p \in Callers : call[p].op = "repair" /\ call[p].pc \in Repairing =>
          \E j \in Jobs : call[p].job = {j}
    /\ \A p \in Callers : \A j \in call[p].job : repair[j] = "none"
    /\ \A p, q \in Callers : p # q => call[p].job \cap call[q].job = {}

NotYetAdded ==
    \A p \in Callers : call[p].op = "repair" /\ call[p].pc = "put" =>
        \A j \in call[p].job : spec.jobs[j] = "absent" \/ j \in undone

WritesOK == ReadCurrent /\ OneJob /\ NotYetAdded /\ RepairLeavesNoJob /\ DomainsKept

-----------------------------------------------------------------------------
(* Health.                                                                  *)

SlotsOrdered ==
    /\ \A d \in DepIDs : prev[d] < d
    /\ active <= lastDep
    /\ inProgress # 0 => active < inProgress /\ inProgress <= lastDep
    /\ pending # 0 => active < pending /\ inProgress < pending /\ pending <= lastDep
    /\ \A d \in DepIDs : dep[d].phase = "active" => d = active
    /\ \A d \in DepIDs : d <= lastDep => dep[d].phase # "none"

WaitOK ==
    /\ baseline <= active
    /\ wait.set => wait.prev = baseline
    /\ wait.set /\ ~crossed /\ wait.prev # 0 => wait.target # wait.prev
    /\ ~wait.set /\ baseline # 0 /\ ~crossed => baseline < active

HealthCall(c, now, mixed) ==
    /\ c.op = "update" /\ c.pc \in {"put", "deploy"} => c.prev <= now
    /\ c.op = "health" /\ c.pc = "target" => c.app.active <= now
    /\ c.op = "health" /\ c.pc \in {"deploy", "list", "dns", "probe"} =>
          /\ c.prev <= now
          /\ c.wait.set => c.wait.prev = c.prev
    /\ c.op = "health" /\ c.pc = "deploy" =>
          /\ c.wait.set
          /\ ~mixed /\ c.wait.prev # 0 => c.wait.target # c.wait.prev
    /\ c.op = "health" /\ c.pc \in {"list", "dns", "probe"} =>
          /\ c.inv <= now
          /\ c.prev # 0 /\ ~mixed => c.prev < c.inv

HealthOK == SlotsOrdered /\ WaitOK /\ (\A p \in Callers : HealthCall(call[p], active, crossed)) /\ HealthyIsNew

-----------------------------------------------------------------------------
(* Records.                                                                 *)

Good(d) == {r \in RecIDs : records[d][r] = "target"}
Keeper(d) == Min(IF Good(d) # {} THEN Good(d) ELSE Live(d))

PlanOK(d, plan) ==
    IF Live(d) = {} THEN plan = [put |-> NewRecord, drop |-> {}]
    ELSE /\ Keeper(d) \notin plan.drop
         /\ plan.put \in RecIDs => plan.put = Keeper(d)
         /\ plan.put = NewRecord =>
               Good(d) = Live(d) /\ \A r \in RecIDs : records[d][r] = "free" => Keeper(d) < r

Plans == [put : 0..NewRecord, drop : SUBSET RecIDs]

DnsCall(c) ==
    /\ c.pc \in {"list", "dns"} => c.todo # {}
    /\ c.pc = "dns" => c.plan # NoPlan
    /\ c.pc = "dns" => \A d \in Domains : d = (CHOOSE n \in c.todo : TRUE) => PlanOK(d, c.plan)

RecordsOK == \A p \in Callers : DnsCall(call[p])

Safe == Shape /\ WritesOK /\ HealthOK /\ RecordsOK

-----------------------------------------------------------------------------
(* Numbers, specs and calls.                                                *)

LEMMA DepNumbers ==
    /\ DepIDs \subseteq Nat /\ DepRefs = DepIDs \cup {0} /\ DepRefs \subseteq Nat /\ 0 \notin DepIDs
    /\ 1 \in DepIDs
    /\ \A d \in DepRefs : d < MaxDeployments => d + 1 \in DepIDs
BY PlatformAssumption DEF DepIDs, DepRefs

LEMMA RecNumbers ==
    /\ RecIDs \subseteq Nat /\ NewRecord \notin RecIDs /\ 0 \notin RecIDs /\ NewRecord # 0
    /\ RecIDs \subseteq 0..NewRecord /\ 0 \in 0..NewRecord /\ NewRecord \in 0..NewRecord
BY WritersAssumption DEF RecIDs, NewRecord

LEMMA FirstSpecType == FirstSpec \in Specs
BY PlatformAssumption DEF FirstSpec, Specs, Forms

(* What the service stores has the base and the jobs that were submitted.   *)
LEMMA StoredFacts ==
    ASSUME NEW s \in Specs
    PROVE  /\ Stored(s) \in Specs /\ Stored(s).base = s.base
           /\ \A j \in Jobs : Stored(s).jobs[j] = "absent" <=> s.jobs[j] = "absent"
BY DEF Stored, Specs, Forms

LEMMA IdleFacts ==
    /\ IdleCall \in Calls /\ InOrder(IdleCall)
    /\ IdleCall.op = "none" /\ IdleCall.pc = "idle" /\ IdleCall.job = {}
    /\ NoWait \in Waits /\ ~NoWait.set
    /\ NoPlan \in Plans /\ NoApp \in Apps
<1>1. NoWait \in Waits /\ ~NoWait.set  BY DepNumbers DEF NoWait, Waits
<1>2. NoPlan \in Plans  BY RecNumbers DEF NoPlan, Plans
<1>3. NoApp \in Apps  BY DepNumbers DEF NoApp, Apps
<1>4. IdleCall \in Calls
    BY <1>1, <1>2, <1>3, FirstSpecType, DepNumbers DEF IdleCall, Calls, Ops, PCs, Args, Plans
<1> QED  BY <1>1, <1>2, <1>3, <1>4 DEF IdleCall, InOrder, Repairing

LEMMA SetFacts ==
    ASSUME Shape, NEW p \in Callers, NEW c, Set(p, c)
    PROVE  /\ call'[p] = c /\ \A q \in Callers \ {p} : call'[q] = call[q]
           /\ c \in Calls /\ InOrder(c) =>
                 call' \in [Callers -> Calls] /\ \A q \in Callers : InOrder(call'[q])
<1>1. call'[p] = c /\ \A q \in Callers \ {p} : call'[q] = call[q]  BY DEF Shape, Set
<1>2. ASSUME c \in Calls PROVE call' \in [Callers -> Calls]  BY <1>2 DEF Shape, Set
<1> QED  BY <1>1, <1>2 DEF Shape

(* An accepted update, whatever the spec.                                   *)
LEMMA DeployFacts ==
    ASSUME Slots, NEW s \in Specs, Deploy(s)
    PROVE  /\ Slots' /\ spec' = Stored(s) /\ spec' \in Specs
           /\ lastDep' = lastDep + 1 /\ active' = active
<1>1. /\ lastDep + 1 \in DepIDs /\ lastDep' = lastDep + 1 /\ active' = active
      /\ spec' = Stored(s) /\ Stored(s) \in Specs
    BY DepNumbers, PlatformAssumption, StoredFacts DEF Slots, Deploy, AcceptUpdate, DepIDs
<1>2. pending' \in {0, lastDep + 1} /\ inProgress' \in {inProgress, lastDep + 1}
    BY DEF Deploy, AcceptUpdate
<1>3. PICK q \in {lastDep, active} : prev' = [prev EXCEPT ![lastDep + 1] = q]  BY DEF Deploy
<1>4. dep' \in [DepIDs -> [spec : Specs, phase : DepPhases]]
    <2>1. PICK start \in BOOLEAN :
             dep' = [d \in DepIDs |->
                      IF d = lastDep + 1 THEN [spec |-> Stored(s),
                                     phase |-> IF start THEN "building" ELSE "pending"]
                      ELSE IF d = pending THEN [dep[d] EXCEPT !.phase = "superseded"]
                      ELSE dep[d]]
        BY DEF Deploy, AcceptUpdate
    <2>2. \A d \in DepIDs : [dep[d] EXCEPT !.phase = "superseded"] \in [spec : Specs, phase : DepPhases]
        BY DEF Slots, DepPhases
    <2> QED  BY <1>1, <2>1, <2>2 DEF Slots, DepPhases
<1> QED  BY <1>1, <1>2, <1>3, <1>4, DepNumbers DEF Slots

-----------------------------------------------------------------------------
(* What a step of one caller has to show.                                   *)

(* The app stays as it is.                                                  *)
LEMMA WritesQuiet ==
    ASSUME Shape, WritesOK, NEW p \in Callers, NEW c, Set(p, c),
           UNCHANGED <<spec, lastDep, bound, undone>>,
           Reads(c) => c.at = lastDep /\ c.copy = spec,
           c.op = "repair" /\ c.pc \in Repairing => \E j \in Jobs : c.job = {j},
           c.op = "repair" /\ c.pc = "put" => \A j \in c.job : spec.jobs[j] = "absent" \/ j \in undone,
           \A j \in c.job : repair'[j] = "none" /\ \A q \in Callers \ {p} : j \notin call[q].job,
           \A q \in Callers \ {p} : \A j \in call[q].job : repair'[j] = "none",
           \A j \in Jobs : repair'[j] \in {"succeeded", "failed"} =>
              repair'[j] = repair[j] \/ spec.jobs[j] = "absent" \/ j \in undone
    PROVE  WritesOK'
<1>1. call'[p] = c /\ \A q \in Callers \ {p} : call'[q] = call[q]  BY SetFacts
<1>2. ReadCurrent'
    <2> SUFFICES ASSUME NEW q \in Callers, Reads(call'[q])
                 PROVE  call'[q].at <= lastDep /\ (call'[q].at = lastDep => call'[q].copy = spec)
        BY DEF ReadCurrent, Reads
    <2>1. CASE q = p
        <3>1. c.at = lastDep /\ c.copy = spec  BY <1>1, <2>1 DEF Reads
        <3>2. lastDep \in Nat  BY DepNumbers DEF Shape, Slots
        <3> QED  BY <3>1, <3>2, <2>1, <1>1
    <2>2. CASE q # p  BY <1>1, <2>2 DEF WritesOK, ReadCurrent
    <2> QED  BY <2>1, <2>2
<1>3. OneJob'
    <2>1. \A q \in Callers : call'[q].op = "repair" /\ call'[q].pc \in Repairing =>
             \E j \in Jobs : call'[q].job = {j}
        BY <1>1 DEF WritesOK, OneJob
    <2>2. \A q \in Callers : \A j \in call'[q].job : repair'[j] = "none"
        BY <1>1
    <2>3. \A q, r \in Callers : q # r => call'[q].job \cap call'[r].job = {}
        BY <1>1 DEF WritesOK, OneJob
    <2> QED  BY <2>1, <2>2, <2>3 DEF OneJob
<1>4. NotYetAdded'  BY <1>1 DEF WritesOK, NotYetAdded
<1>5. RepairLeavesNoJob'  BY DEF WritesOK, RepairLeavesNoJob
<1> QED  BY <1>2, <1>3, <1>4, <1>5 DEF WritesOK, DomainsKept

(* Nor does the step concern a repair.                                      *)
LEMMA WritesPlain ==
    ASSUME Shape, WritesOK, NEW p \in Callers, NEW c \in Calls, Set(p, c),
           UNCHANGED <<spec, lastDep, bound, undone, repair>>,
           Reads(c) => c.at = lastDep /\ c.copy = spec,
           c.op # "repair" \/ c.pc \notin Repairing,
           c.job \subseteq call[p].job
    PROVE  WritesOK'
<1>1. \A j \in c.job : repair'[j] = "none" /\ \A q \in Callers \ {p} : j \notin call[q].job
    BY DEF WritesOK, OneJob
<1>2. \A q \in Callers \ {p} : \A j \in call[q].job : repair'[j] = "none"
    BY DEF WritesOK, OneJob
<1>3. c.op = "repair" /\ c.pc \in Repairing => \E j \in Jobs : c.job = {j}
    OBVIOUS
<1>4. ~(c.op = "repair" /\ c.pc = "put")  BY DEF Repairing
<1> QED  BY <1>1, <1>2, <1>3, <1>4, WritesQuiet

(* The app gets a new spec and a new deployment.                            *)
LEMMA WritesDeploy ==
    ASSUME Shape, WritesOK, NEW p \in Callers, NEW c \in Calls, Set(p, c),
           NEW new \in Specs, Deploy(new),
           ~Reads(c), c.pc # "put",
           c.op = "repair" /\ c.pc \in Repairing => \E j \in Jobs : c.job = {j},
           c.job \subseteq call[p].job,
           bound' \subseteq new.base.domains, undone \subseteq undone',
           \A j \in Jobs : new.jobs[j] # "absent" =>
              spec.jobs[j] # "absent" \/ j \in undone' \/ j \in c.job,
           \A j \in c.job : repair'[j] = "none",
           \A j \in Jobs \ call[p].job : repair'[j] = repair[j],
           \A j \in call[p].job : repair'[j] \in {"succeeded", "failed"} =>
              new.jobs[j] = "absent" \/ j \in undone'
    PROVE  WritesOK'
<1>1. call'[p] = c /\ \A q \in Callers \ {p} : call'[q] = call[q]  BY SetFacts
<1>2. /\ lastDep' = lastDep + 1 /\ lastDep \in Nat
      /\ spec'.base = new.base
      /\ \A j \in Jobs : spec'.jobs[j] = "absent" <=> new.jobs[j] = "absent"
    BY DeployFacts, StoredFacts, DepNumbers DEF Shape, Slots
<1>3. ReadCurrent'
    <2> SUFFICES ASSUME NEW q \in Callers, Reads(call'[q])
                 PROVE  call'[q].at <= lastDep' /\ (call'[q].at = lastDep' => call'[q].copy = spec')
        BY DEF ReadCurrent, Reads
    <2>1. q # p /\ call'[q] = call[q]  BY <1>1
    <2>2. call[q].at <= lastDep /\ call[q].at \in Nat
        BY <2>1, DepNumbers DEF WritesOK, ReadCurrent, Shape, Calls
    <2> QED  BY <2>1, <2>2, <1>2
<1>4. \A q \in Callers : call[q].job \subseteq Jobs  BY DEF Shape, Calls
<1>5. \A q \in Callers \ {p} : call[q].job \cap call[p].job = {} /\ call[q].job \cap c.job = {}
    BY DEF WritesOK, OneJob
<1>6. OneJob'
    <2>1. \A q \in Callers : call'[q].op = "repair" /\ call'[q].pc \in Repairing =>
             \E j \in Jobs : call'[q].job = {j}
        BY <1>1 DEF WritesOK, OneJob
    <2>2. \A q \in Callers : \A j \in call'[q].job : repair'[j] = "none"
        BY <1>1, <1>4, <1>5 DEF WritesOK, OneJob
    <2>3. \A q, r \in Callers : q # r => call'[q].job \cap call'[r].job = {}
        BY <1>1, <1>5 DEF WritesOK, OneJob
    <2> QED  BY <2>1, <2>2, <2>3 DEF OneJob
<1>7. NotYetAdded'
    <2> SUFFICES ASSUME NEW q \in Callers, call'[q].op = "repair", call'[q].pc = "put",
                        NEW j \in call'[q].job
                 PROVE  spec'.jobs[j] = "absent" \/ j \in undone'
        BY DEF NotYetAdded
    <2>1. q # p /\ call'[q] = call[q]  BY <1>1
    <2>2. j \in Jobs /\ j \notin c.job /\ (spec.jobs[j] = "absent" \/ j \in undone)
        BY <2>1, <1>4, <1>5 DEF WritesOK, NotYetAdded
    <2> QED  BY <2>2, <1>2
<1>8. RepairLeavesNoJob'
    <2> SUFFICES ASSUME NEW j \in Jobs, repair'[j] \in {"succeeded", "failed"},
                        spec'.jobs[j] # "absent"
                 PROVE  j \in undone'
        BY DEF RepairLeavesNoJob
    <2>1. new.jobs[j] # "absent" /\ j \notin c.job  BY <1>2
    <2>2. CASE j \in call[p].job  BY <2>1, <2>2
    <2>3. CASE j \notin call[p].job  BY <2>1, <2>3 DEF WritesOK, RepairLeavesNoJob
    <2> QED  BY <2>2, <2>3
<1>9. DomainsKept'  BY <1>2 DEF DomainsKept
<1> QED  BY <1>3, <1>6, <1>7, <1>8, <1>9 DEF WritesOK

(* What others know of the active deployment stays true as it gets newer.   *)
LEMMA HealthMoves ==
    ASSUME Shape, Shape', HealthOK, NEW p \in Callers, NEW c, Set(p, c),
           active <= active', crossed => crossed',
           SlotsOrdered', WaitOK', HealthCall(c, active', crossed'), HealthyIsNew'
    PROVE  HealthOK'
<1>1. call'[p] = c /\ \A q \in Callers \ {p} : call'[q] = call[q]  BY SetFacts
<1>2. active \in Nat /\ active' \in Nat  BY DepNumbers DEF Shape, Slots
<1>3. ASSUME NEW q \in Callers \ {p} PROVE HealthCall(call'[q], active', crossed')
    <2>1. call'[q] = call[q] /\ call[q] \in Calls  BY <1>1 DEF Shape
    <2> PICK b \in Calls : b = call[q]  BY <2>1
    <2>2. b.prev \in Nat /\ b.inv \in Nat /\ b.app.active \in Nat  BY DepNumbers DEF Calls, Apps
    <2>3. HealthCall(b, active, crossed)  BY DEF HealthOK
    <2>4. HealthCall(b, active', crossed')  BY <1>2, <2>2, <2>3 DEF HealthCall
    <2> QED  BY <2>1, <2>4
<1>4. \A q \in Callers : HealthCall(call'[q], active', crossed')
    <2> SUFFICES ASSUME NEW q \in Callers PROVE HealthCall(call'[q], active', crossed')  OBVIOUS
    <2>1. CASE q = p  BY <2>1, <1>1
    <2>2. CASE q # p  BY <2>2, <1>1, <1>3
    <2> QED  BY <2>1, <2>2
<1> QED  BY <1>4 DEF HealthOK

-----------------------------------------------------------------------------
(* The records of a name.  While it has records, one of them, its keeper,   *)
(* is what every plan keeps; creating, editing or deleting a record as a    *)
(* plan says leaves the keeper and every other plan as they are.            *)

LEMMA LeastExists ==
    ASSUME NEW S \in SUBSET Nat, S # {}
    PROVE  Min(S) \in S /\ \A y \in S : Min(S) <= y
<1> DEFINE R == OpToRel(<, Nat)
<1> HIDE DEF R
<1>1. \E x \in S : \A y \in S : ~(<<y, x>> \in R)
    BY WFMin, NatLessThanWellFounded, Zenon DEF R
<1>2. PICK x \in S : \A y \in S : ~(y < x)  BY <1>1 DEF OpToRel, R
<1>3. \A y \in S : x <= y  BY <1>2
<1> QED  BY <1>3 DEF Min

LEMMA LeastIs ==
    ASSUME NEW S \in SUBSET Nat, NEW m \in S, \A y \in S : m <= y
    PROVE  Min(S) = m
<1>1. Min(S) \in S /\ \A y \in S : Min(S) <= y  BY LeastExists
<1>2. Min(S) \in Nat /\ m \in Nat  BY <1>1
<1> QED  BY <1>1, <1>2

LEMMA KeeperFacts ==
    ASSUME NEW d \in Domains, Live(d) # {}
    PROVE  /\ Keeper(d) \in Live(d) /\ Keeper(d) \in RecIDs /\ Keeper(d) \in Nat
           /\ Good(d) # {} => Keeper(d) \in Good(d) /\ \A r \in Good(d) : Keeper(d) <= r
           /\ Good(d) = {} => \A r \in Live(d) : Keeper(d) <= r
<1>1. Good(d) \subseteq Live(d) /\ Live(d) \subseteq RecIDs /\ RecIDs \subseteq Nat
    BY RecNumbers DEF Good, Live
<1> HIDE DEF Good, Live
<1>2. CASE Good(d) # {}  BY <1>1, <1>2, LeastExists DEF Keeper
<1>3. CASE Good(d) = {}  BY <1>1, <1>3, LeastExists DEF Keeper
<1> QED  BY <1>2, <1>3

(* The plan made from a listing.                                            *)
LEMMA CNAMEPlanOK ==
    ASSUME NEW d \in Domains
    PROVE  CNAMEPlan(d) \in Plans /\ PlanOK(d, CNAMEPlan(d))
<1>1. Live(d) \subseteq RecIDs  BY DEF Live
<1>2. CASE Live(d) = {}  BY <1>2, RecNumbers DEF CNAMEPlan, PlanOK, Plans
<1>3. CASE Live(d) # {}
    <2>1. Good(d) = {r \in Live(d) : records[d][r] = "target"}  BY DEF Good, Live
    <2>2. CNAMEPlan(d) = [put |-> IF Good(d) = {} THEN Keeper(d) ELSE 0,
                          drop |-> Live(d) \ {Keeper(d)}]
        <3> DEFINE plan(G) == [put |-> IF G = {} THEN Min(IF G # {} THEN G ELSE Live(d)) ELSE 0,
                               drop |-> Live(d) \ {Min(IF G # {} THEN G ELSE Live(d))}]
        <3>1. CNAMEPlan(d) = plan({r \in Live(d) : records[d][r] = "target"})
            BY <1>3, Zenon DEF CNAMEPlan
        <3> HIDE DEF plan
        <3>2. CNAMEPlan(d) = plan(Good(d))  BY <3>1, <2>1, Zenon
        <3> QED  BY <3>2, Zenon DEF Keeper, plan
    <2>3. Keeper(d) \in RecIDs  BY <1>3, KeeperFacts
    <2>4. CNAMEPlan(d) \in Plans
        <3>1. /\ (IF Good(d) = {} THEN Keeper(d) ELSE 0) \in 0..NewRecord
              /\ Live(d) \ {Keeper(d)} \in SUBSET RecIDs
            BY <1>1, <2>3, RecNumbers
        <3>2. PICK a \in 0..NewRecord : a = IF Good(d) = {} THEN Keeper(d) ELSE 0  BY <3>1
        <3>3. PICK b \in SUBSET RecIDs : b = Live(d) \ {Keeper(d)}  BY <3>1
        <3>4. CNAMEPlan(d) = [put |-> a, drop |-> b]  BY <2>2, <3>2, <3>3, Zenon
        <3>5. [put |-> a, drop |-> b] \in Plans  BY DEF Plans
        <3> QED  BY <3>4, <3>5, Zenon
    <2>5. /\ Keeper(d) \notin CNAMEPlan(d).drop /\ CNAMEPlan(d).put # NewRecord
          /\ CNAMEPlan(d).put \in RecIDs => CNAMEPlan(d).put = Keeper(d)
        BY <2>2, <2>3, RecNumbers
    <2> QED  BY <1>3, <2>4, <2>5 DEF PlanOK
<1> QED  BY <1>2, <1>3

(* One record of a name changes.                                            *)
Becomes(d, rec, v) ==
    /\ records' \in Records
    /\ records'[d][rec] = v
    /\ \A r \in RecIDs \ {rec} : records'[d][r] = records[d][r]
    /\ \A e \in Domains \ {d} : records'[e] = records[e]

LEMMA BecomesFacts ==
    ASSUME records \in Records, NEW d \in Domains, NEW rec \in RecIDs,
           NEW v \in {"free", "old", "target", "gone"},
           records' = [records EXCEPT ![d][rec] = v]
    PROVE  Becomes(d, rec, v)
<1>1. records[d] \in [RecIDs -> {"free", "old", "target", "gone"}]  BY DEF Records
<1>2. records' = [records EXCEPT ![d] = [records[d] EXCEPT ![rec] = v]]  BY <1>1 DEF Records
<1>3. [records[d] EXCEPT ![rec] = v] \in [RecIDs -> {"free", "old", "target", "gone"}]  BY <1>1
<1>4. records'[d] = [records[d] EXCEPT ![rec] = v] /\ records' \in Records
    BY <1>2, <1>3 DEF Records
<1>5. \A e \in Domains \ {d} : records'[e] = records[e]  BY <1>2 DEF Records
<1> QED  BY <1>1, <1>4, <1>5 DEF Becomes

(* A record created because the name had none, or because another caller    *)
(* created one since the listing.                                           *)
LEMMA Created ==
    ASSUME NEW d \in Domains, NEW plan \in Plans, PlanOK(d, plan), plan.put = NewRecord,
           NEW rec \in RecIDs, records[d][rec] = "free",
           \A r \in RecIDs : records[d][r] = "free" => rec <= r,
           Becomes(d, rec, "target")
    PROVE  /\ Live(d)' # {} /\ Good(d)' = Live(d)'
           /\ Live(d) # {} => Keeper(d)' = Keeper(d)
           /\ Live(d) = {} => Keeper(d)' = rec
           /\ \A r \in RecIDs : records'[d][r] = "free" => records[d][r] = "free" /\ Keeper(d)' < r
<1>1. Live(d)' = Live(d) \cup {rec} /\ Good(d)' = Good(d) \cup {rec}
    BY DEF Live, Good, Becomes
<1>2. Good(d)' \subseteq Nat /\ rec \in Nat /\ Live(d)' \subseteq Nat  BY RecNumbers DEF Good, Live
<1>3. Good(d) = Live(d)  BY DEF PlanOK, Good, Live
<1>4. Keeper(d)' = Min(Good(d)')  BY <1>1 DEF Keeper
<1>5. \A r \in RecIDs : records'[d][r] = "free" => records[d][r] = "free" /\ rec < r
    BY RecNumbers DEF Becomes
<1>6. CASE Live(d) = {}
    <2>1. Good(d)' = {rec}  BY <1>1, <1>3, <1>6
    <2>2. Min(Good(d)') = rec  BY <2>1, <1>2, LeastIs
    <2> QED  BY <1>1, <1>3, <1>4, <1>5, <1>6, <2>2
<1>7. CASE Live(d) # {}
    <2>1. /\ Keeper(d) \in Good(d) /\ \A r \in Good(d) : Keeper(d) <= r
          /\ Keeper(d) \in Nat /\ Keeper(d) < rec
        BY <1>3, <1>7, KeeperFacts DEF PlanOK
    <2>2. Keeper(d) \in Good(d)' /\ \A r \in Good(d)' : Keeper(d) <= r
        BY <1>1, <1>2, <2>1
    <2>3. Min(Good(d)') = Keeper(d)
        <3> PICK S \in SUBSET Nat, k \in Nat : S = Good(d)' /\ k = Keeper(d)  BY <1>2, <2>1
        <3> QED  BY <2>2, LeastIs
    <2>4. \A r \in RecIDs : records'[d][r] = "free" => records[d][r] = "free" /\ Keeper(d) < r
        BY <1>5, <1>7, <2>1 DEF PlanOK
    <2> QED  BY <1>1, <1>3, <1>4, <1>7, <2>3, <2>4
<1> QED  BY <1>6, <1>7

(* The keeper edited to name the app.                                       *)
LEMMA KeeperEdited ==
    ASSUME NEW d \in Domains, NEW rec \in RecIDs, rec \in Live(d), rec = Keeper(d),
           Becomes(d, rec, "target")
    PROVE  Live(d)' = Live(d) /\ Keeper(d)' = Keeper(d) /\ Good(d)' = Good(d) \cup {rec}
<1>1. Live(d)' = Live(d) /\ Good(d)' = Good(d) \cup {rec}
    BY DEF Live, Good, Becomes
<1>2. Good(d)' \subseteq Nat /\ rec \in Nat  BY RecNumbers DEF Good
<1>3. Keeper(d)' = Min(Good(d)')  BY <1>1 DEF Keeper
<1>4. \A r \in Good(d)' : rec <= r  BY <1>1, <1>2, KeeperFacts
<1>5. Min(Good(d)') = rec
    <2> PICK S \in SUBSET Nat : S = Good(d)'  BY <1>2
    <2> QED  BY <1>1, <1>4, LeastIs
<1> QED  BY <1>1, <1>3, <1>5

(* Another record than the keeper deleted.                                  *)
LEMMA OtherDropped ==
    ASSUME NEW d \in Domains, NEW rec \in RecIDs, rec \in Live(d), rec # Keeper(d),
           Becomes(d, rec, "gone")
    PROVE  /\ Live(d)' = Live(d) \ {rec} /\ Good(d)' = Good(d) \ {rec}
           /\ Keeper(d)' = Keeper(d) /\ Keeper(d) \in Live(d)'
<1>1. Live(d)' = Live(d) \ {rec} /\ Good(d)' = Good(d) \ {rec}
    BY DEF Live, Good, Becomes
<1>2. Good(d)' \subseteq Nat /\ Live(d)' \subseteq Nat  BY RecNumbers DEF Good, Live
<1>3. Keeper(d) \in Live(d)'  BY <1>1, KeeperFacts
<1>4. Keeper(d)' = Keeper(d)
    <2> PICK G \in SUBSET Nat, L \in SUBSET Nat : G = Good(d)' /\ L = Live(d)'
        BY <1>2
    <2> PICK k : k = Keeper(d)  OBVIOUS
    <2>1. CASE Good(d) # {}
        <3>1. k \in G /\ \A r \in G : k <= r  BY <1>1, <2>1, KeeperFacts
        <3>2. Min(G) = k  BY <3>1, LeastIs
        <3> QED  BY <3>1, <3>2 DEF Keeper
    <2>2. CASE Good(d) = {}
        <3>1. G = {} /\ k \in L /\ \A r \in L : k <= r  BY <1>1, <1>3, <2>2, KeeperFacts
        <3>2. Min(L) = k  BY <3>1, LeastIs
        <3> QED  BY <3>1, <3>2 DEF Keeper
    <2> QED  BY <2>1, <2>2
<1> QED  BY <1>1, <1>3, <1>4

(* What a call of a plan does, and what is left of the plan.                *)
Did(d, plan, rest) ==
    /\ rest.put = 0 /\ rest.drop \subseteq plan.drop
    /\ \/ /\ plan.put = NewRecord
          /\ \E rec \in RecIDs :
               /\ records[d][rec] = "free" /\ \A r \in RecIDs : records[d][r] = "free" => rec <= r
               /\ Becomes(d, rec, "target")
       \/ /\ plan.put \in RecIDs /\ plan.put \in Live(d)
          /\ Becomes(d, plan.put, "target")
       \/ /\ plan.put = 0
          /\ \E rec \in plan.drop : rec \in Live(d) /\ Becomes(d, rec, "gone")

LEMMA PlansKept ==
    ASSUME records \in Records, NEW d \in Domains, NEW plan \in Plans, NEW rest \in Plans,
           PlanOK(d, plan), Did(d, plan, rest)
    PROVE  /\ Live(d)' # {}
           /\ \A other \in Plans : PlanOK(d, other) => PlanOK(d, other)'
           /\ rest # NoPlan => PlanOK(d, rest)'
<1>1. CASE plan.put = NewRecord
    <2>1. PICK rec \in RecIDs :
             /\ records[d][rec] = "free" /\ \A r \in RecIDs : records[d][r] = "free" => rec <= r
             /\ Becomes(d, rec, "target")
        BY <1>1, RecNumbers DEF Did
    <2>2. /\ Live(d)' # {} /\ Good(d)' = Live(d)'
          /\ Live(d) # {} => Keeper(d)' = Keeper(d)
          /\ \A r \in RecIDs : records'[d][r] = "free" => Keeper(d)' < r
        BY <1>1, <2>1, Created
    <2>3. ASSUME NEW other \in Plans, PlanOK(d, other) PROVE PlanOK(d, other)'
        <3>1. CASE Live(d) = {}
            <4>1. other.drop = {} /\ other.put = NewRecord  BY <2>3, <3>1 DEF PlanOK
            <4> QED  BY <4>1, <2>2, RecNumbers DEF PlanOK
        <3>2. CASE Live(d) # {}
            <4>1. /\ Keeper(d)' \notin other.drop
                  /\ other.put \in RecIDs => other.put = Keeper(d)'
                BY <2>2, <2>3, <3>2 DEF PlanOK
            <4> QED  BY <4>1, <2>2 DEF PlanOK
        <3> QED  BY <3>1, <3>2
    <2>4. ASSUME rest # NoPlan PROVE PlanOK(d, rest)'
        <3>1. rest.put = 0 /\ rest.drop \subseteq plan.drop /\ rest.drop # {}
            BY <2>4 DEF Did, NoPlan, Plans
        <3>2. Live(d) # {}
            BY <3>1 DEF PlanOK
        <3>3. Keeper(d)' \notin rest.drop  BY <3>1, <3>2, <2>2 DEF PlanOK
        <3> QED  BY <3>1, <3>3, <2>2, RecNumbers DEF PlanOK
    <2> QED  BY <2>2, <2>3, <2>4
<1>2. CASE plan.put # NewRecord
    <2>1. /\ Live(d) # {} /\ Live(d)' # {} /\ Keeper(d)' = Keeper(d)
          /\ Good(d) = Live(d) => Good(d)' = Live(d)'
          /\ \A r \in RecIDs : records'[d][r] = "free" => records[d][r] = "free"
        <3>1. CASE plan.put \in RecIDs
            <4>1. plan.put \in Live(d) /\ Becomes(d, plan.put, "target")
                BY <3>1, <1>2, RecNumbers DEF Did
            <4>2. plan.put = Keeper(d)  BY <3>1, <4>1 DEF PlanOK
            <4>3. Live(d)' = Live(d) /\ Keeper(d)' = Keeper(d) /\ Good(d)' = Good(d) \cup {plan.put}
                BY <3>1, <4>1, <4>2, KeeperEdited
            <4>4. \A r \in RecIDs : records'[d][r] = "free" => records[d][r] = "free"
                BY <4>1 DEF Becomes
            <4> QED  BY <4>1, <4>3, <4>4
        <3>2. CASE plan.put \notin RecIDs
            <4>1. PICK rec \in plan.drop : rec \in Live(d) /\ Becomes(d, rec, "gone")
                BY <3>2, <1>2 DEF Did
            <4>2. rec \in RecIDs /\ rec # Keeper(d)  BY <4>1 DEF PlanOK, Plans
            <4>3. /\ Live(d)' = Live(d) \ {rec} /\ Good(d)' = Good(d) \ {rec}
                  /\ Keeper(d)' = Keeper(d) /\ Keeper(d) \in Live(d)'
                BY <4>1, <4>2, OtherDropped
            <4>4. \A r \in RecIDs : records'[d][r] = "free" => records[d][r] = "free"
                BY <4>1 DEF Becomes
            <4> QED  BY <4>1, <4>3, <4>4
        <3> QED  BY <3>1, <3>2
    <2>2. ASSUME NEW other \in Plans, PlanOK(d, other) PROVE PlanOK(d, other)'
        <3>1. /\ Keeper(d) \notin other.drop
              /\ other.put \in RecIDs => other.put = Keeper(d)
              /\ other.put = NewRecord =>
                    Good(d) = Live(d) /\ \A r \in RecIDs : records[d][r] = "free" => Keeper(d) < r
            BY <2>1, <2>2 DEF PlanOK
        <3> QED  BY <3>1, <2>1 DEF PlanOK
    <2>3. PlanOK(d, rest)'
        <3>1. rest.put = 0 /\ Keeper(d)' \notin rest.drop  BY <2>1 DEF Did, PlanOK
        <3> QED  BY <3>1, <2>1, RecNumbers DEF PlanOK
    <2> QED  BY <2>1, <2>2, <2>3
<1> QED  BY <1>1, <1>2

(* A step that leaves the records as they are.                              *)
LEMMA RecordsQuiet ==
    ASSUME Shape, RecordsOK, NEW p \in Callers, NEW c, Set(p, c), UNCHANGED records, DnsCall(c)
    PROVE  RecordsOK'
<1>1. call'[p] = c /\ \A q \in Callers \ {p} : call'[q] = call[q]  BY SetFacts
<1>2. ASSUME NEW q \in Callers PROVE DnsCall(call[q])'
    <2> PICK b : b = call'[q]  OBVIOUS
    <2>1. DnsCall(b)
        <3>1. CASE q = p  BY <1>1, <3>1
        <3>2. CASE q # p  BY <1>1, <3>2 DEF RecordsOK
        <3> QED  BY <3>1, <3>2
    <2>2. \A d \in Domains : PlanOK(d, b.plan) => PlanOK(d, b.plan)'
        BY DEF PlanOK, Keeper, Good, Live
    <2> QED  BY <2>1, <2>2 DEF DnsCall
<1> QED  BY <1>2 DEF RecordsOK

LEMMA RecordsSame ==
    ASSUME RecordsOK, UNCHANGED <<call, records>>
    PROVE  RecordsOK'
<1>1. ASSUME NEW q \in Callers PROVE DnsCall(call[q])'
    <2> PICK b : b = call'[q]  OBVIOUS
    <2>1. DnsCall(b)  BY DEF RecordsOK
    <2>2. \A d \in Domains : PlanOK(d, b.plan) => PlanOK(d, b.plan)'
        BY DEF PlanOK, Keeper, Good, Live
    <2> QED  BY <2>1, <2>2 DEF DnsCall
<1> QED  BY <1>1 DEF RecordsOK

LEMMA RecordsDid ==
    ASSUME Shape, RecordsOK, NEW p \in Callers, NEW c, Set(p, c),
           NEW d \in Domains, NEW plan \in Plans, NEW rest \in Plans,
           PlanOK(d, plan), Did(d, plan, rest),
           c.pc \in {"list", "dns"} => c.todo # {},
           c.pc = "dns" => c.plan = rest /\ rest # NoPlan /\ d = CHOOSE n \in c.todo : TRUE
    PROVE  RecordsOK'
<1>1. call'[p] = c /\ \A q \in Callers \ {p} : call'[q] = call[q]  BY SetFacts
<1>2. records \in Records  BY DEF Shape
<1>3. ASSUME NEW q \in Callers PROVE DnsCall(call[q])'
    <2>1. CASE q = p
        <3>1. c.pc = "dns" => \A e \in Domains : e = (CHOOSE n \in c.todo : TRUE) => PlanOK(e, c.plan)'
            BY <1>2, PlansKept
        <3> QED  BY <1>1, <2>1, <3>1 DEF DnsCall
    <2>2. CASE q # p
        <3> PICK b \in Calls : b = call[q]  BY DEF Shape
        <3>1. DnsCall(b) /\ call'[q] = b  BY <1>1, <2>2 DEF RecordsOK
        <3>2. b.plan \in Plans  BY DEF Calls, Plans
        <3>3. ASSUME NEW e \in Domains, PlanOK(e, b.plan) PROVE PlanOK(e, b.plan)'
            <4>1. CASE e = d  BY <1>2, <3>2, <3>3, <4>1, PlansKept
            <4>2. CASE e # d
                <5>1. records'[e] = records[e]  BY <4>2 DEF Did, Becomes
                <5> QED  BY <3>3, <5>1 DEF PlanOK, Keeper, Good, Live
            <4> QED  BY <4>1, <4>2
        <3> QED  BY <3>1, <3>3 DEF DnsCall
    <2> QED  BY <2>1, <2>2
<1> QED  BY <1>3 DEF RecordsOK

-----------------------------------------------------------------------------
(* The service's deployments.                                               *)

LEMMA DeployOrdered ==
    ASSUME Slots, SlotsOrdered, NEW s \in Specs, Deploy(s)
    PROVE  SlotsOrdered'
<1>1. Slots' /\ lastDep' = lastDep + 1 /\ active' = active  BY DeployFacts
<1>2. /\ pending' \in {0, lastDep + 1} /\ inProgress' \in {inProgress, lastDep + 1}
      /\ inProgress' # inProgress => pending' = 0
    BY DEF Deploy, AcceptUpdate
<1>3. lastDep \in Nat /\ active \in Nat /\ pending \in Nat /\ inProgress \in Nat /\ lastDep + 1 \in DepIDs
    BY <1>1, DepNumbers DEF Slots
<1>4. \A d \in DepIDs : prev'[d] < d
    <2>1. PICK q \in {lastDep, active} : prev' = [prev EXCEPT ![lastDep + 1] = q]  BY DEF Deploy
    <2>2. q < lastDep + 1  BY <1>3 DEF SlotsOrdered
    <2> QED  BY <2>1, <2>2 DEF Slots, SlotsOrdered
<1>5. /\ dep'[lastDep + 1].phase \in {"building", "pending"}
      /\ \A d \in DepIDs \ {lastDep + 1} : dep'[d] = dep[d] \/ dep'[d].phase = "superseded"
    <2>1. PICK start \in BOOLEAN :
             dep' = [d \in DepIDs |->
                      IF d = lastDep + 1 THEN [spec |-> Stored(s),
                                     phase |-> IF start THEN "building" ELSE "pending"]
                      ELSE IF d = pending THEN [dep[d] EXCEPT !.phase = "superseded"]
                      ELSE dep[d]]
        BY DEF Deploy, AcceptUpdate
    <2>2. dep'[lastDep + 1] = [spec |-> Stored(s), phase |-> IF start THEN "building" ELSE "pending"]
        BY <1>3, <2>1
    <2>3. \A d \in DepIDs : [dep[d] EXCEPT !.phase = "superseded"].phase = "superseded"
        BY DEF Slots
    <2>4. \A d \in DepIDs \ {lastDep + 1} :
             dep'[d] = IF d = pending THEN [dep[d] EXCEPT !.phase = "superseded"] ELSE dep[d]
        BY <2>1
    <2>5. \A d \in DepIDs \ {lastDep + 1} : dep'[d] = dep[d] \/ dep'[d].phase = "superseded"
        BY <2>3, <2>4
    <2> QED  BY <2>2, <2>5
<1>6. \A d \in DepIDs : dep'[d].phase = "active" => d = active'
    BY <1>1, <1>5 DEF SlotsOrdered
<1>7. \A d \in DepIDs : d <= lastDep' => dep'[d].phase # "none"
    <2> SUFFICES ASSUME NEW d \in DepIDs, d <= lastDep + 1 PROVE dep'[d].phase # "none"  BY <1>1
    <2>1. CASE d = lastDep + 1  BY <2>1, <1>5
    <2>2. CASE d # lastDep + 1
        <3>1. d <= lastDep  BY <2>2, <1>3, DepNumbers
        <3> QED  BY <2>2, <3>1, <1>5 DEF SlotsOrdered
    <2> QED  BY <2>1, <2>2
<1>8. /\ active' <= lastDep'
      /\ inProgress' # 0 => active' < inProgress' /\ inProgress' <= lastDep'
      /\ pending' # 0 => active' < pending' /\ inProgress' < pending' /\ pending' <= lastDep'
    BY <1>1, <1>2, <1>3 DEF SlotsOrdered
<1> QED  BY <1>4, <1>6, <1>7, <1>8 DEF SlotsOrdered

LEMMA PhaseFacts ==
    ASSUME Slots, NEW x \in DepIDs, NEW v \in DepPhases, dep' = [dep EXCEPT ![x].phase = v]
    PROVE  /\ dep' \in [DepIDs -> [spec : Specs, phase : DepPhases]]
           /\ dep'[x].phase = v
           /\ \A d \in DepIDs \ {x} : dep'[d] = dep[d]
<1>1. dep[x] \in [spec : Specs, phase : DepPhases]  BY DEF Slots
<1>2. dep' = [dep EXCEPT ![x] = [dep[x] EXCEPT !.phase = v]]  BY <1>1 DEF Slots
<1>3. /\ [dep[x] EXCEPT !.phase = v] \in [spec : Specs, phase : DepPhases]
      /\ [dep[x] EXCEPT !.phase = v].phase = v
    BY <1>1
<1>4. PICK r \in [spec : Specs, phase : DepPhases] : r.phase = v /\ dep' = [dep EXCEPT ![x] = r]
    BY <1>2, <1>3
<1> QED  BY <1>4 DEF Slots

LEMMA PlatformOrdered ==
    ASSUME Slots, SlotsOrdered, PlatformNext, UNCHANGED prev
    PROVE  Slots' /\ SlotsOrdered' /\ active <= active' /\ UNCHANGED <<spec, lastDep>>
<1>1. lastDep \in Nat /\ active \in Nat /\ pending \in Nat /\ inProgress \in Nat
    BY DepNumbers DEF Slots
<1>2. CASE StartDeployment
    <2>1. pending \in DepIDs  BY <1>2, DepNumbers DEF StartDeployment, Slots
    <2>2. /\ dep' \in [DepIDs -> [spec : Specs, phase : DepPhases]]
          /\ dep'[pending].phase = "building"
          /\ \A d \in DepIDs \ {pending} : dep'[d] = dep[d]
        BY <1>2, <2>1, PhaseFacts DEF StartDeployment, DepPhases
    <2>3. /\ UNCHANGED <<spec, lastDep, active>> /\ inProgress' = pending /\ pending' = 0
        BY <1>2 DEF StartDeployment
    <2>4. Slots'  BY <2>2, <2>3, DepNumbers DEF Slots
    <2> QED  BY <1>1, <2>1, <2>2, <2>3, <2>4 DEF SlotsOrdered
<1>3. CASE (\E j \in Jobs : StartJob(j)) \/ (\E d \in DepIDs, j \in Jobs : EndJob(d, j))
    <2>1. UNCHANGED <<spec, dep, lastDep, pending, inProgress, active>>
        BY <1>3 DEF StartJob, EndJob
    <2> QED  BY <1>1, <2>1 DEF Slots, SlotsOrdered
<1>4. CASE ActivateDeployment
    <2>1. inProgress \in DepIDs  BY <1>4, DepNumbers DEF ActivateDeployment, Slots
    <2>2. /\ UNCHANGED <<spec, lastDep, pending>> /\ inProgress' = 0 /\ active' = inProgress
        BY <1>4 DEF ActivateDeployment
    <2>3. /\ dep' \in [DepIDs -> [spec : Specs, phase : DepPhases]]
          /\ \A d \in DepIDs : dep'[d].phase = IF d = inProgress THEN "active"
                                              ELSE IF d = active THEN "superseded" ELSE dep[d].phase
        <3>1. dep' = [d \in DepIDs |->
                 IF d = inProgress THEN [dep[d] EXCEPT !.phase = "active"]
                 ELSE IF d = active THEN [dep[d] EXCEPT !.phase = "superseded"]
                 ELSE dep[d]]
            BY <1>4 DEF ActivateDeployment
        <3>2. \A d \in DepIDs : \A v \in DepPhases :
                 /\ [dep[d] EXCEPT !.phase = v] \in [spec : Specs, phase : DepPhases]
                 /\ [dep[d] EXCEPT !.phase = v].phase = v
            BY DEF Slots
        <3>3. "active" \in DepPhases /\ "superseded" \in DepPhases  BY DEF DepPhases
        <3> QED  BY <3>1, <3>2, <3>3 DEF Slots
    <2>4. Slots'  BY <2>1, <2>2, <2>3, DepNumbers DEF Slots
    <2>5. /\ active < inProgress /\ inProgress <= lastDep /\ inProgress # 0
          /\ pending # 0 => inProgress < pending /\ pending <= lastDep
        BY <1>1, <2>1, DepNumbers DEF SlotsOrdered
    <2>6. \A d \in DepIDs : dep'[d].phase = "active" => d = inProgress
        BY <2>3 DEF SlotsOrdered
    <2>7. \A d \in DepIDs : d <= lastDep => dep'[d].phase # "none"
        BY <2>3 DEF SlotsOrdered
    <2>8. pending # 0 => 0 < pending  BY <1>1
    <2>9. SlotsOrdered'  BY <2>2, <2>5, <2>6, <2>7, <2>8 DEF SlotsOrdered
    <2> QED  BY <1>1, <2>2, <2>4, <2>5, <2>9
<1>5. CASE FailDeployment \/ SupersedeDeployment
    <2>1. inProgress \in DepIDs  BY <1>5, DepNumbers DEF FailDeployment, SupersedeDeployment, Slots
    <2>2. /\ UNCHANGED <<spec, lastDep, pending, active>> /\ inProgress' = 0
          /\ \E v \in {"error", "superseded"} : dep' = [dep EXCEPT ![inProgress].phase = v]
        BY <1>5 DEF FailDeployment, SupersedeDeployment
    <2>3. /\ dep' \in [DepIDs -> [spec : Specs, phase : DepPhases]]
          /\ dep'[inProgress].phase \in {"error", "superseded"}
          /\ \A d \in DepIDs \ {inProgress} : dep'[d] = dep[d]
        BY <2>1, <2>2, PhaseFacts DEF DepPhases
    <2>4. Slots'  BY <2>2, <2>3, DepNumbers DEF Slots
    <2> QED  BY <1>1, <2>1, <2>2, <2>3, <2>4 DEF SlotsOrdered
<1> QED  BY <1>2, <1>3, <1>4, <1>5 DEF PlatformNext

(* What a check that passes has found: the active deployment.               *)
LEMMA VerdictOk ==
    ASSUME Slots, SlotsOrdered, NEW d \in DepIDs, d <= lastDep, Verdict(d) = "ok"
    PROVE  d = active
<1>1. dep[d].phase \in DepPhases \ {"none"}  BY DEF Slots, SlotsOrdered
<1>2. dep[d].phase = "active"
    <2> DEFINE answer(v) == CASE v = "active"                              -> "ok"
                              [] v \in {"pending", "building"}             -> "waiting"
                              [] v \in {"error", "canceled", "superseded"} -> "failed"
    <2>1. answer(dep[d].phase) = "ok"  BY DEF Verdict
    <2>2. answer("pending") = "waiting"  BY Zenon
    <2>3. answer("building") = "waiting"  BY Zenon
    <2>4. answer("error") = "failed"  BY Zenon
    <2>5. answer("canceled") = "failed"  BY Zenon
    <2>6. answer("superseded") = "failed"  BY Zenon
    <2> HIDE DEF answer
    <2> QED  BY <1>1, <2>1, <2>2, <2>3, <2>4, <2>5, <2>6 DEF DepPhases
<1> QED  BY <1>2 DEF SlotsOrdered

-----------------------------------------------------------------------------
(* Steps that leave the app and the driver's wait as they are.              *)

LEMMA ShapeStep ==
    ASSUME Shape, NEW p \in Callers, NEW c \in Calls, InOrder(c), Set(p, c),
           spec' \in Specs, Slots', UNCHANGED menu, wait' \in Waits, records' \in Records,
           bound' \in SUBSET Domains,
           repair' \in [Jobs -> {"none", "succeeded", "failed", "unrestored"}],
           undone' \in SUBSET Jobs, baseline' \in DepRefs, crossed' \in BOOLEAN,
           health' \in [ok : BOOLEAN, active : DepRefs, baseline : DepRefs]
    PROVE  Shape'
<1>1. call' \in [Callers -> Calls] /\ \A q \in Callers : InOrder(call'[q])  BY SetFacts
<1>2. menu' \in [Callers -> SUBSET Requests]  BY DEF Shape
<1> QED  BY <1>1, <1>2 DEF Shape

NoNews ==
    /\ health' \in [ok : BOOLEAN, active : DepRefs, baseline : DepRefs]
    /\ health' = health \/ ~health'.ok

LEMMA HealthQuiet ==
    ASSUME Shape, Shape', HealthOK, NEW p \in Callers, NEW c, Set(p, c),
           UNCHANGED <<dep, lastDep, pending, inProgress, active, prev, wait, baseline, crossed>>,
           NoNews, HealthCall(c, active, crossed)
    PROVE  HealthOK'
<1>1. SlotsOrdered'  BY DEF HealthOK, SlotsOrdered
<1>2. WaitOK'  BY DEF HealthOK, WaitOK
<1>3. HealthyIsNew'  BY DEF HealthOK, HealthyIsNew, NoNews
<1>4. active <= active' /\ HealthCall(c, active', crossed')  BY DepNumbers DEF Shape, Slots
<1> QED  BY <1>1, <1>2, <1>3, <1>4, HealthMoves

LEMMA HealthDeploy ==
    ASSUME Shape, Shape', HealthOK, NEW p \in Callers, NEW c, Set(p, c),
           NEW s \in Specs, Deploy(s), UNCHANGED <<wait, baseline, crossed, health>>,
           HealthCall(c, active, crossed)
    PROVE  HealthOK'
<1>1. SlotsOrdered' /\ active' = active  BY DeployOrdered, DeployFacts DEF Shape, HealthOK
<1>2. WaitOK'  BY <1>1 DEF HealthOK, WaitOK
<1>3. HealthyIsNew'  BY DEF HealthOK, HealthyIsNew
<1>4. active <= active' /\ HealthCall(c, active', crossed')  BY <1>1, DepNumbers DEF Shape, Slots
<1> QED  BY <1>1, <1>2, <1>3, <1>4, HealthMoves

appVars == <<spec, dep, lastDep, pending, inProgress, active, prev>>

LEMMA AppSame ==
    ASSUME UNCHANGED <<platformVars, prev>>
    PROVE  UNCHANGED appVars
BY DEF platformVars, appVars

LEMMA Moved ==
    ASSUME Safe, NEW p \in Callers, NEW c \in Calls, InOrder(c), Set(p, c),
           UNCHANGED appVars, UNCHANGED menu,
           UNCHANGED <<wait, records, bound, repair, undone, baseline, crossed>>, NoNews,
           Reads(c) => c.at = lastDep /\ c.copy = spec,
           c.op # "repair" \/ c.pc \notin Repairing,
           c.job \subseteq call[p].job,
           HealthCall(c, active, crossed), DnsCall(c)
    PROVE  Safe'
<1> USE DEF Safe, appVars
<1>1. Slots'  BY DEF Shape, Slots
<1>2. Shape'
    <2>1. /\ spec' \in Specs /\ wait' \in Waits /\ records' \in Records /\ bound' \in SUBSET Domains
          /\ repair' \in [Jobs -> {"none", "succeeded", "failed", "unrestored"}]
          /\ undone' \in SUBSET Jobs /\ baseline' \in DepRefs /\ crossed' \in BOOLEAN
        BY DEF Shape
    <2> QED  BY <1>1, <2>1, ShapeStep DEF NoNews
<1>3. WritesOK'  BY WritesPlain
<1>4. HealthOK'  BY <1>2, HealthQuiet
<1>5. RecordsOK'  BY RecordsQuiet
<1> QED  BY <1>2, <1>3, <1>4, <1>5

LEMMA IdleCalls ==
    ASSUME NEW now, NEW mixed
    PROVE  /\ HealthCall(IdleCall, now, mixed) /\ DnsCall(IdleCall) /\ ~Reads(IdleCall)
           /\ IdleCall.pc \notin Repairing
BY IdleFacts DEF HealthCall, DnsCall, Reads, Repairing

LEMMA Returned ==
    ASSUME Safe, NEW p \in Callers, Return(p),
           UNCHANGED appVars, UNCHANGED menu,
           UNCHANGED <<wait, records, bound, repair, undone, baseline, crossed>>, NoNews
    PROVE  Safe'
<1>1. Set(p, IdleCall)  BY DEF Return
<1>2. IdleCall.job \subseteq call[p].job  BY IdleFacts
<1>3. HealthCall(IdleCall, active, crossed) /\ DnsCall(IdleCall) /\ ~Reads(IdleCall)
      /\ IdleCall.pc \notin Repairing
    BY IdleCalls
<1> QED  BY <1>1, <1>2, <1>3, IdleFacts, Moved

LEMMA Quiet ==
    ASSUME Shape, UNCHANGED health
    PROVE  NoNews
BY DEF Shape, NoNews

LEMMA NotHealthy ==
    ASSUME Shape, NEW p \in Callers, Unhealthy(p)
    PROVE  NoNews /\ Return(p)
<1>1. [ok |-> FALSE, active |-> 0, baseline |-> 0] \in [ok : BOOLEAN, active : DepRefs, baseline : DepRefs]
    BY DepNumbers
<1> QED  BY <1>1 DEF Unhealthy, NoNews, Shape

-----------------------------------------------------------------------------
(* A call begins.                                                           *)

LEMMA RequestTypes ==
    ASSUME NEW r \in Requests
    PROVE  /\ r = <<r[1], r[2]>> /\ r[1] \in Ops \ {"none"} /\ r[2] \in Args
           /\ r[1] = "update" => r[2] \in Configs
           /\ r[1] \in {"scale", "iac_scale"} => r[2] \in Counts
           /\ r[1] \in {"bind", "unbind"} => r[2] \in Domains
BY DEF Requests, Ops, Args

LEMMA StartSafe == ASSUME Safe, NEW p \in Callers, Start(p), UNCHANGED menu PROVE Safe'
<1>1. PICK r \in menu[p] : Begin(p, r[1], r[2])  BY DEF Start
<1>2. r \in Requests  BY DEF Safe, Shape
<1>3. r[1] \in Ops /\ r[2] \in Args /\ <<r[1], r[2]>> \in Requests  BY <1>2, RequestTypes
<1>4. PICK c : c = [IdleCall EXCEPT !.op = r[1], !.pc = "get", !.arg = r[2]]  OBVIOUS
<1>5. /\ c \in Calls /\ c.op = r[1] /\ c.pc = "get" /\ c.arg = r[2] /\ c.job = {}
    BY <1>3, <1>4, IdleFacts DEF Calls, PCs
<1>6. Set(p, c)  BY <1>1, <1>4 DEF Begin
<1>7. InOrder(c) /\ HealthCall(c, active, crossed) /\ DnsCall(c) /\ ~Reads(c) /\ c.pc \notin Repairing
    BY <1>3, <1>5 DEF InOrder, HealthCall, DnsCall, Reads, Repairing
<1>8. UNCHANGED appVars /\ UNCHANGED <<wait, records, bound, repair, undone, baseline, crossed>> /\ NoNews
    BY <1>1, AppSame, Quiet DEF Begin, history, Safe
<1>9. c.job \subseteq call[p].job  BY <1>5
<1> QED  BY <1>5, <1>6, <1>7, <1>8, <1>9, Moved

-----------------------------------------------------------------------------
(* Update.                                                                  *)

LEMMA DomainsType ==
    ASSUME NEW s \in Specs
    PROVE  s.base.domains \subseteq Domains /\ s.base \in Bases
BY WritersAssumption DEF Specs

LEMMA Deployed ==
    ASSUME Safe, NEW p \in Callers, NEW c \in Calls, InOrder(c), Set(p, c),
           NEW new \in Specs, Deploy(new), UNCHANGED menu,
           UNCHANGED <<wait, records, baseline, crossed, health>>,
           repair' \in [Jobs -> {"none", "succeeded", "failed", "unrestored"}],
           undone' \in SUBSET Jobs,
           ~Reads(c), c.pc # "put",
           c.op = "repair" /\ c.pc \in Repairing => \E j \in Jobs : c.job = {j},
           c.job \subseteq call[p].job,
           bound' \subseteq new.base.domains, undone \subseteq undone',
           \A j \in Jobs : new.jobs[j] # "absent" =>
              spec.jobs[j] # "absent" \/ j \in undone' \/ j \in c.job,
           \A j \in c.job : repair'[j] = "none",
           \A j \in Jobs \ call[p].job : repair'[j] = repair[j],
           \A j \in call[p].job : repair'[j] \in {"succeeded", "failed"} =>
              new.jobs[j] = "absent" \/ j \in undone',
           HealthCall(c, active, crossed), DnsCall(c)
    PROVE  Safe'
<1> USE DEF Safe
<1>1. Slots' /\ spec' \in Specs  BY DeployFacts DEF Shape
<1>2. Shape'
    <2>1. bound' \in SUBSET Domains  BY DomainsType
    <2>2. /\ wait' \in Waits /\ records' \in Records /\ baseline' \in DepRefs /\ crossed' \in BOOLEAN
          /\ health' \in [ok : BOOLEAN, active : DepRefs, baseline : DepRefs]
        BY DEF Shape
    <2> QED  BY <1>1, <2>1, <2>2, ShapeStep
<1>3. WritesOK'  BY WritesDeploy
<1>4. HealthOK'  BY <1>2, HealthDeploy
<1>5. RecordsOK'  BY RecordsQuiet
<1> QED  BY <1>2, <1>3, <1>4, <1>5

(* What follows an update or a check: the records of the domains.           *)
LEMMA ReconcileFacts ==
    ASSUME NEW c \in Calls, <<c.op, c.arg>> \in Requests, c.op \in {"update", "health"},
           NEW domains \in SUBSET Domains
    PROVE  LET r == Reconcile(c, domains) IN
           /\ r \in Calls /\ InOrder(r) /\ r.op = c.op /\ r.job = c.job
           /\ r.prev = c.prev /\ r.wait = c.wait /\ r.inv = c.inv
           /\ r.pc \in {"probe", "idle", "list"} /\ (r.pc = "list" => r.todo # {})
           /\ r.op = "health" => r.pc # "idle"
<1> PICK r : r = Reconcile(c, domains)  OBVIOUS
<1>1. CASE domains = {}
    <2>1. r = [c EXCEPT !.pc = IF c.op = "health" THEN "probe" ELSE "idle"]  BY <1>1 DEF Reconcile
    <2>2. /\ r \in Calls /\ r.op = c.op /\ r.arg = c.arg /\ r.job = c.job
          /\ r.prev = c.prev /\ r.wait = c.wait /\ r.inv = c.inv
          /\ r.pc = IF c.op = "health" THEN "probe" ELSE "idle"
        BY <2>1 DEF Calls, PCs
    <2> QED  BY <2>2 DEF InOrder, Repairing
<1>2. CASE domains # {}
    <2>1. r = [c EXCEPT !.pc = "list", !.todo = domains]  BY <1>2 DEF Reconcile
    <2>2. /\ r \in Calls /\ r.op = c.op /\ r.arg = c.arg /\ r.job = c.job
          /\ r.prev = c.prev /\ r.wait = c.wait /\ r.inv = c.inv
          /\ r.pc = "list" /\ r.todo = domains
        BY <2>1 DEF Calls, PCs
    <2> QED  BY <1>2, <2>2 DEF InOrder, Repairing
<1> QED  BY <1>1, <1>2

(* selectUpdateDeployment returns nothing or a slot that is newer.          *)
LEMMA SelectFacts ==
    ASSUME NEW a, NEW b, NEW c, NEW previousActive, NEW pv
    PROVE  LET d == Select(<<a, b, c>>, previousActive, pv)
           IN  d = 0 \/ (d \in {a, b, c} /\ Newer(d, previousActive, pv))
<1> DEFINE slots == <<a, b, c>>
           newer == {i \in 1..3 : Newer(slots[i], previousActive, pv)}
           first == CHOOSE i \in newer : \A k \in newer : i <= k
<1>1. CASE newer = {}  BY <1>1 DEF Select
<1>2. CASE newer # {}
    <2>1. newer \subseteq {1, 2, 3}  OBVIOUS
    <2> HIDE DEF newer
    <2>2. \E i \in newer : \A k \in newer : i <= k
        <3>1. CASE 1 \in newer  BY <2>1, <3>1
        <3>2. CASE 1 \notin newer /\ 2 \in newer  BY <2>1, <3>2
        <3>3. CASE newer = {3}  BY <3>3
        <3> QED  BY <1>2, <2>1, <3>1, <3>2, <3>3
    <2>3. first \in newer  BY <2>2
    <2> HIDE DEF first
    <2>4. Newer(slots[first], previousActive, pv) /\ slots[first] \in {a, b, c}
        BY <2>1, <2>3 DEF newer
    <2>5. Select(slots, previousActive, pv) = slots[first]
        BY <1>2 DEF Select, newer, first
    <2> QED  BY <2>4, <2>5
<1> QED  BY <1>1, <1>2

LEMMA SelectNewer ==
    ASSUME NEW a \in DepRefs, NEW b \in DepRefs, NEW c \in DepRefs, NEW q \in DepRefs,
           NEW pv \in [DepIDs -> DepRefs], \A d \in DepIDs : pv[d] < d
    PROVE  LET d == Select(<<a, b, c>>, q, pv)
           IN  d \in DepRefs /\ (d # 0 => d # q /\ d \in {a, b, c})
<1> PICK d : d = Select(<<a, b, c>>, q, pv)  OBVIOUS
<1>1. d = 0 \/ (d \in {a, b, c} /\ Newer(d, q, pv))  BY SelectFacts
<1>2. d \in DepRefs  BY <1>1, DepNumbers
<1>3. ASSUME d # 0 PROVE d # q
    <2>1. d \in DepIDs /\ pv[d] < d /\ pv[d] \in Nat /\ d \in Nat  BY <1>2, <1>3, DepNumbers
    <2>2. pv[d] # d  BY <2>1
    <2> QED  BY <1>1, <1>3, <2>2 DEF Newer
<1> QED  BY <1>1, <1>2, <1>3

LEMMA UpdateTypes ==
    ASSUME Safe, NEW p \in Callers, call[p].op = "update", call[p].pc # "idle"
    PROVE  /\ call[p] \in Calls /\ <<call[p].op, call[p].arg>> \in Requests
           /\ call[p].arg \in Configs
           /\ ConfigBase[call[p].arg] \in Bases
           /\ ConfigBase[call[p].arg].domains \in SUBSET Domains
           /\ BuildAppSpec(call[p].arg) \in Specs
           /\ \A j \in Jobs : BuildAppSpec(call[p].arg).jobs[j] = "absent"
<1>1. call[p] \in Calls /\ <<call[p].op, call[p].arg>> \in Requests
    BY DEF Safe, Shape, InOrder
<1>2. call[p].arg \in Configs  BY <1>1 DEF Requests
<1>3. ConfigBase[call[p].arg] \in Bases /\ ConfigBase[call[p].arg].domains \in SUBSET Domains
    BY <1>2, WritersAssumption
<1>4. /\ BuildAppSpec(call[p].arg) \in Specs
      /\ \A j \in Jobs : BuildAppSpec(call[p].arg).jobs[j] = "absent"
    BY <1>3 DEF BuildAppSpec, Specs, Forms
<1> QED  BY <1>1, <1>2, <1>3, <1>4

LEMMA Awaited ==
    ASSUME Safe, NEW p \in Callers, call[p].op = "update", call[p].pc \in {"put", "deploy"},
           NEW new \in Specs, Deploy(new), NEW target \in DepRefs, Await(p, target),
           call[p].prev # 0 => target # call[p].prev,
           UNCHANGED menu, UNCHANGED <<records, repair, undone, crossed, health>>,
           bound' \subseteq new.base.domains,
           \A j \in Jobs : new.jobs[j] # "absent" => spec.jobs[j] # "absent"
    PROVE  Safe'
<1> USE DEF Safe
<1>1. /\ call[p] \in Calls /\ <<call[p].op, call[p].arg>> \in Requests
      /\ Ingress(ConfigBase[call[p].arg].domains) \in SUBSET Domains
    BY UpdateTypes DEF Ingress
<1>2. PICK r : r = Reconcile(call[p], Ingress(ConfigBase[call[p].arg].domains))  OBVIOUS
<1>3. /\ r \in Calls /\ InOrder(r) /\ r.op = "update" /\ r.job = call[p].job
      /\ r.pc \in {"probe", "idle", "list"} /\ (r.pc = "list" => r.todo # {})
    BY <1>1, <1>2, ReconcileFacts
<1>4. PICK c : c = IF r.pc = "idle" THEN IdleCall ELSE r  OBVIOUS
<1>5. Set(p, c)  BY <1>2, <1>4 DEF Await, Finish
<1>6. /\ c \in Calls /\ InOrder(c) /\ c.job \subseteq call[p].job
      /\ c.op \in {"none", "update"} /\ c.pc \in {"probe", "idle", "list"} /\ DnsCall(c)
    BY <1>3, <1>4, IdleFacts, IdleCalls DEF DnsCall
<1>7. ~Reads(c) /\ c.pc # "put" /\ c.op # "repair"  BY <1>6 DEF Reads
<1>8. Slots' /\ spec' \in Specs /\ active' = active /\ SlotsOrdered'
    BY DeployFacts, DeployOrdered DEF Shape, HealthOK
<1>9. call[p].prev \in DepRefs /\ call[p].prev <= active  BY <1>1 DEF Calls, HealthOK, HealthCall
<1>10. /\ wait' \in Waits /\ wait'.set /\ wait'.prev = call[p].prev /\ wait'.target = target
       /\ baseline' = call[p].prev
    BY <1>9 DEF Await, Waits
<1>11. Shape'
    <2>1. bound' \in SUBSET Domains  BY DomainsType
    <2>2. /\ records' \in Records /\ baseline' \in DepRefs /\ crossed' \in BOOLEAN
          /\ repair' \in [Jobs -> {"none", "succeeded", "failed", "unrestored"}]
          /\ undone' \in SUBSET Jobs
          /\ health' \in [ok : BOOLEAN, active : DepRefs, baseline : DepRefs]
        BY <1>9, <1>10 DEF Shape
    <2> QED  BY <1>5, <1>6, <1>8, <1>10, <2>1, <2>2, ShapeStep
<1>12. WritesOK'
    <2>1. \A j \in c.job : repair'[j] = "none"  BY <1>6 DEF WritesOK, OneJob
    <2>2. \A j \in call[p].job : repair'[j] = "none"  BY DEF WritesOK, OneJob
    <2> QED  BY <1>5, <1>6, <1>7, <2>1, <2>2, WritesDeploy
<1>13. HealthOK'
    <2>1. WaitOK'  BY <1>8, <1>9, <1>10 DEF WaitOK
    <2>2. HealthyIsNew'  BY DEF HealthOK, HealthyIsNew
    <2>3. HealthCall(c, active', crossed')  BY <1>6 DEF HealthCall
    <2>4. active <= active'  BY <1>8, DepNumbers DEF Shape, Slots
    <2> QED  BY <1>5, <1>8, <1>11, <2>1, <2>2, <2>3, <2>4, HealthMoves
<1>14. RecordsOK'  BY <1>5, <1>6, RecordsQuiet
<1> QED  BY <1>11, <1>12, <1>13, <1>14

LEMMA UpdateGetSafe == ASSUME Safe, NEW p \in Callers, UpdateGet(p), UNCHANGED menu PROVE Safe'
<1>1. UNCHANGED appVars /\ UNCHANGED <<wait, records, bound, repair, undone, baseline, crossed>> /\ NoNews
    BY AppSame, Quiet DEF UpdateGet, history, Safe
<1>2. CASE Return(p)  BY <1>1, <1>2, Returned
<1>3. CASE Set(p, [call[p] EXCEPT !.pc = "put", !.prev = active])
    <2>1. /\ call[p] \in Calls /\ <<call[p].op, call[p].arg>> \in Requests
          /\ call[p].op = "update"
        BY UpdateTypes DEF UpdateGet, At
    <2>2. PICK c : c = [call[p] EXCEPT !.pc = "put", !.prev = active]  OBVIOUS
    <2>3. active \in DepRefs /\ active <= active  BY DepNumbers DEF Safe, Shape, Slots
    <2>4. /\ c \in Calls /\ c.op = "update" /\ c.arg = call[p].arg /\ c.pc = "put"
          /\ c.prev = active /\ c.job = call[p].job
        BY <2>1, <2>2, <2>3 DEF Calls, PCs
    <2>5. InOrder(c) /\ HealthCall(c, active, crossed) /\ DnsCall(c) /\ ~Reads(c)
        BY <2>1, <2>3, <2>4 DEF InOrder, HealthCall, DnsCall, Reads, Repairing
    <2> QED  BY <1>1, <1>3, <2>2, <2>4, <2>5, Moved
<1> QED  BY <1>2, <1>3 DEF UpdateGet

(* An update that was made although it failed, or that waits for nothing.   *)
LEMMA UpdateDeployed ==
    ASSUME Safe, NEW p \in Callers, call[p].op = "update", call[p].pc \in {"put", "deploy"},
           NEW new \in Specs, Deploy(new),
           NEW c \in Calls, InOrder(c), Set(p, c), ~Reads(c), c.pc # "put", c.op # "repair",
           c.job \subseteq call[p].job, HealthCall(c, active, crossed), DnsCall(c),
           UNCHANGED menu, UNCHANGED <<wait, records, repair, undone, baseline, crossed, health>>,
           bound' \subseteq new.base.domains,
           \A j \in Jobs : new.jobs[j] # "absent" => spec.jobs[j] # "absent"
    PROVE  Safe'
<1>1. \A j \in call[p].job : repair'[j] = "none"  BY DEF Safe, WritesOK, OneJob
<1>2. /\ repair' \in [Jobs -> {"none", "succeeded", "failed", "unrestored"}]
      /\ undone' \in SUBSET Jobs
    BY DEF Safe, Shape
<1>3. \A j \in c.job : repair'[j] = "none"  BY <1>1
<1> QED  BY <1>1, <1>2, <1>3, Deployed

LEMMA UpdateFailed ==
    ASSUME Safe, NEW p \in Callers, call[p].op = "update", call[p].pc \in {"put", "deploy"},
           NEW new \in Specs, Deploy(new) \/ UNCHANGED <<platformVars, prev>>, Return(p),
           UNCHANGED menu, UNCHANGED <<wait, records, repair, undone, baseline, crossed, health>>,
           bound' \subseteq spec'.base.domains, bound' \subseteq bound,
           UNCHANGED spec => UNCHANGED bound,
           \A j \in Jobs : new.jobs[j] # "absent" => spec.jobs[j] # "absent"
    PROVE  Safe'
<1>1. Set(p, IdleCall)  BY DEF Return
<1>2. CASE Deploy(new)
    <2>1. spec'.base = new.base  BY <1>2, DeployFacts, StoredFacts DEF Safe, Shape
    <2>2. /\ HealthCall(IdleCall, active, crossed) /\ DnsCall(IdleCall) /\ ~Reads(IdleCall)
          /\ IdleCall.job \subseteq call[p].job /\ IdleCall.pc # "put" /\ IdleCall.op # "repair"
        BY IdleCalls, IdleFacts
    <2> QED  BY <1>1, <1>2, <2>1, <2>2, IdleFacts, UpdateDeployed
<1>3. CASE UNCHANGED <<platformVars, prev>>
    <2>1. UNCHANGED appVars /\ NoNews  BY <1>3, AppSame, Quiet DEF Safe
    <2>2. UNCHANGED bound  BY <2>1 DEF appVars
    <2> QED  BY <2>1, <2>2, Returned
<1> QED  BY <1>2, <1>3

LEMMA UpdatePutSafe == ASSUME Safe, NEW p \in Callers, UpdatePut(p), UNCHANGED menu PROVE Safe'
<1>1. call[p].op = "update" /\ call[p].pc = "put"  BY DEF UpdatePut, At
<1>2. /\ call[p] \in Calls /\ <<call[p].op, call[p].arg>> \in Requests
      /\ BuildAppSpec(call[p].arg) \in Specs
      /\ \A j \in Jobs : BuildAppSpec(call[p].arg).jobs[j] = "absent"
    BY <1>1, UpdateTypes
<1>3. PICK new \in Specs : new = BuildAppSpec(call[p].arg)  BY <1>2
<1>4. /\ bound' = bound \cap spec'.base.domains
      /\ UNCHANGED <<records, repair, undone, crossed, health>>
    BY DEF UpdatePut
<1>5. CASE /\ Deploy(new)
           /\ \E slots \in {<<inProgress, pending, active>>, <<inProgress', pending', active'>>} :
               LET target == Select(slots, call[p].prev, prev')
               IN  IF target = 0 /\ call[p].prev = 0 /\ slots = <<0, 0, 0>>
                   THEN Set(p, [call[p] EXCEPT !.pc = "deploy"]) /\ UNCHANGED <<wait, baseline>>
                   ELSE Await(p, target)
    <2>1. /\ Slots' /\ SlotsOrdered' /\ active' = active /\ spec'.base = new.base
        BY <1>5, DeployFacts, DeployOrdered, StoredFacts DEF Safe, Shape, HealthOK
    <2>2. bound' \subseteq new.base.domains  BY <1>4, <2>1
    <2>3. PICK slots \in {<<inProgress, pending, active>>, <<inProgress', pending', active'>>} :
               LET target == Select(slots, call[p].prev, prev')
               IN  \/ Set(p, [call[p] EXCEPT !.pc = "deploy"]) /\ UNCHANGED <<wait, baseline>>
                   \/ Await(p, target)
        BY <1>5
    <2>4. CASE Set(p, [call[p] EXCEPT !.pc = "deploy"]) /\ UNCHANGED <<wait, baseline>>
        <3>1. PICK c : c = [call[p] EXCEPT !.pc = "deploy"]  OBVIOUS
        <3>2. /\ c \in Calls /\ c.op = "update" /\ c.arg = call[p].arg /\ c.pc = "deploy"
              /\ c.prev = call[p].prev /\ c.job = call[p].job
            BY <1>1, <1>2, <3>1 DEF Calls, PCs
        <3>3. call[p].prev <= active  BY <1>1 DEF Safe, HealthOK, HealthCall
        <3>4. InOrder(c) /\ HealthCall(c, active, crossed) /\ DnsCall(c) /\ ~Reads(c)
            BY <1>1, <1>2, <3>2, <3>3 DEF InOrder, HealthCall, DnsCall, Reads, Repairing
        <3>5. Set(p, c)  BY <2>4, <3>1
        <3> QED  BY <1>1, <1>2, <1>3, <1>4, <1>5, <2>2, <2>4, <3>2, <3>4, <3>5, UpdateDeployed
    <2>5. CASE Await(p, Select(slots, call[p].prev, prev'))
        <3>1. PICK target : target = Select(slots, call[p].prev, prev')  OBVIOUS
        <3>2. target \in DepRefs /\ (target # 0 => target # call[p].prev)
            <4>1. /\ call[p].prev \in DepRefs
                  /\ prev' \in [DepIDs -> DepRefs] /\ \A d \in DepIDs : prev'[d] < d
                  /\ inProgress \in DepRefs /\ pending \in DepRefs /\ active \in DepRefs
                  /\ inProgress' \in DepRefs /\ pending' \in DepRefs /\ active' \in DepRefs
                BY <1>2, <2>1 DEF Safe, Shape, Slots, SlotsOrdered, Calls
            <4>2. CASE slots = <<inProgress, pending, active>>
                BY <3>1, <4>1, <4>2, SelectNewer, SMTT(30)
            <4>3. CASE slots = <<inProgress', pending', active'>>
                BY <3>1, <4>1, <4>3, SelectNewer, SMTT(30)
            <4> QED  BY <4>2, <4>3
        <3>3. Await(p, target)  BY <2>5, <3>1
        <3>4. call[p].prev # 0 => target # call[p].prev  BY <3>2
        <3> QED  BY <1>1, <1>2, <1>3, <1>4, <1>5, <2>2, <3>2, <3>3, <3>4, Awaited
    <2> QED  BY <2>3, <2>4, <2>5
<1>6. CASE /\ Deploy(new) \/ UNCHANGED <<platformVars, prev>>
           /\ Return(p) /\ UNCHANGED <<wait, baseline>>
    <2>1. UNCHANGED spec => UNCHANGED bound  BY <1>4 DEF Safe, WritesOK, DomainsKept
    <2>2. bound' \subseteq spec'.base.domains /\ bound' \subseteq bound  BY <1>4
    <2> QED  BY <1>1, <1>2, <1>3, <1>4, <1>6, <2>1, <2>2, UpdateFailed
<1> QED  BY <1>3, <1>5, <1>6 DEF UpdatePut

LEMMA UpdateDeploySafe == ASSUME Safe, NEW p \in Callers, UpdateDeploy(p), UNCHANGED menu PROVE Safe'
<1>1. call[p].op = "update" /\ call[p].pc = "deploy" /\ call[p] \in Calls
    BY DEF UpdateDeploy, At, Safe, Shape
<1>2. UNCHANGED <<records, bound, repair, undone, crossed, health>>  BY DEF UpdateDeploy
<1>3. PICK new \in Specs : new = spec  BY DEF Safe, Shape
<1>4. bound \subseteq new.base.domains  BY <1>3 DEF Safe, WritesOK, DomainsKept
<1>5. CASE Deploy(new) /\ Await(p, lastDep')
    <2>1. lastDep' \in DepRefs /\ lastDep' = lastDep + 1
        BY <1>5, DeployFacts, DepNumbers DEF Safe, Shape, Slots
    <2>2. call[p].prev <= active /\ active <= lastDep /\ lastDep \in Nat /\ active \in Nat
          /\ call[p].prev \in Nat
        BY <1>1, DepNumbers DEF Safe, HealthOK, HealthCall, SlotsOrdered, Shape, Slots, Calls
    <2>3. PICK target \in DepRefs : target = lastDep'  BY <2>1
    <2>4. target # call[p].prev  BY <2>1, <2>2, <2>3
    <2> QED  BY <1>1, <1>2, <1>3, <1>4, <1>5, <2>3, <2>4, Awaited
<1>6. CASE (Deploy(new) \/ UNCHANGED <<platformVars, prev>>) /\ Return(p) /\ UNCHANGED <<wait, baseline>>
    <2>1. bound' \subseteq spec'.base.domains
        <3>1. CASE Deploy(new)
            BY <1>2, <1>4, <3>1, DeployFacts, StoredFacts DEF Safe, Shape
        <3>2. CASE UNCHANGED <<platformVars, prev>>
            BY <1>2, <1>3, <1>4, <3>2 DEF platformVars
        <3> QED  BY <1>6, <3>1, <3>2
    <2> QED  BY <1>1, <1>2, <1>3, <1>6, <2>1, UpdateFailed
<1> QED  BY <1>3, <1>5, <1>6 DEF UpdateDeploy

-----------------------------------------------------------------------------
(* The records of the domains.                                              *)

LEMMA ProceedFacts ==
    ASSUME Safe, NEW p \in Callers, call[p].pc \in {"list", "dns"}, NEW plan \in Plans
    PROVE  LET r == Proceed(p, plan) IN
           /\ r \in Calls /\ InOrder(r) /\ r.op = call[p].op /\ r.job = call[p].job
           /\ r.prev = call[p].prev /\ r.wait = call[p].wait /\ r.inv = call[p].inv
           /\ r.pc \in {"dns", "list", "probe", "idle"}
           /\ r.pc = "list" => r.todo # {}
           /\ r.pc = "dns" => plan # NoPlan /\ r.plan = plan /\ r.todo = call[p].todo
           /\ r.op = "health" => r.pc # "idle"
<1>1. PICK c \in Calls : c = call[p]  BY DEF Safe, Shape
<1>2. <<c.op, c.arg>> \in Requests /\ c.op \in {"update", "health"} /\ c.pc \in {"list", "dns"}
    BY <1>1 DEF Safe, Shape, InOrder
<1>3. PICK r : r = Proceed(p, plan)  OBVIOUS
<1>4. PICK left \in SUBSET Domains : left = c.todo \ {Name(p)}  BY DEF Calls
<1>5. NoPlan \in Plans  BY IdleFacts
<1>6. CASE plan # NoPlan
    <2>1. r = [c EXCEPT !.pc = "dns", !.plan = plan]  BY <1>1, <1>3, <1>6 DEF Proceed
    <2>2. /\ r \in Calls /\ r.op = c.op /\ r.arg = c.arg /\ r.job = c.job
          /\ r.prev = c.prev /\ r.wait = c.wait /\ r.inv = c.inv
          /\ r.pc = "dns" /\ r.plan = plan /\ r.todo = c.todo
        BY <2>1 DEF Calls, PCs, Plans
    <2>3. InOrder(r)  BY <1>2, <2>2 DEF InOrder, Repairing
    <2> QED  BY <1>1, <1>3, <1>6, <2>2, <2>3
<1>7. CASE plan = NoPlan /\ left # {}
    <2>1. r = [c EXCEPT !.pc = "list", !.todo = left, !.plan = NoPlan]
        BY <1>1, <1>3, <1>4, <1>7 DEF Proceed
    <2>2. /\ r \in Calls /\ r.op = c.op /\ r.arg = c.arg /\ r.job = c.job
          /\ r.prev = c.prev /\ r.wait = c.wait /\ r.inv = c.inv
          /\ r.pc = "list" /\ r.todo = left
        BY <1>5, <2>1 DEF Calls, PCs, Plans
    <2>3. InOrder(r)  BY <1>2, <2>2 DEF InOrder, Repairing
    <2> QED  BY <1>1, <1>3, <1>7, <2>2, <2>3
<1>8. CASE plan = NoPlan /\ left = {}
    <2>1. r = [c EXCEPT !.pc = IF c.op = "health" THEN "probe" ELSE "idle", !.todo = {}, !.plan = NoPlan]
        BY <1>1, <1>3, <1>4, <1>8 DEF Proceed
    <2>2. /\ r \in Calls /\ r.op = c.op /\ r.arg = c.arg /\ r.job = c.job
          /\ r.prev = c.prev /\ r.wait = c.wait /\ r.inv = c.inv
          /\ r.pc = IF c.op = "health" THEN "probe" ELSE "idle"
        BY <1>5, <2>1 DEF Calls, PCs, Plans
    <2>3. InOrder(r)  BY <1>2, <2>2 DEF InOrder, Repairing
    <2> QED  BY <1>1, <1>3, <2>2, <2>3
<1> QED  BY <1>6, <1>7, <1>8

(* The call that goes on, or ends.                                          *)
LEMMA ProceedMoves ==
    ASSUME Safe, NEW p \in Callers, call[p].pc \in {"list", "dns"}, NEW plan \in Plans,
           Finish(p, Proceed(p, plan))
    PROVE  \E c \in Calls :
              /\ Set(p, c) /\ InOrder(c) /\ c.job \subseteq call[p].job
              /\ ~Reads(c) /\ c.op # "repair" /\ HealthCall(c, active, crossed)
              /\ c.pc \in {"list", "dns"} => c.todo # {}
              /\ c.pc = "dns" => plan # NoPlan /\ c.plan = plan /\ c.todo = call[p].todo
<1>1. PICK r : r = Proceed(p, plan)  OBVIOUS
<1>2. /\ r \in Calls /\ InOrder(r) /\ r.op = call[p].op /\ r.job = call[p].job
      /\ r.prev = call[p].prev /\ r.wait = call[p].wait /\ r.inv = call[p].inv
      /\ r.pc \in {"dns", "list", "probe", "idle"}
      /\ r.pc = "list" => r.todo # {}
      /\ r.pc = "dns" => plan # NoPlan /\ r.plan = plan /\ r.todo = call[p].todo
    BY <1>1, ProceedFacts
<1>3. call[p].op \in {"update", "health"} /\ call[p].todo # {}
    BY DEF Safe, Shape, InOrder, RecordsOK, DnsCall
<1>4. CASE r.pc = "idle"
    <2>1. Set(p, IdleCall)  BY <1>1, <1>4 DEF Finish
    <2>2. /\ HealthCall(IdleCall, active, crossed) /\ ~Reads(IdleCall)
          /\ IdleCall.job \subseteq call[p].job
        BY IdleCalls, IdleFacts
    <2> QED  BY <2>1, <2>2, IdleFacts
<1>5. CASE r.pc # "idle"
    <2>1. Set(p, r)  BY <1>1, <1>5 DEF Finish
    <2>2. HealthCall(call[p], active, crossed)  BY DEF Safe, HealthOK
    <2>3. HealthCall(r, active, crossed)  BY <1>2, <1>3, <2>2 DEF HealthCall
    <2>4. ~Reads(r) /\ r.op # "repair"  BY <1>2, <1>3 DEF Reads
    <2>5. r.pc \in {"list", "dns"} => r.todo # {}  BY <1>2, <1>3
    <2> QED  BY <1>2, <2>1, <2>3, <2>4, <2>5
<1> QED  BY <1>4, <1>5

LEMMA NameType ==
    ASSUME Safe, NEW p \in Callers, call[p].pc \in {"list", "dns"}
    PROVE  Name(p) \in Domains /\ Name(p) = CHOOSE n \in call[p].todo : TRUE
<1>1. call[p].todo # {} /\ call[p].todo \subseteq Domains
    BY DEF Safe, Shape, Calls, RecordsOK, DnsCall
<1> QED  BY <1>1 DEF Name

LEMMA CNAMEListSafe == ASSUME Safe, NEW p \in Callers, CNAMEList(p), UNCHANGED menu PROVE Safe'
<1>1. call[p].pc = "list"  BY DEF CNAMEList
<1>2. UNCHANGED appVars /\ UNCHANGED <<wait, records, bound, repair, undone, baseline, crossed>>
    BY AppSame DEF CNAMEList
<1>3. CASE Finish(p, Proceed(p, CNAMEPlan(Name(p)))) /\ UNCHANGED health
    <2>1. PICK d \in Domains : d = Name(p)  BY <1>1, NameType
    <2>2. PICK plan \in Plans : plan = CNAMEPlan(d) /\ PlanOK(d, plan)  BY CNAMEPlanOK
    <2>3. PICK c \in Calls :
              /\ Set(p, c) /\ InOrder(c) /\ c.job \subseteq call[p].job
              /\ ~Reads(c) /\ c.op # "repair" /\ HealthCall(c, active, crossed)
              /\ c.pc \in {"list", "dns"} => c.todo # {}
              /\ c.pc = "dns" => plan # NoPlan /\ c.plan = plan /\ c.todo = call[p].todo
        BY <1>1, <1>3, <2>1, <2>2, ProceedMoves
    <2>4. d = CHOOSE n \in call[p].todo : TRUE  BY <1>1, <2>1, NameType
    <2>5. DnsCall(c)  BY <2>2, <2>3, <2>4 DEF DnsCall
    <2>6. NoNews  BY <1>3, Quiet DEF Safe
    <2> QED  BY <1>2, <2>3, <2>5, <2>6, Moved
<1>4. CASE Unhealthy(p)
    <2>1. NoNews /\ Return(p)  BY <1>4, NotHealthy DEF Safe
    <2> QED  BY <1>2, <2>1, Returned
<1> QED  BY <1>3, <1>4 DEF CNAMEList

(* What a call of the plan does to the records.                             *)
LEMMA CNAMECallDid ==
    ASSUME Safe, NEW p \in Callers, CNAMECall(p), ~(Unhealthy(p) /\ UNCHANGED records)
    PROVE  \E d \in Domains, plan \in Plans, rest \in Plans :
              /\ d = Name(p) /\ plan = call[p].plan
              /\ PlanOK(d, plan) /\ Did(d, plan, rest)
              /\ Finish(p, Proceed(p, rest)) /\ UNCHANGED health
<1> DEFINE d0    == Name(p)
           plan0 == call[p].plan
           free0 == {r \in RecIDs : records[d0][r] = "free"}
           rec0  == CASE plan0.put = NewRecord -> Min(free0)
                      [] plan0.put \in RecIDs  -> plan0.put
                      [] plan0.put = 0         -> Min(plan0.drop)
           rest0 == IF plan0.put # 0 THEN [plan0 EXCEPT !.put = 0]
                    ELSE [plan0 EXCEPT !.drop = plan0.drop \ {rec0}]
<1>1. /\ call[p].pc = "dns" /\ (plan0.put = NewRecord => free0 # {})
      /\ plan0.put = NewRecord \/ rec0 \in Live(d0)
      /\ records' = [records EXCEPT ![d0][rec0] = IF plan0.put # 0 THEN "target" ELSE "gone"]
      /\ Finish(p, Proceed(p, rest0)) /\ UNCHANGED health
    BY DEF CNAMECall
<1> HIDE DEF rest0, rec0, free0, plan0, d0
<1>2. PICK d \in Domains : d = d0  BY <1>1, NameType DEF d0
<1>3. PICK plan \in Plans : plan = plan0 /\ plan # NoPlan /\ PlanOK(d, plan)
    <2>1. plan0 \in Plans  BY DEF plan0, Safe, Shape, Calls, Plans
    <2>2. plan0 # NoPlan /\ PlanOK(d, plan0)
        BY <1>1, <1>2, NameType DEF plan0, d0, Safe, RecordsOK, DnsCall
    <2> QED  BY <2>1, <2>2
<1>4. PICK free \in SUBSET RecIDs : free = {r \in RecIDs : records[d][r] = "free"}  OBVIOUS
<1>5. free = free0  BY <1>2, <1>4 DEF free0
<1>6. PICK rec : rec = rec0  OBVIOUS
<1>7. rec = CASE plan.put = NewRecord -> Min(free)
              [] plan.put \in RecIDs  -> plan.put
              [] plan.put = 0         -> Min(plan.drop)
    BY <1>3, <1>5, <1>6, Zenon DEF rec0
<1>8. PICK rest : rest = IF plan.put # 0 THEN [plan EXCEPT !.put = 0]
                         ELSE [plan EXCEPT !.drop = plan.drop \ {rec}]
    OBVIOUS
<1>9. rest = rest0  BY <1>3, <1>6, <1>8, Zenon DEF rest0
<1>10. /\ rest \in Plans /\ rest.put = 0 /\ rest.drop \subseteq plan.drop  BY <1>8, RecNumbers DEF Plans
<1>11. /\ records \in Records
       /\ records' = [records EXCEPT ![d][rec] = IF plan.put # 0 THEN "target" ELSE "gone"]
       /\ plan.put = NewRecord \/ rec \in Live(d)
    BY <1>1, <1>2, <1>3, <1>6 DEF Safe, Shape
<1>12. Did(d, plan, rest)
    <2>1. CASE plan.put = NewRecord
        <3>1. rec = Min(free)  BY <1>7, <2>1, RecNumbers, Zenon
        <3>2. free # {}  BY <1>1, <1>3, <1>5, <2>1
        <3>3. free \subseteq Nat  BY RecNumbers
        <3>4. rec \in free /\ \A y \in free : rec <= y  BY <3>1, <3>2, <3>3, LeastExists
        <3>5. Becomes(d, rec, "target")
            <4>1. records' = [records EXCEPT ![d][rec] = "target"]  BY <1>11, <2>1, RecNumbers
            <4> QED  BY <1>11, <3>4, <4>1, BecomesFacts
        <3> QED  BY <1>4, <1>10, <2>1, <3>4, <3>5 DEF Did
    <2>2. CASE plan.put \in RecIDs
        <3>1. rec = plan.put  BY <1>7, <2>2, RecNumbers, Zenon
        <3>2. rec \in Live(d)  BY <1>11, <2>2, RecNumbers
        <3>3. Becomes(d, rec, "target")
            <4>1. records' = [records EXCEPT ![d][rec] = "target"]  BY <1>11, <2>2, RecNumbers
            <4> QED  BY <1>11, <2>2, <3>1, <4>1, BecomesFacts
        <3> QED  BY <1>10, <2>2, <3>1, <3>2, <3>3 DEF Did
    <2>3. CASE plan.put = 0
        <3>1. rec = Min(plan.drop)  BY <1>7, <2>3, RecNumbers, Zenon
        <3>2. plan.drop # {} /\ plan.drop \subseteq Nat
            BY <1>3, <2>3, RecNumbers DEF Plans, NoPlan
        <3>3. rec \in plan.drop /\ rec \in RecIDs  BY <3>1, <3>2, LeastExists DEF Plans
        <3>4. rec \in Live(d)  BY <1>11, <2>3, RecNumbers
        <3>5. Becomes(d, rec, "gone")
            <4>1. records' = [records EXCEPT ![d][rec] = "gone"]  BY <1>11, <2>3
            <4> QED  BY <1>11, <3>3, <4>1, BecomesFacts
        <3> QED  BY <1>10, <2>3, <3>3, <3>4, <3>5 DEF Did
    <2>4. plan.put \in RecIDs \cup {0, NewRecord}
        BY WritersAssumption DEF Plans, RecIDs, NewRecord
    <2> QED  BY <2>1, <2>2, <2>3, <2>4
<1>13. d = Name(p) /\ plan = call[p].plan  BY <1>2, <1>3 DEF d0, plan0
<1>14. Finish(p, Proceed(p, rest)) /\ UNCHANGED health  BY <1>1, <1>9
<1> QED  BY <1>3, <1>10, <1>12, <1>13, <1>14

LEMMA CNAMECallSafe == ASSUME Safe, NEW p \in Callers, CNAMECall(p), UNCHANGED menu PROVE Safe'
<1>1. call[p].pc = "dns"  BY DEF CNAMECall
<1>2. UNCHANGED appVars /\ UNCHANGED <<wait, bound, repair, undone, baseline, crossed>>
    BY AppSame DEF CNAMECall
<1>3. CASE Unhealthy(p) /\ UNCHANGED records
    <2>1. NoNews /\ Return(p)  BY <1>3, NotHealthy DEF Safe
    <2> QED  BY <1>2, <1>3, <2>1, Returned
<1>4. CASE ~(Unhealthy(p) /\ UNCHANGED records)
    <2>1. PICK d \in Domains, plan \in Plans, rest \in Plans :
              /\ d = Name(p) /\ plan = call[p].plan
              /\ PlanOK(d, plan) /\ Did(d, plan, rest)
              /\ Finish(p, Proceed(p, rest)) /\ UNCHANGED health
        BY <1>4, CNAMECallDid
    <2>2. PICK c \in Calls :
              /\ Set(p, c) /\ InOrder(c) /\ c.job \subseteq call[p].job
              /\ ~Reads(c) /\ c.op # "repair" /\ HealthCall(c, active, crossed)
              /\ c.pc \in {"list", "dns"} => c.todo # {}
              /\ c.pc = "dns" => rest # NoPlan /\ c.plan = rest /\ c.todo = call[p].todo
        BY <1>1, <2>1, ProceedMoves
    <2>3. d = CHOOSE n \in call[p].todo : TRUE  BY <1>1, <2>1, NameType
    <2>4. RecordsOK'  BY <2>1, <2>2, <2>3, RecordsDid DEF Safe
    <2>5. Shape'
        <3>1. records' \in Records  BY <2>1 DEF Did, Becomes
        <3>2. Slots' /\ spec' \in Specs  BY <1>2 DEF appVars, Safe, Shape, Slots
        <3>3. /\ wait' \in Waits /\ bound' \in SUBSET Domains
              /\ repair' \in [Jobs -> {"none", "succeeded", "failed", "unrestored"}]
              /\ undone' \in SUBSET Jobs /\ baseline' \in DepRefs /\ crossed' \in BOOLEAN
              /\ health' \in [ok : BOOLEAN, active : DepRefs, baseline : DepRefs]
            BY <1>2, <2>1 DEF Safe, Shape
        <3> QED  BY <2>2, <3>1, <3>2, <3>3, ShapeStep DEF Safe
    <2>6. WritesOK'  BY <1>2, <2>2, WritesPlain DEF appVars, Safe
    <2>7. NoNews  BY <2>1, Quiet DEF Safe
    <2>8. HealthOK'  BY <1>2, <2>2, <2>5, <2>7, HealthQuiet DEF appVars, Safe
    <2> QED  BY <2>4, <2>5, <2>6, <2>8 DEF Safe
<1> QED  BY <1>3, <1>4

(* Only the calls for the records change them, and a name keeps one.        *)
LEMMA CNAMECallServes ==
    ASSUME Safe, NEW p \in Callers, CNAMECall(p), NEW e \in Domains, Live(e) # {}
    PROVE  Live(e)' # {}
<1>1. CASE Unhealthy(p) /\ UNCHANGED records  BY <1>1 DEF Live
<1>2. CASE ~(Unhealthy(p) /\ UNCHANGED records)
    <2>1. PICK d \in Domains, plan \in Plans, rest \in Plans :
              PlanOK(d, plan) /\ Did(d, plan, rest)
        BY <1>2, CNAMECallDid
    <2>2. Live(d)' # {}  BY <2>1, PlansKept DEF Safe, Shape
    <2>3. CASE e # d
        <3>1. records'[e] = records[e]  BY <2>1, <2>3 DEF Did, Becomes
        <3> QED  BY <3>1 DEF Live
    <2> QED  BY <2>2, <2>3
<1> QED  BY <1>1, <1>2

-----------------------------------------------------------------------------
(* Scale, step.iac_scale and the domain calls.                              *)

LEMMA EditTypes ==
    ASSUME Safe, NEW p \in Callers, call[p].op \in Editing, call[p].pc # "idle",
           NEW s \in Specs
    PROVE  /\ call[p] \in Calls /\ <<call[p].op, call[p].arg>> \in Requests
           /\ Edited(p, s) \in Specs
           /\ Edited(p, s).jobs = s.jobs
           /\ call[p].op \in {"scale", "iac_scale"} => Edited(p, s).base.domains = s.base.domains
           /\ call[p].op = "bind" => Edited(p, s).base.domains = s.base.domains \cup {call[p].arg}
           /\ call[p].op = "unbind" => Edited(p, s).base.domains = s.base.domains \ {call[p].arg}
<1>1. call[p] \in Calls /\ <<call[p].op, call[p].arg>> \in Requests  BY DEF Safe, Shape, InOrder
<1>2. PICK o, a : o = call[p].op /\ a = call[p].arg  OBVIOUS
<1>3. /\ o \in {"scale", "iac_scale"} => a \in Counts
      /\ o \in {"bind", "unbind"} => a \in Domains
    BY <1>1, <1>2 DEF Requests
<1>4. PICK b \in Bases, js \in [Jobs -> Forms] : s = [base |-> b, jobs |-> js]
    <2>1. s.base \in Bases /\ s.jobs \in [Jobs -> Forms] /\ s = [base |-> s.base, jobs |-> s.jobs]
        BY DEF Specs
    <2> QED  BY <2>1
<1>5. PICK g \in Configs, k \in Counts, ds \in SUBSET Domains :
         b = [config |-> g, count |-> k, domains |-> ds]
    <2>1. /\ b.config \in Configs /\ b.count \in Counts /\ b.domains \in SUBSET Domains
          /\ b = [config |-> b.config, count |-> b.count, domains |-> b.domains]
        BY WritersAssumption
    <2> QED  BY <2>1
<1>6. CASE o \in {"scale", "iac_scale"}
    <2>1. Edited(p, s) = Scaled(s, a)  BY <1>2, <1>6, Zenon DEF Edited
    <2>2. Scaled(s, a) = [base |-> [config |-> g, count |-> a, domains |-> ds], jobs |-> js]
        BY <1>4, <1>5 DEF Scaled
    <2>3. [config |-> g, count |-> a, domains |-> ds] \in Bases
        BY <1>3, <1>6, WritersAssumption
    <2> QED  BY <1>1, <1>2, <1>4, <1>5, <1>6, <2>1, <2>2, <2>3 DEF Specs
<1>7. CASE o = "bind"
    <2>1. Edited(p, s) = Merged(s, a)  BY <1>2, <1>7, Zenon DEF Edited
    <2>2. Merged(s, a) = [base |-> [config |-> g, count |-> k, domains |-> ds \cup {a}], jobs |-> js]
        BY <1>4, <1>5 DEF Merged
    <2>3. [config |-> g, count |-> k, domains |-> ds \cup {a}] \in Bases
        BY <1>3, <1>7, WritersAssumption
    <2>4. PICK n : n = ds \cup {a}  OBVIOUS
    <2>5. PICK e : e = [base |-> [config |-> g, count |-> k, domains |-> n], jobs |-> js]  OBVIOUS
    <2>6. e = Edited(p, s) /\ [config |-> g, count |-> k, domains |-> n] \in Bases
        BY <2>1, <2>2, <2>3, <2>4, <2>5, Zenon
    <2>7. e \in Specs /\ e.jobs = js /\ e.base.domains = n  BY <2>5, <2>6 DEF Specs
    <2>8. s.jobs = js /\ s.base.domains = ds  BY <1>4, <1>5
    <2> QED  BY <1>1, <1>2, <1>7, <2>4, <2>6, <2>7, <2>8
<1>8. CASE o = "unbind"
    <2>1. Edited(p, s) = Removed(s, a)  BY <1>2, <1>8, Zenon DEF Edited
    <2>2. Removed(s, a) = [base |-> [config |-> g, count |-> k, domains |-> ds \ {a}], jobs |-> js]
        BY <1>4, <1>5, SMTT(30) DEF Removed
    <2>3. [config |-> g, count |-> k, domains |-> ds \ {a}] \in Bases
        BY <1>3, <1>8, WritersAssumption
    <2>4. PICK n : n = ds \ {a}  OBVIOUS
    <2>5. PICK e : e = [base |-> [config |-> g, count |-> k, domains |-> n], jobs |-> js]  OBVIOUS
    <2>6. e = Edited(p, s) /\ [config |-> g, count |-> k, domains |-> n] \in Bases
        BY <2>1, <2>2, <2>3, <2>4, <2>5, Zenon
    <2>7. e \in Specs /\ e.jobs = js /\ e.base.domains = n  BY <2>5, <2>6 DEF Specs
    <2>8. s.jobs = js /\ s.base.domains = ds  BY <1>4, <1>5
    <2> QED  BY <1>1, <1>2, <1>8, <2>4, <2>6, <2>7, <2>8
<1> QED  BY <1>2, <1>6, <1>7, <1>8 DEF Editing

LEMMA EditGetSafe == ASSUME Safe, NEW p \in Callers, EditGet(p), UNCHANGED menu PROVE Safe'
<1>1. call[p].op \in Editing /\ call[p].pc = "get"  BY DEF EditGet, At
<1>2. UNCHANGED appVars /\ UNCHANGED <<wait, records, bound, repair, undone, baseline, crossed>> /\ NoNews
    BY AppSame, Quiet DEF EditGet, history, Safe
<1>3. CASE Return(p)  BY <1>2, <1>3, Returned
<1>4. CASE Set(p, [call[p] EXCEPT !.pc = "put", !.copy = spec, !.at = lastDep])
    <2>1. call[p] \in Calls /\ <<call[p].op, call[p].arg>> \in Requests
        BY <1>1 DEF Safe, Shape, InOrder
    <2>2. PICK c : c = [call[p] EXCEPT !.pc = "put", !.copy = spec, !.at = lastDep]  OBVIOUS
    <2>3. spec \in Specs /\ lastDep \in DepRefs  BY DepNumbers DEF Safe, Shape, Slots
    <2>4. /\ c \in Calls /\ c.op = call[p].op /\ c.arg = call[p].arg /\ c.pc = "put"
          /\ c.copy = spec /\ c.at = lastDep /\ c.job = call[p].job
        BY <2>1, <2>2, <2>3 DEF Calls, PCs
    <2>5. InOrder(c) /\ HealthCall(c, active, crossed) /\ DnsCall(c) /\ c.op # "repair"
        BY <1>1, <2>1, <2>4 DEF InOrder, HealthCall, DnsCall, Repairing, Editing
    <2> QED  BY <1>2, <1>4, <2>2, <2>4, <2>5, Moved
<1> QED  BY <1>3, <1>4 DEF EditGet

(* A write based on a read: what is new is the writer's, or was there, or   *)
(* was taken out by another since the read.                                 *)
LEMMA BasedOnRead ==
    ASSUME Safe, NEW p \in Callers, Reads(call[p]), NEW new \in Specs, NEW mine,
           \A j \in Jobs : new.jobs[j] # "absent" => call[p].copy.jobs[j] # "absent" \/ j \in mine
    PROVE  /\ call[p].copy \in Specs /\ Revived(new, call[p].at) \subseteq Jobs
           /\ \A j \in Jobs : new.jobs[j] # "absent" =>
                 spec.jobs[j] # "absent" \/ j \in Revived(new, call[p].at) \/ j \in mine
           /\ \A gone : call[p].copy.base.domains \ gone \subseteq new.base.domains =>
                 Kept(new, call[p].at) \ gone \subseteq new.base.domains
<1>1. call[p].copy \in Specs  BY DEF Safe, Shape, Calls
<1>2. call[p].at = lastDep => call[p].copy = spec  BY DEF Safe, WritesOK, ReadCurrent
<1>3. bound \subseteq spec.base.domains  BY DEF Safe, WritesOK, DomainsKept
<1>4. \A j \in Jobs : new.jobs[j] # "absent" =>
         spec.jobs[j] # "absent" \/ j \in Revived(new, call[p].at) \/ j \in mine
    <2>1. CASE call[p].at = lastDep  BY <1>2, <2>1
    <2>2. CASE call[p].at # lastDep  BY <2>2 DEF Revived
    <2> QED  BY <2>1, <2>2
<1>5. ASSUME NEW gone, call[p].copy.base.domains \ gone \subseteq new.base.domains
      PROVE  Kept(new, call[p].at) \ gone \subseteq new.base.domains
    <2>1. CASE call[p].at = lastDep  BY <1>2, <1>3, <1>5, <2>1 DEF Kept
    <2>2. CASE call[p].at # lastDep  BY <2>2 DEF Kept
    <2> QED  BY <2>1, <2>2
<1> QED  BY <1>1, <1>4, <1>5 DEF Revived

LEMMA EditPutSafe == ASSUME Safe, NEW p \in Callers, EditPut(p), UNCHANGED menu PROVE Safe'
<1>1. call[p].op \in Editing /\ call[p].pc = "put"  BY DEF EditPut, At
<1>2. Reads(call[p])  BY <1>1 DEF Reads, Editing
<1>3. /\ Return(p) /\ UNCHANGED <<wait, records, repair, baseline, crossed, health>>
    BY DEF EditPut
<1>4. call[p].copy \in Specs  BY DEF Safe, Shape, Calls
<1>5. PICK new \in Specs : new = Edited(p, call[p].copy)  BY <1>1, <1>4, EditTypes
<1>6. PICK gone : gone = IF call[p].op = "unbind" THEN {call[p].arg} ELSE {}  OBVIOUS
<1>7. PICK added : added = IF call[p].op = "bind" THEN {call[p].arg} ELSE {}  OBVIOUS
<1>8. CASE /\ Deploy(new) /\ undone' = undone \cup Revived(new, call[p].at)
           /\ \/ bound' = (Kept(new, call[p].at) \ gone) \cup added
              \/ bound' = Kept(new, call[p].at) \ gone
    <2>1. /\ new.jobs = call[p].copy.jobs
          /\ call[p].copy.base.domains \ gone \subseteq new.base.domains
          /\ added \subseteq new.base.domains
        BY <1>1, <1>4, <1>5, <1>6, <1>7, EditTypes, ZenonT(60) DEF Editing
    <2>2. /\ Revived(new, call[p].at) \subseteq Jobs
          /\ \A j \in Jobs : new.jobs[j] # "absent" =>
                spec.jobs[j] # "absent" \/ j \in Revived(new, call[p].at) \/ j \in {}
          /\ Kept(new, call[p].at) \ gone \subseteq new.base.domains
        BY <1>2, <2>1, BasedOnRead
    <2>3. bound' \subseteq new.base.domains  BY <1>8, <2>1, <2>2
    <2>4. Set(p, IdleCall)  BY <1>3 DEF Return
    <2>5. /\ HealthCall(IdleCall, active, crossed) /\ DnsCall(IdleCall) /\ ~Reads(IdleCall)
          /\ IdleCall.job = {} /\ IdleCall.pc # "put" /\ IdleCall.op # "repair"
        BY IdleCalls, IdleFacts
    <2>6. \A j \in call[p].job : repair'[j] = "none"  BY <1>3 DEF Safe, WritesOK, OneJob
    <2>7. /\ repair' \in [Jobs -> {"none", "succeeded", "failed", "unrestored"}]
          /\ undone' \in SUBSET Jobs /\ undone \subseteq undone'
        BY <1>3, <1>8, <2>2 DEF Safe, Shape
    <2>8. \A j \in Jobs : new.jobs[j] # "absent" =>
                spec.jobs[j] # "absent" \/ j \in undone' \/ j \in IdleCall.job
        BY <1>8, <2>2
    <2> QED  BY <1>3, <1>8, <2>3, <2>4, <2>5, <2>6, <2>7, <2>8, IdleFacts, Deployed
<1>9. CASE NoWrite
    <2>1. UNCHANGED appVars /\ UNCHANGED <<bound, undone>>  BY <1>9, AppSame DEF NoWrite
    <2>2. NoNews  BY <1>3, Quiet DEF Safe
    <2> QED  BY <1>3, <2>1, <2>2, Returned
<1> QED  BY <1>5, <1>6, <1>7, <1>8, <1>9 DEF EditPut

-----------------------------------------------------------------------------
(* HealthCheck.                                                             *)

LEMMA Checked ==
    ASSUME Safe, NEW p \in Callers, NEW c \in Calls, InOrder(c), Set(p, c),
           UNCHANGED appVars, UNCHANGED menu, UNCHANGED <<records, bound, repair, undone, baseline>>,
           wait' \in Waits, crossed' \in BOOLEAN, crossed => crossed',
           health' \in [ok : BOOLEAN, active : DepRefs, baseline : DepRefs],
           ~Reads(c), c.op # "repair", c.job \subseteq call[p].job, DnsCall(c),
           HealthCall(c, active, crossed'), WaitOK', HealthyIsNew'
    PROVE  Safe'
<1> USE DEF Safe, appVars
<1>1. Slots' /\ SlotsOrdered'  BY DEF Shape, Slots, HealthOK, SlotsOrdered
<1>2. Shape'
    <2>1. /\ spec' \in Specs /\ records' \in Records /\ bound' \in SUBSET Domains
          /\ repair' \in [Jobs -> {"none", "succeeded", "failed", "unrestored"}]
          /\ undone' \in SUBSET Jobs /\ baseline' \in DepRefs
        BY DEF Shape
    <2> QED  BY <1>1, <2>1, ShapeStep
<1>3. WritesOK'  BY WritesPlain
<1>4. active <= active' /\ HealthCall(c, active', crossed')  BY DepNumbers DEF Shape, Slots
<1>5. HealthOK'  BY <1>1, <1>2, <1>4, HealthMoves
<1>6. RecordsOK'  BY RecordsQuiet
<1> QED  BY <1>2, <1>3, <1>5, <1>6

(* A check that found its deployment healthy goes on to the records.        *)
LEMMA JudgedHealthy ==
    ASSUME Safe, NEW p \in Callers, NEW c \in Calls, c.op = "health", <<c.op, c.arg>> \in Requests,
           c.job = call[p].job,
           Set(p, Reconcile([c EXCEPT !.inv = active], c.todo))
    PROVE  \E r \in Calls :
              /\ Set(p, r) /\ InOrder(r) /\ r.op = "health" /\ r.pc \in {"list", "probe"}
              /\ r.job \subseteq call[p].job /\ r.prev = c.prev /\ r.wait = c.wait /\ r.inv = active
              /\ DnsCall(r) /\ ~Reads(r)
<1>1. PICK e : e = [c EXCEPT !.inv = active]  OBVIOUS
<1>2. active \in DepRefs  BY DEF Safe, Shape, Slots
<1>3. /\ e \in Calls /\ e.op = c.op /\ e.arg = c.arg /\ e.job = c.job /\ e.prev = c.prev
      /\ e.wait = c.wait /\ e.inv = active
    BY <1>1, <1>2 DEF Calls
<1>4. PICK ds \in SUBSET Domains : ds = c.todo  BY DEF Calls
<1>5. PICK r : r = Reconcile(e, ds)  OBVIOUS
<1>6. /\ r \in Calls /\ InOrder(r) /\ r.op = "health" /\ r.job = c.job
      /\ r.prev = c.prev /\ r.wait = c.wait /\ r.inv = active
      /\ r.pc \in {"probe", "list"} /\ (r.pc = "list" => r.todo # {})
    BY <1>3, <1>5, ReconcileFacts
<1>7. Set(p, r)  BY <1>1, <1>4, <1>5
<1>8. DnsCall(r) /\ ~Reads(r)  BY <1>6 DEF DnsCall, Reads
<1> QED  BY <1>6, <1>7, <1>8

(* One that is told its app is not healthy, whatever became of the wait.    *)
LEMMA Told ==
    ASSUME Safe, NEW p \in Callers, Unhealthy(p),
           UNCHANGED appVars, UNCHANGED menu, UNCHANGED <<records, bound, repair, undone, baseline>>,
           wait' \in Waits, crossed' \in BOOLEAN, crossed => crossed', WaitOK'
    PROVE  Safe'
<1>1. NoNews /\ Set(p, IdleCall)  BY NotHealthy DEF Safe, Return
<1>2. HealthyIsNew'  BY <1>1 DEF NoNews, Safe, HealthOK, HealthyIsNew
<1>3. /\ HealthCall(IdleCall, active, crossed') /\ DnsCall(IdleCall) /\ ~Reads(IdleCall)
      /\ IdleCall.op # "repair" /\ IdleCall.job \subseteq call[p].job
    BY IdleCalls, IdleFacts
<1> QED  BY <1>1, <1>2, <1>3, IdleFacts, Checked DEF NoNews

LEMMA HealthGetSafe == ASSUME Safe, NEW p \in Callers, HealthGet(p), UNCHANGED menu PROVE Safe'
<1>1. /\ UNCHANGED appVars /\ UNCHANGED <<wait, records, bound, repair, undone, baseline, crossed>>
      /\ call[p].op = "health" /\ call[p].pc = "get"
    BY AppSame DEF HealthGet, At
<1>2. call[p] \in Calls /\ <<call[p].op, call[p].arg>> \in Requests  BY <1>1 DEF Safe, Shape, InOrder
<1>3. PICK a : a = [inProgress |-> inProgress, pending |-> pending, active |-> active, up |-> Serving]
    OBVIOUS
<1>4. a \in Apps /\ a.active = active /\ active \in Nat
    <2>1. inProgress \in DepRefs /\ pending \in DepRefs /\ active \in DepRefs  BY DEF Safe, Shape, Slots
    <2>2. Serving \in BOOLEAN  BY DEF Serving
    <2> QED  BY <1>3, <2>1, <2>2, DepNumbers DEF Apps
<1>5. PICK ds \in SUBSET Domains : ds = Ingress(spec.base.domains)
    <2>1. spec \in Specs  BY DEF Safe, Shape
    <2>2. spec.base.domains \in SUBSET Domains  BY <2>1, DomainsType
    <2> QED  BY <2>2 DEF Ingress
<1>6. CASE Unhealthy(p)
    <2>1. NoNews /\ Return(p)  BY <1>6, NotHealthy DEF Safe
    <2> QED  BY <1>1, <2>1, Returned
<1>7. CASE /\ Set(p, [call[p] EXCEPT !.pc = "target", !.todo = ds, !.app = a])
           /\ UNCHANGED health
    <2>1. PICK c : c = [call[p] EXCEPT !.pc = "target", !.todo = ds, !.app = a]  OBVIOUS
    <2>2. /\ c \in Calls /\ c.op = "health" /\ c.arg = call[p].arg /\ c.pc = "target"
          /\ c.job = call[p].job /\ c.app = a
        BY <1>1, <1>2, <1>4, <2>1 DEF Calls, PCs
    <2>3. InOrder(c) /\ DnsCall(c) /\ ~Reads(c) /\ HealthCall(c, active, crossed)
        BY <1>1, <1>2, <1>4, <2>2 DEF InOrder, DnsCall, Reads, Repairing, HealthCall
    <2>4. NoNews  BY <1>7, Quiet DEF Safe
    <2> QED  BY <1>1, <1>7, <2>1, <2>2, <2>3, <2>4, Moved
<1> QED  BY <1>3, <1>5, <1>6, <1>7 DEF HealthGet

(* What a check that has read the app finds in its slots.                   *)
LEMMA HealthReads ==
    ASSUME Safe, NEW a \in Apps, NEW d, d = Select(<<a.inProgress, a.pending, a.active>>, wait.prev, prev)
    PROVE  /\ d \in DepRefs /\ (d # 0 => d # wait.prev)
           /\ baseline \in Nat /\ active \in Nat /\ baseline <= active
           /\ wait \in Waits /\ (wait.set => wait.prev = baseline)
<1>1. /\ wait \in Waits /\ prev \in [DepIDs -> DepRefs] /\ \A e \in DepIDs : prev[e] < e
    BY DEF Safe, Shape, Slots, HealthOK, SlotsOrdered
<1>2. wait.prev \in DepRefs  BY <1>1 DEF Waits
<1>3. a.inProgress \in DepRefs /\ a.pending \in DepRefs /\ a.active \in DepRefs  BY DEF Apps
<1>4. d \in DepRefs /\ (d # 0 => d # wait.prev)  BY <1>1, <1>2, <1>3, SelectNewer
<1> QED  BY <1>1, <1>4, DepNumbers DEF Safe, Shape, Slots, HealthOK, WaitOK

(* A check that found the deployment it looked for running: the app has a   *)
(* newer deployment than its baseline, if no check crossed an Update.       *)
LEMMA Passed ==
    ASSUME Safe, NEW p \in Callers, NEW c \in Calls, c.op = "health", <<c.op, c.arg>> \in Requests,
           c.job = call[p].job, c.prev = baseline, c.wait = wait', Judge(p, c, TRUE),
           UNCHANGED appVars, UNCHANGED menu, UNCHANGED <<records, bound, repair, undone, baseline>>,
           wait' \in Waits, crossed' \in BOOLEAN, crossed => crossed', WaitOK',
           wait'.set => wait'.prev = baseline,
           baseline # 0 /\ ~crossed' => baseline < active
    PROVE  Safe'
<1>1. Set(p, Reconcile([c EXCEPT !.inv = active], c.todo)) /\ UNCHANGED health  BY DEF Judge
<1>2. PICK r \in Calls :
          /\ Set(p, r) /\ InOrder(r) /\ r.op = "health" /\ r.pc \in {"list", "probe"}
          /\ r.job \subseteq call[p].job /\ r.prev = baseline /\ r.wait = wait' /\ r.inv = active
          /\ DnsCall(r) /\ ~Reads(r)
    BY <1>1, JudgedHealthy
<1>3. baseline \in Nat /\ active \in Nat /\ baseline <= active
    BY DepNumbers DEF Safe, Shape, Slots, HealthOK, WaitOK
<1>4. HealthCall(r, active, crossed')  BY <1>2, <1>3 DEF HealthCall
<1>5. HealthyIsNew'  BY <1>1 DEF Safe, HealthOK, HealthyIsNew
<1>6. health' \in [ok : BOOLEAN, active : DepRefs, baseline : DepRefs]  BY <1>1 DEF Safe, Shape
<1> QED  BY <1>2, <1>4, <1>5, <1>6, Checked

LEMMA HealthTargetSafe == ASSUME Safe, NEW p \in Callers, HealthTarget(p), UNCHANGED menu PROVE Safe'
<1>1. /\ UNCHANGED appVars /\ UNCHANGED <<records, bound, repair, undone, baseline>>
      /\ call[p].op = "health" /\ call[p].pc = "target"
    BY AppSame DEF HealthTarget, At
<1>2. call[p] \in Calls /\ <<call[p].op, call[p].arg>> \in Requests  BY <1>1 DEF Safe, Shape, InOrder
<1>3. PICK a \in Apps : a = call[p].app  BY <1>2 DEF Calls
<1>4. a.active \in Nat /\ a.active <= active
    BY <1>1, <1>3, DepNumbers DEF Apps, Safe, HealthOK, HealthCall
<1>5. PICK d : d = Select(<<a.inProgress, a.pending, a.active>>, wait.prev, prev)  OBVIOUS
<1>6. /\ d \in DepRefs /\ (d # 0 => d # wait.prev)
      /\ baseline \in Nat /\ active \in Nat /\ baseline <= active
      /\ wait \in Waits /\ (wait.set => wait.prev = baseline)
    BY <1>5, HealthReads
<1>7. baseline \in DepRefs /\ crossed \in BOOLEAN  BY DEF Safe, Shape
<1>8. PICK seen : seen = [call[p] EXCEPT !.app = NoApp, !.wait = wait', !.prev = baseline]  OBVIOUS
<1>9. wait' \in Waits =>
         /\ seen \in Calls /\ seen.op = "health" /\ seen.arg = call[p].arg /\ seen.job = call[p].job
         /\ seen.prev = baseline /\ seen.wait = wait'
    BY <1>1, <1>2, <1>7, <1>8, IdleFacts DEF Calls
<1>10. UNCHANGED <<wait, crossed>> => WaitOK'  BY <1>1 DEF appVars, Safe, HealthOK, WaitOK
<1>11. CASE /\ wait.set /\ d # 0 /\ wait' = [wait EXCEPT !.target = d]
            /\ crossed' = (crossed \/ a.active < wait.prev)
            /\ Judge(p, seen, d = a.active /\ a.up)
    <2>1. wait' \in Waits /\ wait'.set /\ wait'.prev = wait.prev /\ wait'.target = d
        BY <1>6, <1>11 DEF Waits
    <2>2. WaitOK'  BY <1>1, <1>6, <1>11, <2>1 DEF appVars, WaitOK
    <2>3. crossed' \in BOOLEAN /\ (crossed => crossed')  BY <1>7, <1>11
    <2>4. CASE ~(d = a.active /\ a.up)
        <3>1. Unhealthy(p)  BY <1>11, <2>4 DEF Judge
        <3> QED  BY <1>1, <2>1, <2>2, <2>3, <3>1, Told
    <2>5. CASE d = a.active /\ a.up
        <3>1. Judge(p, seen, TRUE)  BY <1>11, <2>5 DEF Judge
        <3>2. wait.prev = baseline /\ baseline # a.active  BY <1>6, <1>11, <2>5
        <3>3. ASSUME ~crossed' PROVE baseline < active
            <4>1. ~(a.active < wait.prev)  BY <1>11, <3>3
            <4> QED  BY <1>4, <1>6, <3>2, <4>1
        <3>4. wait'.set => wait'.prev = baseline  BY <2>1, <3>2
        <3>5. /\ seen \in Calls /\ seen.op = "health" /\ <<seen.op, seen.arg>> \in Requests
              /\ seen.job = call[p].job /\ seen.prev = baseline /\ seen.wait = wait'
            BY <1>1, <1>2, <1>9, <2>1
        <3> QED  BY <1>1, <2>1, <2>2, <2>3, <3>1, <3>3, <3>4, <3>5, Passed
    <2> QED  BY <2>4, <2>5
<1>12. CASE wait.set /\ UNCHANGED <<wait, crossed, health>> /\ Set(p, [seen EXCEPT !.pc = "deploy"])
    <2>1. PICK c : c = [seen EXCEPT !.pc = "deploy"]  OBVIOUS
    <2>2. /\ c \in Calls /\ c.op = "health" /\ c.arg = call[p].arg /\ c.pc = "deploy"
          /\ c.job = call[p].job /\ c.prev = baseline /\ c.wait = wait
        BY <1>6, <1>9, <1>12, <2>1 DEF Calls, PCs
    <2>3. InOrder(c) /\ DnsCall(c) /\ ~Reads(c)
        BY <1>1, <1>2, <2>2 DEF InOrder, DnsCall, Reads, Repairing
    <2>4. HealthCall(c, active, crossed)
        BY <1>6, <1>12, <2>2 DEF HealthCall, Safe, HealthOK, WaitOK
    <2>5. Set(p, c) /\ UNCHANGED wait /\ UNCHANGED crossed  BY <1>12, <2>1
    <2>6. NoNews  BY <1>12, Quiet DEF Safe
    <2> QED  BY <1>1, <2>2, <2>3, <2>4, <2>5, <2>6, Moved
<1>13. CASE ~wait.set /\ UNCHANGED <<wait, crossed>> /\ Judge(p, seen, a.up)
    <2>1. /\ wait' \in Waits /\ WaitOK' /\ crossed' \in BOOLEAN /\ (crossed => crossed')
          /\ ~wait'.set
        BY <1>6, <1>7, <1>10, <1>13
    <2>2. CASE ~a.up
        <3>1. Unhealthy(p)  BY <1>13, <2>2 DEF Judge
        <3> QED  BY <1>1, <2>1, <3>1, Told
    <2>3. CASE a.up
        <3>1. Judge(p, seen, TRUE)  BY <1>13, <2>3 DEF Judge
        <3>2. baseline # 0 /\ ~crossed' => baseline < active
            BY <1>13 DEF Safe, HealthOK, WaitOK
        <3> QED  BY <1>1, <1>2, <1>9, <2>1, <3>1, <3>2, Passed
    <2> QED  BY <2>2, <2>3
<1> QED  BY <1>3, <1>5, <1>8, <1>11, <1>12, <1>13 DEF HealthTarget

LEMMA LargestExists ==
    ASSUME NEW n \in Nat, NEW S \in SUBSET (0..n), S # {}
    PROVE  Max(S) \in S
<1> DEFINE T == {n - d : d \in S}
           R == OpToRel(<, Nat)
<1> HIDE DEF R
<1>1. T \subseteq Nat /\ T # {}
    <2>1. \A d \in S : n - d \in Nat  OBVIOUS
    <2> QED  BY <2>1
<1>2. \E x \in T : \A y \in T : ~(<<y, x>> \in R)
    BY <1>1, WFMin, NatLessThanWellFounded, Zenon DEF R
<1>3. PICK x \in T : \A y \in T : ~(y < x)  BY <1>1, <1>2 DEF OpToRel, R
<1>4. PICK d \in S : x = n - d  OBVIOUS
<1>5. \A e \in S : d >= e
    <2> SUFFICES ASSUME NEW e \in S PROVE d >= e  OBVIOUS
    <2>1. n - e \in T /\ n - e \in Nat /\ e \in Nat /\ d \in Nat  OBVIOUS
    <2> QED  BY <1>3, <1>4, <2>1
<1> QED  BY <1>5 DEF Max

(* The deployment a check found in the list: it came after the one that its *)
(* Update replaced, if it is the active one and no check crossed another.   *)
LEMMA ListedNewer ==
    ASSUME Safe, NEW p \in Callers, call[p].op = "health", call[p].pc = "deploy",
           NEW first \in DepIDs,
           IF call[p].wait.target # 0 THEN first = call[p].wait.target
           ELSE Historical(first, call[p].wait.prev)
    PROVE  /\ call[p].wait.set /\ call[p].wait.prev = call[p].prev /\ call[p].prev \in DepRefs
           /\ call[p].prev <= active
           /\ call[p].wait.target = 0 /\ call[p].prev # 0 => first # call[p].prev
           /\ call[p].prev # 0 /\ ~crossed => first # call[p].prev
<1>1. /\ call[p].wait.set /\ call[p].wait.prev = call[p].prev /\ call[p].prev <= active
      /\ ~crossed /\ call[p].wait.prev # 0 => call[p].wait.target # call[p].wait.prev
    BY DEF Safe, HealthOK, HealthCall
<1>2. call[p].prev \in DepRefs  BY DEF Safe, Shape, Calls
<1>3. prev[first] < first /\ prev[first] \in Nat /\ first \in Nat
    BY DepNumbers DEF Safe, HealthOK, SlotsOrdered, Shape, Slots
<1>4. call[p].wait.target = 0 /\ call[p].prev # 0 => first # call[p].prev
    BY <1>1, <1>3 DEF Historical
<1> QED  BY <1>1, <1>2, <1>4

LEMMA HealthListSafe == ASSUME Safe, NEW p \in Callers, HealthList(p), UNCHANGED menu PROVE Safe'
<1> DEFINE w0     == call[p].wait
           known0 == {d \in 1..lastDep : IF w0.target # 0 THEN d = w0.target ELSE Historical(d, w0.prev)}
<1>1. /\ UNCHANGED appVars /\ UNCHANGED <<records, bound, repair, undone, baseline>>
      /\ call[p].op = "health" /\ call[p].pc = "deploy"
    BY AppSame DEF HealthList, At
<1>2. \/ /\ IF known0 # {} /\ w0.target = 0 /\ wait.set /\ wait.target = 0
            THEN /\ wait' = [wait EXCEPT !.target = Max(known0)]
                 /\ crossed' = (crossed \/ wait.prev # w0.prev)
            ELSE UNCHANGED <<wait, crossed>>
         /\ Judge(p, call[p], known0 # {} /\ Verdict(Max(known0)) = "ok")
      \/ Unhealthy(p) /\ UNCHANGED <<wait, crossed>>
    BY DEF HealthList
<1>3. lastDep \in Nat /\ 1..lastDep \subseteq DepIDs
    BY DepNumbers, PlatformAssumption DEF Safe, Shape, Slots, DepIDs
<1>4. PICK known \in SUBSET (0..lastDep) : known = known0
    <2>1. known0 \subseteq 1..lastDep  OBVIOUS
    <2> HIDE DEF known0
    <2>2. known0 \subseteq 0..lastDep  BY <1>3, <2>1
    <2> QED  BY <2>2
<1>5. PICK first : first = Max(known)  OBVIOUS
<1>6. PICK w \in Waits : w = call[p].wait  BY DEF Safe, Shape, Calls
<1> HIDE DEF known0
<1>7. known # {} =>
         /\ first \in DepIDs /\ first <= lastDep
         /\ IF w.target # 0 THEN first = w.target ELSE Historical(first, w.prev)
    <2>1. known # {} => first \in known  BY <1>3, <1>5, LargestExists, Zenon
    <2>2. known # {} => first \in known0  BY <1>4, <2>1, Zenon
    <2>3. \A d \in known0 : /\ d \in 1..lastDep
                            /\ IF w.target # 0 THEN d = w.target ELSE Historical(d, w.prev)
        BY <1>6, Zenon DEF known0
    <2>4. \A d \in 1..lastDep : d \in DepIDs /\ d <= lastDep  BY <1>3
    <2> QED  BY <2>2, <2>3, <2>4, Zenon
<1>8. /\ call[p] \in Calls /\ <<call[p].op, call[p].arg>> \in Requests /\ wait \in Waits
      /\ crossed \in BOOLEAN /\ health \in [ok : BOOLEAN, active : DepRefs, baseline : DepRefs]
      /\ baseline \in Nat /\ active \in Nat
    BY <1>1, DepNumbers DEF Safe, Shape, Slots, InOrder
<1>9. UNCHANGED <<wait, crossed>> => WaitOK'  BY <1>1 DEF appVars, Safe, HealthOK, WaitOK
<1>10. CASE Unhealthy(p) /\ UNCHANGED <<wait, crossed>>
    BY <1>1, <1>8, <1>9, <1>10, Told
<1>11. CASE /\ IF known # {} /\ w.target = 0 /\ wait.set /\ wait.target = 0
               THEN /\ wait' = [wait EXCEPT !.target = first]
                    /\ crossed' = (crossed \/ wait.prev # w.prev)
               ELSE UNCHANGED <<wait, crossed>>
            /\ Judge(p, call[p], known # {} /\ Verdict(first) = "ok")
    <2>1. /\ wait' \in Waits /\ crossed' \in BOOLEAN /\ (crossed => crossed') /\ WaitOK'
        <3>1. CASE UNCHANGED <<wait, crossed>>  BY <1>8, <1>9, <3>1
        <3>2. CASE /\ known # {} /\ w.target = 0 /\ wait.set /\ wait.target = 0
                   /\ wait' = [wait EXCEPT !.target = first]
                   /\ crossed' = (crossed \/ wait.prev # w.prev)
            <4>1. /\ wait' \in Waits /\ wait'.set /\ wait'.prev = wait.prev /\ wait'.target = first
                BY <1>7, <1>8, <3>2, DepNumbers DEF Waits
            <4>2. ~crossed' => wait.prev = w.prev  BY <3>2
            <4>3. w.prev # 0 => first # w.prev
                BY <1>1, <1>6, <1>7, <3>2, ListedNewer
            <4>4. wait.prev = baseline /\ baseline <= active  BY <3>2 DEF Safe, HealthOK, WaitOK
            <4>5. WaitOK'  BY <1>1, <4>1, <4>2, <4>3, <4>4 DEF appVars, WaitOK
            <4>6. crossed' \in BOOLEAN /\ (crossed => crossed')  BY <1>8, <3>2
            <4> QED  BY <4>1, <4>5, <4>6
        <3> QED  BY <1>11, <3>1, <3>2
    <2>2. CASE ~(known # {} /\ Verdict(first) = "ok")
        <3>1. Unhealthy(p)  BY <1>11, <2>2 DEF Judge
        <3> QED  BY <1>1, <2>1, <3>1, Told
    <2>3. CASE known # {} /\ Verdict(first) = "ok"
        <3>1. first = active /\ first \in DepRefs /\ first \in Nat
            BY <1>7, <2>3, VerdictOk, DepNumbers DEF Safe, Shape, HealthOK
        <3>2. Set(p, Reconcile([call[p] EXCEPT !.inv = active], call[p].todo)) /\ UNCHANGED health
            BY <1>11, <2>3 DEF Judge
        <3>3. PICK r \in Calls :
                  /\ Set(p, r) /\ InOrder(r) /\ r.op = "health" /\ r.pc \in {"list", "probe"}
                  /\ r.job \subseteq call[p].job /\ r.prev = call[p].prev /\ r.wait = call[p].wait
                  /\ r.inv = active /\ DnsCall(r) /\ ~Reads(r)
            BY <1>1, <1>8, <3>1, <3>2, JudgedHealthy
        <3>4. /\ call[p].wait.prev = call[p].prev /\ call[p].prev \in DepRefs
              /\ call[p].prev <= active
              /\ call[p].prev # 0 /\ ~crossed => first # call[p].prev
            BY <1>1, <1>6, <1>7, <2>3, ListedNewer
        <3>5. call[p].prev \in Nat  BY <3>4, DepNumbers
        <3>6. HealthCall(r, active, crossed')
            BY <1>8, <2>1, <3>1, <3>3, <3>4, <3>5 DEF HealthCall
        <3>7. HealthyIsNew'  BY <2>1, <3>2 DEF Safe, HealthOK, HealthyIsNew
        <3> QED  BY <1>1, <1>8, <2>1, <3>2, <3>3, <3>6, <3>7, Checked
    <2> QED  BY <2>2, <2>3
<1> QED  BY <1>2, <1>4, <1>5, <1>6, <1>10, <1>11

LEMMA HealthProbeSafe == ASSUME Safe, NEW p \in Callers, HealthProbe(p), UNCHANGED menu PROVE Safe'
<1>1. /\ UNCHANGED appVars /\ UNCHANGED <<records, bound, repair, undone, baseline>>
      /\ call[p].op = "health" /\ call[p].pc = "probe"
    BY AppSame DEF HealthProbe, At
<1>2. PICK c \in Calls : c = call[p]  BY DEF Safe, Shape
<1>3. /\ c.prev <= active /\ (c.wait.set => c.wait.prev = c.prev) /\ c.inv <= active
      /\ c.prev # 0 /\ ~crossed => c.prev < c.inv
    BY <1>1, <1>2 DEF Safe, HealthOK, HealthCall
<1>4. /\ c.prev \in DepRefs /\ c.inv \in DepRefs /\ c.prev \in Nat /\ c.inv \in Nat
      /\ baseline \in Nat /\ active \in Nat /\ wait \in Waits /\ crossed \in BOOLEAN
    BY DepNumbers DEF Calls, Safe, Shape, Slots
<1>5. CASE /\ wait' = IF c.wait.set THEN NoWait ELSE wait
           /\ crossed' = (crossed \/ (c.wait.set /\ wait.set /\ wait.prev # c.wait.prev))
           /\ health' = [ok |-> TRUE, active |-> c.inv, baseline |-> c.prev]
           /\ Return(p)
    <2>1. /\ wait' \in Waits /\ crossed' \in BOOLEAN /\ (crossed => crossed')
          /\ health' \in [ok : BOOLEAN, active : DepRefs, baseline : DepRefs]
        BY <1>4, <1>5, IdleFacts
    <2>2. HealthyIsNew'  BY <1>3, <1>4, <1>5 DEF HealthyIsNew
    <2>3. WaitOK
        BY DEF Safe, HealthOK
    <2>4. WaitOK'
        <3>1. CASE ~c.wait.set
            <4>1. wait' = wait /\ crossed' = crossed  BY <1>4, <1>5, <3>1
            <4> QED  BY <1>1, <2>3, <4>1 DEF appVars, WaitOK
        <3>2. CASE c.wait.set
            <4>1. ~wait'.set  BY <1>5, <3>2, IdleFacts
            <4>2. ASSUME baseline # 0, ~crossed' PROVE baseline < active
                <5>1. CASE wait.set
                    <6>1. wait.prev = c.wait.prev /\ ~crossed  BY <1>5, <3>2, <4>2, <5>1
                    <6>2. wait.prev = baseline  BY <2>3, <5>1 DEF WaitOK
                    <6>3. baseline = c.prev  BY <1>3, <3>2, <6>1, <6>2
                    <6> QED  BY <1>3, <1>4, <4>2, <6>1, <6>3
                <5>2. CASE ~wait.set
                    <6>1. ~crossed  BY <1>5, <4>2
                    <6> QED  BY <2>3, <4>2, <5>2, <6>1 DEF WaitOK
                <5> QED  BY <5>1, <5>2
            <4> QED  BY <1>1, <2>3, <4>1, <4>2 DEF appVars, WaitOK
        <3> QED  BY <3>1, <3>2
    <2>5. Set(p, IdleCall)  BY <1>5 DEF Return
    <2>6. /\ HealthCall(IdleCall, active, crossed') /\ DnsCall(IdleCall) /\ ~Reads(IdleCall)
          /\ IdleCall.op # "repair" /\ IdleCall.job \subseteq call[p].job
        BY IdleCalls, IdleFacts
    <2> QED  BY <1>1, <2>1, <2>2, <2>4, <2>5, <2>6, IdleFacts, Checked
<1>6. CASE Unhealthy(p) /\ UNCHANGED <<wait, crossed>>
    <2>1. WaitOK'  BY <1>1, <1>6 DEF appVars, Safe, HealthOK, WaitOK
    <2> QED  BY <1>1, <1>4, <1>6, <2>1, Told
<1> QED  BY <1>2, <1>5, <1>6 DEF HealthProbe

-----------------------------------------------------------------------------
(* RepairDirtyMigration.                                                    *)

RepairResults == [Jobs -> {"none", "succeeded", "failed", "unrestored"}]

LEMMA JobFacts ==
    ASSUME Safe, NEW p \in Callers, call[p].op = "repair", call[p].pc \in Repairing
    PROVE  /\ Job(p) \in Jobs /\ call[p].job = {Job(p)} /\ repair[Job(p)] = "none"
           /\ \A q \in Callers \ {p} : Job(p) \notin call[q].job
           /\ call[p] \in Calls /\ <<call[p].op, call[p].arg>> \in Requests
<1>1. PICK j \in Jobs : call[p].job = {j}  BY DEF Safe, WritesOK, OneJob
<1>2. Job(p) = j  BY <1>1 DEF Job
<1>3. call[p] \in Calls /\ <<call[p].op, call[p].arg>> \in Requests
    BY DEF Safe, Shape, InOrder, Repairing
<1> QED  BY <1>1, <1>2, <1>3 DEF Safe, WritesOK, OneJob

LEMMA RepairMoved ==
    ASSUME Safe, NEW p \in Callers, NEW c \in Calls, InOrder(c), Set(p, c),
           c.op \in {"repair", "none"}, c.pc \notin {"list", "dns"},
           UNCHANGED appVars, UNCHANGED menu,
           UNCHANGED <<wait, records, bound, undone, baseline, crossed, health>>,
           repair' \in RepairResults,
           Reads(c) => c.at = lastDep /\ c.copy = spec,
           c.op = "repair" /\ c.pc \in Repairing => \E j \in Jobs : c.job = {j},
           c.op = "repair" /\ c.pc = "put" => \A j \in c.job : spec.jobs[j] = "absent" \/ j \in undone,
           \A j \in c.job : repair'[j] = "none" /\ \A q \in Callers \ {p} : j \notin call[q].job,
           \A q \in Callers \ {p} : \A j \in call[q].job : repair'[j] = "none",
           \A j \in Jobs : repair'[j] \in {"succeeded", "failed"} =>
              repair'[j] = repair[j] \/ spec.jobs[j] = "absent" \/ j \in undone
    PROVE  Safe'
<1> USE DEF Safe, appVars
<1>1. Slots' /\ spec' \in Specs  BY DEF Shape, Slots
<1>2. Shape'
    <2>1. /\ wait' \in Waits /\ records' \in Records /\ bound' \in SUBSET Domains
          /\ undone' \in SUBSET Jobs /\ baseline' \in DepRefs /\ crossed' \in BOOLEAN
          /\ health' \in [ok : BOOLEAN, active : DepRefs, baseline : DepRefs]
        BY DEF Shape
    <2> QED  BY <1>1, <2>1, ShapeStep DEF RepairResults
<1>3. WritesOK'  BY WritesQuiet
<1>4. HealthCall(c, active, crossed) /\ DnsCall(c)  BY DEF HealthCall, DnsCall
<1>5. HealthOK'  BY <1>2, <1>4, Quiet, HealthQuiet
<1>6. RecordsOK'  BY <1>4, RecordsQuiet
<1> QED  BY <1>2, <1>3, <1>5, <1>6

(* The repair goes on with the job it has.                                  *)
LEMMA RepairGoesOn ==
    ASSUME Safe, NEW p \in Callers, call[p].op = "repair", call[p].pc \in Repairing,
           NEW c \in Calls, Set(p, c), c.op = "repair", c.arg = call[p].arg, c.job = call[p].job,
           c.pc \in Repairing \ {"put"},
           UNCHANGED appVars, UNCHANGED menu,
           UNCHANGED <<wait, records, bound, undone, baseline, crossed, health, repair>>,
           Reads(c) => c.at = lastDep /\ c.copy = spec
    PROVE  Safe'
<1>1. /\ Job(p) \in Jobs /\ call[p].job = {Job(p)} /\ repair[Job(p)] = "none"
      /\ \A q \in Callers \ {p} : Job(p) \notin call[q].job
      /\ <<call[p].op, call[p].arg>> \in Requests
    BY JobFacts
<1>2. InOrder(c) /\ c.pc \notin {"list", "dns"}  BY <1>1 DEF InOrder, Repairing
<1>3. repair' \in RepairResults  BY DEF Safe, Shape, RepairResults
<1>4. \A q \in Callers \ {p} : \A j \in call[q].job : repair'[j] = "none"
    BY DEF Safe, WritesOK, OneJob
<1>5. /\ \E j \in Jobs : c.job = {j}
      /\ \A j \in c.job : repair'[j] = "none" /\ \A q \in Callers \ {p} : j \notin call[q].job
    BY <1>1
<1>6. c.pc # "put"  OBVIOUS
<1> QED  BY <1>2, <1>3, <1>4, <1>5, <1>6, RepairMoved

(* The repair returns, without a change of the app.                         *)
LEMMA Reported ==
    ASSUME Safe, NEW p \in Callers, call[p].op = "repair", call[p].pc \in Repairing,
           NEW v \in {"none", "succeeded", "failed", "unrestored"}, Report(p, v),
           v \in {"succeeded", "failed"} => spec.jobs[Job(p)] = "absent" \/ Job(p) \in undone,
           UNCHANGED appVars, UNCHANGED menu,
           UNCHANGED <<wait, records, bound, undone, baseline, crossed, health>>
    PROVE  Safe'
<1>1. PICK j \in Jobs : j = Job(p) /\ \A q \in Callers \ {p} : j \notin call[q].job  BY JobFacts
<1>2. repair' = [repair EXCEPT ![j] = v] /\ Set(p, IdleCall)  BY <1>1 DEF Report, Return
<1>3. repair \in RepairResults  BY DEF Safe, Shape, RepairResults
<1>4. repair' \in RepairResults /\ repair'[j] = v /\ \A i \in Jobs \ {j} : repair'[i] = repair[i]
    BY <1>2, <1>3 DEF RepairResults
<1>5. \A q \in Callers : call[q].job \subseteq Jobs  BY DEF Safe, Shape, Calls
<1>6. \A q \in Callers \ {p} : \A i \in call[q].job : repair'[i] = "none"
    BY <1>1, <1>4, <1>5 DEF Safe, WritesOK, OneJob
<1>7. \A i \in Jobs : repair'[i] \in {"succeeded", "failed"} =>
         repair'[i] = repair[i] \/ spec.jobs[i] = "absent" \/ i \in undone
    BY <1>1, <1>4
<1>8. ~Reads(IdleCall)  BY IdleCalls
<1> QED  BY <1>2, <1>4, <1>6, <1>7, <1>8, IdleFacts, RepairMoved

LEMMA RepairPrepareSafe == ASSUME Safe, NEW p \in Callers, RepairPrepare(p), UNCHANGED menu PROVE Safe'
<1>1. /\ UNCHANGED appVars /\ UNCHANGED <<wait, records, bound, undone, baseline, crossed, health>>
      /\ call[p].op = "repair" /\ call[p].pc = "get"
    BY AppSame DEF RepairPrepare, At
<1>2. call[p] \in Calls /\ <<call[p].op, call[p].arg>> \in Requests  BY <1>1 DEF Safe, Shape, InOrder
<1>3. CASE Return(p) /\ UNCHANGED repair
    <2>1. NoNews  BY <1>1, Quiet DEF Safe
    <2> QED  BY <1>1, <1>3, <2>1, Returned
<1>4. CASE \E j \in Fresh(p) :
               /\ Set(p, [call[p] EXCEPT !.pc = "put", !.copy = spec, !.at = lastDep, !.job = {j}])
               /\ repair' = [repair EXCEPT ![j] = "none"]
    <2>1. PICK j \in Fresh(p) :
               /\ Set(p, [call[p] EXCEPT !.pc = "put", !.copy = spec, !.at = lastDep, !.job = {j}])
               /\ repair' = [repair EXCEPT ![j] = "none"]
        BY <1>4
    <2>2. j \in Jobs /\ spec.jobs[j] = "absent" /\ \A q \in Callers \ {p} : j \notin call[q].job
        BY DEF Fresh
    <2>3. PICK c : c = [call[p] EXCEPT !.pc = "put", !.copy = spec, !.at = lastDep, !.job = {j}]
        OBVIOUS
    <2>4. spec \in Specs /\ lastDep \in DepRefs /\ {j} \in SUBSET Jobs
        BY <2>2, DepNumbers DEF Safe, Shape, Slots
    <2>5. /\ c \in Calls /\ c.op = "repair" /\ c.arg = call[p].arg /\ c.pc = "put"
          /\ c.copy = spec /\ c.at = lastDep /\ c.job = {j}
        BY <1>1, <1>2, <2>3, <2>4 DEF Calls, PCs
    <2>6. InOrder(c) /\ Set(p, c)  BY <1>1, <1>2, <2>1, <2>3, <2>5 DEF InOrder, Repairing
    <2>7. repair \in RepairResults  BY DEF Safe, Shape, RepairResults
    <2>8. repair' \in RepairResults /\ repair'[j] = "none" /\ \A i \in Jobs \ {j} : repair'[i] = repair[i]
        BY <2>1, <2>2, <2>7 DEF RepairResults
    <2>9. \A q \in Callers \ {p} : \A i \in call[q].job : repair'[i] = "none"
        <3>1. \A q \in Callers : call[q].job \subseteq Jobs  BY DEF Safe, Shape, Calls
        <3> QED  BY <2>2, <2>8, <3>1 DEF Safe, WritesOK, OneJob
    <2>10. \A i \in Jobs : repair'[i] \in {"succeeded", "failed"} => repair'[i] = repair[i]
        BY <2>8
    <2> QED  BY <1>1, <2>2, <2>5, <2>6, <2>8, <2>9, <2>10, RepairMoved
<1> QED  BY <1>3, <1>4 DEF RepairPrepare

LEMMA JobEdits ==
    ASSUME NEW s \in Specs, NEW j \in Jobs
    PROVE  /\ With(s, j) \in Specs /\ With(s, j).base = s.base
           /\ \A i \in Jobs \ {j} : With(s, j).jobs[i] = s.jobs[i]
           /\ Without(s, j) \in Specs /\ Without(s, j).base = s.base
           /\ Without(s, j).jobs[j] = "absent"
           /\ \A i \in Jobs \ {j} : Without(s, j).jobs[i] = s.jobs[i]
<1>1. PICK b \in Bases, js \in [Jobs -> Forms] : s = [base |-> b, jobs |-> js]
    <2>1. s.base \in Bases /\ s.jobs \in [Jobs -> Forms] /\ s = [base |-> s.base, jobs |-> s.jobs]
        BY DEF Specs
    <2> QED  BY <2>1
<1>2. /\ With(s, j) = [base |-> b, jobs |-> [js EXCEPT ![j] = "plain"]]
      /\ Without(s, j) = [base |-> b, jobs |-> [js EXCEPT ![j] = "absent"]]
    BY <1>1 DEF With, Without
<1>3. /\ [js EXCEPT ![j] = "plain"] \in [Jobs -> Forms]
      /\ [js EXCEPT ![j] = "absent"] \in [Jobs -> Forms]
    BY DEF Forms
<1> QED  BY <1>1, <1>2, <1>3 DEF Specs

(* A repair's write, of the spec it read with only its job changed.         *)
LEMMA RepairWrites ==
    ASSUME Safe, NEW p \in Callers, call[p].op = "repair", call[p].pc \in {"put", "restore_put"},
           NEW new \in Specs, Write(new, call[p].at),
           new.base = call[p].copy.base,
           \A i \in Jobs \ {Job(p)} : new.jobs[i] = call[p].copy.jobs[i],
           NEW c \in Calls, InOrder(c), Set(p, c), c.op \in {"repair", "none"},
           c.pc \in {"wait", "restore_get", "idle"},
           \/ c.op = "repair" /\ c.job = call[p].job /\ UNCHANGED repair
           \/ c.op = "none" /\ c.job = {} /\ new.jobs[Job(p)] = "absent"
              /\ \E v \in {"none", "succeeded", "failed", "unrestored"} :
                    repair' = [repair EXCEPT ![Job(p)] = v],
           UNCHANGED menu, UNCHANGED <<wait, records, baseline, crossed, health>>
    PROVE  Safe'
<1>1. PICK j \in Jobs : j = Job(p) /\ call[p].job = {j} /\ repair[j] = "none"
    BY JobFacts DEF Repairing
<1>2. Reads(call[p])  BY DEF Reads
<1>3. Deploy(new) /\ bound' = Kept(new, call[p].at) /\ undone' = undone \cup Revived(new, call[p].at)
    BY DEF Write
<1>4. \A i \in Jobs : new.jobs[i] # "absent" => call[p].copy.jobs[i] # "absent" \/ i \in c.job
    BY <1>1
<1>5. /\ Revived(new, call[p].at) \subseteq Jobs
      /\ \A i \in Jobs : new.jobs[i] # "absent" =>
            spec.jobs[i] # "absent" \/ i \in Revived(new, call[p].at) \/ i \in c.job
      /\ \A gone : call[p].copy.base.domains \ gone \subseteq new.base.domains =>
            Kept(new, call[p].at) \ gone \subseteq new.base.domains
    BY <1>2, <1>4, BasedOnRead
<1>6. bound' \subseteq new.base.domains
    <2>1. call[p].copy.base.domains \ {} \subseteq new.base.domains  OBVIOUS
    <2>2. Kept(new, call[p].at) \ {} \subseteq new.base.domains  BY <1>5, <2>1
    <2> QED  BY <1>3, <2>2
<1>7. undone' \in SUBSET Jobs /\ undone \subseteq undone'  BY <1>3, <1>5 DEF Safe, Shape
<1>8. repair \in RepairResults  BY DEF Safe, Shape, RepairResults
<1>9. /\ repair' \in RepairResults
      /\ \A i \in Jobs \ call[p].job : repair'[i] = repair[i]
      /\ \A i \in c.job : repair'[i] = "none"
      /\ \A i \in call[p].job : repair'[i] \in {"succeeded", "failed"} => new.jobs[i] = "absent"
    BY <1>1, <1>8 DEF RepairResults
<1>10. HealthCall(c, active, crossed) /\ DnsCall(c) /\ ~Reads(c) /\ c.pc # "put"
    BY DEF HealthCall, DnsCall, Reads
<1>11. /\ c.job \subseteq call[p].job
       /\ c.op = "repair" /\ c.pc \in Repairing => \E i \in Jobs : c.job = {i}
    BY <1>1
<1>12. \A i \in Jobs : new.jobs[i] # "absent" => spec.jobs[i] # "absent" \/ i \in undone' \/ i \in c.job
    BY <1>3, <1>5
<1> QED  BY <1>3, <1>6, <1>7, <1>9, <1>10, <1>11, <1>12, Deployed DEF RepairResults

LEMMA RepairPutSafe == ASSUME Safe, NEW p \in Callers, RepairPut(p), UNCHANGED menu PROVE Safe'
<1>1. /\ UNCHANGED <<wait, records, baseline, crossed, health>>
      /\ call[p].op = "repair" /\ call[p].pc = "put" /\ call[p].pc \in Repairing
    BY DEF RepairPut, At, Repairing
<1>2. /\ Job(p) \in Jobs /\ call[p].job = {Job(p)}
      /\ call[p] \in Calls /\ <<call[p].op, call[p].arg>> \in Requests
    BY <1>1, JobFacts
<1>3. PICK new \in Specs : new = With(call[p].copy, Job(p))
    <2>1. call[p].copy \in Specs  BY <1>2 DEF Calls
    <2> QED  BY <1>2, <2>1, JobEdits
<1>4. new.base = call[p].copy.base /\ \A i \in Jobs \ {Job(p)} : new.jobs[i] = call[p].copy.jobs[i]
    <2>1. call[p].copy \in Specs  BY <1>2 DEF Calls
    <2> QED  BY <1>2, <1>3, <2>1, JobEdits
<1>5. CASE Write(new, call[p].at) /\ Set(p, [call[p] EXCEPT !.pc = "wait"]) /\ UNCHANGED repair
    <2>1. PICK c : c = [call[p] EXCEPT !.pc = "wait"]  OBVIOUS
    <2>2. c \in Calls /\ c.op = "repair" /\ c.arg = call[p].arg /\ c.pc = "wait" /\ c.job = call[p].job
        BY <1>1, <1>2, <2>1 DEF Calls, PCs
    <2>3. InOrder(c) /\ Set(p, c)  BY <1>1, <1>2, <1>5, <2>1, <2>2 DEF InOrder, Repairing
    <2> QED  BY <1>1, <1>4, <1>5, <2>2, <2>3, RepairWrites
<1>6. CASE NoWrite /\ MoreTries(p) /\ UNCHANGED repair
           /\ Set(p, [call[p] EXCEPT !.pc = "get", !.job = {}, !.tries = call[p].tries + 1])
    <2>1. PICK c : c = [call[p] EXCEPT !.pc = "get", !.job = {}, !.tries = call[p].tries + 1]  OBVIOUS
    <2>2. call[p].tries + 1 \in 0..2  BY <1>2, <1>6 DEF MoreTries, Calls
    <2>3. c \in Calls /\ c.op = "repair" /\ c.arg = call[p].arg /\ c.pc = "get" /\ c.job = {}
        BY <1>1, <1>2, <2>1, <2>2 DEF Calls, PCs
    <2>4. /\ InOrder(c) /\ HealthCall(c, active, crossed) /\ DnsCall(c) /\ ~Reads(c)
          /\ c.pc \notin Repairing
        BY <1>1, <1>2, <2>3 DEF InOrder, HealthCall, DnsCall, Reads, Repairing
    <2>5. UNCHANGED appVars /\ UNCHANGED <<bound, undone>> /\ NoNews
        BY <1>1, <1>6, AppSame, Quiet DEF NoWrite, Safe
    <2>6. Set(p, c) /\ c.job \subseteq call[p].job  BY <1>6, <2>1, <2>3
    <2> QED  BY <1>1, <1>6, <2>3, <2>4, <2>5, <2>6, Moved
<1>7. CASE NoWrite /\ Report(p, "failed")
    <2>1. UNCHANGED appVars /\ UNCHANGED <<bound, undone>>  BY <1>7, AppSame DEF NoWrite
    <2>2. spec.jobs[Job(p)] = "absent" \/ Job(p) \in undone
        BY <1>1, <1>2 DEF Safe, WritesOK, NotYetAdded
    <2> QED  BY <1>1, <1>7, <2>1, <2>2, Reported
<1>8. CASE /\ Write(new, call[p].at) \/ NoWrite
           /\ Set(p, [call[p] EXCEPT !.pc = "restore_get", !.status = "failed"])
           /\ UNCHANGED repair
    <2>1. PICK c : c = [call[p] EXCEPT !.pc = "restore_get", !.status = "failed"]  OBVIOUS
    <2>2. /\ c \in Calls /\ c.op = "repair" /\ c.arg = call[p].arg /\ c.pc = "restore_get"
          /\ c.job = call[p].job
        BY <1>1, <1>2, <2>1 DEF Calls, PCs
    <2>3. InOrder(c) /\ Set(p, c) /\ ~Reads(c)
        BY <1>1, <1>2, <1>8, <2>1, <2>2 DEF InOrder, Repairing, Reads
    <2>4. CASE Write(new, call[p].at)  BY <1>1, <1>4, <1>8, <2>2, <2>3, <2>4, RepairWrites
    <2>5. CASE NoWrite
        <3>1. UNCHANGED appVars /\ UNCHANGED <<bound, undone>>  BY <2>5, AppSame DEF NoWrite
        <3> QED  BY <1>1, <1>8, <2>2, <2>3, <3>1, RepairGoesOn DEF Repairing
    <2> QED  BY <1>8, <2>4, <2>5
<1>9. \/ Write(new, call[p].at) /\ Set(p, [call[p] EXCEPT !.pc = "wait"]) /\ UNCHANGED repair
      \/ NoWrite /\ MoreTries(p) /\ UNCHANGED repair
           /\ Set(p, [call[p] EXCEPT !.pc = "get", !.job = {}, !.tries = call[p].tries + 1])
      \/ NoWrite /\ Report(p, "failed")
      \/ /\ Write(new, call[p].at) \/ NoWrite
         /\ Set(p, [call[p] EXCEPT !.pc = "restore_get", !.status = "failed"])
         /\ UNCHANGED repair
    BY <1>3, Zenon DEF RepairPut
<1> QED  BY <1>5, <1>6, <1>7, <1>8, <1>9

LEMMA RepairPollSafe == ASSUME Safe, NEW p \in Callers, RepairPoll(p), UNCHANGED menu PROVE Safe'
<1>1. /\ UNCHANGED appVars
      /\ UNCHANGED <<wait, records, bound, repair, undone, baseline, crossed, health>>
      /\ call[p].op = "repair" /\ call[p].pc \in Repairing
    BY AppSame DEF RepairPoll, At, Repairing, history
<1>2. call[p] \in Calls  BY DEF Safe, Shape
<1>3. PICK c : /\ Set(p, c)
               /\ \/ \E v \in {"succeeded", "failed"} :
                        c = [call[p] EXCEPT !.pc = "restore_get", !.status = v]
                  \/ \E d \in DepIDs : c = [call[p] EXCEPT !.inv = d]
                  \/ c = [call[p] EXCEPT !.pc = "cancel", !.status = "failed"]
    BY Zenon DEF RepairPoll
<1>4. /\ c \in Calls /\ c.op = call[p].op /\ c.arg = call[p].arg /\ c.job = call[p].job
      /\ c.pc \in {"restore_get", "cancel", call[p].pc}
    <2>1. CASE \E v \in {"succeeded", "failed"} :
                  c = [call[p] EXCEPT !.pc = "restore_get", !.status = v]
        <3>1. PICK v \in {"succeeded", "failed"} :
                  c = [call[p] EXCEPT !.pc = "restore_get", !.status = v]
            BY <2>1
        <3> QED  BY <1>2, <3>1 DEF Calls, PCs
    <2>2. CASE \E d \in DepIDs : c = [call[p] EXCEPT !.inv = d]
        <3>1. PICK d \in DepIDs : c = [call[p] EXCEPT !.inv = d]  BY <2>2
        <3>2. d \in DepRefs  BY DepNumbers
        <3> QED  BY <1>2, <3>1, <3>2 DEF Calls
    <2>3. CASE c = [call[p] EXCEPT !.pc = "cancel", !.status = "failed"]
        BY <1>2, <2>3 DEF Calls, PCs
    <2> QED  BY <1>3, <2>1, <2>2, <2>3
<1>5. c.pc \in Repairing \ {"put"} /\ ~Reads(c)
    BY <1>4 DEF RepairPoll, At, Repairing, Reads
<1> QED  BY <1>1, <1>3, <1>4, <1>5, RepairGoesOn

LEMMA RepairTimeoutSafe == ASSUME Safe, NEW p \in Callers, RepairTimeout(p), UNCHANGED menu PROVE Safe'
<1>1. /\ UNCHANGED appVars
      /\ UNCHANGED <<wait, records, bound, repair, undone, baseline, crossed, health>>
      /\ call[p].op = "repair" /\ call[p].pc \in Repairing
    BY AppSame DEF RepairTimeout, At, Repairing, history
<1>2. call[p] \in Calls  BY DEF Safe, Shape
<1>3. PICK c : Set(p, c) /\ c = [call[p] EXCEPT !.pc = "cancel", !.status = "failed"]
    BY DEF RepairTimeout
<1>4. c \in Calls /\ c.op = call[p].op /\ c.arg = call[p].arg /\ c.job = call[p].job /\ c.pc = "cancel"
    BY <1>2, <1>3 DEF Calls, PCs
<1>5. c.pc \in Repairing \ {"put"} /\ ~Reads(c)  BY <1>4 DEF Repairing, Reads
<1> QED  BY <1>1, <1>3, <1>4, <1>5, RepairGoesOn

LEMMA RepairCancelSafe == ASSUME Safe, NEW p \in Callers, RepairCancel(p), UNCHANGED menu PROVE Safe'
<1>1. UNCHANGED appVars
    BY DEF RepairCancel, AcceptCancelInvocation, platformVars, appVars
<1>2. /\ UNCHANGED <<wait, records, bound, repair, undone, baseline, crossed, health>>
      /\ call[p].op = "repair" /\ call[p].pc \in Repairing
    BY DEF RepairCancel, At, Repairing, history
<1>3. call[p] \in Calls  BY DEF Safe, Shape
<1>4. PICK c : Set(p, c) /\ c = [call[p] EXCEPT !.pc = "restore_get"]
    BY DEF RepairCancel
<1>5. c \in Calls /\ c.op = call[p].op /\ c.arg = call[p].arg /\ c.job = call[p].job /\ c.pc = "restore_get"
    BY <1>3, <1>4 DEF Calls, PCs
<1>6. c.pc \in Repairing \ {"put"} /\ ~Reads(c)  BY <1>5 DEF Repairing, Reads
<1> QED  BY <1>1, <1>2, <1>4, <1>5, <1>6, RepairGoesOn

LEMMA RestoreGetSafe == ASSUME Safe, NEW p \in Callers, RestoreGet(p), UNCHANGED menu PROVE Safe'
<1>1. /\ UNCHANGED appVars /\ UNCHANGED <<wait, records, bound, undone, baseline, crossed, health>>
      /\ call[p].op = "repair" /\ call[p].pc \in Repairing
    BY AppSame DEF RestoreGet, At, Repairing
<1>2. call[p] \in Calls /\ spec \in Specs /\ lastDep \in DepRefs  BY DepNumbers DEF Safe, Shape, Slots
<1>3. CASE spec.jobs[Job(p)] = "absent" /\ Report(p, call[p].status)
    <2>1. call[p].status \in {"none", "succeeded", "failed", "unrestored"}  BY <1>2 DEF Calls
    <2> QED  BY <1>1, <1>3, <2>1, Reported
<1>4. CASE Set(p, [call[p] EXCEPT !.pc = "restore_put", !.copy = spec, !.at = lastDep]) /\ UNCHANGED repair
    <2>1. PICK c : c = [call[p] EXCEPT !.pc = "restore_put", !.copy = spec, !.at = lastDep]  OBVIOUS
    <2>2. /\ c \in Calls /\ c.op = call[p].op /\ c.arg = call[p].arg /\ c.job = call[p].job
          /\ c.pc = "restore_put" /\ c.copy = spec /\ c.at = lastDep
        BY <1>2, <2>1 DEF Calls, PCs
    <2>3. c.pc \in Repairing \ {"put"} /\ Set(p, c)  BY <1>4, <2>1, <2>2 DEF Repairing
    <2> QED  BY <1>1, <1>4, <2>2, <2>3, RepairGoesOn
<1>5. CASE Report(p, "unrestored")  BY <1>1, <1>5, Reported
<1> QED  BY <1>3, <1>4, <1>5 DEF RestoreGet

LEMMA RestorePutSafe == ASSUME Safe, NEW p \in Callers, RestorePut(p), UNCHANGED menu PROVE Safe'
<1>1. /\ UNCHANGED <<wait, records, baseline, crossed, health>>
      /\ call[p].op = "repair" /\ call[p].pc = "restore_put" /\ call[p].pc \in Repairing
    BY DEF RestorePut, At, Repairing
<1>2. Job(p) \in Jobs /\ call[p] \in Calls  BY <1>1, JobFacts
<1>3. call[p].copy \in Specs  BY <1>2 DEF Calls
<1>4. PICK new \in Specs : new = Without(call[p].copy, Job(p))  BY <1>2, <1>3, JobEdits
<1>5. /\ new.base = call[p].copy.base /\ new.jobs[Job(p)] = "absent"
      /\ \A i \in Jobs \ {Job(p)} : new.jobs[i] = call[p].copy.jobs[i]
    BY <1>2, <1>3, <1>4, JobEdits
<1>6. PICK v \in {"none", "succeeded", "failed", "unrestored"} :
         /\ Report(p, v)
         /\ Write(new, call[p].at) \/ (NoWrite /\ v = "unrestored")
    <2>1. call[p].status \in {"none", "succeeded", "failed", "unrestored"}  BY <1>2 DEF Calls
    <2> QED  BY <1>4, <2>1 DEF RestorePut
<1>7. CASE Write(new, call[p].at)
    <2>1. Set(p, IdleCall) /\ repair' = [repair EXCEPT ![Job(p)] = v]  BY <1>6 DEF Report, Return
    <2> QED  BY <1>1, <1>5, <1>7, <2>1, IdleFacts, RepairWrites
<1>8. CASE NoWrite /\ v = "unrestored"
    <2>1. UNCHANGED appVars /\ UNCHANGED <<bound, undone>>  BY <1>8, AppSame DEF NoWrite
    <2> QED  BY <1>1, <1>6, <1>8, <2>1, Reported
<1> QED  BY <1>6, <1>7, <1>8

-----------------------------------------------------------------------------
(* The service goes on by itself.                                           *)

LEMMA PlatformSafe == ASSUME Safe, Platform, UNCHANGED menu PROVE Safe'
<1>1. /\ PlatformNext /\ UNCHANGED prev
      /\ UNCHANGED <<call, wait, records, bound, repair, undone, baseline, crossed, health>>
    BY DEF Platform, history
<1>2. Slots' /\ SlotsOrdered' /\ active <= active' /\ UNCHANGED <<spec, lastDep>>
    BY <1>1, PlatformOrdered DEF Safe, Shape, HealthOK
<1>3. Shape'  BY <1>1, <1>2 DEF Safe, Shape
<1>4. WritesOK'
    <2>1. ReadCurrent'  BY <1>1, <1>2 DEF Safe, WritesOK, ReadCurrent, Reads
    <2>2. OneJob'  BY <1>1 DEF Safe, WritesOK, OneJob
    <2>3. NotYetAdded'  BY <1>1, <1>2 DEF Safe, WritesOK, NotYetAdded
    <2>4. RepairLeavesNoJob' /\ DomainsKept'
        BY <1>1, <1>2 DEF Safe, WritesOK, RepairLeavesNoJob, DomainsKept
    <2> QED  BY <2>1, <2>2, <2>3, <2>4 DEF WritesOK
<1>5. active \in Nat /\ active' \in Nat /\ baseline \in Nat
    BY <1>2, DepNumbers DEF Safe, Shape, Slots
<1>6. WaitOK'  BY <1>1, <1>2, <1>5 DEF Safe, HealthOK, WaitOK
<1>7. ASSUME NEW q \in Callers PROVE HealthCall(call'[q], active', crossed')
    <2>1. PICK b \in Calls : b = call[q]  BY DEF Safe, Shape
    <2>2. b.prev \in Nat /\ b.inv \in Nat /\ b.app.active \in Nat  BY DepNumbers DEF Calls, Apps
    <2>3. HealthCall(b, active, crossed)  BY <2>1 DEF Safe, HealthOK
    <2>4. HealthCall(b, active', crossed)  BY <1>2, <1>5, <2>2, <2>3 DEF HealthCall
    <2> QED  BY <1>1, <2>1, <2>4
<1>8. HealthyIsNew'  BY <1>1 DEF Safe, HealthOK, HealthyIsNew
<1>9. HealthOK'  BY <1>2, <1>6, <1>7, <1>8 DEF HealthOK
<1>10. RecordsOK'  BY <1>1, RecordsSame DEF Safe
<1> QED  BY <1>3, <1>4, <1>9, <1>10 DEF Safe

LEMMA StutterSafe == ASSUME Safe, UNCHANGED vars PROVE Safe'
<1>1. /\ UNCHANGED appVars /\ UNCHANGED <<menu, call, wait, records>>
      /\ UNCHANGED <<bound, repair, undone, baseline, crossed, health>>
    BY DEF vars, platformVars, history, appVars
<1>2. Shape'  BY <1>1 DEF Safe, Shape, Slots, appVars
<1>3. WritesOK'
    BY <1>1 DEF Safe, WritesOK, ReadCurrent, Reads, OneJob, NotYetAdded, RepairLeavesNoJob,
                DomainsKept, appVars
<1>4. HealthOK'
    BY <1>1 DEF Safe, HealthOK, SlotsOrdered, WaitOK, HealthyIsNew, appVars
<1>5. RecordsOK'  BY <1>1, RecordsSame DEF Safe
<1> QED  BY <1>2, <1>3, <1>4, <1>5 DEF Safe

-----------------------------------------------------------------------------
(* From the start, and always.                                              *)

LEMMA InitSafe == ASSUME Init PROVE Safe
<1>1. /\ spec = FirstSpec /\ active \in {0, 1} /\ lastDep = 1 /\ pending = 0 /\ inProgress = 0
      /\ prev = [d \in DepIDs |-> 0] /\ call = [p \in Callers |-> IdleCall] /\ wait = NoWait
      /\ bound = {} /\ repair = [j \in Jobs |-> "none"] /\ undone = {} /\ baseline = 0
      /\ crossed = FALSE /\ health = [ok |-> FALSE, active |-> 0, baseline |-> 0]
    BY DEF Init
<1>2. /\ dep \in [DepIDs -> [spec : Specs, phase : DepPhases]]
      /\ \A d \in DepIDs : dep[d].phase = IF d # 1 THEN "none" ELSE IF active = 1 THEN "active" ELSE "error"
    BY FirstSpecType DEF Init, DepPhases
<1>3. Slots  BY <1>1, <1>2, DepNumbers DEF Slots
<1>4. \A p \in Callers : call[p] = IdleCall  BY <1>1
<1>5. menu \in [Callers -> SUBSET Requests] /\ records \in Records
    BY WritersAssumption DEF Init
<1>6. health \in [ok : BOOLEAN, active : DepRefs, baseline : DepRefs]  BY <1>1, DepNumbers
<1>7. call \in [Callers -> Calls] /\ \A p \in Callers : InOrder(call[p])  BY <1>1, <1>4, IdleFacts
<1>8. Shape  BY <1>1, <1>3, <1>5, <1>6, <1>7, IdleFacts, FirstSpecType, DepNumbers DEF Shape
<1>9. WritesOK
    <2>1. ReadCurrent  BY <1>4, IdleCalls DEF ReadCurrent
    <2>2. OneJob  BY <1>4, IdleFacts, IdleCalls DEF OneJob
    <2>3. NotYetAdded  BY <1>4, IdleFacts DEF NotYetAdded
    <2>4. RepairLeavesNoJob /\ DomainsKept  BY <1>1 DEF RepairLeavesNoJob, DomainsKept
    <2> QED  BY <2>1, <2>2, <2>3, <2>4 DEF WritesOK
<1>10. HealthOK
    <2>1. SlotsOrdered
        <3>1. \A d \in DepIDs : prev[d] < d  BY <1>1, DepNumbers
        <3>2. \A d \in DepIDs : d <= 1 => d = 1  BY DepNumbers
        <3>3. \A d \in DepIDs : dep[d].phase = "active" => d = active  BY <1>2
        <3>4. \A d \in DepIDs : d <= lastDep => dep[d].phase # "none"  BY <1>1, <1>2, <3>2
        <3> QED  BY <1>1, <3>1, <3>3, <3>4 DEF SlotsOrdered
    <2>2. WaitOK  BY <1>1, IdleFacts DEF WaitOK
    <2>3. \A p \in Callers : HealthCall(call[p], active, crossed)  BY <1>4, IdleCalls
    <2>4. HealthyIsNew  BY <1>1 DEF HealthyIsNew
    <2> QED  BY <2>1, <2>2, <2>3, <2>4 DEF HealthOK
<1>11. RecordsOK  BY <1>4, IdleCalls DEF RecordsOK
<1> QED  BY <1>8, <1>9, <1>10, <1>11 DEF Safe

LEMMA SafeNext == Safe /\ [Next]_vars => Safe'
<1> SUFFICES ASSUME Safe, [Next]_vars PROVE Safe'  OBVIOUS
<1>1. CASE UNCHANGED vars  BY <1>1, StutterSafe
<1>2. CASE Platform /\ UNCHANGED menu  BY <1>2, PlatformSafe
<1>3. ASSUME NEW p \in Callers, Start(p), UNCHANGED menu PROVE Safe'  BY <1>3, StartSafe
<1>4. ASSUME NEW p \in Callers, Step(p), UNCHANGED menu PROVE Safe'
    <2>1. CASE UpdateGet(p) \/ UpdatePut(p) \/ UpdateDeploy(p)
        BY <1>4, <2>1, UpdateGetSafe, UpdatePutSafe, UpdateDeploySafe
    <2>2. CASE CNAMEList(p) \/ CNAMECall(p)  BY <1>4, <2>2, CNAMEListSafe, CNAMECallSafe
    <2>3. CASE HealthGet(p) \/ HealthTarget(p) \/ HealthList(p) \/ HealthProbe(p)
        BY <1>4, <2>3, HealthGetSafe, HealthTargetSafe, HealthListSafe, HealthProbeSafe
    <2>4. CASE EditGet(p) \/ EditPut(p)  BY <1>4, <2>4, EditGetSafe, EditPutSafe
    <2>5. CASE RepairPrepare(p) \/ RepairPut(p) \/ RepairPoll(p)
        BY <1>4, <2>5, RepairPrepareSafe, RepairPutSafe, RepairPollSafe
    <2>6. CASE RepairTimeout(p) \/ RepairCancel(p)
        BY <1>4, <2>6, RepairTimeoutSafe, RepairCancelSafe
    <2>7. CASE RestoreGet(p) \/ RestorePut(p)  BY <1>4, <2>7, RestoreGetSafe, RestorePutSafe
    <2> QED  BY <1>4, <2>1, <2>2, <2>3, <2>4, <2>5, <2>6, <2>7 DEF Step
<1> QED  BY <1>1, <1>2, <1>3, <1>4 DEF Next

LEMMA AlwaysSafe == Spec => []Safe
<1>1. Init => Safe  BY InitSafe
<1> QED  BY <1>1, SafeNext, PTL DEF Spec

(* RepairDirtyMigration: a repair that returns without a restore error      *)
(* leaves its temporary job out of the app's spec, for any number of        *)
(* callers and faults, unless another call's write, based on a read from    *)
(* before the restore, put the job back.                                    *)
THEOREM RepairsLeaveNoJob == Spec => []RepairLeavesNoJob
<1>1. Safe => RepairLeavesNoJob  BY DEF Safe, WritesOK
<1> QED  BY <1>1, AlwaysSafe, PTL

(* Scale, step.iac_scale, the domain calls and the repair write back the    *)
(* whole spec they read: a domain whose binding was acknowledged stays in   *)
(* the spec until its Delete, an Update or a write based on a stale read.   *)
THEOREM BoundDomainsKept == Spec => []DomainsKept
<1>1. Safe => DomainsKept  BY DEF Safe, WritesOK
<1> QED  BY <1>1, AlwaysSafe, PTL

(* HealthCheck after a successful Update passes only when a newer           *)
(* deployment than the one the Update replaced has become active, whatever  *)
(* the service's rule for a deployment's predecessor and however many       *)
(* Updates and HealthChecks overlap, unless a check judged an Update, or    *)
(* cleared or retargeted its wait, that it had read the app before.         *)
THEOREM HealthyIsNewAlways == Spec => []HealthyIsNew
<1>1. Safe => HealthyIsNew  BY DEF Safe, HealthOK
<1> QED  BY <1>1, AlwaysSafe, PTL

(* reconcileAppDomainCNAMEs, by any number of Updates and HealthChecks at   *)
(* once, with plans made from listings that are stale by the time they are  *)
(* carried out: a name that has a CNAME record always keeps one.            *)
THEOREM NamesStayServed == Spec => NameServed
<1> DEFINE Serves == \A d \in Domains : Live(d) # {} => Live(d)' # {}
<1>1. Safe /\ [Next]_vars => [Serves]_vars
    <2> SUFFICES ASSUME Safe, Next PROVE Serves  OBVIOUS
    <2>1. CASE UNCHANGED records  BY <2>1 DEF Live
    <2>2. CASE \E p \in Callers : CNAMECall(p)  BY <2>2, CNAMECallServes, SMTT(30)
    <2>3. ASSUME NEW p \in Callers, Step(p), ~CNAMECall(p) PROVE UNCHANGED records
        BY <2>3 DEF Step, UpdateGet, UpdatePut, UpdateDeploy, CNAMEList, HealthGet, HealthTarget, HealthList,
                    HealthProbe, EditGet, EditPut, RepairPrepare, RepairPut, RepairPoll,
                    RepairTimeout, RepairCancel, RestoreGet, RestorePut
    <2>4. ASSUME NEW p \in Callers, Start(p) PROVE UNCHANGED records  BY <2>4 DEF Start, Begin
    <2>5. CASE Platform  BY <2>1, <2>5 DEF Platform
    <2> QED  BY <2>1, <2>2, <2>3, <2>4, <2>5 DEF Next
<1> QED  BY <1>1, AlwaysSafe, PTL DEF Spec, NameServed

=============================================================================
