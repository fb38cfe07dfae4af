--------------------------- MODULE AppSpecWriters ---------------------------
(***************************************************************************)
(* The operations that write one app's spec, run by concurrent callers:     *)
(* Update, Scale and HealthCheck of AppPlatformDriver (app_platform.go),    *)
(* upsert and Delete of AppDomainDriver (app_domain.go), step.iac_scale     *)
(* (steps/iac_scale.go) and RepairDirtyMigration                            *)
(* (app_platform_migration_repair.go).  All of them replace the whole spec  *)
(* and the service offers no compare-and-swap: all but Update read the spec *)
(* first and write back what they read, changed.  Every API call is a step, *)
(* and any of them may fail, before or after the service has acted.         *)
(***************************************************************************)
EXTENDS AppDeployments, FiniteSetsExt

CONSTANTS
    Callers,      \* concurrent calls into the provider
    Configs, Counts, Domains,   \* what a spec is made of
    ConfigBase,   \* the spec content each resource config stands for
    NoArg,
    Scenarios,    \* bound: what each caller may call, how many spec writes the calls
                  \* may make, and the zones' CNAME records at first
    MaxRecords,   \* bound: CNAME records a domain's name ever has
    MaxChecks,    \* bound: HealthCheck calls
    MaxFaults     \* bound: failed or lost API calls

RecIDs    == 1..MaxRecords
Records   == [Domains -> [RecIDs -> {"free", "old", "target", "gone"}]]
NewRecord == MaxRecords + 1

Ops  == {"none", "update", "scale", "iac_scale", "bind", "unbind", "repair", "health"}
Args == Configs \cup Counts \cup Domains \cup {NoArg}

(* What a caller may ask for: a new config, a count, a domain, or nothing.  *)
Requests == ({"update"} \X Configs) \cup ({"scale", "iac_scale"} \X Counts)
            \cup ({"bind", "unbind"} \X Domains) \cup ({"repair", "health"} \X {NoArg})

ASSUME WritersAssumption ==
    /\ Bases = [config : Configs, count : Counts, domains : SUBSET Domains]
    /\ ConfigBase \in [Configs -> Bases]
    /\ NoArg \notin Configs \cup Counts \cup Domains
    /\ Scenarios \subseteq [calls : [Callers -> SUBSET Requests],
                       records : Records, writes : 0..MaxDeployments - 1]
    /\ MaxRecords \in Nat /\ MaxChecks \in Nat /\ MaxFaults \in Nat

VARIABLES
    menu,      \* what each caller may call
    call,      \* each caller's call in flight
    wait,      \* AppPlatformDriver.waitingDeployments
    records,   \* the CNAME records of the domains' names
    writes,    \* the spec writes left
    checks, faults,
    bound,     \* history: domains whose upsert was acknowledged and nothing undid
    repair,    \* history: what the repair of each job reported
    undone,    \* history: jobs a write based on an older read brought back
    baseline,  \* history: what was active before the last successful Update
    crossed,   \* history: a HealthCheck judged, retargeted or cleared the wait of an Update
               \* that replaced another deployment than those it had read of
    health     \* history: the last HealthCheck's answer

history == <<bound, repair, undone, baseline, crossed, health>>
vars == <<platformVars, prev, menu, call, wait, records, writes, checks, faults, history>>

PCs == {"idle", "get", "put", "deploy", "target", "list", "dns", "probe",
        "wait", "cancel", "restore_get", "restore_put"}

NoWait   == [set |-> FALSE, prev |-> 0, target |-> 0]
NoPlan   == [put |-> 0, drop |-> {}]
NoApp    == [inProgress |-> 0, pending |-> 0, active |-> 0, up |-> FALSE]
IdleCall == [op |-> "none", pc |-> "idle", arg |-> NoArg, copy |-> FirstSpec, at |-> 0,
             job |-> {}, tries |-> 0, inv |-> 0, status |-> "none",
             prev |-> 0, app |-> NoApp, wait |-> NoWait, todo |-> {}, plan |-> NoPlan]

Waits == [set : BOOLEAN, prev : DepRefs, target : DepRefs]
Apps  == [inProgress : DepRefs, pending : DepRefs, active : DepRefs, up : BOOLEAN]
Calls == [op : Ops, pc : PCs, arg : Args, copy : Specs, at : DepRefs,
          job : SUBSET Jobs, tries : 0..2, inv : DepRefs, status : {"none", "succeeded", "failed"},
          prev : DepRefs, app : Apps, wait : Waits, todo : SUBSET Domains,
          plan : [put : 0..NewRecord, drop : SUBSET RecIDs]]

(* The type invariant of the calls, the driver's wait and the records.      *)
TypeOK ==
    /\ PlatformTypeOK
    /\ prev \in [DepIDs -> DepRefs]
    /\ menu \in [Callers -> SUBSET Requests]
    /\ call \in [Callers -> Calls]
    /\ wait \in Waits
    /\ records \in Records
    /\ writes \in 0..MaxDeployments - 1 /\ checks \in 0..MaxChecks /\ faults \in 0..MaxFaults
    /\ bound \in SUBSET Domains
    /\ repair \in [Jobs -> {"none", "succeeded", "failed", "unrestored"}]
    /\ undone \in SUBSET Jobs
    /\ baseline \in DepRefs
    /\ crossed \in BOOLEAN
    /\ health \in [ok : BOOLEAN, active : DepRefs, baseline : DepRefs]

(* The app has a deployment that is active, or one that failed.             *)
Init ==
    /\ spec = FirstSpec
    /\ active \in {0, 1}
    /\ dep = [d \in DepIDs |-> [spec |-> FirstSpec,
                 phase |-> IF d # 1 THEN "none" ELSE IF active = 1 THEN "active" ELSE "error"]]
    /\ lastDep = 1
    /\ pending = 0 /\ inProgress = 0
    /\ inv = [d \in DepIDs |-> [j \in Jobs |-> "none"]]
    /\ prev = [d \in DepIDs |-> 0]
    /\ call = [p \in Callers |-> IdleCall]
    /\ wait = NoWait
    /\ \E s \in Scenarios : menu = s.calls /\ records = s.records /\ writes = s.writes
    /\ checks = 0 /\ faults = 0
    /\ bound = {}
    /\ repair = [j \in Jobs |-> "none"]
    /\ undone = {}
    /\ baseline = 0
    /\ crossed = FALSE
    /\ health = [ok |-> FALSE, active |-> 0, baseline |-> 0]

-----------------------------------------------------------------------------
(* Steps common to the calls.                                               *)

Fault == faults < MaxFaults /\ faults' = faults + 1

Set(p, c) == call' = [call EXCEPT ![p] = c]
Return(p) == Set(p, IdleCall)
At(p, ops, pc) == call[p].op \in ops /\ call[p].pc = pc

(* The writes a call may make: an Update of an undeployed app may deploy it. *)
Cost(op) ==
    CASE op = "repair" \/ (op = "update" /\ active = 0) -> 2
      [] op = "health"                                 -> 0
      [] OTHER                                         -> 1

(* A call begins: its checks of the config (region, image, domain type)     *)
(* pass and its app is found; a call refused there changes nothing.         *)
Begin(p, op, arg) ==
    /\ call[p].pc = "idle"
    /\ Cost(op) <= writes
    /\ writes' = writes - Cost(op)
    /\ checks' = checks + (IF op = "health" THEN 1 ELSE 0)
    /\ checks' <= MaxChecks
    /\ Set(p, [IdleCall EXCEPT !.op = op, !.pc = "get", !.arg = arg])
    /\ UNCHANGED <<platformVars, prev, wait, records, faults, history>>

(* What a write of new by a call that read the spec at deployment at does   *)
(* to the work of others: what an older read did not hold is lost, what it  *)
(* still held is back.                                                      *)
Kept(new, at)    == IF at = lastDep THEN bound ELSE bound \cap new.base.domains
Revived(new, at) == {j \in Jobs : at # lastDep /\ spec.jobs[j] = "absent" /\ new.jobs[j] # "absent"}

Write(new, at) ==
    /\ Deploy(new)
    /\ bound' = Kept(new, at)
    /\ undone' = undone \cup Revived(new, at)

NoWrite == UNCHANGED <<platformVars, prev, bound, undone>>

-----------------------------------------------------------------------------
(* AppPlatformDriver.Update.                                                *)

(* buildAppSpec: the spec of a config, without what others added.           *)
BuildAppSpec(c) == [base |-> ConfigBase[c], jobs |-> [j \in Jobs |-> "absent"]]

UpdateGet(p) ==
    /\ At(p, {"update"}, "get")
    /\ \/ Set(p, [call[p] EXCEPT !.pc = "put", !.prev = active]) /\ UNCHANGED faults
       \/ Fault /\ Return(p)
    /\ UNCHANGED <<platformVars, prev, wait, records, writes, checks, history>>

(* The names to reconcile: none while the app has no default ingress.       *)
Ingress(domains) == IF active = 0 THEN {} ELSE domains

Reconcile(c, domains) ==
    IF domains = {} THEN [c EXCEPT !.pc = IF c.op = "health" THEN "probe" ELSE "idle"]
    ELSE [c EXCEPT !.pc = "list", !.todo = domains]

Finish(p, c) == Set(p, IF c.pc = "idle" THEN IdleCall ELSE c)

(* setUpdateDeploymentState, then the domains' records.                     *)
Await(p, target) ==
    /\ wait' = [set |-> TRUE, prev |-> call[p].prev, target |-> target]
    /\ baseline' = call[p].prev
    /\ Finish(p, Reconcile(call[p], Ingress(ConfigBase[call[p].arg].domains)))

(* Mutant: the wait is for any deployment of the app.                       *)
UpdatePut_NoPrevious(p) ==
    /\ At(p, {"update"}, "put")
    /\ Deploy(BuildAppSpec(call[p].arg))
    /\ bound' = bound \cap spec'.base.domains
    /\ wait' = [set |-> TRUE, prev |-> 0, target |-> 0]
    /\ baseline' = call[p].prev
    /\ Finish(p, Reconcile(call[p], Ingress(ConfigBase[call[p].arg].domains)))
    /\ UNCHANGED <<records, writes, checks, repair, undone, crossed, health, faults>>

(* The whole spec is replaced.  The answer may show the slots before the    *)
(* new deployment is in one; an undeployed app then gets one of its own.    *)
UpdatePut(p) ==
    /\ At(p, {"update"}, "put")
    /\ \/ /\ Deploy(BuildAppSpec(call[p].arg))
          /\ \E slots \in {<<inProgress, pending, active>>, <<inProgress', pending', active'>>} :
               LET target == Select(slots, call[p].prev, prev')
               IN  IF target = 0 /\ call[p].prev = 0 /\ slots = <<0, 0, 0>>
                   THEN Set(p, [call[p] EXCEPT !.pc = "deploy"]) /\ UNCHANGED <<wait, baseline>>
                   ELSE Await(p, target)
          /\ UNCHANGED faults
       \/ /\ Deploy(BuildAppSpec(call[p].arg)) \/ UNCHANGED <<platformVars, prev>>
          /\ Fault
          /\ Return(p)
          /\ UNCHANGED <<wait, baseline>>
    /\ bound' = bound \cap spec'.base.domains
    /\ UNCHANGED <<records, writes, checks, repair, undone, crossed, health>>

UpdateDeploy(p) ==
    /\ At(p, {"update"}, "deploy")
    /\ \/ Deploy(spec) /\ Await(p, lastDep') /\ UNCHANGED faults
       \/ /\ Deploy(spec) \/ UNCHANGED <<platformVars, prev>>
          /\ Fault /\ Return(p)
          /\ UNCHANGED <<wait, baseline>>
    /\ UNCHANGED <<records, writes, checks, bound, repair, undone, crossed, health>>

-----------------------------------------------------------------------------
(* reconcileAppDomainCNAMEs, one name at a time.                            *)

Live(d) == {r \in RecIDs : records[d][r] \in {"old", "target"}}
Name(p) == CHOOSE d \in call[p].todo : TRUE

(* Mutant: the record that names the app is deleted with the others.        *)
CNAMEPlan_DropAll(d) ==
    LET good == {r \in Live(d) : records[d][r] = "target"}
    IN  IF Live(d) = {} THEN [put |-> NewRecord, drop |-> {}]
        ELSE IF good = {} THEN [put |-> Min(Live(d)), drop |-> Live(d) \ {Min(Live(d))}]
        ELSE [put |-> 0, drop |-> Live(d)]

(* What the listed records ask for: keep the first that names the app, else *)
(* edit the first or create one; delete the others.                         *)
CNAMEPlan(d) ==
    LET good == {r \in Live(d) : records[d][r] = "target"}
        kept == Min(IF good # {} THEN good ELSE Live(d))
    IN  IF Live(d) = {} THEN [put |-> NewRecord, drop |-> {}]
        ELSE [put |-> IF good = {} THEN kept ELSE 0, drop |-> Live(d) \ {kept}]

(* A name whose calls are all made: the next one, or what follows them.     *)
Proceed(p, plan) ==
    LET left == call[p].todo \ {Name(p)}
    IN  IF plan # NoPlan THEN [call[p] EXCEPT !.pc = "dns", !.plan = plan]
        ELSE IF left # {} THEN [call[p] EXCEPT !.pc = "list", !.todo = left, !.plan = NoPlan]
        ELSE [call[p] EXCEPT !.pc = IF call[p].op = "health" THEN "probe" ELSE "idle", !.todo = {}, !.plan = NoPlan]

(* An Update whose records cannot be reconciled reports an error although   *)
(* the app has been updated; a HealthCheck reports the app unhealthy.       *)
Unhealthy(p) ==
    /\ Return(p)
    /\ health' = IF call[p].op = "health" THEN [ok |-> FALSE, active |-> 0, baseline |-> 0] ELSE health

CNAMEList(p) ==
    /\ call[p].pc = "list"
    /\ \/ Finish(p, Proceed(p, CNAMEPlan(Name(p)))) /\ UNCHANGED <<faults, health>>
       \/ Fault /\ Unhealthy(p)
    /\ UNCHANGED <<platformVars, prev, wait, records, writes, checks, bound, repair, undone, baseline, crossed>>

(* The record the next call is about, and what the call makes of it.        *)
CNAMECall(p) ==
    LET d    == Name(p)
        plan == call[p].plan
        free == {r \in RecIDs : records[d][r] = "free"}
        rec  == CASE plan.put = NewRecord -> Min(free)
                  [] plan.put \in RecIDs  -> plan.put
                  [] plan.put = 0         -> Min(plan.drop)
        rest == IF plan.put # 0 THEN [plan EXCEPT !.put = 0] ELSE [plan EXCEPT !.drop = @ \ {rec}]
    IN  /\ call[p].pc = "dns"
        /\ plan.put = NewRecord => free # {}
        /\ \/ /\ plan.put = NewRecord \/ rec \in Live(d)
              /\ records' = [records EXCEPT ![d][rec] = IF plan.put # 0 THEN "target" ELSE "gone"]
              /\ Finish(p, Proceed(p, rest))
              /\ UNCHANGED <<faults, health>>
           \/ /\ plan.put # NewRecord /\ rec \notin Live(d)
              /\ Unhealthy(p)
              /\ UNCHANGED <<records, faults>>
           \/ Fault /\ Unhealthy(p) /\ UNCHANGED records
        /\ UNCHANGED <<platformVars, prev, wait, writes, checks, bound, repair, undone, baseline, crossed>>

-----------------------------------------------------------------------------
(* AppPlatformDriver.HealthCheck.                                           *)

(* The deployment found decides.  A healthy app still has to have its       *)
(* records and its custom domains in order.                                 *)
Judge(p, c, healthy) ==
    IF healthy
    THEN Set(p, Reconcile([c EXCEPT !.inv = active], c.todo)) /\ UNCHANGED health
    ELSE Unhealthy(p)

(* Of the deployments in the slots only the active one is ever "active".    *)
Serving == active # 0 /\ dep[active].phase = "active"

(* The app is read, and judged by what it was then.                         *)
HealthGet(p) ==
    /\ At(p, {"health"}, "get")
    /\ \/ /\ Set(p, [call[p] EXCEPT !.pc = "target", !.todo = Ingress(spec.base.domains),
                      !.app = [inProgress |-> inProgress, pending |-> pending,
                               active |-> active, up |-> Serving]])
          /\ UNCHANGED <<faults, health>>
       \/ Fault /\ Unhealthy(p)
    /\ UNCHANGED <<platformVars, prev, wait, records, writes, checks, bound, repair, undone, baseline, crossed>>

(* currentTargetDeployment looks in the slots for the Update that is waited *)
(* for now; appHealthResult: without one, the active slot decides.          *)
HealthTarget(p) ==
    LET app  == call[p].app
        d    == Select(<<app.inProgress, app.pending, app.active>>, wait.prev, prev)
        hit  == d # 0 /\ (wait.target \in {0, d} \/ prev[d] = wait.target)
        seen == [call[p] EXCEPT !.app = NoApp, !.wait = wait', !.prev = baseline]
    IN  /\ At(p, {"health"}, "target")
        /\ \/ /\ wait.set /\ hit
              /\ wait' = [wait EXCEPT !.target = d]
              /\ crossed' = (crossed \/ app.active < wait.prev)
              /\ Judge(p, seen, d = app.active /\ app.up)
           \/ /\ wait.set /\ ~hit
              /\ UNCHANGED <<wait, crossed, health>>
              /\ Set(p, [seen EXCEPT !.pc = "deploy"])
           \/ /\ ~wait.set
              /\ UNCHANGED <<wait, crossed>>
              /\ Judge(p, seen, app.up)
        /\ UNCHANGED <<platformVars, prev, records, writes, checks, faults, bound, repair, undone, baseline>>

(* The list of deployments, newest first, when no slot holds the target.    *)
HealthList(p) ==
    LET w     == call[p].wait
        known == {d \in 1..lastDep : IF w.target # 0 THEN d = w.target ELSE Historical(d, w.prev)}
        first == Max(known)
    IN  /\ At(p, {"health"}, "deploy")
        /\ \/ /\ IF known # {} /\ w.target = 0 /\ wait.set /\ wait.target = 0
                 THEN /\ wait' = [wait EXCEPT !.target = first]
                      /\ crossed' = (crossed \/ wait.prev # w.prev)
                 ELSE UNCHANGED <<wait, crossed>>
              /\ Judge(p, call[p], known # {} /\ Verdict(first) = "ok")
              /\ UNCHANGED faults
           \/ Fault /\ Unhealthy(p) /\ UNCHANGED <<wait, crossed>>
        /\ UNCHANGED <<platformVars, prev, records, writes, checks, bound, repair, undone, baseline>>

(* The domain probes pass, and the wait is over, or they fail.              *)
HealthProbe(p) ==
    /\ At(p, {"health"}, "probe")
    /\ \/ /\ wait' = IF call[p].wait.set THEN NoWait ELSE wait
          /\ crossed' = (crossed \/ (call[p].wait.set /\ wait.set /\ wait.prev # call[p].wait.prev))
          /\ health' = [ok |-> TRUE, active |-> call[p].inv, baseline |-> call[p].prev]
          /\ Return(p)
          /\ UNCHANGED faults
       \/ Fault /\ Unhealthy(p) /\ UNCHANGED <<wait, crossed>>
    /\ UNCHANGED <<platformVars, prev, records, writes, checks, bound, repair, undone, baseline>>

-----------------------------------------------------------------------------
(* The calls that read the spec, change it and write it back: Scale and     *)
(* step.iac_scale, upsert and Delete of an app domain.                      *)

Scaled(s, n)  == [s EXCEPT !.base.count = n]
Merged(s, d)  == [s EXCEPT !.base.domains = @ \cup {d}]
Removed(s, d) == [s EXCEPT !.base.domains = @ \ {d}]

Edited(p, s) ==
    CASE call[p].op \in {"scale", "iac_scale"} -> Scaled(s, call[p].arg)
      [] call[p].op = "bind"                   -> Merged(s, call[p].arg)
      [] call[p].op = "unbind"                 -> Removed(s, call[p].arg)

Editing == {"scale", "iac_scale", "bind", "unbind"}

(* step.iac_scale and a domain's Delete end when there is nothing to change. *)
EditGet(p) ==
    /\ At(p, Editing, "get")
    /\ \/ /\ IF call[p].op \in {"iac_scale", "unbind"} /\ Edited(p, spec) = spec
             THEN Return(p)
             ELSE Set(p, [call[p] EXCEPT !.pc = "put", !.copy = spec, !.at = lastDep])
          /\ UNCHANGED faults
       \/ Fault /\ Return(p)
    /\ UNCHANGED <<platformVars, prev, wait, records, writes, checks, history>>

EditPut(p) ==
    LET new  == Edited(p, call[p].copy)
        kept == Kept(new, call[p].at) \ (IF call[p].op = "unbind" THEN {call[p].arg} ELSE {})
    IN  /\ At(p, Editing, "put")
        /\ \/ /\ Deploy(new)
              /\ undone' = undone \cup Revived(new, call[p].at)
              /\ \/ bound' = kept \cup (IF call[p].op = "bind" THEN {call[p].arg} ELSE {}) /\ UNCHANGED faults
                 \/ bound' = kept /\ Fault
           \/ Fault /\ NoWrite
        /\ Return(p)
        /\ UNCHANGED <<wait, records, writes, checks, repair, baseline, crossed, health>>

-----------------------------------------------------------------------------
(* RepairDirtyMigration.                                                    *)

Job(p) == CHOOSE j \in call[p].job : TRUE

With(s, j)    == [s EXCEPT !.jobs[j] = "plain"]
Without(s, j) == [s EXCEPT !.jobs[j] = "absent"]

(* Names are random: one absent from the spec and not another call's.       *)
Fresh(p) == {j \in Jobs : spec.jobs[j] = "absent" /\ \A q \in Callers \ {p} : j \notin call[q].job}

(* prepareRepairSpec.                                                       *)
RepairPrepare(p) ==
    /\ At(p, {"repair"}, "get")
    /\ \/ /\ \E j \in Fresh(p) :
               /\ Set(p, [call[p] EXCEPT !.pc = "put", !.copy = spec, !.at = lastDep, !.job = {j}])
               /\ repair' = [repair EXCEPT ![j] = "none"]
          /\ UNCHANGED faults
       \/ Fault /\ Return(p) /\ UNCHANGED repair
    /\ UNCHANGED <<platformVars, prev, wait, records, writes, checks, bound, undone, baseline, crossed, health>>

(* The call returns; restored is what restore made of its status.           *)
Report(p, restored) ==
    /\ repair' = [repair EXCEPT ![Job(p)] = restored]
    /\ Return(p)

(* Mutant: a failed update is taken for one that was not made.              *)
RepairPut_NoRestore(p) ==
    LET new == With(call[p].copy, Job(p))
    IN  /\ At(p, {"repair"}, "put")
        /\ \/ /\ Write(new, call[p].at)
              /\ Set(p, [call[p] EXCEPT !.pc = "wait"])
              /\ UNCHANGED <<repair, faults>>
           \/ /\ Fault
              /\ Write(new, call[p].at) \/ NoWrite
              /\ Report(p, "failed")
        /\ UNCHANGED <<wait, records, writes, checks, baseline, crossed, health>>

MoreTries(p) == call[p].tries < 2

(* The update that adds the job: up to three attempts when the service says *)
(* the name is taken; any other failure may hide an accepted update, so the *)
(* spec is restored.                                                        *)
RepairPut(p) ==
    LET new == With(call[p].copy, Job(p))
    IN  /\ At(p, {"repair"}, "put")
        /\ \/ /\ Write(new, call[p].at)
              /\ Set(p, [call[p] EXCEPT !.pc = "wait"])
              /\ UNCHANGED <<repair, faults>>
           \/ /\ NoWrite /\ UNCHANGED faults
              /\ IF MoreTries(p)
                 THEN Set(p, [call[p] EXCEPT !.pc = "get", !.job = {}, !.tries = @ + 1]) /\ UNCHANGED repair
                 ELSE Report(p, "failed")
           \/ /\ Fault
              /\ Write(new, call[p].at) \/ NoWrite
              /\ Set(p, [call[p] EXCEPT !.pc = "restore_get", !.status = "failed"])
              /\ UNCHANGED repair
        /\ UNCHANGED <<wait, records, writes, checks, baseline, crossed, health>>

Over(d, j) == inv[d][j] \in {"succeeded", "failed", "canceled", "skipped"}

(* waitForMigrationRepairInvocation: an invocation of the job that is over  *)
(* decides; one that is not is remembered.                                  *)
RepairPoll(p) ==
    /\ At(p, {"repair"}, "wait")
    /\ \/ /\ \E d \in DepIDs :
               \/ /\ Over(d, Job(p))
                  /\ Set(p, [call[p] EXCEPT !.pc = "restore_get",
                               !.status = IF inv[d][Job(p)] = "succeeded" THEN "succeeded" ELSE "failed"])
               \/ /\ inv[d][Job(p)] = "running"
                  /\ \A e \in DepIDs : ~Over(e, Job(p))
                  /\ call[p].inv # d
                  /\ Set(p, [call[p] EXCEPT !.inv = d])
          /\ UNCHANGED faults
       \/ Fault /\ Set(p, [call[p] EXCEPT !.pc = "cancel", !.status = "failed"])
    /\ UNCHANGED <<platformVars, prev, wait, records, writes, checks, history>>

(* Mutant: only a job that has started is given up.                         *)
RepairTimeout_Started(p) ==
    /\ At(p, {"repair"}, "wait")
    /\ call[p].inv # 0
    /\ Set(p, [call[p] EXCEPT !.pc = "cancel", !.status = "failed"])
    /\ UNCHANGED <<platformVars, prev, wait, records, writes, checks, faults, history>>

(* The timeout, or the end of the caller's context.                         *)
RepairTimeout(p) ==
    /\ At(p, {"repair"}, "wait")
    /\ Set(p, [call[p] EXCEPT !.pc = "cancel", !.status = "failed"])
    /\ UNCHANGED <<platformVars, prev, wait, records, writes, checks, faults, history>>

(* The invocation last seen is canceled; a failure is only noted.           *)
RepairCancel(p) ==
    LET d == call[p].inv
    IN  /\ At(p, {"repair"}, "cancel")
        /\ Set(p, [call[p] EXCEPT !.pc = "restore_get"])
        /\ IF d # 0 /\ inv[d][Job(p)] = "running"
           THEN \/ AcceptCancelInvocation(d, Job(p)) /\ UNCHANGED faults
                \/ Fault /\ UNCHANGED platformVars
           ELSE UNCHANGED <<platformVars, faults>>
        /\ UNCHANGED <<prev, wait, records, writes, checks, history>>

(* Mutant: the spec from before the repair is written back.                 *)
RestoreGet_FirstCopy(p) ==
    /\ At(p, {"repair"}, "restore_get")
    /\ Set(p, [call[p] EXCEPT !.pc = "restore_put", !.at = lastDep])
    /\ UNCHANGED <<platformVars, prev, wait, records, writes, checks, faults, history>>

(* restore: the live spec is read again and only the job is taken out.      *)
RestoreGet(p) ==
    /\ At(p, {"repair"}, "restore_get")
    /\ \/ /\ spec.jobs[Job(p)] = "absent"
          /\ Report(p, call[p].status)
          /\ UNCHANGED faults
       \/ /\ spec.jobs[Job(p)] # "absent"
          /\ Set(p, [call[p] EXCEPT !.pc = "restore_put", !.copy = spec, !.at = lastDep])
          /\ UNCHANGED <<repair, faults>>
       \/ Fault /\ Report(p, "unrestored")
    /\ UNCHANGED <<platformVars, prev, wait, records, writes, checks, bound, undone, baseline, crossed, health>>

RestorePut(p) ==
    LET new == Without(call[p].copy, Job(p))
    IN  /\ At(p, {"repair"}, "restore_put")
        /\ \/ Write(new, call[p].at) /\ Report(p, call[p].status) /\ UNCHANGED faults
           \/ /\ Fault
              /\ Write(new, call[p].at) \/ NoWrite
              /\ Report(p, "unrestored")
        /\ UNCHANGED <<wait, records, writes, checks, baseline, crossed, health>>

-----------------------------------------------------------------------------

Platform ==
    /\ PlatformNext
    /\ UNCHANGED <<prev, call, wait, records, writes, checks, faults, history>>

Start(p) == \E c \in menu[p] : Begin(p, c[1], c[2])

Step(p) ==
    \/ UpdateGet(p) \/ UpdatePut(p) \/ UpdateDeploy(p)
    \/ CNAMEList(p) \/ CNAMECall(p)
    \/ HealthGet(p) \/ HealthTarget(p) \/ HealthList(p) \/ HealthProbe(p)
    \/ EditGet(p) \/ EditPut(p)
    \/ RepairPrepare(p) \/ RepairPut(p) \/ RepairPoll(p) \/ RepairTimeout(p) \/ RepairCancel(p)
    \/ RestoreGet(p) \/ RestorePut(p)

Next ==
    /\ Platform \/ \E p \in Callers : Start(p) \/ Step(p)
    /\ UNCHANGED menu

Spec == Init /\ [][Next]_vars

(* A call that has begun goes on: its waits are bounded by timeouts.        *)
FairSpec == Spec /\ \A p \in Callers : WF_vars(Step(p) /\ UNCHANGED menu)

-----------------------------------------------------------------------------
(* Properties.                                                              *)

(* "Re-read the live spec and remove only this generated job": a repair     *)
(* that returns without a restore error leaves its temporary job out of the *)
(* app, whatever happened to the update that added it, unless another       *)
(* caller's write, based on a read from before the restore, put it back.    *)
RepairLeavesNoJob ==
    \A j \in Jobs :
        repair[j] \in {"succeeded", "failed"} /\ spec.jobs[j] # "absent" => j \in undone

(* "without rebuilding the rest of the app spec", "unrelated fields are     *)
(* preserved as far as the provider API allows": a domain whose binding was *)
(* acknowledged stays in the spec through every Scale, repair and domain    *)
(* call of others; it is lost only to its own Delete, to an Update of the   *)
(* app resource or to a write based on a read from before the binding.      *)
DomainsKept == bound \subseteq spec.base.domains

(* After a successful Update, HealthCheck passes only when a deployment     *)
(* newer than the one that was active before the Update has become active,  *)
(* unless a HealthCheck that read the app before an Update judged that      *)
(* Update by it, or cleared or retargeted its wait.                         *)
HealthyIsNew ==
    health.ok /\ health.baseline # 0 /\ ~crossed => health.baseline < health.active

(* Reconciling the records of a custom domain, by however many calls at     *)
(* once, never leaves the name without a record once it has one.            *)
NameServed == [][\A d \in Domains : Live(d) # {} => Live(d)' # {}]_vars

(* Every call returns; a repair in particular ends with its restore even    *)
(* when its job never runs.                                                 *)
CallsReturn == \A p \in Callers : call[p].pc # "idle" ~> call[p].pc = "idle"

=============================================================================
