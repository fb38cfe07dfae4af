---------------------------- MODULE AppJobRunner ----------------------------
(***************************************************************************)
(* The one-off job runner of internal/app_platform_runner.go.  RunJob adds  *)
(* a uniquely named PRE_DEPLOY job to an app the operator owns, and so      *)
(* starts a deployment that runs it; JobStatus and CancelJob find that      *)
(* deployment and its invocation again from the handle alone, and remove    *)
(* the component once the job is over.                                      *)
(*                                                                          *)
(* Every API call is a step of its own, so calls on the same handle, calls  *)
(* for different jobs, the platform and other writers of the app            *)
(* interleave between any two of them.  A deployment's spec never changes,  *)
(* so the GetDeployment readbacks that only re-check it are part of the     *)
(* step that reads the deployment's name.                                   *)
(***************************************************************************)
EXTENDS AppPlatform

CONSTANTS
    Callers,         \* concurrent calls into the runner
    Disturbances,    \* which other writers and failures are considered
    MaxDisturbances, \* bound: writes by others and crashes
    MaxFaults        \* bound: failed or lost API calls

DisturbanceKinds == {"base", "drop", "redeploy", "edit", "crash"}

ASSUME RunnerAssumption ==
    /\ Callers # {}
    /\ Disturbances \subseteq DisturbanceKinds
    /\ MaxDisturbances \in Nat
    /\ MaxFaults \in Nat

VARIABLES
    used,        \* jobs whose RunJob has begun (names are random, never reused)
    held,        \* jobs whose handle the host has
    handle,      \* the metadata inside the host's handle
    call,        \* what each caller is doing
    expired,     \* jobs whose deadline has passed
    disturbed,   \* disturbances so far
    faults,      \* API faults so far
    reported,    \* history: results JobStatus/CancelJob returned without error
    launch,      \* history: the deployment RunJob's Update created (0: none)
    stale        \* history: callers about to write a spec that has been overtaken

runnerVars == <<used, held, handle, call, expired, disturbed, faults, reported, launch, stale>>
vars == <<platformVars, runnerVars>>

(***************************************************************************)
(* The handle's metadata.  Digests stand for what they digest: prior is the *)
(* app spec RunJob read, digest the job component, which has the intent it  *)
(* was submitted with unless somebody edited it.                            *)
(***************************************************************************)
Meta == [prior : Specs, digest : Forms, acked : BOOLEAN,
         dep : DepRefs, job : DepRefs, failed : BOOLEAN]

NewMeta(s) == [prior |-> s, digest |-> "plain", acked |-> FALSE,
               dep |-> 0, job |-> 0, failed |-> FALSE]

States  == {"pending", "running", "succeeded", "failed", "cancelled"}
Results == {"succeeded", "failed", "cancelled", "cancel_ok"}
Ops     == {"none", "run", "status", "cancel"}
PCs     == {"idle", "run_preflight", "run_update", "run_readback",
            "recover", "historical", "invocation", "status_dep", "status_launch",
            "cancel_dep", "cancel_dep_send", "cancel_dep_readback",
            "cancel_inv", "cancel_inv_readback",
            "cleanup", "cleanup_update", "cleanup_readback"}

Call == [pc : PCs, op : Ops, j : Jobs, m : Meta, snap : Specs, found : DepRefs, state : States]

IdleCall == [pc |-> "idle", op |-> "none", j |-> CHOOSE j \in Jobs : TRUE,
             m |-> NewMeta(FirstSpec), snap |-> FirstSpec, found |-> 0, state |-> "pending"]

RunnerTypeOK ==
    /\ used \in SUBSET Jobs
    /\ held \in SUBSET Jobs
    /\ handle \in [Jobs -> Meta]
    /\ call \in [Callers -> Call]
    /\ expired \in SUBSET Jobs
    /\ disturbed \in 0..MaxDisturbances
    /\ faults \in 0..MaxFaults
    /\ reported \in [Jobs -> SUBSET Results]
    /\ launch \in [Jobs -> DepRefs]
    /\ stale \in SUBSET Callers

(* The type invariant: the app, the handles and the calls in flight of      *)
(* RunJob, JobStatus and CancelJob keep their shape.                        *)
TypeOK == PlatformTypeOK /\ RunnerTypeOK

Init ==
    /\ PlatformInit
    /\ used = {}
    /\ held = {}
    /\ handle = [j \in Jobs |-> NewMeta(FirstSpec)]
    /\ call = [p \in Callers |-> IdleCall]
    /\ expired = {}
    /\ disturbed = 0
    /\ faults = 0
    /\ reported = [j \in Jobs |-> {}]
    /\ launch = [j \in Jobs |-> 0]
    /\ stale = {}

-----------------------------------------------------------------------------
(* Ownership of a component and of a deployment.                            *)

HasIntent(form) == form \in {"plain", "encrypted"}

OwnedComponent(form, m) == HasIntent(form) /\ (m.acked => form = m.digest)

Without(s, j) == [s EXCEPT !.jobs[j] = "absent"]

(* Mutant: the rest of the deployment's spec is not compared.               *)
Binds_AnyParent(m, j, ds, d) ==
    d # 0 /\ m.dep \in {0, d} /\ OwnedComponent(ds[d].spec.jobs[j], m)

(* bindAppJobDeployment's conditions, over the deployments ds.              *)
Binds(m, j, ds, d) ==
    /\ d # 0
    /\ m.dep \in {0, d}
    /\ OwnedComponent(ds[d].spec.jobs[j], m)
    /\ Without(ds[d].spec, j) = m.prior

Bound(m, j, ds, d) ==
    [m EXCEPT !.dep = d, !.digest = ds[d].spec.jobs[j], !.acked = TRUE]

(* The first of an app read's two deployment hints that binds.              *)
BindHint(m, j, ds, first, second) ==
    IF Binds(m, j, ds, first) THEN Bound(m, j, ds, first)
    ELSE IF Binds(m, j, ds, second) THEN Bound(m, j, ds, second)
    ELSE m

(* What RunJob learns from the Update response or the readback after it.    *)
Acknowledge(m, j, s, ds, first, second) ==
    LET acked == IF OwnedComponent(s.jobs[j], m)
                 THEN [m EXCEPT !.digest = s.jobs[j], !.acked = TRUE]
                 ELSE m
    IN  BindHint(acked, j, ds, first, second)

Terminal(state) == state \in {"succeeded", "failed", "cancelled"}

(* Mutant: a cancelled run counts as failed.                                *)
StateOf_CanceledFails(phase) ==
    CASE phase = "succeeded"                          -> "succeeded"
      [] phase \in {"failed", "skipped", "canceled"}  -> "failed"
      [] phase = "running"                            -> "running"
      [] OTHER                                        -> "pending"

StateOf(phase) ==
    CASE phase = "succeeded"              -> "succeeded"
      [] phase \in {"failed", "skipped"}  -> "failed"
      [] phase = "canceled"               -> "cancelled"
      [] phase = "running"                -> "running"
      [] OTHER                            -> "pending"

DepOver(d) == dep[d].phase \in {"error", "canceled", "superseded"}

-----------------------------------------------------------------------------
(* Calls: how they begin, go on and return.                                 *)

At(p, pc) == call[p].pc = pc

Goto(p, pc) == call' = [call EXCEPT ![p].pc = pc]

(* Return without a clean result.  JobStatus replies with the handle it     *)
(* updated, which the host may store or lose; CancelJob replies nothing.    *)
Return(p, m) ==
    /\ call' = [call EXCEPT ![p] = IdleCall]
    /\ \/ UNCHANGED handle
       \/ call[p].op = "status" /\ handle' = [handle EXCEPT ![call[p].j] = m]

(* Return a terminal state with the component gone.                         *)
ReturnClean(p) ==
    /\ Return(p, call[p].m)
    /\ reported' = [reported EXCEPT ![call[p].j] = @ \cup
          {IF call[p].op = "cancel" THEN "cancel_ok" ELSE call[p].state}]

(* Mutant: a job with no known deployment is cleaned up as if it were over. *)
Decide_AssumeStopped(p, m, found, state) ==
    LET c == call[p]
        Go(pc, st) == /\ call' = [call EXCEPT ![p] =
                            [c EXCEPT !.pc = pc, !.m = m, !.found = found, !.state = st]]
                      /\ UNCHANGED handle
        stop == c.op = "cancel" \/ c.j \in expired
    IN  \/ (Terminal(state) \/ (stop /\ found = 0 /\ m.dep = 0)) /\ Go("cleanup", state)
        \/ ~Terminal(state) /\ stop /\ found # 0 /\ Go("cancel_inv", "cancelled")
        \/ ~Terminal(state) /\ stop /\ found = 0 /\ m.dep # 0 /\ Go("cancel_dep", "cancelled")
        \/ ~Terminal(state) /\ ~stop /\ Return(p, m)

(* After invocation and deployment have been read: a finished job is        *)
(* cleaned up, a cancelled or late one is stopped first, and any other is   *)
(* reported as it is.                                                       *)
Decide(p, m, found, state) ==
    LET c == call[p]
        Go(pc, st) == /\ call' = [call EXCEPT ![p] =
                            [c EXCEPT !.pc = pc, !.m = m, !.found = found, !.state = st]]
                      /\ UNCHANGED handle
        stop == c.op = "cancel" \/ c.j \in expired
    IN  \/ Terminal(state) /\ Go("cleanup", state)
        \/ ~Terminal(state) /\ stop /\ found # 0 /\ Go("cancel_inv", "cancelled")
        \/ ~Terminal(state) /\ stop /\ found = 0 /\ m.dep # 0 /\ Go("cancel_dep", "cancelled")
        \/ ~Terminal(state) /\ (stop => found = 0 /\ m.dep = 0) /\ Return(p, m)

(* Callers that will write what they have read: overtaken by other writes.  *)
Holding == {p \in Callers : call[p].pc \in {"run_preflight", "run_update", "cleanup_update"}}
Overtaken(p) == stale' = (stale \cup Holding) \ {p}
Fresh(p)     == stale' = stale \ {p}

Fault == faults < MaxFaults /\ faults' = faults + 1

-----------------------------------------------------------------------------
(* RunJob.                                                                  *)

RunGet(p, j) ==
    /\ At(p, "idle")
    /\ j \notin used
    /\ spec.jobs[j] = "absent"
    /\ used' = used \cup {j}
    /\ call' = [call EXCEPT ![p] =
          [IdleCall EXCEPT !.pc = "run_preflight", !.op = "run", !.j = j,
                           !.m = NewMeta(spec), !.snap = spec]]
    /\ Fresh(p)
    /\ UNCHANGED <<platformVars, held, handle, expired, disturbed, faults, reported, launch>>

RunPreflight(p) ==
    /\ At(p, "run_preflight")
    /\ Goto(p, "run_update")
    /\ UNCHANGED <<platformVars, used, held, handle, expired, disturbed, faults, reported, launch, stale>>

Hold(p, m) ==
    /\ held' = held \cup {call[p].j}
    /\ handle' = [handle EXCEPT ![call[p].j] = m]
    /\ call' = [call EXCEPT ![p] = IdleCall]

LaunchSpec(c) == [c.snap EXCEPT !.jobs[c.j] = "plain"]

(* Mutant: a failed Update is taken for a rejected one; no handle is kept.  *)
LaunchFailed_Discard(p) ==
    /\ call' = [call EXCEPT ![p] = IdleCall]
    /\ Fault
    /\ UNCHANGED <<held, handle>>

LaunchFailed(p) ==
    /\ call' = [call EXCEPT ![p].pc = "run_readback", ![p].m.failed = TRUE]
    /\ Fault
    /\ UNCHANGED <<held, handle>>

RunUpdate(p) ==
    /\ At(p, "run_update")
    /\ \/ /\ AcceptUpdate(LaunchSpec(call[p]))
          /\ launch' = [launch EXCEPT ![call[p].j] = lastDep']
          /\ Overtaken(p)
          /\ \/ /\ Hold(p, Acknowledge(call[p].m, call[p].j, spec', dep', inProgress', active'))
                /\ UNCHANGED faults
             \/ LaunchFailed(p)
       \/ /\ LaunchFailed(p)
          /\ Fresh(p)
          /\ UNCHANGED <<platformVars, launch>>
    /\ UNCHANGED <<used, expired, disturbed, reported>>

RunReadback(p) ==
    /\ At(p, "run_readback")
    /\ \/ /\ Hold(p, Acknowledge(call[p].m, call[p].j, spec, dep, inProgress, active))
          /\ UNCHANGED faults
       \/ Hold(p, call[p].m) /\ Fault
    /\ UNCHANGED <<platformVars, used, expired, disturbed, reported, launch, stale>>

-----------------------------------------------------------------------------
(* JobStatus and CancelJob: finding the deployment and the invocation.      *)

Begin(p, j, op) ==
    /\ At(p, "idle")
    /\ j \in held
    /\ call' = [call EXCEPT ![p] =
          [IdleCall EXCEPT !.pc = IF handle[j].dep = 0 THEN "recover" ELSE "invocation",
                           !.op = op, !.j = j, !.m = handle[j]]]
    /\ UNCHANGED <<platformVars, used, held, handle, expired, disturbed, faults, reported, launch, stale>>

BeginStatus(p, j) == Begin(p, j, "status")
BeginCancel(p, j) == Begin(p, j, "cancel")

Recover(p) ==
    LET c == call[p]
        m == BindHint(c.m, c.j, dep, inProgress, active)
    IN  /\ At(p, "recover")
        /\ call' = [call EXCEPT
              ![p].m = m,
              ![p].pc = IF m.dep = 0 /\ spec = m.prior THEN "historical" ELSE "invocation"]
        /\ UNCHANGED <<platformVars, used, held, handle, expired, disturbed, faults, reported, launch, stale>>

(* All deployments: one that has the component but does not bind, or two    *)
(* that do, is an error.                                                    *)
Historical(p) ==
    LET c == call[p]
        carrying == {d \in 1..lastDep : JobPresent(d, c.j)}
    IN  /\ At(p, "historical")
        /\ \/ /\ carrying = {}
              /\ Goto(p, "invocation")
              /\ UNCHANGED handle
           \/ \E d \in carrying :
                /\ carrying = {d} /\ Binds(c.m, c.j, dep, d)
                /\ call' = [call EXCEPT ![p].m = Bound(c.m, c.j, dep, d), ![p].pc = "invocation"]
                /\ UNCHANGED handle
           \/ /\ carrying # {}
              /\ ~\E d \in carrying : carrying = {d} /\ Binds(c.m, c.j, dep, d)
              /\ Return(p, c.m)
        /\ UNCHANGED <<platformVars, used, held, expired, disturbed, faults, reported, launch, stale>>

(* The deployments whose invocation of the job the API answers with.        *)
Invocations(c) ==
    IF c.m.job # 0 THEN {c.m.job}
    ELSE {d \in DepIDs : inv[d][c.j] # "none" /\ c.m.dep \in {0, d}}

(* bindAppJobInvocation: a bound handle asked for its own deployment's      *)
(* invocations; an unbound one binds the deployment the answer names.       *)
InvocationBinds(c, d) ==
    IF c.m.dep = 0 THEN Binds(c.m, c.j, dep, d) ELSE d = c.m.dep

Invocation(p) ==
    LET c == call[p]
        found == Invocations(c)
    IN  /\ At(p, "invocation")
        /\ \/ /\ found = {}
              /\ \/ /\ c.op = "status" /\ c.m.dep # 0
                    /\ Goto(p, "status_dep") /\ UNCHANGED handle
                 \/ /\ c.op = "status" /\ c.m.dep = 0 /\ c.m.failed
                    /\ Goto(p, "status_launch") /\ UNCHANGED handle
                 \/ /\ c.op = "status" => c.m.dep = 0 /\ ~c.m.failed
                    /\ Decide(p, c.m, 0, "pending")
           \/ \E d \in found :
                /\ found = {d} /\ InvocationBinds(c, d)
                /\ LET m == IF c.m.dep = 0 THEN Bound(c.m, c.j, dep, d) ELSE c.m
                   IN  Decide(p, [m EXCEPT !.job = d], d, StateOf(inv[d][c.j]))
           \/ /\ found # {}
              /\ ~\E d \in found : found = {d} /\ InvocationBinds(c, d)
              /\ Return(p, c.m)
        /\ UNCHANGED <<platformVars, used, held, expired, disturbed, faults, reported, launch, stale>>

(* No invocation yet: the bound deployment decides.                         *)
StatusDeployment(p) ==
    LET c == call[p]
        phase == dep[c.m.dep].phase
        state == IF phase = "error" THEN "failed"
                 ELSE IF phase = "canceled" THEN "cancelled" ELSE "pending"
    IN  /\ At(p, "status_dep")
        /\ IF Binds(c.m, c.j, dep, c.m.dep) THEN Decide(p, c.m, 0, state) ELSE Return(p, c.m)
        /\ UNCHANGED <<platformVars, used, held, expired, disturbed, faults, reported, launch, stale>>

(* No deployment either, and RunJob's Update failed: the live spec decides. *)
StatusLaunch(p) ==
    LET c == call[p] IN
    /\ At(p, "status_launch")
    /\ Decide(p, c.m, 0, IF spec.jobs[c.j] = "absent" THEN "failed" ELSE "pending")
    /\ UNCHANGED <<platformVars, used, held, expired, disturbed, faults, reported, launch, stale>>

-----------------------------------------------------------------------------
(* cancelInvocation.                                                        *)

CancelDeployment(p) ==
    LET c == call[p] IN
    /\ At(p, "cancel_dep")
    /\ IF Binds(c.m, c.j, dep, c.m.dep)
       THEN /\ Goto(p, IF DepOver(c.m.dep) THEN "cleanup" ELSE "cancel_dep_send")
            /\ UNCHANGED handle
       ELSE Return(p, c.m)
    /\ UNCHANGED <<platformVars, used, held, expired, disturbed, faults, reported, launch, stale>>

(* The request takes effect at once, later (or never), or its answer fails. *)
CancelDeploymentSend(p) ==
    LET c == call[p] IN
    /\ At(p, "cancel_dep_send")
    /\ AcceptCancelDeployment(c.m.dep) \/ UNCHANGED platformVars
    /\ \/ Goto(p, "cancel_dep_readback") /\ UNCHANGED <<handle, faults>>
       \/ Return(p, c.m) /\ Fault
    /\ UNCHANGED <<used, held, expired, disturbed, reported, launch, stale>>

(* Mutant: an acknowledged cancellation is taken for a completed one.       *)
CancelDeploymentReadback_Trusting(p) ==
    /\ At(p, "cancel_dep_readback")
    /\ Goto(p, "cleanup")
    /\ UNCHANGED <<platformVars, used, held, handle, expired, disturbed, faults, reported, launch, stale>>

CancelDeploymentReadback(p) ==
    LET c == call[p] IN
    /\ At(p, "cancel_dep_readback")
    /\ \/ /\ Binds(c.m, c.j, dep, c.m.dep) /\ DepOver(c.m.dep)
          /\ Goto(p, "cleanup") /\ UNCHANGED handle
       \/ ~(Binds(c.m, c.j, dep, c.m.dep) /\ DepOver(c.m.dep)) /\ Return(p, c.m)
    /\ UNCHANGED <<platformVars, used, held, expired, disturbed, faults, reported, launch, stale>>

CancelInvocation(p) ==
    LET c == call[p] IN
    /\ At(p, "cancel_inv")
    /\ IF Binds(c.m, c.j, dep, c.m.dep)
       THEN /\ AcceptCancelInvocation(c.found, c.j) \/ UNCHANGED platformVars
            /\ \/ Goto(p, "cancel_inv_readback") /\ UNCHANGED <<handle, faults>>
               \/ Return(p, c.m) /\ Fault
       ELSE Return(p, c.m) /\ UNCHANGED <<platformVars, faults>>
    /\ UNCHANGED <<used, held, expired, disturbed, reported, launch, stale>>

CancelInvocationReadback(p) ==
    LET c == call[p]
        over == Terminal(StateOf(inv[c.found][c.j]))
    IN  /\ At(p, "cancel_inv_readback")
        /\ \/ over /\ Goto(p, "cleanup") /\ UNCHANGED handle
           \/ ~over /\ Return(p, c.m)
        /\ UNCHANGED <<platformVars, used, held, expired, disturbed, faults, reported, launch, stale>>

-----------------------------------------------------------------------------
(* cleanup: remove the unchanged component from the live spec, provided the *)
(* rest of it is what RunJob read, and read back that it is gone.           *)

(* Mutants: the saved snapshot is restored without a drift check; the       *)
(* component is compared with the request instead of what was acknowledged. *)
Cleanup_Snapshot(p) ==
    LET c == call[p] IN
    /\ At(p, "cleanup")
    /\ \/ spec.jobs[c.j] = "absent" /\ ReturnClean(p)
       \/ /\ spec.jobs[c.j] # "absent"
          /\ call' = [call EXCEPT ![p].pc = "cleanup_update", ![p].snap = c.m.prior]
          /\ UNCHANGED <<handle, reported>>
    /\ Fresh(p)
    /\ UNCHANGED <<platformVars, used, held, expired, disturbed, faults, launch>>

Cleanup_RequestDigest(p) ==
    LET c == call[p]
        own == spec.jobs[c.j]
        restorable == own \in {"absent", "plain"} /\ Without(spec, c.j) = c.m.prior
    IN  /\ At(p, "cleanup")
        /\ \/ ~restorable /\ Return(p, c.m) /\ UNCHANGED reported
           \/ restorable /\ own = "absent" /\ ReturnClean(p)
           \/ /\ restorable /\ own # "absent"
              /\ call' = [call EXCEPT ![p].pc = "cleanup_update", ![p].snap = Without(spec, c.j)]
              /\ UNCHANGED <<handle, reported>>
        /\ Fresh(p)
        /\ UNCHANGED <<platformVars, used, held, expired, disturbed, faults, launch>>

Cleanup(p) ==
    LET c == call[p]
        own == spec.jobs[c.j]
        restorable == own \in {"absent", c.m.digest} /\ Without(spec, c.j) = c.m.prior
    IN  /\ At(p, "cleanup")
        /\ \/ ~restorable /\ Return(p, c.m) /\ UNCHANGED reported
           \/ restorable /\ own = "absent" /\ ReturnClean(p)
           \/ /\ restorable /\ own # "absent"
              /\ call' = [call EXCEPT ![p].pc = "cleanup_update", ![p].snap = Without(spec, c.j)]
              /\ UNCHANGED <<handle, reported>>
        /\ Fresh(p)
        /\ UNCHANGED <<platformVars, used, held, expired, disturbed, faults, launch>>

(* The readback follows whatever the Update answered.                       *)
CleanupUpdate(p) ==
    /\ At(p, "cleanup_update")
    /\ Goto(p, "cleanup_readback")
    /\ \/ AcceptUpdate(call[p].snap) /\ Overtaken(p) /\ UNCHANGED faults
       \/ Fresh(p) /\ Fault /\ UNCHANGED platformVars
    /\ UNCHANGED <<used, held, handle, expired, disturbed, reported, launch>>

CleanupReadback(p) ==
    LET c == call[p] IN
    /\ At(p, "cleanup_readback")
    /\ \/ spec = c.m.prior /\ ReturnClean(p)
       \/ spec # c.m.prior /\ Return(p, c.m) /\ UNCHANGED reported
    /\ UNCHANGED <<platformVars, used, held, expired, disturbed, faults, launch, stale>>

-----------------------------------------------------------------------------
(* Everything that can go wrong around the runner.                          *)

ReadPCs == {"run_preflight", "recover", "historical", "invocation", "status_dep", "status_launch",
            "cancel_dep", "cancel_dep_readback", "cancel_inv", "cancel_inv_readback",
            "cleanup", "cleanup_readback"}

(* A failed read ends the call (RunJob's own readback excepted); before the *)
(* Update, no name has been generated yet.                                  *)
ReadError(p) ==
    /\ call[p].pc \in ReadPCs
    /\ Fault
    /\ Return(p, call[p].m)
    /\ used' = IF At(p, "run_preflight") THEN used \ {call[p].j} ELSE used
    /\ Fresh(p)
    /\ UNCHANGED <<platformVars, held, expired, disturbed, reported, launch>>

Disturb(kind) ==
    /\ kind \in Disturbances
    /\ disturbed < MaxDisturbances
    /\ disturbed' = disturbed + 1
    /\ UNCHANGED <<used, held, handle, expired, faults, reported, launch>>

(* The caller's process dies, and with it what the call had learnt.         *)
Crash(p) ==
    /\ Disturb("crash")
    /\ ~At(p, "idle")
    /\ call' = [call EXCEPT ![p] = IdleCall]
    /\ Fresh(p)
    /\ UNCHANGED platformVars

(* Another writer: a read-modify-write of the rest of the spec (Scale, a    *)
(* domain), a whole spec built from configuration (Update), a forced        *)
(* redeployment, an edit of the job component.                              *)
Foreign(kind, s) ==
    /\ Disturb(kind)
    /\ AcceptUpdate(s)
    /\ stale' = stale \cup Holding
    /\ UNCHANGED call

ForeignBase == \E b \in Bases \ {spec.base} : Foreign("base", [spec EXCEPT !.base = b])
ForeignApply == Foreign("drop", [spec EXCEPT !.jobs = [j \in Jobs |-> "absent"]])
ForeignRedeploy == Foreign("redeploy", spec)
ForeignEdit ==
    \E j \in Jobs : spec.jobs[j] # "absent" /\ Foreign("edit", [spec EXCEPT !.jobs[j] = "edited"])

Tick(j) ==
    /\ j \in held \ expired
    /\ expired' = expired \cup {j}
    /\ UNCHANGED <<platformVars, used, held, handle, call, disturbed, faults, reported, launch, stale>>

Platform == PlatformNext /\ UNCHANGED runnerVars

-----------------------------------------------------------------------------

Step(p) ==
    \/ RunPreflight(p) \/ RunUpdate(p) \/ RunReadback(p)
    \/ Recover(p) \/ Historical(p) \/ Invocation(p)
    \/ StatusDeployment(p) \/ StatusLaunch(p)
    \/ CancelDeployment(p) \/ CancelDeploymentSend(p) \/ CancelDeploymentReadback(p)
    \/ CancelInvocation(p) \/ CancelInvocationReadback(p)
    \/ Cleanup(p) \/ CleanupUpdate(p) \/ CleanupReadback(p)

Next ==
    \/ \E p \in Callers :
         \/ Step(p) \/ ReadError(p) \/ Crash(p)
         \/ \E j \in Jobs : RunGet(p, j) \/ BeginStatus(p, j) \/ BeginCancel(p, j)
    \/ \E j \in Jobs : Tick(j)
    \/ ForeignBase \/ ForeignApply \/ ForeignRedeploy \/ ForeignEdit
    \/ Platform

Spec == Init /\ [][Next]_vars

(***************************************************************************)
(* A call that has begun makes its next API call, the platform makes        *)
(* progress, time passes, and the host keeps asking for the job's status.   *)
(***************************************************************************)
Fairness ==
    /\ WF_vars(Platform)
    /\ \A p \in Callers : WF_vars(Step(p))
    /\ \A j \in Jobs : WF_vars(Tick(j)) /\ \A p \in Callers : WF_vars(BeginStatus(p, j))

FairSpec == Spec /\ Fairness

-----------------------------------------------------------------------------
(* Properties.                                                              *)

(* What a handle has bound is its own: among the deployments ds, of which n *)
(* is the newest, the one it names carries the job component exactly as     *)
(* acknowledged, inside the very app spec RunJob read, and the invocation   *)
(* it names belongs to that deployment.                                     *)
BindsOwn(m, j, ds, n) ==
    /\ m.job \in {0, m.dep}
    /\ m.dep # 0 =>
          /\ m.dep <= n
          /\ m.acked = TRUE /\ HasIntent(m.digest)
          /\ ds[m.dep].spec.jobs[j] = m.digest
          /\ Without(ds[m.dep].spec, j) = m.prior

(* Ownership: no handle, stored or in use by JobStatus or CancelJob, is     *)
(* ever bound to a deployment or invocation that is not the job's own       *)
(* (bindAppJobDeployment, bindAppJobInvocation).                            *)
BoundDeploymentOwned ==
    /\ \A j \in Jobs : BindsOwn(handle[j], j, dep, lastDep)
    /\ \A p \in Callers : BindsOwn(call[p].m, call[p].j, dep, lastDep)

(* Deployments that do not exist yet have no component.                     *)
Unborn == \A d \in DepIDs : d > lastDep => dep[d].spec = FirstSpec

(* A call that stops the job or cleans up after it has a terminal state to  *)
(* report.                                                                  *)
Closing == {"cancel_dep", "cancel_dep_send", "cancel_dep_readback", "cancel_inv",
            "cancel_inv_readback", "cleanup", "cleanup_update", "cleanup_readback"}
EndsTerminal == \A p \in Callers : call[p].pc \in Closing => Terminal(call[p].state)

(* The inductive strengthening of TypeOK and BoundDeploymentOwned: handles  *)
(* and calls of the runner stay owned because deployments never change      *)
(* their spec and those to come have no component.                          *)
RunnerInv == TypeOK /\ Unborn /\ EndsTerminal /\ BoundDeploymentOwned

CanStillRun(d, j) == Unfinished(d) /\ JobPresent(d, j) /\ inv[d][j] \in {"none", "running"}

(* Once JobStatus reports a terminal state, or CancelJob succeeds, without  *)
(* error, the deployment RunJob started can no longer run the job:          *)
(* "Absence alone cannot prove the historical deployment stopped executing" *)
(* (appJobInvocation).                                                      *)
CleanMeansOver ==
    \A j \in Jobs : reported[j] # {} /\ launch[j] # 0 => ~CanStillRun(launch[j], j)

IntactIn(d, j) == HasIntent(dep[d].spec.jobs[j])

Own(j) == {d \in 1..lastDep : IntactIn(d, j)}

(* A success JobStatus reports is the success of the unmodified job.        *)
TruthfulSuccess ==
    \A j \in Jobs : "succeeded" \in reported[j] => \E d \in Own(j) : inv[d][j] = "succeeded"

(* A failure is that of a rejected launch, of a failed or skipped           *)
(* invocation or of a failed deployment.                                    *)
TruthfulFailure ==
    \A j \in Jobs : "failed" \in reported[j] =>
        launch[j] = 0 \/ \E d \in Own(j) : dep[d].phase = "error" \/ inv[d][j] \in {"failed", "skipped"}

(* A cancellation is that of a job that was cancelled, or ran past its      *)
(* deadline.                                                                *)
TruthfulCancel ==
    \A j \in Jobs : "cancelled" \in reported[j] =>
        j \in expired \/ \E d \in Own(j) : dep[d].phase = "canceled" \/ inv[d][j] = "canceled"

(* A terminal state JobStatus reports is one that happened.                 *)
TruthfulReport == TruthfulSuccess /\ TruthfulFailure /\ TruthfulCancel

(* The debt a launch leaves is never forgotten: while the live spec has the *)
(* component, or a deployment may still run it, the host has a handle for   *)
(* it, or the RunJob that will return one is still running.                 *)
CleanupIdentityKept ==
    \A j \in Jobs :
        spec.jobs[j] # "absent" \/ (\E d \in DepIDs : CanStillRun(d, j)) =>
            \/ j \in held
            \/ \E p \in Callers : call[p].op = "run" /\ call[p].j = j

Writes(p) == \/ At(p, "run_update") /\ lastDep' # lastDep /\ call'[p].pc # "run_update"
             \/ At(p, "cleanup_update") /\ lastDep' # lastDep /\ call'[p].pc # "cleanup_update"

(* "Never restore a saved snapshot; remove only our unchanged component     *)
(* from a freshly verified live spec" (cleanup): a write whose caller's     *)
(* last read is still current changes nothing but the job's component, and  *)
(* removes it only if nobody edited it.                                     *)
TouchesOnlyOwn ==
    [][\A p \in Callers : Writes(p) /\ p \notin stale =>
          LET j == call[p].j IN
          /\ Without(spec', j) = Without(spec, j)
          /\ spec.jobs[j] # "edited"]_vars

(* A job whose handle is bound to its deployment is eventually reported     *)
(* over, with its component gone, when nobody else writes the app.          *)
BoundJobsEnd ==
    \A j \in Jobs : (j \in held /\ handle[j].dep # 0) ~> reported[j] # {}

=============================================================================
