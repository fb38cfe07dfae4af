------------------------ MODULE AppJobRunner_proofs ------------------------
(***************************************************************************)
(* The job runner, for any number of jobs, callers, deployments,            *)
(* disturbances and faults.  The handles of internal/app_platform_runner.go *)
(* only ever name the job's own deployment and invocation; what a call      *)
(* writes touches its own component and nothing else; as long as no process *)
(* ends, a launch the service may have accepted keeps a handle; and a       *)
(* success or a cancellation that was reported happened.                    *)
(***************************************************************************)
EXTENDS AppJobRunner, TLAPS

Deployments == [DepIDs -> [spec : Specs, phase : DepPhases]]

UnbornAfter(ds, n) == \A d \in DepIDs : d > n => ds[d].spec = FirstSpec

(* The initial spec is a spec.                                              *)
LEMMA FirstSpecType == FirstSpec \in Specs
  BY PlatformAssumption DEF FirstSpec, Specs, Forms

(* Removing or adding a component, and what the service stores of a spec,   *)
(* keep its shape.                                                          *)
LEMMA SpecTypes ==
  ASSUME NEW s \in Specs, NEW j \in Jobs, NEW form \in Forms
  PROVE  /\ [s EXCEPT !.jobs[j] = form] \in Specs
         /\ Without(s, j) \in Specs
         /\ Stored(s) \in Specs
  BY DEF Specs, Forms, Without, Stored

LEMMA NewMetaType ==
  ASSUME NEW s \in Specs
  PROVE  NewMeta(s) \in Meta
  BY PlatformAssumption DEF NewMeta, Meta, Forms, DepRefs

LEMMA IdleCallType == IdleCall \in Call
  <1>1. (CHOOSE j \in Jobs : TRUE) \in Jobs
    BY PlatformAssumption
  <1> QED
    BY <1>1, NewMetaType, FirstSpecType, PlatformAssumption DEF IdleCall, Call, PCs, Ops, States, DepRefs

(* A deployment that binds (bindAppJobDeployment) is owned once bound.      *)
LEMMA BoundIsOwned ==
  ASSUME NEW m \in Meta, NEW j \in Jobs, NEW ds \in Deployments, NEW n \in DepIDs,
         NEW d \in DepRefs, UnbornAfter(ds, n), m.job \in {0, m.dep}, Binds(m, j, ds, d)
  PROVE  /\ Bound(m, j, ds, d) \in Meta
         /\ BindsOwn(Bound(m, j, ds, d), j, ds, n)
         /\ Bound(m, j, ds, d).dep = d
         /\ d # 0
  <1>1. d \in DepIDs /\ d # 0
    BY PlatformAssumption DEF Binds, DepRefs, DepIDs
  <1>2. ds[d].spec \in Specs /\ ds[d].spec.jobs[j] \in Forms
    BY <1>1 DEF Deployments, Specs
  <1>3. d <= n
    <2>1. SUFFICES ASSUME d > n PROVE FALSE
      BY <1>1 DEF DepIDs
    <2>2. ds[d].spec.jobs[j] = "absent"
      BY <1>1, <2>1 DEF UnbornAfter, FirstSpec
    <2> QED
      BY <2>2 DEF Binds, OwnedComponent, HasIntent
  <1>4. Bound(m, j, ds, d) \in Meta
    BY <1>2 DEF Bound, Meta
  <1>5. /\ Bound(m, j, ds, d).dep = d
        /\ Bound(m, j, ds, d).job = m.job
        /\ Bound(m, j, ds, d).prior = m.prior
        /\ Bound(m, j, ds, d).digest = ds[d].spec.jobs[j]
        /\ Bound(m, j, ds, d).acked = TRUE
    BY DEF Bound, Meta
  <1>6. BindsOwn(Bound(m, j, ds, d), j, ds, n)
    BY <1>1, <1>3, <1>5 DEF BindsOwn, Binds, OwnedComponent
  <1> QED
    BY <1>1, <1>4, <1>5, <1>6

LEMMA BindHintOwned ==
  ASSUME NEW m \in Meta, NEW j \in Jobs, NEW ds \in Deployments, NEW n \in DepIDs,
         NEW first \in DepRefs, NEW second \in DepRefs,
         UnbornAfter(ds, n), BindsOwn(m, j, ds, n)
  PROVE  /\ BindHint(m, j, ds, first, second) \in Meta
         /\ BindsOwn(BindHint(m, j, ds, first, second), j, ds, n)
  <1>1. m.job \in {0, m.dep}
    BY DEF BindsOwn
  <1>2. CASE Binds(m, j, ds, first)
    BY <1>1, <1>2, BoundIsOwned DEF BindHint
  <1>3. CASE ~Binds(m, j, ds, first) /\ Binds(m, j, ds, second)
    BY <1>1, <1>3, BoundIsOwned DEF BindHint
  <1>4. CASE ~Binds(m, j, ds, first) /\ ~Binds(m, j, ds, second)
    BY <1>4 DEF BindHint
  <1> QED
    BY <1>2, <1>3, <1>4

(* What RunJob learns from an answer to its Update leaves the handle owned. *)
LEMMA AcknowledgeOwned ==
  ASSUME NEW m \in Meta, NEW j \in Jobs, NEW s \in Specs, NEW ds \in Deployments, NEW n \in DepIDs,
         NEW first \in DepRefs, NEW second \in DepRefs,
         UnbornAfter(ds, n), BindsOwn(m, j, ds, n)
  PROVE  /\ Acknowledge(m, j, s, ds, first, second) \in Meta
         /\ BindsOwn(Acknowledge(m, j, s, ds, first, second), j, ds, n)
  <1> DEFINE a == IF OwnedComponent(s.jobs[j], m)
                  THEN [m EXCEPT !.digest = s.jobs[j], !.acked = TRUE]
                  ELSE m
  <1>1. CASE ~OwnedComponent(s.jobs[j], m)
    BY <1>1, BindHintOwned DEF Acknowledge
  <1>2. CASE OwnedComponent(s.jobs[j], m)
    <2>1. s.jobs[j] \in Forms
      BY DEF Specs
    <2>2. a \in Meta
      BY <1>2, <2>1 DEF Meta
    <2>3. /\ a.dep = m.dep /\ a.job = m.job /\ a.prior = m.prior
          /\ a.acked = TRUE /\ a.digest = s.jobs[j]
      BY <1>2 DEF Meta
    <2>4. m.dep # 0 => s.jobs[j] = m.digest
      BY <1>2 DEF BindsOwn, OwnedComponent
    <2>5. BindsOwn(a, j, ds, n)
      <3> HIDE DEF a
      <3> QED BY <2>3, <2>4 DEF BindsOwn
    <2> QED
      <3> HIDE DEF a
      <3>1. BindHint(a, j, ds, first, second) \in Meta /\ BindsOwn(BindHint(a, j, ds, first, second), j, ds, n)
        BY <2>2, <2>5, BindHintOwned
      <3> QED BY <3>1 DEF Acknowledge, a
  <1> QED
    BY <1>1, <1>2

(* Deployments keep their specs, so what is owned stays owned.              *)
LEMMA OwnedPersists ==
  ASSUME NEW m \in Meta, NEW j \in Jobs, NEW ds, NEW es, NEW n \in DepIDs, NEW k \in DepIDs,
         n <= k, \A d \in DepIDs : d <= n => es[d].spec = ds[d].spec,
         BindsOwn(m, j, ds, n)
  PROVE  BindsOwn(m, j, es, k)
  <1>1. CASE m.dep = 0
    BY <1>1 DEF BindsOwn
  <1>2. CASE m.dep # 0
    <2>1. m.dep \in DepIDs /\ m.dep <= n
      BY <1>2, PlatformAssumption DEF BindsOwn, Meta, DepRefs, DepIDs
    <2>2. es[m.dep].spec = ds[m.dep].spec
      BY <2>1
    <2>3. m.dep <= k
      BY <2>1 DEF DepIDs
    <2> QED
      BY <1>2, <2>2, <2>3 DEF BindsOwn
  <1> QED
    BY <1>1, <1>2

(* What every change of the app leaves alone.                               *)
Kept ==
    /\ PlatformTypeOK' /\ Unborn'
    /\ lastDep <= lastDep'
    /\ \A d \in DepIDs : d <= lastDep => dep'[d].spec = dep[d].spec

LEMMA AcceptUpdateKeeps ==
  ASSUME PlatformTypeOK, Unborn, NEW s \in Specs, AcceptUpdate(s)
  PROVE  Kept
  <1> DEFINE n == lastDep + 1
  <1>1. n \in DepIDs /\ lastDep \in Nat /\ lastDep' = n /\ n > lastDep
    BY PlatformAssumption DEF AcceptUpdate, PlatformTypeOK, DepIDs
  <1>2. Stored(s) \in Specs
    BY SpecTypes, PlatformAssumption DEF Forms
  <1>3. PICK start \in BOOLEAN :
         /\ dep' = [d \in DepIDs |->
                      IF d = n THEN [spec |-> Stored(s),
                                     phase |-> IF start THEN "building" ELSE "pending"]
                      ELSE IF d = pending THEN [dep[d] EXCEPT !.phase = "superseded"]
                      ELSE dep[d]]
         /\ pending' = IF start THEN 0 ELSE n
         /\ inProgress' = IF start THEN n ELSE inProgress
    BY DEF AcceptUpdate
  <1>4. \A d \in DepIDs : d # n => dep'[d].spec = dep[d].spec
    <2> HIDE DEF n
    <2> QED BY <1>3 DEF PlatformTypeOK
  <1>5. dep' \in Deployments
    <2> HIDE DEF n
    <2> QED BY <1>2, <1>3 DEF PlatformTypeOK, Deployments, DepPhases
  <1>6. pending' \in DepRefs /\ inProgress' \in DepRefs
    BY <1>1, <1>3, PlatformAssumption DEF PlatformTypeOK, DepRefs, DepIDs
  <1>7. spec' \in Specs /\ active' = active /\ inv' = inv
    BY <1>2 DEF AcceptUpdate
  <1>8. PlatformTypeOK'
    BY <1>1, <1>5, <1>6, <1>7 DEF PlatformTypeOK, Deployments
  <1>9. Unborn'
    BY <1>1, <1>4 DEF Unborn, DepIDs
  <1> QED
    BY <1>1, <1>4, <1>8, <1>9 DEF Kept, DepIDs

LEMMA CancelKeeps ==
  ASSUME PlatformTypeOK, Unborn, NEW d, NEW j,
         AcceptCancelDeployment(d) \/ AcceptCancelInvocation(d, j)
  PROVE  Kept
  <1>1. CASE AcceptCancelDeployment(d)
    <2>1. dep' \in Deployments /\ \A e \in DepIDs : dep'[e].spec = dep[e].spec
      BY <1>1 DEF AcceptCancelDeployment, PlatformTypeOK, Deployments, DepPhases
    <2>2. inv' \in [DepIDs -> [Jobs -> InvPhases]]
      <3>1. d \in DepIDs => [i \in Jobs |-> IF inv[d][i] = "running" THEN "canceled" ELSE inv[d][i]] \in [Jobs -> InvPhases]
        BY DEF PlatformTypeOK, InvPhases
      <3> QED BY <1>1, <3>1 DEF AcceptCancelDeployment, PlatformTypeOK
    <2>3. pending' \in DepRefs /\ inProgress' \in DepRefs
      BY <1>1, PlatformAssumption DEF AcceptCancelDeployment, PlatformTypeOK, DepRefs
    <2>4. spec' = spec /\ lastDep' = lastDep /\ active' = active
      BY <1>1 DEF AcceptCancelDeployment
    <2> QED
      BY <2>1, <2>2, <2>3, <2>4 DEF Kept, PlatformTypeOK, Deployments, Unborn, DepIDs
  <1>2. CASE AcceptCancelInvocation(d, j)
    <2>1. inv' \in [DepIDs -> [Jobs -> InvPhases]]
      BY <1>2 DEF AcceptCancelInvocation, PlatformTypeOK, InvPhases
    <2> QED
      BY <1>2, <2>1 DEF AcceptCancelInvocation, Kept, PlatformTypeOK, Unborn, DepIDs
  <1> QED
    BY <1>1, <1>2

LEMMA IdleKeeps ==
  ASSUME PlatformTypeOK, Unborn, UNCHANGED platformVars
  PROVE  Kept
  BY DEF platformVars, Kept, PlatformTypeOK, Unborn, DepIDs

LEMMA PlatformKeeps ==
  ASSUME PlatformTypeOK, Unborn, PlatformNext
  PROVE  Kept
  <1>0. /\ dep \in Deployments /\ inv \in [DepIDs -> [Jobs -> InvPhases]]
        /\ inProgress # 0 => inProgress \in DepIDs
        /\ pending # 0 => pending \in DepIDs
        /\ 0 \in DepRefs
    BY PlatformAssumption DEF PlatformTypeOK, Deployments, DepRefs, DepIDs
  <1>1. CASE StartDeployment
    <2>1. dep' \in Deployments /\ \A e \in DepIDs : dep'[e].spec = dep[e].spec
      BY <1>0, <1>1 DEF StartDeployment, Deployments, DepPhases
    <2> QED
      BY <1>0, <1>1, <2>1 DEF StartDeployment, Kept, PlatformTypeOK, Deployments, Unborn, DepIDs
  <1>2. ASSUME NEW j \in Jobs, StartJob(j) PROVE Kept
    <2>1. inv' \in [DepIDs -> [Jobs -> InvPhases]]
      BY <1>0, <1>2 DEF StartJob, InvPhases
    <2> QED
      BY <1>2, <2>1 DEF StartJob, Kept, PlatformTypeOK, Unborn, DepIDs
  <1>3. ASSUME NEW d \in DepIDs, NEW j \in Jobs, EndJob(d, j) PROVE Kept
    <2>1. inv' \in [DepIDs -> [Jobs -> InvPhases]]
      BY <1>0, <1>3 DEF EndJob, InvPhases
    <2> QED
      BY <1>3, <2>1 DEF EndJob, Kept, PlatformTypeOK, Unborn, DepIDs
  <1>4. CASE ActivateDeployment
    <2>1. dep' \in Deployments /\ \A e \in DepIDs : dep'[e].spec = dep[e].spec
      BY <1>0, <1>4 DEF ActivateDeployment, Deployments, DepPhases
    <2> QED
      BY <1>0, <1>4, <2>1 DEF ActivateDeployment, Kept, PlatformTypeOK, Deployments, Unborn, DepIDs
  <1>5. CASE FailDeployment
    <2>1. dep' \in Deployments /\ \A e \in DepIDs : dep'[e].spec = dep[e].spec
      BY <1>0, <1>5 DEF FailDeployment, Deployments, DepPhases
    <2>2. inv' \in [DepIDs -> [Jobs -> InvPhases]]
      <3> DEFINE skip == [i \in Jobs |-> IF inv[inProgress][i] = "none" /\ JobPresent(inProgress, i)
                                          THEN "skipped" ELSE inv[inProgress][i]]
      <3>1. skip \in [Jobs -> InvPhases]
        BY <1>0, <1>5 DEF FailDeployment, InvPhases
      <3>2. inv' = inv \/ inv' = [inv EXCEPT ![inProgress] = skip]
        BY <1>5 DEF FailDeployment
      <3> HIDE DEF skip
      <3> QED BY <1>0, <3>1, <3>2
    <2> QED
      BY <1>0, <1>5, <2>1, <2>2 DEF FailDeployment, Kept, PlatformTypeOK, Deployments, Unborn, DepIDs
  <1>6. CASE SupersedeDeployment
    <2>1. dep' \in Deployments /\ \A e \in DepIDs : dep'[e].spec = dep[e].spec
      BY <1>0, <1>6 DEF SupersedeDeployment, Deployments, DepPhases
    <2> QED
      BY <1>0, <1>6, <2>1 DEF SupersedeDeployment, Kept, PlatformTypeOK, Deployments, Unborn, DepIDs
  <1> QED
    BY <1>1, <1>2, <1>3, <1>4, <1>5, <1>6 DEF PlatformNext

-----------------------------------------------------------------------------
(* What a step must establish about handles and calls.                      *)
CallsOK ==
    /\ handle' \in [Jobs -> Meta]
    /\ call' \in [Callers -> Call]
    /\ EndsTerminal' /\ BoundDeploymentOwned'

(* Whatever is not touched stays owned.                                     *)
LEMMA Untouched ==
  ASSUME RunnerInv, Kept
  PROVE  /\ \A j \in Jobs : BindsOwn(handle[j], j, dep', lastDep')
         /\ \A p \in Callers : BindsOwn(call[p].m, call[p].j, dep', lastDep')
         /\ \A m \in Meta, j \in Jobs :
               BindsOwn(m, j, dep, lastDep) => BindsOwn(m, j, dep', lastDep')
  <1>1. \A m \in Meta, j \in Jobs :
           BindsOwn(m, j, dep, lastDep) => BindsOwn(m, j, dep', lastDep')
    <2> SUFFICES ASSUME NEW m \in Meta, NEW j \in Jobs, BindsOwn(m, j, dep, lastDep)
                 PROVE  BindsOwn(m, j, dep', lastDep')
      OBVIOUS
    <2>1. lastDep \in DepIDs /\ lastDep' \in DepIDs
      BY DEF RunnerInv, TypeOK, PlatformTypeOK, Kept
    <2> QED
      BY <2>1, OwnedPersists DEF Kept
  <1>2. /\ \A j \in Jobs : handle[j] \in Meta
        /\ \A p \in Callers : call[p].m \in Meta /\ call[p].j \in Jobs
    BY DEF RunnerInv, TypeOK, RunnerTypeOK, Call
  <1> QED
    BY <1>1, <1>2 DEF RunnerInv, BoundDeploymentOwned

LEMMA SetCall ==
  ASSUME RunnerInv, Kept, NEW p \in Callers, NEW c \in Call,
         BindsOwn(c.m, c.j, dep', lastDep'),
         c.pc \in Closing => Terminal(c.state),
         call' = [call EXCEPT ![p] = c], UNCHANGED handle
  PROVE  CallsOK
  <1>1. call' \in [Callers -> Call] /\ handle' \in [Jobs -> Meta]
    BY DEF RunnerInv, TypeOK, RunnerTypeOK
  <1>2. \A q \in Callers : call'[q] = IF q = p THEN c ELSE call[q]
    BY DEF RunnerInv, TypeOK, RunnerTypeOK
  <1>3. EndsTerminal'
    BY <1>2 DEF RunnerInv, EndsTerminal
  <1>4. BoundDeploymentOwned'
    BY <1>2, Untouched DEF BoundDeploymentOwned
  <1> QED
    BY <1>1, <1>3, <1>4 DEF CallsOK

LEMMA GotoOK ==
  ASSUME RunnerInv, Kept, NEW p \in Callers, NEW pc \in PCs,
         pc \in Closing => Terminal(call[p].state),
         Goto(p, pc), UNCHANGED handle
  PROVE  CallsOK
  <1> DEFINE c == [call[p] EXCEPT !.pc = pc]
  <1>0. call[p] \in Call
    BY DEF RunnerInv, TypeOK, RunnerTypeOK
  <1>1. c \in Call /\ c.m = call[p].m /\ c.j = call[p].j /\ c.pc = pc /\ c.state = call[p].state
    BY <1>0 DEF Call
  <1>2. call' = [call EXCEPT ![p] = c]
    BY DEF Goto
  <1>3. BindsOwn(c.m, c.j, dep', lastDep')
    BY <1>1, Untouched
  <1> HIDE DEF c
  <1> QED
    BY <1>1, <1>2, <1>3, SetCall

LEMMA IdleOwned ==
  ASSUME NEW ds, NEW n
  PROVE  BindsOwn(IdleCall.m, IdleCall.j, ds, n) /\ IdleCall.pc \notin Closing
  BY DEF BindsOwn, IdleCall, NewMeta, Closing

(* A handle that RunJob or JobStatus returns is stored.                     *)
LEMMA StoreOK ==
  ASSUME RunnerInv, Kept, NEW p \in Callers, NEW m \in Meta,
         BindsOwn(m, call[p].j, dep', lastDep'),
         call' = [call EXCEPT ![p] = IdleCall],
         handle' = [handle EXCEPT ![call[p].j] = m]
  PROVE  CallsOK
  <1>1. call' \in [Callers -> Call] /\ handle' \in [Jobs -> Meta]
    BY IdleCallType DEF RunnerInv, TypeOK, RunnerTypeOK
  <1>2. \A q \in Callers : call'[q] = IF q = p THEN IdleCall ELSE call[q]
    BY DEF RunnerInv, TypeOK, RunnerTypeOK
  <1>3. \A j \in Jobs : handle'[j] = IF j = call[p].j THEN m ELSE handle[j]
    BY DEF RunnerInv, TypeOK, RunnerTypeOK
  <1>4. EndsTerminal'
    BY <1>2, IdleOwned DEF RunnerInv, EndsTerminal
  <1>5. BoundDeploymentOwned'
    BY <1>2, <1>3, IdleOwned, Untouched DEF BoundDeploymentOwned
  <1> QED
    BY <1>1, <1>4, <1>5 DEF CallsOK

LEMMA ReturnOK ==
  ASSUME RunnerInv, Kept, NEW p \in Callers, NEW m \in Meta,
         BindsOwn(m, call[p].j, dep, lastDep), Return(p, m)
  PROVE  CallsOK
  <1>0. call[p].j \in Jobs
    BY DEF RunnerInv, TypeOK, RunnerTypeOK, Call
  <1>1. BindsOwn(m, call[p].j, dep', lastDep')
    BY <1>0, Untouched
  <1>2. CASE UNCHANGED handle
    BY <1>2, IdleOwned, IdleCallType, SetCall DEF Return
  <1>3. CASE handle' = [handle EXCEPT ![call[p].j] = m]
    BY <1>1, <1>3, StoreOK DEF Return
  <1> QED
    BY <1>2, <1>3 DEF Return

LEMMA DecideOK ==
  ASSUME RunnerInv, Kept, NEW p \in Callers, NEW m \in Meta,
         NEW found \in DepRefs, NEW state \in States,
         BindsOwn(m, call[p].j, dep, lastDep), Decide(p, m, found, state)
  PROVE  CallsOK
  <1> DEFINE c == call[p]
             Next1(pc, st) == [c EXCEPT !.pc = pc, !.m = m, !.found = found, !.state = st]
  <1>0. c \in Call /\ c.j \in Jobs
    BY DEF RunnerInv, TypeOK, RunnerTypeOK, Call
  <1>1. BindsOwn(m, c.j, dep', lastDep')
    BY <1>0, Untouched
  <1>2. ASSUME NEW pc \in PCs, NEW st \in States, Terminal(st),
               call' = [call EXCEPT ![p] = Next1(pc, st)], UNCHANGED handle
        PROVE  CallsOK
    <2> DEFINE n == Next1(pc, st)
    <2>1. n \in Call /\ n.m = m /\ n.j = c.j /\ n.state = st
      BY <1>0 DEF Call
    <2>2. call' = [call EXCEPT ![p] = n]
      BY <1>2
    <2> HIDE DEF n
    <2> QED
      BY <1>1, <1>2, <2>1, <2>2, SetCall
  <1>3. CASE Return(p, m)
    BY <1>3, ReturnOK
  <1>4. CASE ~Return(p, m)
    <2>1. \/ Terminal(state) /\ call' = [call EXCEPT ![p] = Next1("cleanup", state)] /\ UNCHANGED handle
          \/ call' = [call EXCEPT ![p] = Next1("cancel_inv", "cancelled")] /\ UNCHANGED handle
          \/ call' = [call EXCEPT ![p] = Next1("cancel_dep", "cancelled")] /\ UNCHANGED handle
      BY <1>4 DEF Decide
    <2>2. "cleanup" \in PCs /\ "cancel_inv" \in PCs /\ "cancel_dep" \in PCs
          /\ "cancelled" \in States /\ Terminal("cancelled")
      BY DEF PCs, States, Terminal
    <2> HIDE DEF Next1
    <2> QED
      BY <1>2, <2>1, <2>2
  <1> QED
    BY <1>3, <1>4

LEMMA HoldOK ==
  ASSUME RunnerInv, Kept, NEW p \in Callers, NEW m \in Meta,
         BindsOwn(m, call[p].j, dep', lastDep'), Hold(p, m)
  PROVE  CallsOK
  BY StoreOK DEF Hold

-----------------------------------------------------------------------------
(* The remaining variables keep their types.                                *)
HistoryOK ==
    /\ used' \in SUBSET Jobs /\ held' \in SUBSET Jobs /\ expired' \in SUBSET Jobs
    /\ disturbed' \in 0..MaxDisturbances
    /\ faults' \in 0..MaxFaults
    /\ reported' \in [Jobs -> SUBSET Results]
    /\ launch' \in [Jobs -> DepRefs]
    /\ stale' \in SUBSET Callers

LEMMA PartsGiveInv ==
  ASSUME Kept, CallsOK, HistoryOK
  PROVE  RunnerInv'
  BY DEF Kept, CallsOK, HistoryOK, RunnerInv, TypeOK, RunnerTypeOK

(* The facts about a caller that every step of it starts from.              *)
LEMMA CallerFacts ==
  ASSUME RunnerInv, NEW p \in Callers
  PROVE  /\ call[p] \in Call /\ call[p].j \in Jobs /\ call[p].m \in Meta
         /\ call[p].snap \in Specs /\ call[p].found \in DepRefs /\ call[p].state \in States
         /\ call[p].pc \in Closing => Terminal(call[p].state)
         /\ BindsOwn(call[p].m, call[p].j, dep, lastDep)
         /\ dep \in Deployments /\ UnbornAfter(dep, lastDep) /\ lastDep \in DepIDs
         /\ inProgress \in DepRefs /\ active \in DepRefs /\ spec \in Specs
         /\ PlatformTypeOK /\ Unborn
  <1>1. call[p] \in Call
    BY DEF RunnerInv, TypeOK, RunnerTypeOK
  <1>2. /\ call[p].j \in Jobs /\ call[p].m \in Meta
        /\ call[p].snap \in Specs /\ call[p].found \in DepRefs /\ call[p].state \in States
    BY <1>1 DEF Call
  <1> QED
    BY <1>1, <1>2 DEF RunnerInv, TypeOK, PlatformTypeOK, EndsTerminal, BoundDeploymentOwned,
                      Deployments, UnbornAfter, Unborn

(* Unchanged histories are typed.                                           *)
LEMMA HistoryStutters ==
  ASSUME RunnerInv,
         UNCHANGED <<used, held, expired, disturbed, faults, reported, launch, stale>>
  PROVE  HistoryOK
  BY DEF RunnerInv, TypeOK, RunnerTypeOK, HistoryOK

LEMMA FaultType ==
  ASSUME RunnerInv, Fault
  PROVE  faults' \in 0..MaxFaults
  BY RunnerAssumption DEF RunnerInv, TypeOK, RunnerTypeOK, Fault

LEMMA StaleType ==
  ASSUME RunnerInv, NEW p \in Callers
  PROVE  /\ (stale \cup Holding) \ {p} \in SUBSET Callers
         /\ stale \cup Holding \in SUBSET Callers
         /\ stale \ {p} \in SUBSET Callers
         /\ stale \in SUBSET Callers
  BY DEF RunnerInv, TypeOK, RunnerTypeOK, Holding

(* A clean result is a terminal state or a cancellation.                    *)
LEMMA CleanType ==
  ASSUME RunnerInv, NEW p \in Callers, Terminal(call[p].state), ReturnClean(p)
  PROVE  reported' \in [Jobs -> SUBSET Results]
  <1> DEFINE r == IF call[p].op = "cancel" THEN "cancel_ok" ELSE call[p].state
  <1>1. r \in Results
    BY DEF Results, Terminal
  <1>2. reported' = [reported EXCEPT ![call[p].j] = @ \cup {r}]
    BY DEF ReturnClean
  <1> HIDE DEF r
  <1> QED
    BY <1>1, <1>2 DEF RunnerInv, TypeOK, RunnerTypeOK

-----------------------------------------------------------------------------
(* RunJob.                                                                  *)

LEMMA RunGetStep ==
  ASSUME RunnerInv, NEW p \in Callers, NEW j \in Jobs, RunGet(p, j)
  PROVE  RunnerInv'
  <1>1. Kept
    BY CallerFacts, IdleKeeps DEF RunGet
  <1> DEFINE c == [IdleCall EXCEPT !.pc = "run_preflight", !.op = "run", !.j = j,
                                   !.m = NewMeta(spec), !.snap = spec]
  <1>2. c \in Call /\ c.m = NewMeta(spec) /\ c.pc = "run_preflight"
    BY CallerFacts, IdleCallType, NewMetaType DEF Call, PCs, Ops
  <1>3. BindsOwn(c.m, c.j, dep', lastDep') /\ c.pc \notin Closing
    <2> HIDE DEF c
    <2> QED BY <1>2 DEF BindsOwn, NewMeta, Closing
  <1>4. call' = [call EXCEPT ![p] = c] /\ UNCHANGED handle
    BY DEF RunGet
  <1>5. CallsOK
    <2> HIDE DEF c
    <2> QED BY <1>1, <1>2, <1>3, <1>4, SetCall
  <1>6. HistoryOK
    BY StaleType DEF RunGet, Fresh, HistoryOK, RunnerInv, TypeOK, RunnerTypeOK
  <1> QED
    BY <1>1, <1>5, <1>6, PartsGiveInv

LEMMA RunPreflightStep ==
  ASSUME RunnerInv, NEW p \in Callers, RunPreflight(p)
  PROVE  RunnerInv'
  <1>1. Kept
    BY CallerFacts, IdleKeeps DEF RunPreflight
  <1>2. CallsOK
    <2>1. "run_update" \in PCs /\ "run_update" \notin Closing
      BY DEF PCs, Closing
    <2> QED BY <1>1, <2>1, GotoOK DEF RunPreflight
  <1>3. HistoryOK
    BY HistoryStutters DEF RunPreflight
  <1> QED
    BY <1>1, <1>2, <1>3, PartsGiveInv

LEMMA LaunchFailedOK ==
  ASSUME RunnerInv, Kept, NEW p \in Callers, LaunchFailed(p)
  PROVE  CallsOK
  <1> DEFINE c == [call[p] EXCEPT !.pc = "run_readback", !.m = [call[p].m EXCEPT !.failed = TRUE]]
             m == [call[p].m EXCEPT !.failed = TRUE]
  <1>0. call[p] \in Call /\ call[p].m \in Meta
    BY CallerFacts
  <1>1. /\ m \in Meta /\ m.dep = call[p].m.dep /\ m.job = call[p].m.job /\ m.prior = call[p].m.prior
        /\ m.digest = call[p].m.digest /\ m.acked = call[p].m.acked
    BY <1>0 DEF Meta
  <1>2. c \in Call /\ c.m = m /\ c.j = call[p].j /\ c.pc = "run_readback"
    <2>1. c = [call[p] EXCEPT !.pc = "run_readback", !.m = m]
      OBVIOUS
    <2> HIDE DEF m
    <2> QED BY <1>0, <1>1, <2>1 DEF Call, PCs
  <1>3. BindsOwn(call[p].m, call[p].j, dep', lastDep')
    BY Untouched
  <1>4. BindsOwn(m, call[p].j, dep', lastDep')
    <2> HIDE DEF m
    <2> QED BY <1>1, <1>3 DEF BindsOwn
  <1>5. call' = [call EXCEPT ![p] = c] /\ UNCHANGED handle
    BY <1>0 DEF LaunchFailed, Call, RunnerInv, TypeOK, RunnerTypeOK
  <1>6. c.pc \notin Closing
    BY <1>2 DEF Closing
  <1> HIDE DEF c, m
  <1> QED
    BY <1>2, <1>4, <1>5, <1>6, SetCall

LEMMA RunUpdateStep ==
  ASSUME RunnerInv, NEW p \in Callers, RunUpdate(p)
  PROVE  RunnerInv'
  <1> DEFINE c == call[p]
  <1>1. LaunchSpec(c) \in Specs
    BY CallerFacts, SpecTypes DEF LaunchSpec, Forms
  <1>2. CASE AcceptUpdate(LaunchSpec(c)) /\ launch' = [launch EXCEPT ![c.j] = lastDep'] /\ Overtaken(p)
    <2>1. Kept
      BY <1>1, <1>2, CallerFacts, AcceptUpdateKeeps
    <2>2. launch' \in [Jobs -> DepRefs]
      <3>1. lastDep' \in DepRefs
        BY <2>1, PlatformAssumption DEF Kept, PlatformTypeOK, DepIDs, DepRefs
      <3>2. launch' = [launch EXCEPT ![c.j] = lastDep']
        BY <1>2
      <3> QED
        BY <3>1, <3>2 DEF RunnerInv, TypeOK, RunnerTypeOK
    <2>3. stale' \in SUBSET Callers
      BY <1>2, StaleType DEF Overtaken
    <2>4. CASE /\ Hold(p, Acknowledge(c.m, c.j, spec', dep', inProgress', active'))
               /\ UNCHANGED faults
      <3> DEFINE a == Acknowledge(c.m, c.j, spec', dep', inProgress', active')
      <3>1. BindsOwn(c.m, c.j, dep', lastDep') /\ c.m \in Meta /\ c.j \in Jobs
        BY <2>1, Untouched, CallerFacts
      <3>2. /\ dep' \in Deployments /\ UnbornAfter(dep', lastDep') /\ lastDep' \in DepIDs
            /\ spec' \in Specs /\ inProgress' \in DepRefs /\ active' \in DepRefs
        BY <2>1 DEF Kept, PlatformTypeOK, Deployments, Unborn, UnbornAfter
      <3>3. a \in Meta /\ BindsOwn(a, c.j, dep', lastDep')
        BY <3>1, <3>2, AcknowledgeOwned
      <3>4. CallsOK
        <4> HIDE DEF a
        <4> QED BY <2>1, <3>3, HoldOK, <2>4 DEF a
      <3>5. HistoryOK
        BY <2>2, <2>3, <2>4, CallerFacts DEF RunUpdate, Hold, HistoryOK, RunnerInv, TypeOK, RunnerTypeOK
      <3> QED
        BY <2>1, <3>4, <3>5, PartsGiveInv
    <2>5. CASE LaunchFailed(p)
      <3>1. CallsOK
        BY <2>1, <2>5, LaunchFailedOK
      <3>2. faults' \in 0..MaxFaults
        BY <2>5, FaultType DEF LaunchFailed
      <3>3. HistoryOK
        BY <2>2, <2>3, <2>5, <3>2 DEF RunUpdate, LaunchFailed, HistoryOK, RunnerInv, TypeOK, RunnerTypeOK
      <3> QED
        BY <2>1, <3>1, <3>3, PartsGiveInv
    <2> QED
      BY <1>2, <2>4, <2>5 DEF RunUpdate, LaunchFailed
  <1>3. CASE LaunchFailed(p) /\ Fresh(p) /\ UNCHANGED <<platformVars, launch>>
    <2>1. Kept
      BY <1>3, CallerFacts, IdleKeeps
    <2>2. CallsOK
      BY <1>3, <2>1, LaunchFailedOK
    <2>3. faults' \in 0..MaxFaults /\ stale' \in SUBSET Callers
      BY <1>3, FaultType, StaleType DEF LaunchFailed, Fresh
    <2>4. HistoryOK
      BY <1>3, <2>3 DEF RunUpdate, LaunchFailed, HistoryOK, RunnerInv, TypeOK, RunnerTypeOK
    <2> QED
      BY <2>1, <2>2, <2>4, PartsGiveInv
  <1> QED
    BY <1>2, <1>3 DEF RunUpdate

LEMMA RunReadbackStep ==
  ASSUME RunnerInv, NEW p \in Callers, RunReadback(p)
  PROVE  RunnerInv'
  <1> DEFINE c == call[p]
             a == Acknowledge(c.m, c.j, spec, dep, inProgress, active)
  <1>1. Kept
    BY CallerFacts, IdleKeeps DEF RunReadback
  <1>2. a \in Meta /\ BindsOwn(a, c.j, dep, lastDep)
    BY CallerFacts, AcknowledgeOwned
  <1>3. PICK m \in {a, c.m} : Hold(p, m) /\ (UNCHANGED faults \/ Fault)
    BY DEF RunReadback
  <1>4. m \in Meta /\ BindsOwn(m, c.j, dep, lastDep) /\ c.j \in Jobs
    <2> HIDE DEF a
    <2> QED BY <1>2, <1>3, CallerFacts
  <1>5. BindsOwn(m, c.j, dep', lastDep')
    BY <1>1, <1>4, Untouched
  <1>6. CallsOK
    <2> HIDE DEF a
    <2> QED BY <1>1, <1>3, <1>4, <1>5, HoldOK
  <1>7. faults' \in 0..MaxFaults
    BY <1>3, FaultType DEF RunnerInv, TypeOK, RunnerTypeOK
  <1>8. HistoryOK
    BY <1>3, <1>4, <1>7 DEF RunReadback, Hold, HistoryOK, RunnerInv, TypeOK, RunnerTypeOK
  <1> QED
    BY <1>1, <1>6, <1>8, PartsGiveInv

-----------------------------------------------------------------------------
(* JobStatus and CancelJob.                                                 *)

LEMMA BeginStep ==
  ASSUME RunnerInv, NEW p \in Callers, NEW j \in Jobs, NEW op \in {"status", "cancel"}, Begin(p, j, op)
  PROVE  RunnerInv'
  <1>1. Kept
    BY CallerFacts, IdleKeeps DEF Begin
  <1> DEFINE pc == IF handle[j].dep = 0 THEN "recover" ELSE "invocation"
             c == [IdleCall EXCEPT !.pc = pc, !.op = op, !.j = j, !.m = handle[j]]
  <1>2. pc \in PCs /\ pc \notin Closing /\ handle[j] \in Meta
    BY DEF PCs, Closing, RunnerInv, TypeOK, RunnerTypeOK
  <1>3. c \in Call /\ c.m = handle[j] /\ c.j = j /\ c.pc = pc
    <2> HIDE DEF pc
    <2> QED BY <1>2, IdleCallType DEF Call, Ops
  <1>4. BindsOwn(c.m, c.j, dep', lastDep')
    BY <1>1, <1>3, Untouched
  <1>5. call' = [call EXCEPT ![p] = c] /\ UNCHANGED handle
    BY DEF Begin
  <1>6. CallsOK
    <2> HIDE DEF c, pc
    <2> QED BY <1>1, <1>2, <1>3, <1>4, <1>5, SetCall
  <1>7. HistoryOK
    BY HistoryStutters DEF Begin
  <1> QED
    BY <1>1, <1>6, <1>7, PartsGiveInv

(* A step that replaces the metadata and moves on, to a pc that does not    *)
(* stop the job yet.                                                        *)
LEMMA RebindOK ==
  ASSUME RunnerInv, Kept, NEW p \in Callers, NEW m \in Meta, NEW pc \in PCs, pc \notin Closing,
         BindsOwn(m, call[p].j, dep, lastDep),
         call' = [call EXCEPT ![p].m = m, ![p].pc = pc], UNCHANGED handle
  PROVE  CallsOK
  <1> DEFINE c == [call[p] EXCEPT !.m = m, !.pc = pc]
  <1>0. call[p] \in Call /\ call[p].j \in Jobs
    BY CallerFacts
  <1>1. c \in Call /\ c.m = m /\ c.j = call[p].j /\ c.pc = pc
    BY <1>0 DEF Call
  <1>2. call' = [call EXCEPT ![p] = c]
    BY <1>0 DEF Call, RunnerInv, TypeOK, RunnerTypeOK
  <1>3. BindsOwn(c.m, c.j, dep', lastDep')
    BY <1>0, <1>1, Untouched
  <1> HIDE DEF c
  <1> QED
    BY <1>1, <1>2, <1>3, SetCall

LEMMA RecoverStep ==
  ASSUME RunnerInv, NEW p \in Callers, Recover(p)
  PROVE  RunnerInv'
  <1> DEFINE c == call[p]
             m == BindHint(c.m, c.j, dep, inProgress, active)
             pc == IF m.dep = 0 /\ spec = m.prior THEN "historical" ELSE "invocation"
  <1>1. Kept
    BY CallerFacts, IdleKeeps DEF Recover
  <1>2. m \in Meta /\ BindsOwn(m, c.j, dep, lastDep)
    BY CallerFacts, BindHintOwned
  <1>3. pc \in PCs /\ pc \notin Closing
    <2> HIDE DEF m
    <2> QED BY DEF PCs, Closing
  <1>4. call' = [call EXCEPT ![p].m = m, ![p].pc = pc] /\ UNCHANGED handle
    BY DEF Recover
  <1>5. CallsOK
    <2> HIDE DEF m, pc
    <2> QED BY <1>1, <1>2, <1>3, <1>4, RebindOK
  <1>6. HistoryOK
    BY HistoryStutters DEF Recover
  <1> QED
    BY <1>1, <1>5, <1>6, PartsGiveInv

LEMMA HistoricalStep ==
  ASSUME RunnerInv, NEW p \in Callers, Historical(p)
  PROVE  RunnerInv'
  <1> DEFINE c == call[p]
  <1>0. "invocation" \in PCs /\ "invocation" \notin Closing
    BY DEF PCs, Closing
  <1>1. Kept
    BY CallerFacts, IdleKeeps DEF Historical
  <1>2. ASSUME Goto(p, "invocation"), UNCHANGED handle PROVE CallsOK
    BY <1>0, <1>1, <1>2, GotoOK
  <1>3. ASSUME NEW d \in 1..lastDep, Binds(c.m, c.j, dep, d),
               call' = [call EXCEPT ![p].m = Bound(c.m, c.j, dep, d), ![p].pc = "invocation"],
               UNCHANGED handle
        PROVE  CallsOK
    <2> DEFINE m == Bound(c.m, c.j, dep, d)
    <2>1. d \in DepRefs
      BY CallerFacts, PlatformAssumption DEF DepRefs, DepIDs
    <2>2. c.m.job \in {0, c.m.dep}
      BY CallerFacts DEF BindsOwn
    <2>3. m \in Meta /\ BindsOwn(m, c.j, dep, lastDep)
      BY <1>3, <2>1, <2>2, CallerFacts, BoundIsOwned
    <2>4. call' = [call EXCEPT ![p].m = m, ![p].pc = "invocation"]
      BY <1>3
    <2> HIDE DEF m
    <2> QED
      BY <1>0, <1>1, <1>3, <2>3, <2>4, RebindOK
  <1>4. ASSUME Return(p, c.m) PROVE CallsOK
    BY <1>1, <1>4, ReturnOK, CallerFacts
  <1>5. CallsOK
    BY <1>2, <1>3, <1>4 DEF Historical
  <1>6. HistoryOK
    BY HistoryStutters DEF Historical
  <1> QED
    BY <1>1, <1>5, <1>6, PartsGiveInv

LEMMA InvocationStep ==
  ASSUME RunnerInv, NEW p \in Callers, Invocation(p)
  PROVE  RunnerInv'
  <1> DEFINE c == call[p]
  <1>0. /\ "status_dep" \in PCs /\ "status_dep" \notin Closing
        /\ "status_launch" \in PCs /\ "status_launch" \notin Closing
        /\ "pending" \in States /\ 0 \in DepRefs
    BY PlatformAssumption DEF PCs, Closing, States, DepRefs
  <1>1. Kept
    BY CallerFacts, IdleKeeps DEF Invocation
  <1>2. ASSUME NEW pc \in {"status_dep", "status_launch"}, Goto(p, pc), UNCHANGED handle PROVE CallsOK
    BY <1>0, <1>1, <1>2, GotoOK
  <1>3. ASSUME Decide(p, c.m, 0, "pending") PROVE CallsOK
    BY <1>0, <1>1, <1>3, DecideOK, CallerFacts
  <1>4. ASSUME Return(p, c.m) PROVE CallsOK
    BY <1>1, <1>4, ReturnOK, CallerFacts
  <1>5. ASSUME NEW d \in Invocations(c), InvocationBinds(c, d),
               LET m == IF c.m.dep = 0 THEN Bound(c.m, c.j, dep, d) ELSE c.m
               IN  Decide(p, [m EXCEPT !.job = d], d, StateOf(inv[d][c.j]))
        PROVE  CallsOK
    <2> DEFINE m == IF c.m.dep = 0 THEN Bound(c.m, c.j, dep, d) ELSE c.m
               k == [m EXCEPT !.job = d]
    <2>1. c.m \in Meta /\ c.m.job \in {0, c.m.dep} /\ c.m.job \in DepRefs
      BY CallerFacts DEF BindsOwn, Meta
    <2>2. d \in DepRefs
      BY <1>5, <2>1, PlatformAssumption DEF Invocations, DepIDs, DepRefs
    <2>3. m \in Meta /\ BindsOwn(m, c.j, dep, lastDep) /\ m.dep = d
      <3>1. CASE c.m.dep = 0
        <4>1. Binds(c.m, c.j, dep, d)
          BY <1>5, <3>1 DEF InvocationBinds
        <4> QED
          BY <3>1, <4>1, <2>1, <2>2, CallerFacts, BoundIsOwned
      <3>2. CASE c.m.dep # 0
        BY <1>5, <3>2, CallerFacts DEF InvocationBinds
      <3> QED BY <3>1, <3>2
    <2>4. /\ k \in Meta /\ k.dep = m.dep /\ k.job = d /\ k.prior = m.prior
          /\ k.digest = m.digest /\ k.acked = m.acked
      <3> HIDE DEF m
      <3> QED BY <2>2, <2>3 DEF Meta
    <2>5. BindsOwn(k, c.j, dep, lastDep)
      <3> HIDE DEF m, k
      <3> QED BY <2>3, <2>4 DEF BindsOwn
    <2>6. StateOf(inv[d][c.j]) \in States
      BY DEF StateOf, States
    <2>7. Decide(p, k, d, StateOf(inv[d][c.j]))
      BY <1>5
    <2> HIDE DEF m, k
    <2> QED
      BY <1>1, <2>2, <2>4, <2>5, <2>6, <2>7, DecideOK
  <1>6. CallsOK
    BY <1>2, <1>3, <1>4, <1>5 DEF Invocation
  <1>7. HistoryOK
    BY HistoryStutters DEF Invocation
  <1> QED
    BY <1>1, <1>6, <1>7, PartsGiveInv

LEMMA StatusDeploymentStep ==
  ASSUME RunnerInv, NEW p \in Callers, StatusDeployment(p)
  PROVE  RunnerInv'
  <1> DEFINE c == call[p]
             phase == dep[c.m.dep].phase
             state == IF phase = "error" THEN "failed"
                      ELSE IF phase = "canceled" THEN "cancelled" ELSE "pending"
  <1>0. state \in States /\ 0 \in DepRefs
    BY PlatformAssumption DEF States, DepRefs
  <1>1. Kept
    BY CallerFacts, IdleKeeps DEF StatusDeployment
  <1>2. Decide(p, c.m, 0, state) \/ Return(p, c.m)
    BY DEF StatusDeployment
  <1>3. CallsOK
    <2> HIDE DEF state
    <2> QED BY <1>0, <1>1, <1>2, DecideOK, ReturnOK, CallerFacts
  <1>4. HistoryOK
    BY HistoryStutters DEF StatusDeployment
  <1> QED
    BY <1>1, <1>3, <1>4, PartsGiveInv

LEMMA StatusLaunchStep ==
  ASSUME RunnerInv, NEW p \in Callers, StatusLaunch(p)
  PROVE  RunnerInv'
  <1> DEFINE c == call[p]
             state == IF spec.jobs[c.j] = "absent" THEN "failed" ELSE "pending"
  <1>0. state \in States /\ 0 \in DepRefs
    BY PlatformAssumption DEF States, DepRefs
  <1>1. Kept
    BY CallerFacts, IdleKeeps DEF StatusLaunch
  <1>2. Decide(p, c.m, 0, state)
    BY DEF StatusLaunch
  <1>3. CallsOK
    <2> HIDE DEF state
    <2> QED BY <1>0, <1>1, <1>2, DecideOK, CallerFacts
  <1>4. HistoryOK
    BY HistoryStutters DEF StatusLaunch
  <1> QED
    BY <1>1, <1>3, <1>4, PartsGiveInv

-----------------------------------------------------------------------------
(* cancelInvocation and cleanup.                                            *)

LEMMA ClosingFacts ==
  ASSUME RunnerInv, NEW p \in Callers, call[p].pc \in Closing
  PROVE  /\ Terminal(call[p].state)
         /\ Closing \subseteq PCs
  BY CallerFacts DEF Closing, PCs

LEMMA CancelDeploymentStep ==
  ASSUME RunnerInv, NEW p \in Callers, CancelDeployment(p)
  PROVE  RunnerInv'
  <1> DEFINE c == call[p]
  <1>0. c.pc \in Closing /\ "cleanup" \in Closing /\ "cancel_dep_send" \in Closing
    BY DEF CancelDeployment, At, Closing
  <1>1. Kept
    BY CallerFacts, IdleKeeps DEF CancelDeployment
  <1>2. \/ Return(p, c.m)
        \/ \E pc \in {"cleanup", "cancel_dep_send"} : Goto(p, pc) /\ UNCHANGED handle
    BY DEF CancelDeployment
  <1>3. CallsOK
    BY <1>0, <1>1, <1>2, ReturnOK, GotoOK, CallerFacts, ClosingFacts
  <1>4. HistoryOK
    BY HistoryStutters DEF CancelDeployment
  <1> QED
    BY <1>1, <1>3, <1>4, PartsGiveInv

LEMMA CancelDeploymentSendStep ==
  ASSUME RunnerInv, NEW p \in Callers, CancelDeploymentSend(p)
  PROVE  RunnerInv'
  <1> DEFINE c == call[p]
  <1>0. c.pc \in Closing /\ "cancel_dep_readback" \in Closing
    BY DEF CancelDeploymentSend, At, Closing
  <1>1. Kept
    BY CallerFacts, IdleKeeps, CancelKeeps DEF CancelDeploymentSend
  <1>2. \/ Return(p, c.m) /\ Fault
        \/ Goto(p, "cancel_dep_readback") /\ UNCHANGED <<handle, faults>>
    BY DEF CancelDeploymentSend
  <1>3. CallsOK
    BY <1>0, <1>1, <1>2, ReturnOK, GotoOK, CallerFacts, ClosingFacts
  <1>4. faults' \in 0..MaxFaults
    BY <1>2, FaultType DEF RunnerInv, TypeOK, RunnerTypeOK
  <1>5. HistoryOK
    BY <1>4 DEF CancelDeploymentSend, HistoryOK, RunnerInv, TypeOK, RunnerTypeOK
  <1> QED
    BY <1>1, <1>3, <1>5, PartsGiveInv

LEMMA CancelDeploymentReadbackStep ==
  ASSUME RunnerInv, NEW p \in Callers, CancelDeploymentReadback(p)
  PROVE  RunnerInv'
  <1> DEFINE c == call[p]
  <1>0. c.pc \in Closing /\ "cleanup" \in Closing
    BY DEF CancelDeploymentReadback, At, Closing
  <1>1. Kept
    BY CallerFacts, IdleKeeps DEF CancelDeploymentReadback
  <1>2. Return(p, c.m) \/ (Goto(p, "cleanup") /\ UNCHANGED handle)
    BY DEF CancelDeploymentReadback
  <1>3. CallsOK
    BY <1>0, <1>1, <1>2, ReturnOK, GotoOK, CallerFacts, ClosingFacts
  <1>4. HistoryOK
    BY HistoryStutters DEF CancelDeploymentReadback
  <1> QED
    BY <1>1, <1>3, <1>4, PartsGiveInv

LEMMA CancelInvocationStep ==
  ASSUME RunnerInv, NEW p \in Callers, CancelInvocation(p)
  PROVE  RunnerInv'
  <1> DEFINE c == call[p]
  <1>0. c.pc \in Closing /\ "cancel_inv_readback" \in Closing
    BY DEF CancelInvocation, At, Closing
  <1>1. Kept
    BY CallerFacts, IdleKeeps, CancelKeeps DEF CancelInvocation
  <1>2. \/ Return(p, c.m) /\ (Fault \/ UNCHANGED faults)
        \/ Goto(p, "cancel_inv_readback") /\ UNCHANGED <<handle, faults>>
    BY DEF CancelInvocation
  <1>3. CallsOK
    BY <1>0, <1>1, <1>2, ReturnOK, GotoOK, CallerFacts, ClosingFacts
  <1>4. faults' \in 0..MaxFaults
    BY <1>2, FaultType DEF RunnerInv, TypeOK, RunnerTypeOK
  <1>5. HistoryOK
    BY <1>4 DEF CancelInvocation, HistoryOK, RunnerInv, TypeOK, RunnerTypeOK
  <1> QED
    BY <1>1, <1>3, <1>5, PartsGiveInv

LEMMA CancelInvocationReadbackStep ==
  ASSUME RunnerInv, NEW p \in Callers, CancelInvocationReadback(p)
  PROVE  RunnerInv'
  <1> DEFINE c == call[p]
  <1>0. c.pc \in Closing /\ "cleanup" \in Closing
    BY DEF CancelInvocationReadback, At, Closing
  <1>1. Kept
    BY CallerFacts, IdleKeeps DEF CancelInvocationReadback
  <1>2. Return(p, c.m) \/ (Goto(p, "cleanup") /\ UNCHANGED handle)
    BY DEF CancelInvocationReadback
  <1>3. CallsOK
    BY <1>0, <1>1, <1>2, ReturnOK, GotoOK, CallerFacts, ClosingFacts
  <1>4. HistoryOK
    BY HistoryStutters DEF CancelInvocationReadback
  <1> QED
    BY <1>1, <1>3, <1>4, PartsGiveInv

LEMMA CleanupStep ==
  ASSUME RunnerInv, NEW p \in Callers, Cleanup(p)
  PROVE  RunnerInv'
  <1> DEFINE c == call[p]
             s == Without(spec, c.j)
             k == [c EXCEPT !.pc = "cleanup_update", !.snap = s]
  <1>0. c.pc \in Closing /\ c \in Call /\ s \in Specs /\ Terminal(c.state)
    BY CallerFacts, SpecTypes, ClosingFacts DEF Cleanup, At, Closing, Forms
  <1>1. Kept
    BY CallerFacts, IdleKeeps DEF Cleanup
  <1>2. \/ Return(p, c.m) /\ UNCHANGED reported
        \/ ReturnClean(p)
        \/ /\ call' = [call EXCEPT ![p].pc = "cleanup_update", ![p].snap = s]
           /\ UNCHANGED <<handle, reported>>
    BY DEF Cleanup
  <1>3. CASE call' = [call EXCEPT ![p].pc = "cleanup_update", ![p].snap = s] /\ UNCHANGED <<handle, reported>>
    <2>1. k \in Call /\ k.m = c.m /\ k.j = c.j /\ k.state = c.state
      <3> HIDE DEF s
      <3> QED BY <1>0 DEF Call, PCs
    <2>2. call' = [call EXCEPT ![p] = k] /\ UNCHANGED handle
      <3> HIDE DEF s
      <3> QED BY <1>0, <1>3 DEF Call, RunnerInv, TypeOK, RunnerTypeOK
    <2>3. BindsOwn(k.m, k.j, dep', lastDep')
      BY <1>1, <2>1, Untouched
    <2>4. CallsOK
      <3> HIDE DEF k
      <3> QED BY <1>0, <1>1, <2>1, <2>2, <2>3, SetCall
    <2>5. HistoryOK
      BY <1>3, StaleType DEF Cleanup, Fresh, HistoryOK, RunnerInv, TypeOK, RunnerTypeOK
    <2> QED
      BY <1>1, <2>4, <2>5, PartsGiveInv
  <1>4. CASE (Return(p, c.m) /\ UNCHANGED reported) \/ ReturnClean(p)
    <2>1. CallsOK
      BY <1>1, <1>4, ReturnOK, CallerFacts DEF ReturnClean
    <2>2. reported' \in [Jobs -> SUBSET Results]
      BY <1>0, <1>4, CleanType DEF RunnerInv, TypeOK, RunnerTypeOK
    <2>3. HistoryOK
      BY <2>2, StaleType DEF Cleanup, Fresh, HistoryOK, RunnerInv, TypeOK, RunnerTypeOK
    <2> QED
      BY <1>1, <2>1, <2>3, PartsGiveInv
  <1> QED
    BY <1>2, <1>3, <1>4

LEMMA CleanupUpdateStep ==
  ASSUME RunnerInv, NEW p \in Callers, CleanupUpdate(p)
  PROVE  RunnerInv'
  <1>0. call[p].pc \in Closing /\ "cleanup_readback" \in Closing
    BY DEF CleanupUpdate, At, Closing
  <1>1. Kept
    BY CallerFacts, IdleKeeps, AcceptUpdateKeeps DEF CleanupUpdate
  <1>2. CallsOK
    BY <1>0, <1>1, GotoOK, ClosingFacts DEF CleanupUpdate
  <1>3. faults' \in 0..MaxFaults /\ stale' \in SUBSET Callers
    BY FaultType, StaleType DEF CleanupUpdate, Overtaken, Fresh, RunnerInv, TypeOK, RunnerTypeOK
  <1>4. HistoryOK
    BY <1>3 DEF CleanupUpdate, HistoryOK, RunnerInv, TypeOK, RunnerTypeOK
  <1> QED
    BY <1>1, <1>2, <1>4, PartsGiveInv

LEMMA CleanupReadbackStep ==
  ASSUME RunnerInv, NEW p \in Callers, CleanupReadback(p)
  PROVE  RunnerInv'
  <1> DEFINE c == call[p]
  <1>0. Terminal(c.state)
    BY ClosingFacts DEF CleanupReadback, At, Closing
  <1>1. Kept
    BY CallerFacts, IdleKeeps DEF CleanupReadback
  <1>2. (Return(p, c.m) /\ UNCHANGED reported) \/ ReturnClean(p)
    BY DEF CleanupReadback
  <1>3. CallsOK
    BY <1>1, <1>2, ReturnOK, CallerFacts DEF ReturnClean
  <1>4. reported' \in [Jobs -> SUBSET Results]
    BY <1>0, <1>2, CleanType DEF RunnerInv, TypeOK, RunnerTypeOK
  <1>5. HistoryOK
    BY <1>4 DEF CleanupReadback, HistoryOK, RunnerInv, TypeOK, RunnerTypeOK
  <1> QED
    BY <1>1, <1>3, <1>5, PartsGiveInv

-----------------------------------------------------------------------------
(* Failures, other writers, time and the platform.                          *)

LEMMA ReadErrorStep ==
  ASSUME RunnerInv, NEW p \in Callers, ReadError(p)
  PROVE  RunnerInv'
  <1>1. Kept
    BY CallerFacts, IdleKeeps DEF ReadError
  <1>2. CallsOK
    BY <1>1, ReturnOK, CallerFacts DEF ReadError
  <1>3. faults' \in 0..MaxFaults /\ stale' \in SUBSET Callers
    BY FaultType, StaleType DEF ReadError, Fresh
  <1>4. HistoryOK
    BY <1>3 DEF ReadError, HistoryOK, RunnerInv, TypeOK, RunnerTypeOK
  <1> QED
    BY <1>1, <1>2, <1>4, PartsGiveInv

LEMMA DisturbType ==
  ASSUME RunnerInv, NEW kind, Disturb(kind), stale' \in SUBSET Callers
  PROVE  HistoryOK /\ UNCHANGED handle
  <1>1. disturbed' \in 0..MaxDisturbances
    BY RunnerAssumption DEF RunnerInv, TypeOK, RunnerTypeOK, Disturb
  <1> QED
    BY <1>1 DEF RunnerInv, TypeOK, RunnerTypeOK, Disturb, HistoryOK

LEMMA CrashStep ==
  ASSUME RunnerInv, NEW p \in Callers, Crash(p)
  PROVE  RunnerInv'
  <1>1. Kept
    BY CallerFacts, IdleKeeps DEF Crash
  <1>2. HistoryOK /\ UNCHANGED handle
    BY DisturbType, StaleType DEF Crash, Fresh
  <1>3. CallsOK
    BY <1>1, <1>2, IdleOwned, IdleCallType, SetCall DEF Crash
  <1> QED
    BY <1>1, <1>2, <1>3, PartsGiveInv

(* Steps that touch neither handles nor calls.                              *)
LEMMA CallsStutter ==
  ASSUME RunnerInv, Kept, UNCHANGED <<handle, call>>
  PROVE  CallsOK
  <1>1. EndsTerminal'
    BY DEF RunnerInv, EndsTerminal
  <1>2. BoundDeploymentOwned'
    BY Untouched DEF BoundDeploymentOwned
  <1> QED
    BY <1>1, <1>2 DEF CallsOK, RunnerInv, TypeOK, RunnerTypeOK

LEMMA ForeignStep ==
  ASSUME RunnerInv, NEW kind, NEW s \in Specs, Foreign(kind, s)
  PROVE  RunnerInv'
  <1>1. Kept
    BY AcceptUpdateKeeps DEF Foreign, RunnerInv, TypeOK
  <1>2. stale' \in SUBSET Callers
    BY DEF Foreign, Holding, RunnerInv, TypeOK, RunnerTypeOK
  <1>3. HistoryOK /\ UNCHANGED handle
    BY <1>2, DisturbType DEF Foreign
  <1>4. CallsOK
    BY <1>1, <1>3, CallsStutter DEF Foreign
  <1> QED
    BY <1>1, <1>3, <1>4, PartsGiveInv

LEMMA ForeignSteps ==
  ASSUME RunnerInv, ForeignBase \/ ForeignApply \/ ForeignRedeploy \/ ForeignEdit
  PROVE  RunnerInv'
  <1>0. spec \in Specs
    BY DEF RunnerInv, TypeOK, PlatformTypeOK
  <1>1. \A b \in Bases : [spec EXCEPT !.base = b] \in Specs
    BY <1>0 DEF Specs
  <1>2. [spec EXCEPT !.jobs = [j \in Jobs |-> "absent"]] \in Specs
    BY <1>0 DEF Specs, Forms
  <1>3. \A j \in Jobs : [spec EXCEPT !.jobs[j] = "edited"] \in Specs
    BY <1>0 DEF Specs, Forms
  <1> QED
    BY <1>0, <1>1, <1>2, <1>3, ForeignStep DEF ForeignBase, ForeignApply, ForeignRedeploy, ForeignEdit

LEMMA OutsideStep ==
  ASSUME RunnerInv, (\E j \in Jobs : Tick(j)) \/ Platform \/ UNCHANGED vars
  PROVE  RunnerInv'
  <1>0. PlatformTypeOK /\ Unborn
    BY DEF RunnerInv, TypeOK
  <1>1. ASSUME NEW j \in Jobs, Tick(j) PROVE RunnerInv'
    <2>1. Kept
      BY <1>0, <1>1, IdleKeeps DEF Tick
    <2>2. HistoryOK
      BY <1>1 DEF Tick, HistoryOK, RunnerInv, TypeOK, RunnerTypeOK
    <2> QED
      BY <1>1, <2>1, <2>2, CallsStutter, PartsGiveInv DEF Tick
  <1>2. CASE Platform
    <2>1. Kept
      BY <1>0, <1>2, PlatformKeeps DEF Platform
    <2> QED
      BY <1>2, <2>1, CallsStutter, HistoryStutters, PartsGiveInv DEF Platform, runnerVars
  <1>3. CASE UNCHANGED vars
    <2>1. Kept
      BY <1>0, <1>3, IdleKeeps DEF vars
    <2> QED
      BY <1>3, <2>1, CallsStutter, HistoryStutters, PartsGiveInv DEF vars, runnerVars
  <1> QED
    BY <1>1, <1>2, <1>3

-----------------------------------------------------------------------------

LEMMA InitInv == Init => RunnerInv
  <1> SUFFICES ASSUME Init PROVE RunnerInv
    OBVIOUS
  <1>0. FirstSpec \in Specs /\ NewMeta(FirstSpec) \in Meta
    BY FirstSpecType, NewMetaType
  <1>1. PlatformTypeOK
    BY <1>0, PlatformAssumption
    DEF Init, PlatformInit, PlatformTypeOK, DepIDs, DepRefs, DepPhases, InvPhases
  <1>2. RunnerTypeOK
    BY <1>0, IdleCallType, PlatformAssumption, RunnerAssumption DEF Init, RunnerTypeOK, DepRefs
  <1>3. Unborn
    BY DEF Init, PlatformInit, Unborn
  <1>4. EndsTerminal
    BY IdleOwned DEF Init, EndsTerminal
  <1>5. BoundDeploymentOwned
    <2>1. \A j \in Jobs : BindsOwn(handle[j], j, dep, lastDep)
      BY DEF Init, BindsOwn, NewMeta
    <2>2. \A p \in Callers : BindsOwn(call[p].m, call[p].j, dep, lastDep)
      BY IdleOwned DEF Init
    <2> QED BY <2>1, <2>2 DEF BoundDeploymentOwned
  <1> QED
    BY <1>1, <1>2, <1>3, <1>4, <1>5 DEF RunnerInv, TypeOK

LEMMA StepInv ==
  ASSUME RunnerInv, NEW p \in Callers, Step(p)
  PROVE  RunnerInv'
  BY RunPreflightStep, RunUpdateStep, RunReadbackStep, RecoverStep, HistoricalStep, InvocationStep,
     StatusDeploymentStep, StatusLaunchStep, CancelDeploymentStep, CancelDeploymentSendStep,
     CancelDeploymentReadbackStep, CancelInvocationStep, CancelInvocationReadbackStep,
     CleanupStep, CleanupUpdateStep, CleanupReadbackStep
  DEF Step

LEMMA NextInv == RunnerInv /\ [Next]_vars => RunnerInv'
  <1> SUFFICES ASSUME RunnerInv, [Next]_vars PROVE RunnerInv'
    OBVIOUS
  <1>1. ASSUME NEW p \in Callers, Step(p) \/ ReadError(p) \/ Crash(p) PROVE RunnerInv'
    BY <1>1, StepInv, ReadErrorStep, CrashStep
  <1>2. ASSUME NEW p \in Callers, NEW j \in Jobs, RunGet(p, j) \/ BeginStatus(p, j) \/ BeginCancel(p, j)
        PROVE  RunnerInv'
    BY <1>2, RunGetStep, BeginStep DEF BeginStatus, BeginCancel
  <1> QED
    BY <1>1, <1>2, ForeignSteps, OutsideStep DEF Next

(* RunnerInv is inductive: it holds in every reachable state of the runner. *)
THEOREM RunnerInvariant == Spec => []RunnerInv
  BY InitInv, NextInv, PTL DEF Spec

(* The app, the handles and the calls of RunJob, JobStatus and CancelJob    *)
(* keep their shape.                                                        *)
THEOREM RunnerTypes == Spec => []TypeOK
  <1>1. RunnerInv => TypeOK
    BY DEF RunnerInv
  <1> QED
    BY <1>1, RunnerInvariant, PTL

(* A handle of the runner never names a deployment or an invocation that is *)
(* not the job's own, whatever other writers, lost answers and crashes do   *)
(* (bindAppJobDeployment, bindAppJobInvocation).                            *)
THEOREM RunnerOwnership == Spec => []BoundDeploymentOwned
  <1>1. RunnerInv => BoundDeploymentOwned
    BY DEF RunnerInv
  <1> QED
    BY <1>1, RunnerInvariant, PTL

-----------------------------------------------------------------------------
(* What the runner writes.  RunJob and cleanup replace the whole app spec   *)
(* by one they built from an earlier read, so that only the component is    *)
(* touched rests on that read still being current (a caller that is not     *)
(* stale), on the live spec being as the service stores it, and on digests  *)
(* being those of a component with the submitted intent.                    *)

RunPCs == {"run_preflight", "run_update", "run_readback"}

ReadsCurrent ==
    \A p \in Callers \ stale :
        /\ call[p].pc \in {"run_preflight", "run_update"} =>
              call[p].snap = spec /\ spec.jobs[call[p].j] = "absent"
        /\ call[p].pc = "cleanup_update" =>
              call[p].snap = Without(spec, call[p].j) /\ spec.jobs[call[p].j] # "edited"

SpecStored == Encrypts => \A j \in Jobs : spec.jobs[j] # "plain"

DigestsIntent ==
    /\ \A j \in Jobs : HasIntent(handle[j].digest)
    /\ \A p \in Callers : HasIntent(call[p].m.digest)

WriteInv == ReadsCurrent /\ SpecStored /\ DigestsIntent

(* The debt of a launch: until the host has the job's handle, or the RunJob *)
(* that will return it is past its Update, the component is in no spec, no  *)
(* deployment and no snapshot somebody may still write.                     *)
Accounted(j) ==
    \/ j \in held
    \/ \E p \in Callers : call[p].pc = "run_readback" /\ call[p].j = j

DebtInv ==
    /\ \A p \in Callers : call[p].pc \in RunPCs => call[p].op = "run"
    /\ \A j \in Jobs : ~Accounted(j) =>
          /\ spec.jobs[j] = "absent"
          /\ \A d \in DepIDs : dep[d].spec.jobs[j] = "absent"
          /\ \A p \in Callers : call[p].snap.jobs[j] = "absent"

(* What most steps do: they write no spec, take no component out of sight   *)
(* and prepare no write.                                                    *)
SameSpecs == spec' = spec /\ \A d \in DepIDs : dep'[d].spec = dep[d].spec

Calm(p) ==
    /\ \A q \in Callers \ {p} : call'[q] = call[q]
    /\ call'[p].pc \notin RunPCs \cup {"cleanup_update"}
    /\ call'[p].snap \in {call[p].snap, FirstSpec}
    /\ DigestsIntent'

Quiet(p) ==
    /\ SameSpecs
    /\ held \subseteq held'
    /\ stale \ {p} \subseteq stale'
    /\ Calm(p)

LEMMA QuietWrites ==
  ASSUME WriteInv, NEW p \in Callers, Quiet(p)
  PROVE  WriteInv'
  <1>1. ReadsCurrent'
    <2> SUFFICES ASSUME NEW q \in Callers \ stale'
                 PROVE  /\ call'[q].pc \in {"run_preflight", "run_update"} =>
                              call'[q].snap = spec' /\ spec'.jobs[call'[q].j] = "absent"
                        /\ call'[q].pc = "cleanup_update" =>
                              call'[q].snap = Without(spec', call'[q].j) /\ spec'.jobs[call'[q].j] # "edited"
      BY DEF ReadsCurrent
    <2>1. CASE q = p
      BY <2>1 DEF Quiet, Calm, RunPCs
    <2>2. CASE q # p
      <3>1. q \notin stale /\ call'[q] = call[q] /\ spec' = spec
        BY <2>2 DEF Quiet, Calm, SameSpecs
      <3> QED BY <3>1 DEF WriteInv, ReadsCurrent
    <2> QED BY <2>1, <2>2
  <1>2. SpecStored'
    BY DEF WriteInv, SpecStored, Quiet, SameSpecs
  <1> QED
    BY <1>1, <1>2 DEF WriteInv, Quiet, Calm

LEMMA QuietDebt ==
  ASSUME DebtInv, NEW p \in Callers, Quiet(p),
         call[p].pc = "run_readback" => call[p].j \in held'
  PROVE  DebtInv'
  <1>1. \A q \in Callers : call'[q].pc \in RunPCs => call'[q].op = "run"
    BY DEF DebtInv, Quiet, Calm
  <1>2. ASSUME NEW j \in Jobs, ~Accounted(j)'
        PROVE  /\ spec'.jobs[j] = "absent"
               /\ \A d \in DepIDs : dep'[d].spec.jobs[j] = "absent"
               /\ \A q \in Callers : call'[q].snap.jobs[j] = "absent"
    <2>1. ~Accounted(j)
      <3> SUFFICES ASSUME Accounted(j) PROVE FALSE
        OBVIOUS
      <3>1. j \notin held /\ j \notin held'
        BY <1>2 DEF Accounted, Quiet
      <3>2. PICK q \in Callers : call[q].pc = "run_readback" /\ call[q].j = j
        BY <3>1 DEF Accounted
      <3>3. q # p /\ call'[q] = call[q]
        BY <3>1, <3>2 DEF Quiet, Calm
      <3> QED BY <1>2, <3>2, <3>3 DEF Accounted
    <2>2. FirstSpec.jobs[j] = "absent"
      BY DEF FirstSpec
    <2> QED
      BY <2>1, <2>2 DEF DebtInv, Quiet, Calm, SameSpecs
  <1> QED
    BY <1>1, <1>2 DEF DebtInv

LEMMA SetCalm ==
  ASSUME RunnerInv, DigestsIntent, NEW p \in Callers, NEW c,
         call' = [call EXCEPT ![p] = c], UNCHANGED handle,
         c.pc \notin RunPCs \cup {"cleanup_update"},
         c.snap \in {call[p].snap, FirstSpec}, HasIntent(c.m.digest)
  PROVE  Calm(p)
  <1>1. \A q \in Callers : call'[q] = IF q = p THEN c ELSE call[q]
    BY DEF RunnerInv, TypeOK, RunnerTypeOK
  <1>2. DigestsIntent'
    BY <1>1 DEF DigestsIntent
  <1> QED
    BY <1>1, <1>2 DEF Calm

LEMMA IdleCalm ==
  /\ IdleCall.pc \notin RunPCs \cup {"cleanup_update"}
  /\ IdleCall.snap = FirstSpec
  /\ HasIntent(IdleCall.m.digest)
  BY DEF IdleCall, NewMeta, HasIntent, RunPCs

LEMMA StoreCalm ==
  ASSUME RunnerInv, DigestsIntent, NEW p \in Callers, NEW m, HasIntent(m.digest),
         call' = [call EXCEPT ![p] = IdleCall], handle' = [handle EXCEPT ![call[p].j] = m]
  PROVE  Calm(p)
  <1>1. \A q \in Callers : call'[q] = IF q = p THEN IdleCall ELSE call[q]
    BY DEF RunnerInv, TypeOK, RunnerTypeOK
  <1>2. \A j \in Jobs : handle'[j] = m \/ handle'[j] = handle[j]
    BY DEF RunnerInv, TypeOK, RunnerTypeOK
  <1>3. DigestsIntent'
    BY <1>1, <1>2, IdleCalm DEF DigestsIntent
  <1> QED
    BY <1>1, <1>3, IdleCalm DEF Calm

LEMMA ReturnCalm ==
  ASSUME RunnerInv, DigestsIntent, NEW p \in Callers, NEW m, HasIntent(m.digest), Return(p, m)
  PROVE  Calm(p)
  <1>1. CASE UNCHANGED handle
    BY <1>1, SetCalm, IdleCalm DEF Return
  <1>2. CASE handle' = [handle EXCEPT ![call[p].j] = m]
    BY <1>2, StoreCalm DEF Return
  <1> QED
    BY <1>1, <1>2 DEF Return

LEMMA GotoCalm ==
  ASSUME RunnerInv, DigestsIntent, NEW p \in Callers, NEW pc \in PCs,
         pc \notin RunPCs \cup {"cleanup_update"}, Goto(p, pc), UNCHANGED handle
  PROVE  Calm(p)
  <1> DEFINE c == [call[p] EXCEPT !.pc = pc]
  <1>1. c.pc = pc /\ c.snap = call[p].snap /\ c.m = call[p].m
    BY CallerFacts DEF Call
  <1>2. call' = [call EXCEPT ![p] = c]
    BY DEF Goto
  <1>3. HasIntent(c.m.digest)
    BY <1>1 DEF DigestsIntent
  <1> HIDE DEF c
  <1> QED
    BY <1>1, <1>2, <1>3, SetCalm

LEMMA RebindCalm ==
  ASSUME RunnerInv, DigestsIntent, NEW p \in Callers, NEW m, HasIntent(m.digest), NEW pc \in PCs,
         pc \notin RunPCs \cup {"cleanup_update"},
         call' = [call EXCEPT ![p].m = m, ![p].pc = pc], UNCHANGED handle
  PROVE  Calm(p)
  <1> DEFINE c == [call[p] EXCEPT !.m = m, !.pc = pc]
  <1>1. c.pc = pc /\ c.snap = call[p].snap /\ c.m = m
    BY CallerFacts DEF Call
  <1>2. call' = [call EXCEPT ![p] = c]
    BY CallerFacts DEF Call, RunnerInv, TypeOK, RunnerTypeOK
  <1> HIDE DEF c
  <1> QED
    BY <1>1, <1>2, SetCalm

LEMMA DecideCalm ==
  ASSUME RunnerInv, DigestsIntent, NEW p \in Callers, NEW m, HasIntent(m.digest),
         NEW found, NEW state, Decide(p, m, found, state)
  PROVE  Calm(p)
  <1> DEFINE Go(pc, st) == [call[p] EXCEPT !.pc = pc, !.m = m, !.found = found, !.state = st]
  <1>1. CASE Return(p, m)
    BY <1>1, ReturnCalm
  <1>2. ASSUME NEW pc \in {"cleanup", "cancel_inv", "cancel_dep"}, NEW st,
               call' = [call EXCEPT ![p] = Go(pc, st)], UNCHANGED handle
        PROVE  Calm(p)
    <2> DEFINE c == Go(pc, st)
    <2>1. c.pc = pc /\ c.snap = call[p].snap /\ c.m = m
      BY CallerFacts DEF Call
    <2>2. pc \notin RunPCs \cup {"cleanup_update"}
      BY DEF RunPCs
    <2>3. call' = [call EXCEPT ![p] = c]
      BY <1>2
    <2> HIDE DEF c
    <2> QED BY <1>2, <2>1, <2>2, <2>3, SetCalm
  <1>3. \/ Return(p, m)
        \/ \E pc \in {"cleanup", "cancel_inv", "cancel_dep"}, st \in {state, "cancelled"} :
              call' = [call EXCEPT ![p] = Go(pc, st)] /\ UNCHANGED handle
    BY DEF Decide
  <1> HIDE DEF Go
  <1> QED
    BY <1>1, <1>2, <1>3

(* Binding and acknowledging keep to components with the submitted intent.  *)
LEMMA BindIntent ==
  ASSUME NEW m \in Meta, HasIntent(m.digest), NEW j, NEW ds, NEW d
  PROVE  Binds(m, j, ds, d) => HasIntent(Bound(m, j, ds, d).digest)
  BY DEF Binds, OwnedComponent, Bound, Meta

LEMMA HintIntent ==
  ASSUME NEW m \in Meta, HasIntent(m.digest), NEW j, NEW ds, NEW first, NEW second
  PROVE  HasIntent(BindHint(m, j, ds, first, second).digest)
  BY BindIntent DEF BindHint

LEMMA AcknowledgeIntent ==
  ASSUME NEW m \in Meta, HasIntent(m.digest), NEW j \in Jobs, NEW s \in Specs,
         NEW ds, NEW first, NEW second
  PROVE  HasIntent(Acknowledge(m, j, s, ds, first, second).digest)
  <1> DEFINE a == [m EXCEPT !.digest = s.jobs[j], !.acked = TRUE]
  <1>1. CASE OwnedComponent(s.jobs[j], m)
    <2>1. a \in Meta /\ HasIntent(a.digest)
      BY <1>1 DEF Meta, Specs, OwnedComponent
    <2>2. Acknowledge(m, j, s, ds, first, second) = BindHint(a, j, ds, first, second)
      BY <1>1 DEF Acknowledge
    <2> HIDE DEF a
    <2> QED BY <2>1, <2>2, HintIntent
  <1>2. CASE ~OwnedComponent(s.jobs[j], m)
    BY <1>2, HintIntent DEF Acknowledge
  <1> QED
    BY <1>1, <1>2

LEMMA IdleSpecs ==
  ASSUME UNCHANGED platformVars
  PROVE  SameSpecs
  BY DEF platformVars, SameSpecs

LEMMA CancelSpecs ==
  ASSUME PlatformTypeOK, NEW d, NEW j, AcceptCancelDeployment(d) \/ AcceptCancelInvocation(d, j)
  PROVE  SameSpecs
  BY DEF AcceptCancelDeployment, AcceptCancelInvocation, SameSpecs, PlatformTypeOK

LEMMA PlatformSpecs ==
  ASSUME PlatformTypeOK, PlatformNext
  PROVE  SameSpecs
  <1>0. dep \in Deployments
    BY DEF PlatformTypeOK, Deployments
  <1>1. CASE StartDeployment \/ FailDeployment \/ SupersedeDeployment
    BY <1>0, <1>1 DEF StartDeployment, FailDeployment, SupersedeDeployment, SameSpecs, Deployments
  <1>2. CASE ActivateDeployment
    BY <1>0, <1>2 DEF ActivateDeployment, SameSpecs, Deployments
  <1>3. ASSUME NEW d, NEW j, StartJob(j) \/ EndJob(d, j) PROVE SameSpecs
    BY <1>3 DEF StartJob, EndJob, SameSpecs
  <1> QED
    BY <1>1, <1>2, <1>3 DEF PlatformNext

LEMMA CallerIntent ==
  ASSUME RunnerInv, DigestsIntent, NEW p \in Callers
  PROVE  /\ call[p].m \in Meta /\ call[p].j \in Jobs /\ spec \in Specs /\ PlatformTypeOK
         /\ HasIntent(call[p].m.digest)
  BY CallerFacts DEF DigestsIntent

LEMMA RunReadbackQuiet ==
  ASSUME RunnerInv, DigestsIntent, NEW p \in Callers, RunReadback(p)
  PROVE  Quiet(p) /\ call[p].j \in held'
  <1> DEFINE a == Acknowledge(call[p].m, call[p].j, spec, dep, inProgress, active)
  <1>1. HasIntent(a.digest)
    BY CallerIntent, AcknowledgeIntent
  <1>2. PICK m \in {a, call[p].m} : Hold(p, m)
    BY DEF RunReadback
  <1>3. HasIntent(m.digest)
    <2> HIDE DEF a
    <2> QED BY <1>1, <1>2, CallerIntent
  <1>4. Calm(p)
    BY <1>2, <1>3, StoreCalm DEF Hold
  <1>5. SameSpecs /\ UNCHANGED stale
    BY IdleSpecs DEF RunReadback
  <1>6. held' = held \cup {call[p].j}
    BY <1>2 DEF Hold
  <1> QED
    BY <1>4, <1>5, <1>6 DEF Quiet

LEMMA BeginQuiet ==
  ASSUME RunnerInv, DigestsIntent, NEW p \in Callers, NEW j \in Jobs, NEW op, Begin(p, j, op)
  PROVE  Quiet(p)
  <1> DEFINE pc == IF handle[j].dep = 0 THEN "recover" ELSE "invocation"
             c == [IdleCall EXCEPT !.pc = pc, !.op = op, !.j = j, !.m = handle[j]]
  <1>1. c.pc = pc /\ c.snap = FirstSpec /\ c.m = handle[j]
    <2> HIDE DEF pc
    <2> QED BY IdleCallType, IdleCalm DEF Call
  <1>2. pc \notin RunPCs \cup {"cleanup_update"} /\ HasIntent(handle[j].digest)
    BY DEF RunPCs, DigestsIntent
  <1>3. call' = [call EXCEPT ![p] = c] /\ UNCHANGED <<handle, held, stale>> /\ SameSpecs
    BY IdleSpecs DEF Begin
  <1>4. Calm(p)
    <2> HIDE DEF c, pc
    <2> QED BY <1>1, <1>2, <1>3, SetCalm
  <1> QED
    BY <1>3, <1>4 DEF Quiet

LEMMA RecoverQuiet ==
  ASSUME RunnerInv, DigestsIntent, NEW p \in Callers, Recover(p)
  PROVE  Quiet(p)
  <1> DEFINE m == BindHint(call[p].m, call[p].j, dep, inProgress, active)
             pc == IF m.dep = 0 /\ spec = m.prior THEN "historical" ELSE "invocation"
  <1>1. HasIntent(m.digest)
    BY CallerIntent, HintIntent
  <1>2. pc \in PCs /\ pc \notin RunPCs \cup {"cleanup_update"}
    <2> HIDE DEF m
    <2> QED BY DEF PCs, RunPCs
  <1>3. call' = [call EXCEPT ![p].m = m, ![p].pc = pc] /\ UNCHANGED <<handle, held, stale>> /\ SameSpecs
    BY IdleSpecs DEF Recover
  <1>4. Calm(p)
    <2> HIDE DEF m, pc
    <2> QED BY <1>1, <1>2, <1>3, RebindCalm
  <1> QED
    BY <1>3, <1>4 DEF Quiet

LEMMA HistoricalQuiet ==
  ASSUME RunnerInv, DigestsIntent, NEW p \in Callers, Historical(p)
  PROVE  Quiet(p)
  <1>0. "invocation" \in PCs /\ "invocation" \notin RunPCs \cup {"cleanup_update"}
    BY DEF PCs, RunPCs
  <1>1. ASSUME Goto(p, "invocation"), UNCHANGED handle PROVE Calm(p)
    BY <1>0, <1>1, GotoCalm
  <1>2. ASSUME NEW d, Binds(call[p].m, call[p].j, dep, d), UNCHANGED handle,
               call' = [call EXCEPT ![p].m = Bound(call[p].m, call[p].j, dep, d), ![p].pc = "invocation"]
        PROVE  Calm(p)
    <2> DEFINE m == Bound(call[p].m, call[p].j, dep, d)
    <2>1. HasIntent(m.digest)
      BY <1>2, CallerIntent, BindIntent
    <2>2. call' = [call EXCEPT ![p].m = m, ![p].pc = "invocation"]
      BY <1>2
    <2> HIDE DEF m
    <2> QED BY <1>0, <1>2, <2>1, <2>2, RebindCalm
  <1>3. ASSUME Return(p, call[p].m) PROVE Calm(p)
    BY <1>3, CallerIntent, ReturnCalm
  <1>4. Calm(p)
    BY <1>1, <1>2, <1>3 DEF Historical
  <1>5. SameSpecs /\ UNCHANGED <<held, stale>>
    BY IdleSpecs DEF Historical
  <1> QED
    BY <1>4, <1>5 DEF Quiet

LEMMA InvocationQuiet ==
  ASSUME RunnerInv, DigestsIntent, NEW p \in Callers, Invocation(p)
  PROVE  Quiet(p)
  <1> DEFINE c == call[p]
  <1>1. ASSUME NEW pc \in {"status_dep", "status_launch"}, Goto(p, pc), UNCHANGED handle PROVE Calm(p)
    <2>1. pc \in PCs /\ pc \notin RunPCs \cup {"cleanup_update"}
      BY DEF PCs, RunPCs
    <2> QED BY <1>1, <2>1, GotoCalm
  <1>2. ASSUME Decide(p, c.m, 0, "pending") PROVE Calm(p)
    BY <1>2, CallerIntent, DecideCalm
  <1>3. ASSUME Return(p, c.m) PROVE Calm(p)
    BY <1>3, CallerIntent, ReturnCalm
  <1>4. ASSUME NEW d \in Invocations(c), InvocationBinds(c, d),
               LET m == IF c.m.dep = 0 THEN Bound(c.m, c.j, dep, d) ELSE c.m
               IN  Decide(p, [m EXCEPT !.job = d], d, StateOf(inv[d][c.j]))
        PROVE  Calm(p)
    <2> DEFINE m == IF c.m.dep = 0 THEN Bound(c.m, c.j, dep, d) ELSE c.m
               k == [m EXCEPT !.job = d]
    <2>1. HasIntent(m.digest) /\ DOMAIN m = DOMAIN c.m /\ "digest" \in DOMAIN c.m
      <3>1. c.m.dep = 0 => Binds(c.m, c.j, dep, d)
        BY <1>4 DEF InvocationBinds
      <3>2. DOMAIN Bound(c.m, c.j, dep, d) = DOMAIN c.m
        BY CallerIntent DEF Bound, Meta
      <3>3. "digest" \in DOMAIN c.m
        BY CallerIntent DEF Meta
      <3> QED BY <3>1, <3>2, <3>3, CallerIntent, BindIntent
    <2>2. k.digest = m.digest
      <3> HIDE DEF m
      <3> QED BY <2>1
    <2>3. Decide(p, k, d, StateOf(inv[d][c.j]))
      BY <1>4
    <2> HIDE DEF m, k
    <2> QED BY <2>1, <2>2, <2>3, DecideCalm
  <1>5. Calm(p)
    BY <1>1, <1>2, <1>3, <1>4 DEF Invocation
  <1>6. SameSpecs /\ UNCHANGED <<held, stale>>
    BY IdleSpecs DEF Invocation
  <1> QED
    BY <1>5, <1>6 DEF Quiet

LEMMA StatusQuiet ==
  ASSUME RunnerInv, DigestsIntent, NEW p \in Callers, StatusDeployment(p) \/ StatusLaunch(p)
  PROVE  Quiet(p)
  <1>1. Return(p, call[p].m) \/ \E st \in {"failed", "cancelled", "pending"} : Decide(p, call[p].m, 0, st)
    BY DEF StatusDeployment, StatusLaunch
  <1>2. Calm(p)
    BY <1>1, CallerIntent, DecideCalm, ReturnCalm
  <1>3. SameSpecs /\ UNCHANGED <<held, stale>>
    BY IdleSpecs DEF StatusDeployment, StatusLaunch
  <1> QED
    BY <1>2, <1>3 DEF Quiet

LEMMA CancelQuiet ==
  ASSUME RunnerInv, DigestsIntent, NEW p \in Callers,
         \/ CancelDeployment(p) \/ CancelDeploymentSend(p) \/ CancelDeploymentReadback(p)
         \/ CancelInvocation(p) \/ CancelInvocationReadback(p)
  PROVE  Quiet(p)
  <1> DEFINE Pcs == {"cleanup", "cancel_dep_send", "cancel_dep_readback", "cancel_inv_readback"}
  <1>0. \A pc \in Pcs : pc \in PCs /\ pc \notin RunPCs \cup {"cleanup_update"}
    BY DEF PCs, RunPCs
  <1>1. Return(p, call[p].m) \/ \E pc \in Pcs : Goto(p, pc) /\ UNCHANGED handle
    BY DEF CancelDeployment, CancelDeploymentSend, CancelDeploymentReadback,
           CancelInvocation, CancelInvocationReadback
  <1>2. Calm(p)
    <2> HIDE DEF Pcs
    <2> QED BY <1>0, <1>1, CallerIntent, GotoCalm, ReturnCalm
  <1>3. UNCHANGED <<held, stale>>
    BY DEF CancelDeployment, CancelDeploymentSend, CancelDeploymentReadback,
           CancelInvocation, CancelInvocationReadback
  <1>4. \/ UNCHANGED platformVars
        \/ \E d, j : AcceptCancelDeployment(d) \/ AcceptCancelInvocation(d, j)
    BY DEF CancelDeployment, CancelDeploymentSend, CancelDeploymentReadback,
           CancelInvocation, CancelInvocationReadback
  <1>5. SameSpecs
    BY <1>4, CallerIntent, IdleSpecs, CancelSpecs
  <1> QED
    BY <1>2, <1>3, <1>5 DEF Quiet

LEMMA EndQuiet ==
  ASSUME RunnerInv, DigestsIntent, NEW p \in Callers,
         CleanupReadback(p) \/ ReadError(p)
  PROVE  Quiet(p)
  <1>1. Return(p, call[p].m)
    BY DEF CleanupReadback, ReadError, ReturnClean
  <1>2. Calm(p)
    BY <1>1, CallerIntent, ReturnCalm
  <1>3. SameSpecs /\ UNCHANGED held /\ stale \ {p} \subseteq stale'
    BY IdleSpecs DEF CleanupReadback, ReadError, Fresh
  <1> QED
    BY <1>2, <1>3 DEF Quiet

LEMMA CrashQuiet ==
  ASSUME RunnerInv, DigestsIntent, NEW p \in Callers, Crash(p)
  PROVE  Quiet(p)
  <1>1. Calm(p)
    BY SetCalm, IdleCalm DEF Crash, Disturb
  <1>2. SameSpecs /\ UNCHANGED held /\ stale \ {p} \subseteq stale'
    BY IdleSpecs DEF Crash, Disturb, Fresh
  <1> QED
    BY <1>1, <1>2 DEF Quiet

WritePCs == {"run_preflight", "run_update", "cleanup_update"}

(* An accepted Update, and who may still write after it.                    *)
LEMMA UpdateSpecs ==
  ASSUME PlatformTypeOK, NEW s \in Specs, AcceptUpdate(s)
  PROVE  /\ spec' = Stored(s)
         /\ \A d \in DepIDs : dep'[d].spec = dep[d].spec \/ dep'[d].spec = Stored(s)
         /\ \A j \in Jobs : s.jobs[j] = "absent" => Stored(s).jobs[j] = "absent"
         /\ SpecStored'
  <1>1. spec' = Stored(s)
    BY DEF AcceptUpdate
  <1>2. /\ \A j \in Jobs : s.jobs[j] = "absent" => Stored(s).jobs[j] = "absent"
        /\ Encrypts => \A j \in Jobs : Stored(s).jobs[j] # "plain"
    BY DEF Specs, Stored
  <1>3. \A d \in DepIDs : dep'[d].spec = dep[d].spec \/ dep'[d].spec = Stored(s)
    <2> SUFFICES ASSUME NEW d \in DepIDs PROVE dep'[d].spec = dep[d].spec \/ dep'[d].spec = Stored(s)
      OBVIOUS
    <2>1. dep[d] \in [spec : Specs, phase : DepPhases]
      BY DEF PlatformTypeOK
    <2> QED BY <2>1 DEF AcceptUpdate
  <1>4. SpecStored'
    <2> SUFFICES ASSUME Encrypts, NEW j \in Jobs PROVE spec'.jobs[j] # "plain"
      BY Zenon DEF SpecStored
    <2>1. Stored(s).jobs[j] # "plain"
      BY <1>2
    <2> QED BY <1>1, <2>1
  <1> QED
    BY <1>1, <1>2, <1>3, <1>4

LEMMA NobodyCurrent ==
  ASSUME \A q \in Callers \ stale' : call'[q].pc \notin WritePCs
  PROVE  ReadsCurrent'
  BY DEF ReadsCurrent, WritePCs

LEMMA RunGetWrites ==
  ASSUME RunnerInv, WriteInv, NEW p \in Callers, NEW j \in Jobs, RunGet(p, j)
  PROVE  WriteInv' /\ (DebtInv => DebtInv')
  <1> DEFINE c == [IdleCall EXCEPT !.pc = "run_preflight", !.op = "run", !.j = j,
                                   !.m = NewMeta(spec), !.snap = spec]
  <1>1. c.pc = "run_preflight" /\ c.op = "run" /\ c.j = j /\ c.m = NewMeta(spec) /\ c.snap = spec
    BY IdleCallType DEF Call
  <1>2. HasIntent(NewMeta(spec).digest)
    BY DEF NewMeta, HasIntent
  <1>3. call' = [call EXCEPT ![p] = c] /\ UNCHANGED <<handle, held>> /\ stale' = stale \ {p} /\ SameSpecs
    BY IdleSpecs DEF RunGet, Fresh
  <1> HIDE DEF c
  <1>4. \A q \in Callers : call'[q] = IF q = p THEN c ELSE call[q]
    BY <1>3 DEF RunnerInv, TypeOK, RunnerTypeOK
  <1>5. DigestsIntent'
    BY <1>1, <1>2, <1>3, <1>4 DEF WriteInv, DigestsIntent
  <1>6. ReadsCurrent'
    BY <1>1, <1>3, <1>4 DEF WriteInv, ReadsCurrent, RunGet, SameSpecs
  <1>7. SpecStored'
    BY <1>3 DEF WriteInv, SpecStored, SameSpecs
  <1>8. ASSUME DebtInv PROVE DebtInv'
    <2>1. \A q \in Callers : call'[q].pc \in RunPCs => call'[q].op = "run"
      BY <1>1, <1>4, <1>8 DEF DebtInv
    <2>2. \A k \in Jobs : Accounted(k) => Accounted(k)'
      BY <1>3, <1>4 DEF Accounted, RunGet, At
    <2> QED
      BY <1>1, <1>3, <1>4, <1>8, <2>1, <2>2 DEF DebtInv, SameSpecs
  <1> QED
    BY <1>5, <1>6, <1>7, <1>8 DEF WriteInv

LEMMA RunPreflightWrites ==
  ASSUME RunnerInv, WriteInv, NEW p \in Callers, RunPreflight(p)
  PROVE  WriteInv' /\ (DebtInv => DebtInv')
  <1> DEFINE c == [call[p] EXCEPT !.pc = "run_update"]
  <1>1. /\ c.pc = "run_update" /\ c.op = call[p].op /\ c.j = call[p].j
        /\ c.m = call[p].m /\ c.snap = call[p].snap
    BY CallerFacts DEF Call
  <1>2. call[p].pc = "run_preflight"
    BY DEF RunPreflight, At
  <1>3. call' = [call EXCEPT ![p] = c] /\ UNCHANGED <<handle, held, stale>> /\ SameSpecs
    BY IdleSpecs DEF RunPreflight, Goto
  <1> HIDE DEF c
  <1>4. \A q \in Callers : call'[q] = IF q = p THEN c ELSE call[q]
    BY <1>3 DEF RunnerInv, TypeOK, RunnerTypeOK
  <1>5. DigestsIntent'
    BY <1>1, <1>3, <1>4 DEF WriteInv, DigestsIntent
  <1>6. ReadsCurrent'
    BY <1>1, <1>2, <1>3, <1>4 DEF WriteInv, ReadsCurrent, SameSpecs
  <1>7. SpecStored'
    BY <1>3 DEF WriteInv, SpecStored, SameSpecs
  <1>8. ASSUME DebtInv PROVE DebtInv'
    <2>1. \A q \in Callers : call'[q].pc \in RunPCs => call'[q].op = "run"
      BY <1>1, <1>2, <1>4, <1>8 DEF DebtInv, RunPCs
    <2>2. \A k \in Jobs : Accounted(k) => Accounted(k)'
      BY <1>2, <1>3, <1>4 DEF Accounted
    <2> QED
      BY <1>1, <1>3, <1>4, <1>8, <2>1, <2>2 DEF DebtInv, SameSpecs
  <1> QED
    BY <1>5, <1>6, <1>7, <1>8 DEF WriteInv

(* The two ends of RunJob's Update: a handle, or a readback to come.        *)
Launched(p) ==
    /\ \A q \in Callers \ {p} : call'[q] = call[q]
    /\ \/ call'[p] = IdleCall /\ held' = held \cup {call[p].j}
       \/ /\ call'[p].pc = "run_readback" /\ call'[p].op = call[p].op /\ call'[p].j = call[p].j
          /\ call'[p].snap = call[p].snap /\ held' = held
    /\ DigestsIntent'

LEMMA LaunchFailedEnds ==
  ASSUME RunnerInv, DigestsIntent, NEW p \in Callers, LaunchFailed(p)
  PROVE  Launched(p)
  <1> DEFINE m == [call[p].m EXCEPT !.failed = TRUE]
             c == [call[p] EXCEPT !.pc = "run_readback", !.m = m]
  <1>1. m.digest = call[p].m.digest
    BY CallerFacts DEF Meta
  <1>2. /\ c.pc = "run_readback" /\ c.op = call[p].op /\ c.j = call[p].j
        /\ c.m = m /\ c.snap = call[p].snap
    <2> HIDE DEF m
    <2> QED BY CallerFacts DEF Call
  <1>3. call' = [call EXCEPT ![p] = c] /\ UNCHANGED <<handle, held>>
    BY CallerFacts DEF LaunchFailed, Call, RunnerInv, TypeOK, RunnerTypeOK
  <1> HIDE DEF c, m
  <1>4. \A q \in Callers : call'[q] = IF q = p THEN c ELSE call[q]
    BY <1>3 DEF RunnerInv, TypeOK, RunnerTypeOK
  <1>5. DigestsIntent'
    BY <1>1, <1>2, <1>3, <1>4 DEF DigestsIntent
  <1> QED
    BY <1>2, <1>3, <1>4, <1>5 DEF Launched

LEMMA RunUpdateEnds ==
  ASSUME RunnerInv, DigestsIntent, NEW p \in Callers, RunUpdate(p)
  PROVE  Launched(p)
  <1>1. CASE LaunchFailed(p)
    BY <1>1, LaunchFailedEnds
  <1>2. CASE /\ AcceptUpdate(LaunchSpec(call[p]))
             /\ Hold(p, Acknowledge(call[p].m, call[p].j, spec', dep', inProgress', active'))
    <2> DEFINE a == Acknowledge(call[p].m, call[p].j, spec', dep', inProgress', active')
    <2>1. LaunchSpec(call[p]) \in Specs
      BY CallerFacts, SpecTypes DEF LaunchSpec, Forms
    <2>2. spec' \in Specs
      BY <1>2, <2>1, CallerFacts, AcceptUpdateKeeps DEF Kept, PlatformTypeOK
    <2>3. HasIntent(a.digest)
      BY <2>2, CallerIntent, AcknowledgeIntent
    <2>4. /\ call' = [call EXCEPT ![p] = IdleCall] /\ handle' = [handle EXCEPT ![call[p].j] = a]
          /\ held' = held \cup {call[p].j}
      BY <1>2 DEF Hold
    <2>5. Calm(p)
      <3> HIDE DEF a
      <3> QED BY <2>3, <2>4, StoreCalm
    <2>6. call'[p] = IdleCall
      BY <2>4 DEF RunnerInv, TypeOK, RunnerTypeOK
    <2> QED
      BY <2>4, <2>5, <2>6 DEF Calm, Launched
  <1> QED
    BY <1>1, <1>2 DEF RunUpdate

LEMMA RunUpdateWrites ==
  ASSUME RunnerInv, WriteInv, NEW p \in Callers, RunUpdate(p)
  PROVE  WriteInv' /\ (DebtInv => DebtInv')
  <1> DEFINE s == LaunchSpec(call[p])
  <1>1. Launched(p) /\ DigestsIntent'
    BY RunUpdateEnds DEF WriteInv, Launched
  <1>2. s \in Specs /\ \A j \in Jobs \ {call[p].j} : s.jobs[j] = call[p].snap.jobs[j]
    <2>1. call[p].snap \in Specs /\ call[p].j \in Jobs /\ "plain" \in Forms
      BY CallerFacts DEF Forms
    <2>2. s \in Specs
      BY <2>1, SpecTypes DEF LaunchSpec
    <2>3. \A j \in Jobs \ {call[p].j} : s.jobs[j] = call[p].snap.jobs[j]
      BY <2>1 DEF LaunchSpec, Specs
    <2> QED BY <2>2, <2>3
  <1>3. call[p].pc = "run_update" /\ call'[p].pc \notin WritePCs
    BY <1>1 DEF RunUpdate, At, Launched, WritePCs, IdleCall
  <1>4. \/ AcceptUpdate(s) /\ stale' = (stale \cup Holding) \ {p}
        \/ SameSpecs /\ stale' = stale \ {p}
    BY IdleSpecs DEF RunUpdate, Overtaken, Fresh
  <1> HIDE DEF s
  <1>5. PlatformTypeOK
    BY CallerFacts
  <1>6. ReadsCurrent' /\ SpecStored'
    <2>1. CASE AcceptUpdate(s) /\ stale' = (stale \cup Holding) \ {p}
      <3>1. \A q \in Callers \ stale' : call'[q].pc \notin WritePCs
        BY <1>1, <1>3, <2>1 DEF Launched, Holding, WritePCs
      <3> QED BY <1>2, <1>5, <2>1, <3>1, NobodyCurrent, UpdateSpecs
    <2>2. CASE SameSpecs /\ stale' = stale \ {p}
      <3>1. SpecStored'
        BY <2>2 DEF WriteInv, SpecStored, SameSpecs
      <3>2. ReadsCurrent'
        BY <1>1, <1>3, <2>2 DEF WriteInv, ReadsCurrent, SameSpecs, Launched, WritePCs
      <3> QED BY <3>1, <3>2
    <2> QED BY <1>4, <2>1, <2>2
  <1>7. ASSUME DebtInv PROVE DebtInv'
    <2>1. \A q \in Callers : call'[q].pc \in RunPCs => call'[q].op = "run"
      BY <1>1, <1>3, <1>7 DEF DebtInv, Launched, RunPCs, IdleCall
    <2>2. \A j \in Jobs : Accounted(j) \/ j = call[p].j => Accounted(j)'
      BY <1>1, <1>3 DEF Accounted, Launched
    <2>3. ASSUME NEW j \in Jobs, ~Accounted(j)'
          PROVE  /\ spec'.jobs[j] = "absent"
                 /\ \A d \in DepIDs : dep'[d].spec.jobs[j] = "absent"
                 /\ \A q \in Callers : call'[q].snap.jobs[j] = "absent"
      <3>1. ~Accounted(j) /\ j # call[p].j
        BY <2>2, <2>3
      <3>2. /\ spec.jobs[j] = "absent"
            /\ \A d \in DepIDs : dep[d].spec.jobs[j] = "absent"
            /\ \A q \in Callers : call[q].snap.jobs[j] = "absent"
        BY <1>7, <3>1 DEF DebtInv
      <3>3. s.jobs[j] = "absent"
        BY <1>2, <3>1, <3>2
      <3>4. spec'.jobs[j] = "absent" /\ \A d \in DepIDs : dep'[d].spec.jobs[j] = "absent"
        BY <1>2, <1>4, <1>5, <3>2, <3>3, UpdateSpecs DEF SameSpecs
      <3>5. FirstSpec.jobs[j] = "absent" /\ IdleCall.snap = FirstSpec
        BY IdleCalm DEF FirstSpec
      <3>6. \A q \in Callers : call'[q].snap.jobs[j] = "absent"
        BY <1>1, <3>2, <3>5 DEF Launched
      <3> QED BY <3>4, <3>6
    <2> QED
      BY <2>1, <2>3 DEF DebtInv
  <1> QED
    BY <1>1, <1>6, <1>7 DEF WriteInv

LEMMA CleanupWrites ==
  ASSUME RunnerInv, WriteInv, NEW p \in Callers, Cleanup(p)
  PROVE  WriteInv' /\ (DebtInv => DebtInv')
  <1> DEFINE w == Without(spec, call[p].j)
             c == [call[p] EXCEPT !.pc = "cleanup_update", !.snap = w]
  <1>0. SameSpecs /\ UNCHANGED held /\ stale' = stale \ {p} /\ call[p].pc = "cleanup" /\ DigestsIntent
    BY IdleSpecs DEF Cleanup, Fresh, At, WriteInv
  <1>1. CASE Return(p, call[p].m)
    <2>1. Quiet(p)
      BY <1>0, <1>1, CallerIntent, ReturnCalm DEF Quiet
    <2> QED
      BY <1>0, <2>1, QuietWrites, QuietDebt
  <1>2. CASE /\ spec.jobs[call[p].j] \in {"absent", call[p].m.digest}
             /\ call' = [call EXCEPT ![p].pc = "cleanup_update", ![p].snap = w] /\ UNCHANGED handle
    <2>1. /\ c.pc = "cleanup_update" /\ c.op = call[p].op /\ c.j = call[p].j
          /\ c.m = call[p].m /\ c.snap = w
      <3> HIDE DEF w
      <3> QED BY CallerFacts DEF Call
    <2>2. call' = [call EXCEPT ![p] = c]
      <3> HIDE DEF w
      <3> QED BY <1>2, CallerFacts DEF Call, RunnerInv, TypeOK, RunnerTypeOK
    <2>3. spec.jobs[call[p].j] # "edited"
      BY <1>2, CallerIntent DEF WriteInv, HasIntent
    <2>4. \A j \in Jobs : spec.jobs[j] = "absent" => w.jobs[j] = "absent"
      BY CallerFacts DEF Without, Specs
    <2>5. c.snap = Without(spec, c.j)
      BY <2>1
    <2> HIDE DEF c, w
    <2>6. \A q \in Callers : call'[q] = IF q = p THEN c ELSE call[q]
      BY <2>2 DEF RunnerInv, TypeOK, RunnerTypeOK
    <2>7. DigestsIntent'
      BY <1>2, <2>1, <2>6 DEF WriteInv, DigestsIntent
    <2>8. ReadsCurrent'
      BY <1>0, <2>1, <2>3, <2>5, <2>6 DEF WriteInv, ReadsCurrent, SameSpecs
    <2>9. SpecStored'
      BY <1>0 DEF WriteInv, SpecStored, SameSpecs
    <2>10. ASSUME DebtInv PROVE DebtInv'
      <3>1. \A q \in Callers : call'[q].pc \in RunPCs => call'[q].op = "run"
        BY <2>1, <2>6, <2>10 DEF DebtInv, RunPCs
      <3>2. \A k \in Jobs : Accounted(k) => Accounted(k)'
        BY <1>0, <2>6 DEF Accounted
      <3> QED
        BY <1>0, <2>1, <2>4, <2>6, <2>10, <3>1, <3>2 DEF DebtInv, SameSpecs
    <2> QED
      BY <2>7, <2>8, <2>9, <2>10 DEF WriteInv
  <1> QED
    BY <1>1, <1>2 DEF Cleanup, ReturnClean

(* A write of a spec that has no component nobody answers for.              *)
LEMMA UpdateDebt ==
  ASSUME RunnerInv, DebtInv, NEW s \in Specs, AcceptUpdate(s), UNCHANGED held,
         \A q \in Callers : /\ call'[q].pc \in RunPCs => call'[q] = call[q]
                            /\ call[q].pc = "run_readback" => call'[q] = call[q]
                            /\ call'[q].snap = call[q].snap,
         \A j \in Jobs : ~Accounted(j) => s.jobs[j] = "absent"
  PROVE  DebtInv'
  <1>0. PlatformTypeOK
    BY DEF RunnerInv, TypeOK
  <1>1. \A q \in Callers : call'[q].pc \in RunPCs => call'[q].op = "run"
    BY DEF DebtInv
  <1>2. \A j \in Jobs : Accounted(j) => Accounted(j)'
    BY DEF Accounted
  <1>3. ASSUME NEW j \in Jobs, ~Accounted(j)
        PROVE  /\ spec'.jobs[j] = "absent"
               /\ \A d \in DepIDs : dep'[d].spec.jobs[j] = "absent"
               /\ \A q \in Callers : call'[q].snap.jobs[j] = "absent"
    BY <1>0, <1>3, UpdateSpecs DEF DebtInv
  <1> QED
    BY <1>1, <1>2, <1>3 DEF DebtInv

LEMMA CleanupUpdateWrites ==
  ASSUME RunnerInv, WriteInv, NEW p \in Callers, CleanupUpdate(p)
  PROVE  WriteInv' /\ (DebtInv => DebtInv')
  <1>0. "cleanup_readback" \in PCs /\ "cleanup_readback" \notin RunPCs \cup {"cleanup_update"}
    BY DEF PCs, RunPCs
  <1>1. Calm(p) /\ UNCHANGED <<handle, held>> /\ call[p].pc = "cleanup_update"
    BY <1>0, GotoCalm DEF CleanupUpdate, WriteInv, At
  <1>2. CASE SameSpecs /\ stale' = stale \ {p}
    <2>1. Quiet(p)
      BY <1>1, <1>2 DEF Quiet
    <2> QED
      BY <1>1, <2>1, QuietWrites, QuietDebt
  <1>3. CASE AcceptUpdate(call[p].snap) /\ stale' = (stale \cup Holding) \ {p}
    <2>1. call[p].snap \in Specs /\ PlatformTypeOK
      BY CallerFacts
    <2>2. \A q \in Callers \ stale' : call'[q].pc \notin WritePCs
      BY <1>1, <1>3 DEF Calm, Holding, WritePCs, RunPCs
    <2>3. WriteInv'
      BY <1>1, <1>3, <2>1, <2>2, NobodyCurrent, UpdateSpecs DEF WriteInv, Calm
    <2>4. call'[p].snap = call[p].snap
      BY CallerFacts DEF CleanupUpdate, Goto, Call, RunnerInv, TypeOK, RunnerTypeOK
    <2>5. ASSUME DebtInv PROVE DebtInv'
      <3>1. \A q \in Callers : /\ call'[q].pc \in RunPCs => call'[q] = call[q]
                               /\ call[q].pc = "run_readback" => call'[q] = call[q]
                               /\ call'[q].snap = call[q].snap
        BY <1>1, <2>4 DEF Calm
      <3>2. \A j \in Jobs : ~Accounted(j) => call[p].snap.jobs[j] = "absent"
        BY <2>5 DEF DebtInv
      <3> QED
        BY <1>1, <1>3, <2>1, <2>5, <3>1, <3>2, UpdateDebt
    <2> QED
      BY <2>3, <2>5
  <1> QED
    BY <1>2, <1>3, IdleSpecs DEF CleanupUpdate, Overtaken, Fresh

LEMMA ForeignWrites ==
  ASSUME RunnerInv, WriteInv, NEW kind, NEW s \in Specs, Foreign(kind, s),
         \A j \in Jobs : spec.jobs[j] = "absent" => s.jobs[j] = "absent"
  PROVE  WriteInv' /\ (DebtInv => DebtInv')
  <1>1. AcceptUpdate(s) /\ UNCHANGED <<call, handle, held>> /\ stale' = stale \cup Holding
    BY DEF Foreign, Disturb
  <1>2. PlatformTypeOK
    BY DEF RunnerInv, TypeOK
  <1>3. \A q \in Callers \ stale' : call'[q].pc \notin WritePCs
    BY <1>1 DEF Holding, WritePCs
  <1>4. DigestsIntent'
    BY <1>1 DEF WriteInv, DigestsIntent
  <1>5. WriteInv'
    BY <1>1, <1>2, <1>3, <1>4, NobodyCurrent, UpdateSpecs DEF WriteInv
  <1>6. ASSUME DebtInv PROVE DebtInv'
    <2>1. \A j \in Jobs : ~Accounted(j) => s.jobs[j] = "absent"
      BY <1>6 DEF DebtInv
    <2> QED
      BY <1>1, <1>6, <2>1, UpdateDebt
  <1> QED
    BY <1>5, <1>6

LEMMA ForeignsWrite ==
  ASSUME RunnerInv, WriteInv, ForeignBase \/ ForeignApply \/ ForeignRedeploy \/ ForeignEdit
  PROVE  WriteInv' /\ (DebtInv => DebtInv')
  <1>0. spec \in Specs
    BY DEF RunnerInv, TypeOK, PlatformTypeOK
  <1>1. CASE ForeignBase
    <2>1. PICK b \in Bases : Foreign("base", [spec EXCEPT !.base = b])
      BY <1>1 DEF ForeignBase
    <2> DEFINE s == [spec EXCEPT !.base = b]
    <2>2. s \in Specs /\ s.jobs = spec.jobs
      BY <1>0 DEF Specs
    <2>3. Foreign("base", s)
      BY <2>1
    <2> HIDE DEF s
    <2> QED BY <2>2, <2>3, ForeignWrites
  <1>2. CASE ForeignApply
    <2> DEFINE s == [spec EXCEPT !.jobs = [j \in Jobs |-> "absent"]]
    <2>1. s \in Specs /\ \A j \in Jobs : s.jobs[j] = "absent"
      BY <1>0 DEF Specs, Forms
    <2>2. Foreign("drop", s)
      BY <1>2 DEF ForeignApply
    <2> HIDE DEF s
    <2> QED BY <2>1, <2>2, ForeignWrites
  <1>3. CASE ForeignRedeploy
    BY <1>0, <1>3, ForeignWrites DEF ForeignRedeploy
  <1>4. CASE ForeignEdit
    <2>1. PICK k \in Jobs : spec.jobs[k] # "absent" /\ Foreign("edit", [spec EXCEPT !.jobs[k] = "edited"])
      BY <1>4 DEF ForeignEdit
    <2> DEFINE s == [spec EXCEPT !.jobs[k] = "edited"]
    <2>2. s \in Specs /\ \A j \in Jobs : spec.jobs[j] = "absent" => s.jobs[j] = "absent"
      BY <1>0, <2>1 DEF Specs, Forms
    <2>3. Foreign("edit", s)
      BY <2>1
    <2> HIDE DEF s
    <2> QED BY <2>2, <2>3, ForeignWrites
  <1> QED
    BY <1>1, <1>2, <1>3, <1>4

LEMMA OutsideWrites ==
  ASSUME RunnerInv, WriteInv, (\E j \in Jobs : Tick(j)) \/ Platform \/ UNCHANGED vars
  PROVE  WriteInv' /\ (DebtInv => DebtInv')
  <1>1. SameSpecs
    BY IdleSpecs, PlatformSpecs DEF Tick, Platform, vars, RunnerInv, TypeOK
  <1>2. UNCHANGED <<call, handle, held, stale>>
    BY DEF Tick, Platform, vars, runnerVars
  <1>3. WriteInv'
    BY <1>1, <1>2 DEF WriteInv, ReadsCurrent, SpecStored, DigestsIntent, SameSpecs
  <1>4. ASSUME DebtInv PROVE DebtInv'
    <2>1. \A j : Accounted(j)' <=> Accounted(j)
      BY <1>2 DEF Accounted
    <2> QED BY <1>1, <1>2, <1>4, <2>1 DEF DebtInv, SameSpecs
  <1> QED
    BY <1>3, <1>4

(* A step of a call, other than RunJob's launch and the cleanup's write,    *)
(* that leaves the launch's debt with somebody.                             *)
LEMMA CallWrites ==
  ASSUME RunnerInv, WriteInv, NEW p \in Callers, Step(p)
  PROVE  WriteInv' /\ (DebtInv => DebtInv')
  <1>0. DigestsIntent
    BY DEF WriteInv
  <1>1. CASE RunPreflight(p) \/ RunUpdate(p) \/ Cleanup(p) \/ CleanupUpdate(p)
    BY <1>1, RunPreflightWrites, RunUpdateWrites, CleanupWrites, CleanupUpdateWrites
  <1>2. CASE RunReadback(p)
    BY <1>0, <1>2, RunReadbackQuiet, QuietWrites, QuietDebt
  <1>3. CASE \/ Recover(p) \/ Historical(p) \/ Invocation(p)
             \/ StatusDeployment(p) \/ StatusLaunch(p)
             \/ CancelDeployment(p) \/ CancelDeploymentSend(p) \/ CancelDeploymentReadback(p)
             \/ CancelInvocation(p) \/ CancelInvocationReadback(p)
             \/ CleanupReadback(p)
    <2>1. Quiet(p)
      BY <1>0, <1>3, RecoverQuiet, HistoricalQuiet, InvocationQuiet, StatusQuiet, CancelQuiet, EndQuiet
    <2>2. call[p].pc # "run_readback"
      BY <1>3 DEF Recover, Historical, Invocation, StatusDeployment, StatusLaunch,
                  CancelDeployment, CancelDeploymentSend, CancelDeploymentReadback,
                  CancelInvocation, CancelInvocationReadback, CleanupReadback, At
    <2> QED
      BY <2>1, <2>2, QuietWrites, QuietDebt
  <1> QED
    BY <1>1, <1>2, <1>3 DEF Step

LEMMA NextWrites ==
  ASSUME RunnerInv, WriteInv, [Next]_vars
  PROVE  WriteInv' /\ (DebtInv /\ "crash" \notin Disturbances => DebtInv')
  <1>0. DigestsIntent
    BY DEF WriteInv
  <1>1. ASSUME NEW p \in Callers, ReadError(p) PROVE WriteInv' /\ (DebtInv => DebtInv')
    <2>1. Quiet(p) /\ call[p].pc # "run_readback"
      BY <1>0, <1>1, EndQuiet DEF ReadError, ReadPCs
    <2> QED
      BY <2>1, QuietWrites, QuietDebt
  <1>2. ASSUME NEW p \in Callers, Crash(p) PROVE WriteInv' /\ "crash" \in Disturbances
    BY <1>0, <1>2, CrashQuiet, QuietWrites DEF Crash, Disturb
  <1>3. ASSUME NEW p \in Callers, NEW j \in Jobs, BeginStatus(p, j) \/ BeginCancel(p, j)
        PROVE  WriteInv' /\ (DebtInv => DebtInv')
    <2>1. Quiet(p) /\ call[p].pc # "run_readback"
      BY <1>0, <1>3, BeginQuiet DEF BeginStatus, BeginCancel, Begin, At
    <2> QED
      BY <2>1, QuietWrites, QuietDebt
  <1> QED
    BY <1>1, <1>2, <1>3, CallWrites, RunGetWrites, ForeignsWrite, OutsideWrites DEF Next

LEMMA InitWrites == Init => WriteInv /\ DebtInv
  <1> SUFFICES ASSUME Init PROVE WriteInv /\ DebtInv
    OBVIOUS
  <1>0. \A j \in Jobs : FirstSpec.jobs[j] = "absent"
    BY DEF FirstSpec
  <1>1. SpecStored
    BY <1>0 DEF Init, PlatformInit, SpecStored
  <1>2. DigestsIntent
    BY IdleCalm DEF Init, DigestsIntent, NewMeta, HasIntent
  <1>3. ReadsCurrent
    BY IdleCalm DEF Init, ReadsCurrent, RunPCs
  <1>4. DebtInv
    BY <1>0, IdleCalm DEF Init, PlatformInit, DebtInv
  <1> QED
    BY <1>1, <1>2, <1>3, <1>4 DEF WriteInv

(* Writing back a spec that differs in one component changes nothing else.  *)
LEMMA StoredOwn ==
  ASSUME NEW s \in Specs, NEW t \in Specs, NEW j \in Jobs, t.base = s.base,
         \A k \in Jobs \ {j} : t.jobs[k] = s.jobs[k],
         Encrypts => \A k \in Jobs : s.jobs[k] # "plain"
  PROVE  Without(Stored(t), j) = Without(s, j)
  <1> DEFINE a == Without(Stored(t), j)
             b == Without(s, j)
  <1>1. a \in Specs /\ b \in Specs
    BY SpecTypes, "plain" \in Forms DEF Forms
  <1>2. a.base = t.base /\ b.base = s.base
    BY DEF Without, Stored, Specs
  <1>3. \A k \in Jobs : a.jobs[k] = b.jobs[k]
    <2>1. \A k \in Jobs : Stored(t).jobs[k] = IF Encrypts /\ t.jobs[k] = "plain" THEN "encrypted" ELSE t.jobs[k]
      BY DEF Stored, Specs
    <2>2. Stored(t) \in Specs
      BY SpecTypes DEF Forms
    <2>3. \A k \in Jobs : a.jobs[k] = IF k = j THEN "absent" ELSE Stored(t).jobs[k]
      BY <2>2 DEF Without, Specs
    <2>4. \A k \in Jobs : b.jobs[k] = IF k = j THEN "absent" ELSE s.jobs[k]
      BY DEF Without, Specs
    <2> HIDE DEF a, b
    <2> QED BY <2>1, <2>3, <2>4
  <1> HIDE DEF a, b
  <1>4. a.jobs = b.jobs
    BY <1>1, <1>3 DEF Specs
  <1>5. a = b
    BY <1>1, <1>2, <1>4 DEF Specs
  <1> QED
    BY <1>5 DEF a, b

(* Only RunJob's Update, cleanup's and other writers create deployments.    *)
LEMMA NoDeployment ==
  ASSUME NEW q, lastDep' # lastDep, Step(q)
  PROVE  RunUpdate(q) \/ CleanupUpdate(q)
  BY DEF Step, RunPreflight, RunReadback, Recover, Historical, Invocation, StatusDeployment,
         StatusLaunch, CancelDeployment, CancelDeploymentSend, CancelDeploymentReadback,
         CancelInvocation, CancelInvocationReadback, Cleanup, CleanupReadback, platformVars,
         AcceptCancelDeployment, AcceptCancelInvocation

LEMMA NoDeploymentOutside ==
  ASSUME NEW q, NEW j, lastDep' # lastDep
  PROVE  /\ ~RunGet(q, j) /\ ~BeginStatus(q, j) /\ ~BeginCancel(q, j) /\ ~ReadError(q) /\ ~Crash(q)
         /\ ~Tick(j) /\ ~Platform /\ ~UNCHANGED vars
  BY DEF RunGet, BeginStatus, BeginCancel, Begin, ReadError, Crash, Tick, Platform, platformVars, vars,
         PlatformNext, StartDeployment, StartJob, EndJob, ActivateDeployment, FailDeployment,
         SupersedeDeployment

LEMMA NextTouchesOwn ==
  ASSUME RunnerInv, WriteInv, [Next]_vars, NEW p \in Callers, Writes(p), p \notin stale
  PROVE  /\ Without(spec', call[p].j) = Without(spec, call[p].j)
         /\ spec.jobs[call[p].j] # "edited"
  <1> DEFINE j == call[p].j
  <1>0. j \in Jobs /\ spec \in Specs /\ PlatformTypeOK /\ call[p].snap \in Specs
    BY CallerFacts
  <1>1. lastDep' # lastDep /\ call'[p] # call[p]
    BY DEF Writes, At
  <1>2. RunUpdate(p) \/ CleanupUpdate(p)
    <2>1. \/ \E q \in Callers : RunUpdate(q) \/ CleanupUpdate(q)
          \/ ForeignBase \/ ForeignApply \/ ForeignRedeploy \/ ForeignEdit
      BY <1>1, NoDeployment, NoDeploymentOutside DEF Next
    <2>2. ~(ForeignBase \/ ForeignApply \/ ForeignRedeploy \/ ForeignEdit)
      BY <1>1 DEF ForeignBase, ForeignApply, ForeignRedeploy, ForeignEdit, Foreign
    <2>3. PICK q \in Callers : RunUpdate(q) \/ CleanupUpdate(q)
      BY <2>1, <2>2
    <2>4. \A o \in Callers \ {q} : call'[o] = call[o]
      <3>1. CASE RunUpdate(q)
        BY <3>1, RunUpdateEnds DEF WriteInv, Launched
      <3>2. CASE CleanupUpdate(q)
        BY <3>2 DEF CleanupUpdate, Goto, RunnerInv, TypeOK, RunnerTypeOK
      <3> QED BY <2>3, <3>1, <3>2
    <2> QED
      BY <1>1, <2>3, <2>4
  <1>3. Encrypts => \A k \in Jobs : spec.jobs[k] # "plain"
    BY DEF WriteInv, SpecStored
  <1>4. CASE RunUpdate(p)
    <2> DEFINE t == LaunchSpec(call[p])
    <2>1. AcceptUpdate(t)
      BY <1>1, <1>4 DEF RunUpdate, platformVars
    <2>2. call[p].snap = spec /\ spec.jobs[j] = "absent"
      BY <1>4 DEF RunUpdate, At, WriteInv, ReadsCurrent
    <2>3. t \in Specs /\ t.base = spec.base /\ \A k \in Jobs \ {j} : t.jobs[k] = spec.jobs[k]
      BY <1>0, <2>2 DEF LaunchSpec, Specs, Forms
    <2>4. spec' = Stored(t)
      BY <2>1 DEF AcceptUpdate
    <2> HIDE DEF t, j
    <2> QED
      BY <1>0, <1>3, <2>2, <2>3, <2>4, StoredOwn DEF j
  <1>5. CASE CleanupUpdate(p)
    <2> DEFINE t == call[p].snap
    <2>1. AcceptUpdate(t)
      BY <1>1, <1>5 DEF CleanupUpdate, platformVars
    <2>2. t = Without(spec, j) /\ spec.jobs[j] # "edited"
      BY <1>5 DEF CleanupUpdate, At, WriteInv, ReadsCurrent
    <2>3. t \in Specs /\ t.base = spec.base /\ \A k \in Jobs \ {j} : t.jobs[k] = spec.jobs[k]
      BY <1>0, <2>2 DEF Without, Specs, Forms
    <2>4. spec' = Stored(t)
      BY <2>1 DEF AcceptUpdate
    <2> HIDE DEF t, j
    <2> QED
      BY <1>0, <1>3, <2>2, <2>3, <2>4, StoredOwn DEF j
  <1> QED
    BY <1>2, <1>4, <1>5

-----------------------------------------------------------------------------

LEMMA WritesAlways == Spec => [](RunnerInv /\ WriteInv)
  <1>1. Init => WriteInv
    BY InitWrites
  <1>2. RunnerInv /\ WriteInv /\ [Next]_vars => WriteInv'
    BY NextWrites
  <1> QED
    BY <1>1, <1>2, RunnerInvariant, PTL DEF Spec

(* RunJob's and cleanup's writes of the whole app spec change nothing but   *)
(* the job's own component, and never remove one somebody edited, provided  *)
(* nobody wrote since the caller's last read: for any number of jobs,       *)
(* callers, other writers, faults and crashes.                              *)
THEOREM WritesTouchOnlyOwn == Spec => TouchesOnlyOwn
  <1> DEFINE Touch == \A p \in Callers : Writes(p) /\ p \notin stale =>
                       LET j == call[p].j IN
                       /\ Without(spec', j) = Without(spec, j)
                       /\ spec.jobs[j] # "edited"
  <1>1. RunnerInv /\ WriteInv /\ [Next]_vars => Touch
    BY NextTouchesOwn
  <1>2. RunnerInv /\ WriteInv /\ [Next]_vars => [Touch]_vars
    BY <1>1
  <1> HIDE DEF Touch
  <1>3. Spec => [][Touch]_vars
    BY <1>2, WritesAlways, PTL DEF Spec
  <1> QED
    BY <1>3 DEF TouchesOnlyOwn, Touch

(* DebtInv and the runner's types give the property itself.                 *)
LEMMA DebtKept ==
  ASSUME RunnerInv, DebtInv
  PROVE  CleanupIdentityKept
  <1> SUFFICES ASSUME NEW j \in Jobs,
                      spec.jobs[j] # "absent" \/ \E d \in DepIDs : CanStillRun(d, j)
               PROVE  j \in held \/ \E p \in Callers : call[p].op = "run" /\ call[p].j = j
    BY DEF CleanupIdentityKept
  <1>1. Accounted(j)
    BY DEF DebtInv, CanStillRun, JobPresent
  <1> QED
    BY <1>1 DEF Accounted, DebtInv, RunPCs

(* A launch is never forgotten while the process lives: while the component *)
(* is in the live spec or a deployment may run it, the host has the handle  *)
(* or RunJob is about to return it, whatever updates are lost and whoever   *)
(* else writes.  A crash between the Update and the return loses it.        *)
THEOREM LaunchNeverForgotten ==
  ASSUME "crash" \notin Disturbances
  PROVE  Spec => []CleanupIdentityKept
  <1>1. Init => DebtInv
    BY InitWrites
  <1>2. RunnerInv /\ WriteInv /\ DebtInv /\ [Next]_vars => DebtInv'
    BY NextWrites
  <1>3. RunnerInv /\ DebtInv => CleanupIdentityKept
    BY DebtKept
  <1> QED
    BY <1>1, <1>2, <1>3, WritesAlways, PTL DEF Spec

-----------------------------------------------------------------------------
(* What JobStatus reports.  A call about to report a success or a           *)
(* cancellation has seen it, and what it has seen stays so: finished        *)
(* invocations and cancelled deployments do not change any more, which      *)
(* rests on the app's slots naming only deployments that are not over.      *)

SlotsLive ==
    /\ pending # 0 => pending <= lastDep /\ dep[pending].phase = "pending"
    /\ inProgress # 0 => inProgress <= lastDep /\ dep[inProgress].phase = "building"
    /\ active # 0 => active <= lastDep /\ dep[active].phase = "active"

(* The evidence for reporting state st of job j, among n deployments ds,    *)
(* their invocations iv and the expired jobs ex.                            *)
Evidence(j, st, n, ds, iv, ex) ==
    /\ st = "succeeded" =>
          \E d \in 1..n : HasIntent(ds[d].spec.jobs[j]) /\ iv[d][j] = "succeeded"
    /\ st = "cancelled" =>
          \/ j \in ex
          \/ \E d \in 1..n : /\ HasIntent(ds[d].spec.jobs[j])
                             /\ ds[d].phase = "canceled" \/ iv[d][j] = "canceled"

CallsTruthful ==
    \A p \in Callers : call[p].pc \in Closing /\ call[p].op # "cancel" =>
        Evidence(call[p].j, call[p].state, lastDep, dep, inv, expired)

ReportsTruthful ==
    \A j \in Jobs : \A st \in reported[j] : Evidence(j, st, lastDep, dep, inv, expired)

TruthInv == SlotsLive /\ CallsTruthful /\ ReportsTruthful

(* What every change of the app leaves as it was seen.                      *)
Stable ==
    /\ SlotsLive' /\ lastDep \in Nat /\ lastDep' \in Nat /\ lastDep <= lastDep'
    /\ \A d \in 1..lastDep :
          /\ dep'[d].spec = dep[d].spec
          /\ dep[d].phase = "canceled" => dep'[d].phase = "canceled"
          /\ \A j \in Jobs : inv[d][j] \in {"succeeded", "canceled"} => inv'[d][j] = inv[d][j]

LEMMA EvidenceStable ==
  ASSUME Stable, expired \subseteq expired', NEW j \in Jobs, NEW st,
         Evidence(j, st, lastDep, dep, inv, expired)
  PROVE  Evidence(j, st, lastDep', dep', inv', expired')
  <1>0. \A d \in 1..lastDep : d \in 1..lastDep'
    BY DEF Stable
  <1>1. ASSUME st = "succeeded"
        PROVE  \E d \in 1..lastDep' : HasIntent(dep'[d].spec.jobs[j]) /\ inv'[d][j] = "succeeded"
    <2>1. PICK d \in 1..lastDep : HasIntent(dep[d].spec.jobs[j]) /\ inv[d][j] = "succeeded"
      BY <1>1 DEF Evidence
    <2>2. HasIntent(dep'[d].spec.jobs[j]) /\ inv'[d][j] = "succeeded"
      BY <2>1 DEF Stable
    <2> QED BY <1>0, <2>2
  <1>2. ASSUME st = "cancelled", j \notin expired
        PROVE  \E d \in 1..lastDep' : /\ HasIntent(dep'[d].spec.jobs[j])
                                      /\ dep'[d].phase = "canceled" \/ inv'[d][j] = "canceled"
    <2>1. PICK d \in 1..lastDep : /\ HasIntent(dep[d].spec.jobs[j])
                                  /\ dep[d].phase = "canceled" \/ inv[d][j] = "canceled"
      BY <1>2 DEF Evidence
    <2>2. HasIntent(dep'[d].spec.jobs[j]) /\ (dep'[d].phase = "canceled" \/ inv'[d][j] = "canceled")
      BY <2>1 DEF Stable
    <2> QED BY <1>0, <2>2
  <1> QED
    BY <1>1, <1>2 DEF Evidence

LEMMA DepFacts ==
  ASSUME PlatformTypeOK
  PROVE  /\ lastDep \in Nat /\ lastDep \in DepIDs /\ dep \in Deployments
         /\ \A d \in 1..lastDep : d \in DepIDs
         /\ \A d \in DepRefs : d # 0 => d \in DepIDs
         /\ pending \in DepRefs /\ inProgress \in DepRefs /\ active \in DepRefs
         /\ inv \in [DepIDs -> [Jobs -> InvPhases]]
  BY PlatformAssumption DEF PlatformTypeOK, Deployments, DepIDs, DepRefs

LEMMA IdleStable ==
  ASSUME PlatformTypeOK, SlotsLive, UNCHANGED platformVars
  PROVE  Stable
  BY DepFacts DEF platformVars, SlotsLive, Stable

LEMMA UpdateStable ==
  ASSUME PlatformTypeOK, SlotsLive, NEW s \in Specs, AcceptUpdate(s)
  PROVE  Stable
  <1> DEFINE n == lastDep + 1
  <1>0. n \in DepIDs /\ lastDep' = n /\ \A d \in 1..lastDep : d \in DepIDs /\ d # n
    BY DepFacts, PlatformAssumption DEF AcceptUpdate, DepIDs
  <1>1. PICK start \in BOOLEAN :
         /\ start => (inProgress = 0 /\ pending = 0)
         /\ dep' = [d \in DepIDs |->
                      IF d = n THEN [spec |-> Stored(s),
                                     phase |-> IF start THEN "building" ELSE "pending"]
                      ELSE IF d = pending THEN [dep[d] EXCEPT !.phase = "superseded"]
                      ELSE dep[d]]
         /\ pending' = IF start THEN 0 ELSE n
         /\ inProgress' = IF start THEN n ELSE inProgress
    BY DEF AcceptUpdate
  <1>2. UNCHANGED <<active, inv>>
    BY DEF AcceptUpdate
  <1>3. \A d \in DepIDs : d # n => /\ dep'[d].spec = dep[d].spec
                                   /\ d # pending => dep'[d] = dep[d]
    <2> HIDE DEF n
    <2> QED BY <1>1, DepFacts DEF Deployments
  <1>4. dep'[n].phase = IF start THEN "building" ELSE "pending"
    <2> HIDE DEF n
    <2> QED BY <1>0, <1>1
  <1>5. \A d \in 1..lastDep : /\ dep'[d].spec = dep[d].spec
                              /\ dep[d].phase = "canceled" => dep'[d].phase = "canceled"
    <2> SUFFICES ASSUME NEW d \in 1..lastDep
                 PROVE  /\ dep'[d].spec = dep[d].spec
                        /\ dep[d].phase = "canceled" => dep'[d].phase = "canceled"
      OBVIOUS
    <2>1. d \in DepIDs /\ d # n /\ d # 0
      BY <1>0, DepFacts
    <2>2. d = pending => dep[d].phase = "pending"
      BY <2>1 DEF SlotsLive
    <2> HIDE DEF n
    <2> QED BY <1>3, <2>1, <2>2
  <1>6. SlotsLive'
    <2>1. pending' # 0 => pending' <= lastDep' /\ dep'[pending'].phase = "pending"
      BY <1>0, <1>1, <1>4, DepFacts DEF DepIDs
    <2>2. inProgress' # 0 => inProgress' <= lastDep' /\ dep'[inProgress'].phase = "building"
      <3>1. CASE start = TRUE
        BY <1>0, <1>1, <1>4, <3>1, DepFacts DEF DepIDs
      <3>2. CASE start = FALSE
        <4>1. inProgress' = inProgress
          BY <1>1, <3>2
        <4>2. ASSUME inProgress # 0 PROVE inProgress <= lastDep' /\ dep'[inProgress].phase = "building"
          <5>1. inProgress \in DepIDs /\ inProgress <= lastDep /\ inProgress # pending
                /\ dep[inProgress].phase = "building"
            BY <4>2, DepFacts DEF SlotsLive
          <5>2. inProgress # n /\ inProgress <= n
            BY <5>1, DepFacts DEF DepIDs
          <5> HIDE DEF n
          <5> QED BY <1>0, <1>3, <5>1, <5>2
        <4> QED BY <4>1, <4>2
      <3> QED BY <3>1, <3>2
    <2>3. active' # 0 => active' <= lastDep' /\ dep'[active'].phase = "active"
      <3>1. SUFFICES ASSUME active # 0 PROVE active <= lastDep' /\ dep'[active].phase = "active"
        BY <1>2
      <3>2. active \in DepIDs /\ active <= lastDep /\ active # pending /\ dep[active].phase = "active"
        BY <3>1, DepFacts DEF SlotsLive
      <3>3. active # n /\ active <= n
        BY <3>2, DepFacts DEF DepIDs
      <3> HIDE DEF n
      <3> QED BY <1>0, <1>3, <3>2, <3>3
    <2> QED BY <2>1, <2>2, <2>3 DEF SlotsLive
  <1>7. lastDep \in Nat /\ lastDep' \in Nat /\ lastDep <= lastDep'
    BY <1>0, DepFacts
  <1> QED
    BY <1>2, <1>5, <1>6, <1>7 DEF Stable

(* Of a deployment that keeps its spec, only a slot's phase may change.     *)
LEMMA CancelStable ==
  ASSUME PlatformTypeOK, SlotsLive, NEW d, NEW j,
         AcceptCancelDeployment(d) \/ AcceptCancelInvocation(d, j)
  PROVE  Stable
  <1>1. CASE AcceptCancelDeployment(d)
    <2>1. /\ \A e \in DepIDs : dep'[e].spec = dep[e].spec
          /\ \A e \in DepIDs : dep'[e].phase = IF e = d THEN "canceled" ELSE dep[e].phase
      BY <1>1, DepFacts DEF AcceptCancelDeployment, Deployments
    <2>2. \A e \in DepIDs, i \in Jobs : inv[e][i] \in {"succeeded", "canceled"} => inv'[e][i] = inv[e][i]
      BY <1>1, DepFacts DEF AcceptCancelDeployment
    <2>3. /\ UNCHANGED <<lastDep, active>>
          /\ pending' = IF pending = d THEN 0 ELSE pending
          /\ inProgress' = IF inProgress = d THEN 0 ELSE inProgress
          /\ dep[d].phase \in {"pending", "building"}
      BY <1>1 DEF AcceptCancelDeployment, Unfinished
    <2>4. SlotsLive'
      BY <2>1, <2>3, DepFacts DEF SlotsLive
    <2> QED
      BY <2>1, <2>2, <2>3, <2>4, DepFacts DEF Stable
  <1>2. CASE AcceptCancelInvocation(d, j)
    <2>1. \A e \in DepIDs, i \in Jobs : inv[e][i] \in {"succeeded", "canceled"} => inv'[e][i] = inv[e][i]
      BY <1>2, DepFacts DEF AcceptCancelInvocation
    <2>2. UNCHANGED <<dep, lastDep, pending, inProgress, active>>
      BY <1>2 DEF AcceptCancelInvocation
    <2>3. SlotsLive'
      BY <2>2 DEF SlotsLive
    <2> QED
      BY <2>1, <2>2, <2>3, DepFacts DEF Stable
  <1> QED
    BY <1>1, <1>2

LEMMA PlatformStable ==
  ASSUME PlatformTypeOK, SlotsLive, PlatformNext
  PROVE  Stable
  <1> DEFINE Invs == \A e \in DepIDs, i \in Jobs :
                       inv[e][i] \in {"succeeded", "canceled"} => inv'[e][i] = inv[e][i]
             Deps == \A e \in DepIDs : /\ dep'[e].spec = dep[e].spec
                                       /\ dep[e].phase = "canceled" => dep'[e].phase = "canceled"
  <1>0. SUFFICES SlotsLive' /\ Invs /\ Deps /\ lastDep' = lastDep
    BY DepFacts DEF Stable
  <1>1. CASE StartDeployment
    <2>1. pending \in DepIDs /\ dep[pending].phase = "pending"
      BY <1>1, DepFacts DEF StartDeployment, SlotsLive
    <2>2. \A e \in DepIDs : /\ dep'[e].spec = dep[e].spec
                            /\ dep'[e].phase = IF e = pending THEN "building" ELSE dep[e].phase
      BY <1>1, DepFacts DEF StartDeployment, Deployments
    <2>3. pending' = 0 /\ inProgress' = pending /\ inProgress = 0 /\ UNCHANGED <<lastDep, active, inv>>
      BY <1>1 DEF StartDeployment
    <2>4. SlotsLive'
      BY <2>1, <2>2, <2>3, DepFacts DEF SlotsLive
    <2> QED BY <2>1, <2>2, <2>3, <2>4
  <1>2. ASSUME NEW d \in DepIDs, NEW j \in Jobs, StartJob(j) \/ EndJob(d, j)
        PROVE  SlotsLive' /\ Invs /\ Deps /\ lastDep' = lastDep
    <2>1. Invs
      BY <1>2, DepFacts DEF StartJob, EndJob
    <2>2. UNCHANGED <<dep, lastDep, pending, inProgress, active>>
      BY <1>2 DEF StartJob, EndJob
    <2> QED BY <2>1, <2>2 DEF SlotsLive
  <1>3. CASE ActivateDeployment
    <2>1. inProgress \in DepIDs /\ dep[inProgress].phase = "building"
      BY <1>3, DepFacts DEF ActivateDeployment, SlotsLive
    <2>2. \A e \in DepIDs : /\ dep'[e].spec = dep[e].spec
                            /\ dep'[e].phase = IF e = inProgress THEN "active"
                                               ELSE IF e = active THEN "superseded" ELSE dep[e].phase
      BY <1>3, DepFacts DEF ActivateDeployment, Deployments
    <2>3. active' = inProgress /\ inProgress' = 0 /\ UNCHANGED <<lastDep, pending, inv>>
      BY <1>3 DEF ActivateDeployment
    <2>4. active \in DepIDs => dep[active].phase = "active"
      BY DepFacts, PlatformAssumption DEF SlotsLive, DepIDs
    <2>5. SlotsLive'
      BY <2>1, <2>2, <2>3, <2>4, DepFacts DEF SlotsLive
    <2> QED BY <2>1, <2>2, <2>3, <2>4, <2>5
  <1>4. CASE FailDeployment \/ SupersedeDeployment
    <2>1. inProgress \in DepIDs /\ dep[inProgress].phase = "building"
      BY <1>4, DepFacts DEF FailDeployment, SupersedeDeployment, SlotsLive
    <2>2. /\ \A e \in DepIDs : dep'[e].spec = dep[e].spec
          /\ \A e \in DepIDs : e # inProgress => dep'[e].phase = dep[e].phase
      <3>1. CASE FailDeployment
        BY <3>1, DepFacts DEF FailDeployment, Deployments
      <3>2. CASE SupersedeDeployment
        BY <3>2, DepFacts DEF SupersedeDeployment, Deployments
      <3> QED BY <1>4, <3>1, <3>2
    <2>3. inProgress' = 0 /\ UNCHANGED <<lastDep, pending, active>>
      BY <1>4 DEF FailDeployment, SupersedeDeployment
    <2>4. Invs
      <3>1. CASE UNCHANGED inv
        BY <3>1
      <3>2. CASE inv' = [inv EXCEPT ![inProgress] = [j \in Jobs |->
                     IF inv[inProgress][j] = "none" /\ JobPresent(inProgress, j)
                       THEN "skipped" ELSE inv[inProgress][j]]]
        BY <3>2, DepFacts
      <3> QED BY <1>4, <3>1, <3>2 DEF FailDeployment, SupersedeDeployment
    <2>5. SlotsLive'
      BY <2>1, <2>2, <2>3, DepFacts DEF SlotsLive
    <2> QED BY <2>1, <2>2, <2>3, <2>4, <2>5
  <1> QED
    BY <1>1, <1>2, <1>3, <1>4, PlatformAssumption DEF PlatformNext, DepIDs

(* What a step of a call must establish: if it is now about to report, it   *)
(* has the evidence.                                                        *)
Shown(j, st) == Evidence(j, st, lastDep, dep, inv, expired)

Ends(p) ==
    /\ \A q \in Callers \ {p} : call'[q] = call[q]
    /\ call'[p].pc \in Closing /\ call'[p].op # "cancel" =>
          call'[p].j \in Jobs /\ Evidence(call'[p].j, call'[p].state, lastDep, dep, inv, expired)

LEMMA TruthStep ==
  ASSUME RunnerInv, TruthInv, Stable, expired \subseteq expired', NEW p \in Callers, Ends(p),
         \A j \in Jobs : \A st \in reported'[j] :
             st \in reported[j] \/ Evidence(j, st, lastDep, dep, inv, expired)
  PROVE  TruthInv'
  <1>1. ReportsTruthful'
    <2> SUFFICES ASSUME NEW j \in Jobs, NEW st \in reported'[j]
                 PROVE  Evidence(j, st, lastDep', dep', inv', expired')
      BY DEF ReportsTruthful
    <2>1. Evidence(j, st, lastDep, dep, inv, expired)
      BY DEF TruthInv, ReportsTruthful
    <2> QED BY <2>1, EvidenceStable
  <1>2. CallsTruthful'
    <2> SUFFICES ASSUME NEW q \in Callers, call'[q].pc \in Closing, call'[q].op # "cancel"
                 PROVE  Evidence(call'[q].j, call'[q].state, lastDep', dep', inv', expired')
      BY DEF CallsTruthful
    <2>1. call'[q].j \in Jobs /\ Evidence(call'[q].j, call'[q].state, lastDep, dep, inv, expired)
      <3>1. CASE q = p
        BY <3>1 DEF Ends
      <3>2. CASE q # p
        BY <3>2, CallerFacts DEF Ends, TruthInv, CallsTruthful
      <3> QED BY <3>1, <3>2
    <2>2. PICK j \in Jobs : j = call'[q].j
      BY <2>1
    <2>3. PICK st : st = call'[q].state
      OBVIOUS
    <2> QED BY <2>1, <2>2, <2>3, EvidenceStable
  <1> QED
    BY <1>1, <1>2 DEF TruthInv, Stable

LEMMA SetEnds ==
  ASSUME RunnerInv, NEW p \in Callers, NEW c, call' = [call EXCEPT ![p] = c],
         c.pc \in Closing /\ c.op # "cancel" => c.j \in Jobs /\ Shown(c.j, c.state)
  PROVE  Ends(p)
  <1>1. \A q \in Callers : call'[q] = IF q = p THEN c ELSE call[q]
    BY DEF RunnerInv, TypeOK, RunnerTypeOK
  <1> QED
    BY <1>1 DEF Ends, Shown

LEMMA IdleEnds ==
  ASSUME RunnerInv, NEW p \in Callers, call' = [call EXCEPT ![p] = IdleCall]
  PROVE  Ends(p)
  <1>1. IdleCall.pc \notin Closing
    BY DEF IdleCall, Closing
  <1> QED
    BY <1>1, SetEnds

LEMMA GotoEnds ==
  ASSUME RunnerInv, TruthInv, NEW p \in Callers, NEW pc, Goto(p, pc),
         pc \in Closing => call[p].pc \in Closing
  PROVE  Ends(p)
  <1> DEFINE c == [call[p] EXCEPT !.pc = pc]
  <1>1. c.pc = pc /\ c.op = call[p].op /\ c.j = call[p].j /\ c.state = call[p].state
    BY CallerFacts DEF Call
  <1>2. call' = [call EXCEPT ![p] = c]
    BY DEF Goto
  <1>3. call[p].j \in Jobs /\ (call[p].pc \in Closing /\ call[p].op # "cancel" => Shown(call[p].j, call[p].state))
    BY CallerFacts DEF TruthInv, CallsTruthful, Shown
  <1> HIDE DEF c
  <1> QED
    BY <1>1, <1>2, <1>3, SetEnds

LEMMA DecideEnds ==
  ASSUME RunnerInv, NEW p \in Callers, NEW m, NEW found, NEW state,
         Decide(p, m, found, state), Shown(call[p].j, state)
  PROVE  Ends(p)
  <1> DEFINE Go(pc, st) == [call[p] EXCEPT !.pc = pc, !.m = m, !.found = found, !.state = st]
  <1>1. CASE Return(p, m)
    BY <1>1, IdleEnds DEF Return
  <1>2. ASSUME NEW pc, NEW st, call' = [call EXCEPT ![p] = Go(pc, st)],
               call[p].op # "cancel" => Shown(call[p].j, st)
        PROVE  Ends(p)
    <2> DEFINE c == Go(pc, st)
    <2>1. c.op = call[p].op /\ c.j = call[p].j /\ c.state = st /\ c.j \in Jobs
      BY CallerFacts DEF Call
    <2>2. call' = [call EXCEPT ![p] = c]
      BY <1>2
    <2> HIDE DEF c
    <2> QED BY <1>2, <2>1, <2>2, SetEnds
  <1>3. call[p].j \in expired => Shown(call[p].j, "cancelled")
    BY DEF Shown, Evidence
  <1>4. \/ Return(p, m)
        \/ call' = [call EXCEPT ![p] = Go("cleanup", state)]
        \/ /\ call[p].op = "cancel" \/ call[p].j \in expired
           /\ \E pc \in {"cancel_inv", "cancel_dep"} : call' = [call EXCEPT ![p] = Go(pc, "cancelled")]
    BY DEF Decide
  <1> HIDE DEF Go
  <1> QED
    BY <1>1, <1>2, <1>3, <1>4

LEMMA NothingShown ==
  ASSUME NEW j, NEW st, st \notin {"succeeded", "cancelled"}
  PROVE  Shown(j, st)
  BY DEF Shown, Evidence

(* The evidence JobStatus takes its state from.                             *)
LEMMA InvocationShown ==
  ASSUME RunnerInv, NEW m \in Meta, NEW j \in Jobs, BindsOwn(m, j, dep, lastDep), m.dep # 0
  PROVE  /\ Shown(j, StateOf(inv[m.dep][j]))
         /\ dep[m.dep].phase = "canceled" => Shown(j, "cancelled")
  <1>1. m.dep \in 1..lastDep
    BY PlatformAssumption DEF BindsOwn, Meta, DepRefs
  <1>2. HasIntent(dep[m.dep].spec.jobs[j])
    BY DEF BindsOwn
  <1>3. ASSUME NEW phase PROVE /\ StateOf(phase) = "succeeded" => phase = "succeeded"
                               /\ StateOf(phase) = "cancelled" => phase = "canceled"
    BY DEF StateOf
  <1>4. Shown(j, StateOf(inv[m.dep][j]))
    <2>1. PICK phase : phase = inv[m.dep][j]
      OBVIOUS
    <2> QED BY <1>1, <1>2, <1>3, <2>1 DEF Shown, Evidence
  <1>5. dep[m.dep].phase = "canceled" => Shown(j, "cancelled")
    BY <1>1, <1>2 DEF Shown, Evidence
  <1> QED
    BY <1>4, <1>5

LEMMA InvocationEnds ==
  ASSUME RunnerInv, TruthInv, NEW p \in Callers, Invocation(p)
  PROVE  Ends(p)
  <1> DEFINE c == call[p]
  <1>1. ASSUME NEW pc \in {"status_dep", "status_launch"}, Goto(p, pc) PROVE Ends(p)
    <2>1. pc \notin Closing
      BY DEF Closing
    <2> QED BY <1>1, <2>1, GotoEnds
  <1>2. ASSUME Decide(p, c.m, 0, "pending") PROVE Ends(p)
    BY <1>2, NothingShown, DecideEnds
  <1>3. ASSUME Return(p, c.m) PROVE Ends(p)
    BY <1>3, IdleEnds DEF Return
  <1>4. ASSUME NEW d \in Invocations(c), InvocationBinds(c, d),
               LET m == IF c.m.dep = 0 THEN Bound(c.m, c.j, dep, d) ELSE c.m
               IN  Decide(p, [m EXCEPT !.job = d], d, StateOf(inv[d][c.j]))
        PROVE  Ends(p)
    <2> DEFINE m == IF c.m.dep = 0 THEN Bound(c.m, c.j, dep, d) ELSE c.m
    <2>1. c.m \in Meta /\ c.m.job \in {0, c.m.dep} /\ c.m.job \in DepRefs
      BY CallerFacts DEF BindsOwn, Meta
    <2>2. d \in DepRefs
      BY <1>4, <2>1, PlatformAssumption DEF Invocations, DepIDs, DepRefs
    <2>3. m \in Meta /\ BindsOwn(m, c.j, dep, lastDep) /\ m.dep = d /\ d # 0
      <3>1. CASE c.m.dep = 0
        <4>1. Binds(c.m, c.j, dep, d)
          BY <1>4, <3>1 DEF InvocationBinds
        <4> QED
          BY <3>1, <4>1, <2>1, <2>2, CallerFacts, BoundIsOwned
      <3>2. CASE c.m.dep # 0
        BY <1>4, <3>2, CallerFacts DEF InvocationBinds
      <3> QED BY <3>1, <3>2
    <2>4. c.j \in Jobs
      BY CallerFacts
    <2>5. Decide(p, [m EXCEPT !.job = d], d, StateOf(inv[d][c.j]))
      BY <1>4
    <2> HIDE DEF m
    <2>6. Shown(c.j, StateOf(inv[d][c.j]))
      BY <2>3, <2>4, InvocationShown
    <2> QED BY <2>5, <2>6, DecideEnds
  <1> QED
    BY <1>1, <1>2, <1>3, <1>4 DEF Invocation

LEMMA StatusEnds ==
  ASSUME RunnerInv, TruthInv, NEW p \in Callers, StatusDeployment(p) \/ StatusLaunch(p)
  PROVE  Ends(p)
  <1> DEFINE c == call[p]
  <1>1. CASE StatusLaunch(p)
    <2>1. \E st \in {"failed", "pending"} : Decide(p, c.m, 0, st)
      BY <1>1 DEF StatusLaunch
    <2> QED BY <2>1, NothingShown, DecideEnds
  <1>2. CASE StatusDeployment(p)
    <2>1. \/ Return(p, c.m)
          \/ \E st \in {"failed", "pending"} : Decide(p, c.m, 0, st)
          \/ /\ c.m.dep # 0 /\ dep[c.m.dep].phase = "canceled"
             /\ Decide(p, c.m, 0, "cancelled")
      BY <1>2 DEF StatusDeployment, Binds
    <2>2. c.m.dep # 0 /\ dep[c.m.dep].phase = "canceled" => Shown(c.j, "cancelled")
      BY CallerFacts, InvocationShown
    <2>3. ASSUME Return(p, c.m) PROVE Ends(p)
      BY <2>3, IdleEnds DEF Return
    <2> QED BY <2>1, <2>2, <2>3, NothingShown, DecideEnds
  <1> QED
    BY <1>1, <1>2

LEMMA RunEnds ==
  ASSUME RunnerInv, TruthInv, WriteInv, NEW p \in Callers,
         RunPreflight(p) \/ RunUpdate(p) \/ RunReadback(p)
  PROVE  Ends(p)
  <1>0. "run_update" \notin Closing /\ "run_readback" \notin Closing /\ IdleCall.pc \notin Closing
    BY DEF Closing, IdleCall
  <1>1. CASE RunPreflight(p)
    BY <1>0, <1>1, GotoEnds DEF RunPreflight
  <1>2. CASE RunUpdate(p)
    BY <1>0, <1>2, RunUpdateEnds DEF WriteInv, Launched, Ends
  <1>3. CASE RunReadback(p)
    BY <1>3, IdleEnds DEF RunReadback, Hold
  <1> QED
    BY <1>1, <1>2, <1>3

LEMMA BeginEnds ==
  ASSUME RunnerInv, NEW p \in Callers, NEW j \in Jobs,
         RunGet(p, j) \/ BeginStatus(p, j) \/ BeginCancel(p, j)
  PROVE  Ends(p)
  <1>1. CASE RunGet(p, j)
    <2> DEFINE c == [IdleCall EXCEPT !.pc = "run_preflight", !.op = "run", !.j = j,
                                     !.m = NewMeta(spec), !.snap = spec]
    <2>1. c.pc \notin Closing
      BY IdleCallType DEF Call, Closing
    <2>2. call' = [call EXCEPT ![p] = c]
      BY <1>1 DEF RunGet
    <2> HIDE DEF c
    <2> QED BY <2>1, <2>2, SetEnds
  <1>2. ASSUME NEW op, Begin(p, j, op) PROVE Ends(p)
    <2> DEFINE pc == IF handle[j].dep = 0 THEN "recover" ELSE "invocation"
               c == [IdleCall EXCEPT !.pc = pc, !.op = op, !.j = j, !.m = handle[j]]
    <2>1. pc \notin Closing
      BY DEF Closing
    <2>2. c.pc = pc
      <3> HIDE DEF pc
      <3> QED BY IdleCallType DEF Call
    <2>3. call' = [call EXCEPT ![p] = c]
      BY <1>2 DEF Begin
    <2> HIDE DEF c, pc
    <2> QED BY <2>1, <2>2, <2>3, SetEnds
  <1> QED
    BY <1>1, <1>2 DEF BeginStatus, BeginCancel

(* A step that replaces the metadata and moves on.                          *)
LEMMA RebindEnds ==
  ASSUME RunnerInv, NEW p \in Callers, NEW m, NEW pc, pc \notin Closing,
         call' = [call EXCEPT ![p].m = m, ![p].pc = pc]
  PROVE  Ends(p)
  <1> DEFINE c == [call[p] EXCEPT !.m = m, !.pc = pc]
  <1>1. c.pc = pc
    BY CallerFacts DEF Call
  <1>2. call' = [call EXCEPT ![p] = c]
    BY CallerFacts DEF Call, RunnerInv, TypeOK, RunnerTypeOK
  <1> HIDE DEF c
  <1> QED
    BY <1>1, <1>2, SetEnds

LEMMA FindEnds ==
  ASSUME RunnerInv, TruthInv, NEW p \in Callers, Recover(p) \/ Historical(p)
  PROVE  Ends(p)
  <1>0. "historical" \notin Closing /\ "invocation" \notin Closing
    BY DEF Closing
  <1>1. CASE Recover(p)
    <2> DEFINE m == BindHint(call[p].m, call[p].j, dep, inProgress, active)
               pc == IF m.dep = 0 /\ spec = m.prior THEN "historical" ELSE "invocation"
    <2>1. call' = [call EXCEPT ![p].m = m, ![p].pc = pc]
      BY <1>1 DEF Recover
    <2>2. pc \notin Closing
      <3> HIDE DEF m
      <3> QED BY <1>0
    <2> HIDE DEF m, pc
    <2> QED BY <2>1, <2>2, RebindEnds
  <1>2. CASE Historical(p)
    <2>1. \/ Goto(p, "invocation") \/ Return(p, call[p].m)
          \/ \E m : call' = [call EXCEPT ![p].m = m, ![p].pc = "invocation"]
      BY <1>2 DEF Historical
    <2>2. ASSUME Return(p, call[p].m) PROVE Ends(p)
      BY <2>2, IdleEnds DEF Return
    <2> QED BY <1>0, <2>1, <2>2, GotoEnds, RebindEnds
  <1> QED
    BY <1>1, <1>2

LEMMA CloseEnds ==
  ASSUME RunnerInv, TruthInv, NEW p \in Callers,
         \/ CancelDeployment(p) \/ CancelDeploymentSend(p) \/ CancelDeploymentReadback(p)
         \/ CancelInvocation(p) \/ CancelInvocationReadback(p)
         \/ CleanupUpdate(p) \/ CleanupReadback(p) \/ ReadError(p)
  PROVE  Ends(p)
  <1>1. \/ Return(p, call[p].m)
        \/ call[p].pc \in Closing /\ \E pc : Goto(p, pc)
    BY DEF CancelDeployment, CancelDeploymentSend, CancelDeploymentReadback,
           CancelInvocation, CancelInvocationReadback, CleanupUpdate, CleanupReadback,
           ReadError, ReturnClean, At, Closing
  <1>2. ASSUME Return(p, call[p].m) PROVE Ends(p)
    BY <1>2, IdleEnds DEF Return
  <1> QED
    BY <1>1, <1>2, GotoEnds

LEMMA CleanupEnds ==
  ASSUME RunnerInv, TruthInv, NEW p \in Callers, Cleanup(p)
  PROVE  Ends(p)
  <1> DEFINE w == Without(spec, call[p].j)
             c == [call[p] EXCEPT !.pc = "cleanup_update", !.snap = w]
  <1>1. \/ Return(p, call[p].m)
        \/ call' = [call EXCEPT ![p].pc = "cleanup_update", ![p].snap = w]
    BY DEF Cleanup, ReturnClean
  <1>2. ASSUME Return(p, call[p].m) PROVE Ends(p)
    BY <1>2, IdleEnds DEF Return
  <1>3. ASSUME call' = [call EXCEPT ![p].pc = "cleanup_update", ![p].snap = w] PROVE Ends(p)
    <2> HIDE DEF w
    <2>1. c.op = call[p].op /\ c.j = call[p].j /\ c.state = call[p].state
      BY CallerFacts DEF Call
    <2>2. call' = [call EXCEPT ![p] = c]
      BY <1>3, CallerFacts DEF Call, RunnerInv, TypeOK, RunnerTypeOK
    <2>3. call[p].j \in Jobs /\ (call[p].op # "cancel" => Shown(call[p].j, call[p].state))
      BY CallerFacts DEF Cleanup, At, Closing, TruthInv, CallsTruthful, Shown
    <2> HIDE DEF c
    <2> QED BY <2>1, <2>2, <2>3, SetEnds
  <1> QED
    BY <1>1, <1>2, <1>3

(* What a clean return reports has been shown.                              *)
LEMMA CleanReports ==
  ASSUME RunnerInv, TruthInv, NEW p \in Callers, call[p].pc \in Closing,
         UNCHANGED reported \/ ReturnClean(p)
  PROVE  \A j \in Jobs : \A st \in reported'[j] :
             st \in reported[j] \/ Evidence(j, st, lastDep, dep, inv, expired)
  <1>1. CASE UNCHANGED reported
    BY <1>1
  <1>2. CASE ReturnClean(p)
    <2> DEFINE r == IF call[p].op = "cancel" THEN "cancel_ok" ELSE call[p].state
    <2>1. reported' = [reported EXCEPT ![call[p].j] = @ \cup {r}]
      BY <1>2 DEF ReturnClean
    <2>2. Evidence(call[p].j, r, lastDep, dep, inv, expired)
      <3>1. CASE call[p].op = "cancel"
        BY <3>1 DEF Evidence
      <3>2. CASE call[p].op # "cancel"
        BY <3>2 DEF TruthInv, CallsTruthful
      <3> QED BY <3>1, <3>2
    <2> HIDE DEF r
    <2>3. \A j \in Jobs : \A st \in reported'[j] : st \in reported[j] \/ (j = call[p].j /\ st = r)
      BY <2>1 DEF RunnerInv, TypeOK, RunnerTypeOK
    <2> QED BY <2>2, <2>3
  <1> QED
    BY <1>1, <1>2

LEMMA StepTruth ==
  ASSUME RunnerInv, WriteInv, TruthInv, NEW p \in Callers, Step(p) \/ ReadError(p)
  PROVE  TruthInv'
  <1>0. PlatformTypeOK /\ SlotsLive
    BY CallerFacts DEF TruthInv
  <1>1. Ends(p)
    BY RunEnds, FindEnds, InvocationEnds, StatusEnds, CloseEnds, CleanupEnds, SMTT(30) DEF Step
  <1>2. expired' = expired
    BY DEF Step, RunPreflight, RunUpdate, RunReadback, Recover, Historical, Invocation,
           StatusDeployment, StatusLaunch, CancelDeployment, CancelDeploymentSend,
           CancelDeploymentReadback, CancelInvocation, CancelInvocationReadback,
           Cleanup, CleanupUpdate, CleanupReadback, ReadError
  <1>3. \A j \in Jobs : \A st \in reported'[j] :
             st \in reported[j] \/ Evidence(j, st, lastDep, dep, inv, expired)
    <2>1. \/ UNCHANGED reported
          \/ ReturnClean(p) /\ call[p].pc \in Closing
      BY DEF Step, RunPreflight, RunUpdate, RunReadback, Recover, Historical, Invocation,
             StatusDeployment, StatusLaunch, CancelDeployment, CancelDeploymentSend,
             CancelDeploymentReadback, CancelInvocation, CancelInvocationReadback,
             Cleanup, CleanupUpdate, CleanupReadback, ReadError, At, Closing
    <2>2. ASSUME UNCHANGED reported
          PROVE  \A j \in Jobs : \A st \in reported'[j] : st \in reported[j]
      BY <2>2
    <2> QED BY <2>1, <2>2, CleanReports, SMTT(30)
  <1>4. Stable
    <2>1. \/ UNCHANGED platformVars
          \/ \E d, j : AcceptCancelDeployment(d) \/ AcceptCancelInvocation(d, j)
          \/ AcceptUpdate(LaunchSpec(call[p])) \/ AcceptUpdate(call[p].snap)
      BY DEF Step, RunPreflight, RunUpdate, RunReadback, Recover, Historical, Invocation,
             StatusDeployment, StatusLaunch, CancelDeployment, CancelDeploymentSend,
             CancelDeploymentReadback, CancelInvocation, CancelInvocationReadback,
             Cleanup, CleanupUpdate, CleanupReadback, ReadError
    <2>2. LaunchSpec(call[p]) \in Specs /\ call[p].snap \in Specs
      BY CallerFacts, SpecTypes DEF LaunchSpec, Forms
    <2> QED BY <1>0, <2>1, <2>2, IdleStable, CancelStable, UpdateStable, SMTT(30)
  <1> QED
    BY <1>1, <1>2, <1>3, <1>4, TruthStep

LEMMA BeginTruth ==
  ASSUME RunnerInv, TruthInv, NEW p \in Callers, NEW j \in Jobs,
         RunGet(p, j) \/ BeginStatus(p, j) \/ BeginCancel(p, j) \/ Crash(p)
  PROVE  TruthInv'
  <1>0. PlatformTypeOK /\ SlotsLive
    BY CallerFacts DEF TruthInv
  <1>1. Ends(p)
    BY BeginEnds, IdleEnds DEF Crash
  <1>2. UNCHANGED <<expired, reported>> /\ UNCHANGED platformVars
    BY DEF RunGet, BeginStatus, BeginCancel, Begin, Crash, Disturb
  <1> QED
    BY <1>0, <1>1, <1>2, IdleStable, TruthStep

(* Steps that touch no call.                                                *)
LEMMA OutsideTruth ==
  ASSUME RunnerInv, TruthInv, Stable, expired \subseteq expired', UNCHANGED <<call, reported>>
  PROVE  TruthInv'
  <1>1. PICK p \in Callers : TRUE
    BY RunnerAssumption
  <1>2. Ends(p)
    BY CallerFacts DEF Ends, TruthInv, CallsTruthful
  <1> QED
    BY <1>2, TruthStep

LEMMA NextTruth ==
  ASSUME RunnerInv, WriteInv, TruthInv, [Next]_vars
  PROVE  TruthInv'
  <1>0. PlatformTypeOK /\ SlotsLive /\ spec \in Specs
    BY DEF TruthInv, RunnerInv, TypeOK, PlatformTypeOK
  <1>1. ASSUME NEW kind, NEW s \in Specs, Foreign(kind, s) PROVE TruthInv'
    BY <1>0, <1>1, UpdateStable, OutsideTruth DEF Foreign, Disturb
  <1>2. ASSUME ForeignBase \/ ForeignApply \/ ForeignRedeploy \/ ForeignEdit PROVE TruthInv'
    <2>1. \A b \in Bases : [spec EXCEPT !.base = b] \in Specs
      BY <1>0 DEF Specs
    <2>2. [spec EXCEPT !.jobs = [j \in Jobs |-> "absent"]] \in Specs
      BY <1>0 DEF Specs, Forms
    <2>3. \A j \in Jobs : [spec EXCEPT !.jobs[j] = "edited"] \in Specs
      BY <1>0 DEF Specs, Forms
    <2> QED
      BY <1>0, <1>1, <1>2, <2>1, <2>2, <2>3 DEF ForeignBase, ForeignApply, ForeignRedeploy, ForeignEdit
  <1>3. ASSUME (\E j \in Jobs : Tick(j)) \/ UNCHANGED vars PROVE TruthInv'
    <2>1. UNCHANGED platformVars /\ UNCHANGED <<call, reported>> /\ expired \subseteq expired'
      BY <1>3 DEF Tick, vars, runnerVars
    <2> QED BY <1>0, <2>1, IdleStable, OutsideTruth
  <1>4. ASSUME Platform PROVE TruthInv'
    <2>1. PlatformNext /\ UNCHANGED <<call, reported, expired>>
      BY <1>4 DEF Platform, runnerVars
    <2> QED BY <1>0, <2>1, PlatformStable, OutsideTruth
  <1>5. ASSUME NEW p \in Callers, Crash(p) PROVE TruthInv'
    <2>1. PICK j \in Jobs : TRUE
      BY PlatformAssumption
    <2> QED BY <1>5, <2>1, BeginTruth
  <1> QED
    BY <1>2, <1>3, <1>4, <1>5, StepTruth, BeginTruth DEF Next

LEMMA InitTruth == Init => TruthInv
  <1> SUFFICES ASSUME Init PROVE TruthInv
    OBVIOUS
  <1>1. SlotsLive
    BY PlatformAssumption DEF Init, PlatformInit, SlotsLive, DepIDs
  <1>2. CallsTruthful
    BY DEF Init, CallsTruthful, IdleCall, Closing
  <1>3. ReportsTruthful
    BY DEF Init, ReportsTruthful
  <1> QED
    BY <1>1, <1>2, <1>3 DEF TruthInv

LEMMA TruthShown ==
  ASSUME TruthInv
  PROVE  TruthfulSuccess /\ TruthfulCancel
  <1>1. TruthfulSuccess
    <2> SUFFICES ASSUME NEW j \in Jobs, "succeeded" \in reported[j]
                 PROVE  \E d \in Own(j) : inv[d][j] = "succeeded"
      BY DEF TruthfulSuccess
    <2>1. Evidence(j, "succeeded", lastDep, dep, inv, expired)
      BY DEF TruthInv, ReportsTruthful
    <2> QED BY <2>1 DEF Evidence, Own, IntactIn
  <1>2. TruthfulCancel
    <2> SUFFICES ASSUME NEW j \in Jobs, "cancelled" \in reported[j], j \notin expired
                 PROVE  \E d \in Own(j) : dep[d].phase = "canceled" \/ inv[d][j] = "canceled"
      BY DEF TruthfulCancel
    <2>1. Evidence(j, "cancelled", lastDep, dep, inv, expired)
      BY DEF TruthInv, ReportsTruthful
    <2> QED BY <2>1 DEF Evidence, Own, IntactIn
  <1> QED
    BY <1>1, <1>2

(* JobStatus never reports a success or a cancellation that did not happen: *)
(* a success is that of an invocation of the unmodified component, and a    *)
(* cancellation that of the job, its deployment or its deadline, however    *)
(* calls on the same or other jobs, other writers, faults and crashes       *)
(* interleave.                                                              *)
THEOREM ReportsHappened == Spec => [](TruthfulSuccess /\ TruthfulCancel)
  <1>1. Init => TruthInv
    BY InitTruth
  <1>2. RunnerInv /\ WriteInv /\ TruthInv /\ [Next]_vars => TruthInv'
    BY NextTruth
  <1>3. TruthInv => TruthfulSuccess /\ TruthfulCancel
    BY TruthShown
  <1> QED
    BY <1>1, <1>2, <1>3, WritesAlways, PTL DEF Spec

-----------------------------------------------------------------------------
(* What a report without error means.  Deployments leave their slots in the *)
(* order in which they were created, so a deployment that has run jobs, or  *)
(* is found in the app's slots, has none before it that may still run.      *)

Runs(ds, d) == ds[d].phase \in {"pending", "building"}

Leads(ds, n, d) == d \in 1..n /\ \A e \in 1..n : e < d => ~Runs(ds, e)

OrderInv ==
    /\ pending # 0 /\ inProgress # 0 => inProgress < pending
    /\ \A d \in 1..lastDep : Runs(dep, d) => d \in {pending, inProgress}
    /\ active # 0 => Leads(dep, lastDep, active)
    /\ \A d \in DepIDs, j \in Jobs : inv[d][j] # "none" => Leads(dep, lastDep, d)

(* What every change of the app leaves as it was: deployments and           *)
(* invocations that are over stay so.                                       *)
Lasting ==
    /\ lastDep \in Nat /\ lastDep' \in Nat /\ lastDep <= lastDep'
    /\ \A d \in 1..lastDep :
          /\ dep'[d].spec = dep[d].spec
          /\ ~Runs(dep, d) => ~Runs(dep', d)
          /\ dep[d].phase = "error" => dep'[d].phase = "error"
          /\ \A j \in Jobs : inv[d][j] \notin {"none", "running"} => inv'[d][j] = inv[d][j]

LEMMA LeadsLasts ==
  ASSUME Lasting, NEW d, Leads(dep, lastDep, d)
  PROVE  Leads(dep', lastDep', d)
  BY DEF Lasting, Leads

(* The deployment in progress has none before it that may still run.        *)
LEMMA InProgressLeads ==
  ASSUME PlatformTypeOK, SlotsLive, OrderInv, inProgress # 0
  PROVE  inProgress \in DepIDs /\ Leads(dep, lastDep, inProgress)
  <1>1. inProgress \in DepIDs /\ inProgress \in Nat /\ inProgress \in 1..lastDep
    BY DepFacts, PlatformAssumption DEF SlotsLive, DepIDs
  <1>2. ASSUME NEW e \in 1..lastDep, e < inProgress, Runs(dep, e) PROVE FALSE
    <2>1. e = pending /\ e # 0
      BY <1>1, <1>2 DEF OrderInv
    <2> QED BY <1>1, <1>2, <2>1 DEF OrderInv
  <1> QED
    BY <1>1, <1>2 DEF Leads

LEMMA IdleOrder ==
  ASSUME PlatformTypeOK, OrderInv, UNCHANGED platformVars
  PROVE  Lasting /\ OrderInv'
  BY DepFacts DEF platformVars, OrderInv, Lasting, Runs, Leads

LEMMA UpdateOrder ==
  ASSUME PlatformTypeOK, SlotsLive, OrderInv, NEW s \in Specs, AcceptUpdate(s)
  PROVE  Lasting /\ OrderInv'
  <1> DEFINE n == lastDep + 1
  <1>0. n \in DepIDs /\ lastDep' = n /\ lastDep \in Nat /\ \A d \in 1..lastDep : d \in DepIDs /\ d # n
    BY DepFacts, PlatformAssumption DEF AcceptUpdate, DepIDs
  <1>1. PICK start \in BOOLEAN :
         /\ start => (inProgress = 0 /\ pending = 0)
         /\ dep' = [d \in DepIDs |->
                      IF d = n THEN [spec |-> Stored(s),
                                     phase |-> IF start THEN "building" ELSE "pending"]
                      ELSE IF d = pending THEN [dep[d] EXCEPT !.phase = "superseded"]
                      ELSE dep[d]]
         /\ pending' = IF start THEN 0 ELSE n
         /\ inProgress' = IF start THEN n ELSE inProgress
    BY DEF AcceptUpdate
  <1>2. UNCHANGED <<active, inv>>
    BY DEF AcceptUpdate
  <1>3. \A d \in 1..lastDep : /\ dep'[d].spec = dep[d].spec
                              /\ dep'[d].phase = IF d = pending THEN "superseded" ELSE dep[d].phase
    <2> HIDE DEF n
    <2> QED BY <1>0, <1>1, DepFacts DEF Deployments
  <1>4. inProgress \in Nat /\ pending \in Nat /\ inProgress <= lastDep /\ pending <= lastDep
        /\ (pending # 0 => pending \in 1..lastDep /\ dep[pending].phase = "pending")
    BY <1>0, DepFacts, PlatformAssumption DEF SlotsLive, DepRefs
  <1>5. Lasting
    <2> HIDE DEF n
    <2>1. \A d \in 1..lastDep : dep[d].phase = "error" \/ ~Runs(dep, d) => d # pending
      BY <1>4 DEF Runs
    <2>2. lastDep' \in Nat /\ lastDep <= lastDep'
      BY <1>0 DEF n
    <2> QED BY <1>0, <1>2, <1>3, <2>1, <2>2 DEF Lasting, Runs
  <1>6. OrderInv'
    <2>1. pending' # 0 /\ inProgress' # 0 => inProgress' < pending'
      BY <1>0, <1>1, <1>4
    <2>2. \A d \in 1..lastDep' : Runs(dep', d) => d \in {pending', inProgress'}
      <3> SUFFICES ASSUME NEW d \in 1..lastDep', Runs(dep', d) PROVE d \in {pending', inProgress'}
        OBVIOUS
      <3>1. CASE d = n
        BY <1>1, <3>1
      <3>2. CASE d # n
        <4>1. d \in 1..lastDep
          BY <1>0, <3>2
        <4>2. d # pending /\ Runs(dep, d) /\ d # 0
          BY <1>3, <4>1 DEF Runs
        <4>3. d = inProgress
          BY <4>1, <4>2 DEF OrderInv
        <4> QED BY <1>1, <4>2, <4>3
      <3> QED BY <3>1, <3>2
    <2>3. \A d : Leads(dep, lastDep, d) => Leads(dep', lastDep', d)
      BY <1>5, LeadsLasts
    <2> QED
      BY <1>2, <2>1, <2>2, <2>3 DEF OrderInv
  <1> QED
    BY <1>5, <1>6

LEMMA CancelOrder ==
  ASSUME PlatformTypeOK, SlotsLive, OrderInv, NEW d, NEW j,
         AcceptCancelDeployment(d) \/ AcceptCancelInvocation(d, j)
  PROVE  Lasting /\ OrderInv'
  <1>1. /\ UNCHANGED <<lastDep, active>>
        /\ pending' \in {pending, 0} /\ inProgress' \in {inProgress, 0}
        /\ \A e \in DepIDs : dep'[e].spec = dep[e].spec
        /\ \A e \in DepIDs : Runs(dep', e) => Runs(dep, e) /\ (e = pending => pending' = pending)
                                              /\ (e = inProgress => inProgress' = inProgress)
        /\ \A e \in DepIDs : dep[e].phase = "error" => dep'[e].phase = "error"
        /\ \A e \in DepIDs, i \in Jobs : /\ inv[e][i] \notin {"none", "running"} => inv'[e][i] = inv[e][i]
                                         /\ inv'[e][i] # "none" => inv[e][i] # "none"
    <2>1. CASE AcceptCancelDeployment(d)
      BY <2>1, DepFacts DEF AcceptCancelDeployment, Deployments, Runs, Unfinished
    <2>2. CASE AcceptCancelInvocation(d, j)
      BY <2>2, DepFacts DEF AcceptCancelInvocation, Runs
    <2> QED BY <2>1, <2>2
  <1>2. Lasting
    BY <1>1, DepFacts DEF Lasting
  <1>3. OrderInv'
    <2>1. \A e : Leads(dep, lastDep, e) => Leads(dep', lastDep', e)
      BY <1>2, LeadsLasts
    <2>2. \A e \in 1..lastDep : Runs(dep', e) => e \in {pending', inProgress'}
      BY <1>1, DepFacts DEF OrderInv
    <2> QED
      BY <1>1, <2>1, <2>2 DEF OrderInv
  <1> QED
    BY <1>2, <1>3

LEMMA PlatformOrder ==
  ASSUME PlatformTypeOK, SlotsLive, OrderInv, PlatformNext
  PROVE  Lasting /\ OrderInv'
  <1> DEFINE Deps == /\ lastDep' = lastDep
                     /\ \A e \in DepIDs : /\ dep'[e].spec = dep[e].spec
                                          /\ Runs(dep', e) => Runs(dep, e)
                                          /\ dep[e].phase = "error" => dep'[e].phase = "error"
             Invs == \A e \in DepIDs, i \in Jobs :
                        /\ inv[e][i] \notin {"none", "running"} => inv'[e][i] = inv[e][i]
                        /\ inv'[e][i] # "none" => inv[e][i] # "none" \/ Leads(dep, lastDep, e)
             Slots == /\ pending' # 0 /\ inProgress' # 0 => inProgress' < pending'
                      /\ \A e \in DepIDs : Runs(dep', e) /\ e \in {pending, inProgress} =>
                                              e \in {pending', inProgress'}
                      /\ active' # 0 => active' = active \/ Leads(dep, lastDep, active')
  <1>0. SUFFICES Deps /\ Invs /\ Slots
    <2>1. Lasting
      BY <1>0, DepFacts DEF Lasting
    <2>2. \A e : Leads(dep, lastDep, e) => Leads(dep', lastDep', e)
      BY <2>1, LeadsLasts
    <2>3. \A e \in 1..lastDep' : Runs(dep', e) => e \in {pending', inProgress'}
      BY <1>0, DepFacts DEF OrderInv
    <2> QED
      BY <1>0, <2>1, <2>2, <2>3 DEF OrderInv
  <1>1. CASE StartDeployment
    <2>1. pending \in DepIDs /\ dep[pending].phase = "pending"
      BY <1>1, DepFacts DEF StartDeployment, SlotsLive
    <2>2. \A e \in DepIDs : /\ dep'[e].spec = dep[e].spec
                            /\ dep'[e].phase = IF e = pending THEN "building" ELSE dep[e].phase
      BY <1>1, DepFacts DEF StartDeployment, Deployments
    <2>3. pending' = 0 /\ inProgress' = pending /\ inProgress = 0 /\ UNCHANGED <<lastDep, active, inv>>
      BY <1>1 DEF StartDeployment
    <2>4. 0 \notin DepIDs
      BY DEF DepIDs
    <2> QED BY <2>1, <2>2, <2>3, <2>4 DEF Runs
  <1>2. ASSUME NEW d \in DepIDs, NEW j \in Jobs, StartJob(j) \/ EndJob(d, j)
        PROVE  Deps /\ Invs /\ Slots
    <2>1. Invs
      <3>1. CASE StartJob(j)
        BY <3>1, DepFacts, InProgressLeads DEF StartJob
      <3>2. CASE EndJob(d, j)
        BY <3>2, DepFacts DEF EndJob
      <3> QED BY <1>2, <3>1, <3>2
    <2>2. UNCHANGED <<dep, lastDep, pending, inProgress, active>>
      BY <1>2 DEF StartJob, EndJob
    <2> QED BY <2>1, <2>2 DEF OrderInv
  <1>3. CASE ActivateDeployment
    <2>1. inProgress \in DepIDs /\ dep[inProgress].phase = "building" /\ Leads(dep, lastDep, inProgress)
      BY <1>3, DepFacts, InProgressLeads DEF ActivateDeployment, SlotsLive
    <2>2. \A e \in DepIDs : /\ dep'[e].spec = dep[e].spec
                            /\ dep'[e].phase = IF e = inProgress THEN "active"
                                               ELSE IF e = active THEN "superseded" ELSE dep[e].phase
      BY <1>3, DepFacts DEF ActivateDeployment, Deployments
    <2>3. active' = inProgress /\ inProgress' = 0 /\ UNCHANGED <<lastDep, pending, inv>>
      BY <1>3 DEF ActivateDeployment
    <2>4. active \in DepIDs => dep[active].phase = "active"
      BY DepFacts, PlatformAssumption DEF SlotsLive, DepIDs
    <2> QED BY <2>1, <2>2, <2>3, <2>4 DEF Runs
  <1>4. CASE FailDeployment \/ SupersedeDeployment
    <2>1. inProgress \in DepIDs /\ dep[inProgress].phase = "building" /\ Leads(dep, lastDep, inProgress)
      BY <1>4, DepFacts, InProgressLeads DEF FailDeployment, SupersedeDeployment, SlotsLive
    <2>2. /\ \A e \in DepIDs : dep'[e].spec = dep[e].spec
          /\ \A e \in DepIDs : e # inProgress => dep'[e].phase = dep[e].phase
          /\ ~Runs(dep', inProgress)
      <3>1. CASE FailDeployment
        BY <2>1, <3>1, DepFacts DEF FailDeployment, Deployments, Runs
      <3>2. CASE SupersedeDeployment
        BY <2>1, <3>2, DepFacts DEF SupersedeDeployment, Deployments, Runs
      <3> QED BY <1>4, <3>1, <3>2
    <2>3. inProgress' = 0 /\ UNCHANGED <<lastDep, pending, active>>
      BY <1>4 DEF FailDeployment, SupersedeDeployment
    <2>4. Invs
      <3>1. CASE UNCHANGED inv
        BY <3>1
      <3>2. CASE inv' = [inv EXCEPT ![inProgress] = [j \in Jobs |->
                     IF inv[inProgress][j] = "none" /\ JobPresent(inProgress, j)
                       THEN "skipped" ELSE inv[inProgress][j]]]
        BY <2>1, <3>2, DepFacts
      <3> QED BY <1>4, <3>1, <3>2 DEF FailDeployment, SupersedeDeployment
    <2> QED BY <2>1, <2>2, <2>3, <2>4 DEF Runs
  <1> QED
    BY <1>1, <1>2, <1>3, <1>4, PlatformAssumption DEF PlatformNext, DepIDs

LEMMA InitOrder == Init => OrderInv
  BY PlatformAssumption DEF Init, PlatformInit, OrderInv, Runs, Leads, DepIDs

-----------------------------------------------------------------------------
(* The launch of a job is the first deployment that carries its component,  *)
(* and a job has one RunJob, which is over before the host has the handle.  *)

Protocol ==
    /\ held \subseteq used
    /\ \A p \in Callers :
          /\ call[p].pc \in RunPCs => call[p].j \in used \ held
          /\ call[p].pc \in {"run_preflight", "run_update"} => launch[call[p].j] = 0
          /\ call[p].pc \notin RunPCs \cup {"idle"} => call[p].j \in held
    /\ \A p, q \in Callers :
          call[p].pc \in RunPCs /\ call[q].pc \in RunPCs /\ call[p].j = call[q].j => p = q
    /\ \A j \in Jobs : launch[j] # 0 => j \in used
    /\ \A j \in Jobs : reported[j] # {} => j \in held

Launches == \A j \in Jobs :
    /\ launch[j] = 0 => \A d \in DepIDs : ~JobPresent(d, j)
    /\ launch[j] # 0 =>
          /\ launch[j] \in 1..lastDep /\ JobPresent(launch[j], j)
          /\ \A d \in DepIDs : JobPresent(d, j) => launch[j] <= d

(* The hypotheses.  Nobody drops a component that is not over: no apply     *)
(* from configuration removes it, and no call for another job writes a spec *)
(* it read before the launch.                                               *)
OneJob    == \A j, k \in Jobs : j = k
OneCaller == \A p, q \in Callers : p = q

NobodyDrops == "drop" \notin Disturbances /\ (OneJob \/ OneCaller)

(* Nor does the rest of the app change, or a second call clean up.          *)
Undisturbed == OneJob /\ OneCaller /\ Disturbances \cap {"base", "drop"} = {}

(* The job's launch can no longer run it.                                   *)
Ended(j, ds, iv, la) ==
    la[j] # 0 => ~Runs(ds, la[j]) \/ iv[la[j]][j] \notin {"none", "running"}

(* What a reported failure must be able to show.                            *)
Failed(j, ds, iv, n, la) ==
    \/ la[j] = 0
    \/ \E d \in 1..n : /\ HasIntent(ds[d].spec.jobs[j])
                       /\ ds[d].phase = "error" \/ iv[d][j] \in {"failed", "skipped"}

(* A handle binds the launch, or a deployment that could only start once    *)
(* the launch was over.                                                     *)
MetaGood(m, j, ds, n, la) ==
    /\ m.dep # 0 => m.dep = la[j] \/ Leads(ds, n, m.dep)
    /\ Undisturbed => m.prior = FirstSpec

SearchPCs == {"invocation", "status_launch"}
CleanPCs  == {"cleanup", "cleanup_update", "cleanup_readback"}
StopPCs   == {"cancel_inv", "cancel_inv_readback"}

(* What a call of JobStatus or CancelJob knows at each step.                *)
CallGood(c, sp, ds, iv, n, la) ==
    /\ MetaGood(c.m, c.j, ds, n, la)
    /\ c.pc \in CleanPCs => Ended(c.j, ds, iv, la)
    /\ c.pc \in StopPCs => c.found = c.m.dep
    /\ c.pc \in Closing \ CleanPCs => c.m.dep # 0
    /\ c.pc = "status_launch" => c.m.dep = 0
    /\ Undisturbed =>
          /\ c.pc \in SearchPCs /\ c.m.dep = 0 => la[c.j] = 0 \/ sp.jobs[c.j] # "absent"
          /\ c.pc \in Closing /\ c.state = "failed" => Failed(c.j, ds, iv, n, la)

(* The live spec, and whatever a call will write, lacks a job's component   *)
(* before its launch, and after it only once the launch is over.            *)
Sound(s, ds, iv, la) ==
    /\ \A j \in Jobs : s.jobs[j] = "absent" => Ended(j, ds, iv, la)
    /\ \A j \in Jobs : la[j] = 0 => s.jobs[j] = "absent"
    /\ Undisturbed => s.base = FirstBase

Reported(j, r, ds, iv, n, la) ==
    /\ r # {} => Ended(j, ds, iv, la)
    /\ Undisturbed /\ "failed" \in r => Failed(j, ds, iv, n, la)

(* The handles h, the calls cs and the reports rs, seen beside the spec sp  *)
(* and the deployments ds.                                                  *)
Judge(h, cs, rs, sp, ds, iv, n, la) ==
    /\ \A j \in Jobs : MetaGood(h[j], j, ds, n, la)
    /\ \A p \in Callers : CallGood(cs[p], sp, ds, iv, n, la)
    /\ \A p \in Callers : cs[p].pc \in WritePCs => Sound(cs[p].snap, ds, iv, la)
    /\ \A j \in Jobs : Reported(j, rs[j], ds, iv, n, la)
    /\ Sound(sp, ds, iv, la)

JudgeInv == Judge(handle, call, reported, spec, dep, inv, lastDep, launch)

AppInv == SlotsLive /\ OrderInv /\ Protocol /\ Launches /\ JudgeInv

(* A bound deployment that is over, or has run the job, ends the launch.    *)
LEMMA EndedBy ==
  ASSUME RunnerInv, Launches, NEW m \in Meta, NEW j \in Jobs, m.dep # 0,
         BindsOwn(m, j, dep, lastDep), MetaGood(m, j, dep, lastDep, launch),
         ~Runs(dep, m.dep) \/ inv[m.dep][j] \notin {"none", "running"}
  PROVE  Ended(j, dep, inv, launch)
  <1>1. m.dep \in DepIDs /\ m.dep \in 1..lastDep /\ JobPresent(m.dep, j)
    BY PlatformAssumption DEF BindsOwn, Meta, DepRefs, DepIDs, HasIntent, JobPresent
  <1> SUFFICES ASSUME launch[j] # 0
               PROVE  ~Runs(dep, launch[j]) \/ inv[launch[j]][j] \notin {"none", "running"}
    BY DEF Ended
  <1>2. launch[j] \in 1..lastDep /\ launch[j] <= m.dep
    BY <1>1 DEF Launches
  <1>3. CASE m.dep = launch[j]
    BY <1>3
  <1>4. CASE m.dep # launch[j]
    <2>1. launch[j] < m.dep
      BY <1>1, <1>2, <1>4
    <2>2. Leads(dep, lastDep, m.dep)
      BY <1>4 DEF MetaGood
    <2> QED
      BY <1>2, <2>1, <2>2 DEF Leads
  <1> QED
    BY <1>3, <1>4

(* What a step of JobStatus or CancelJob must establish, seen from before   *)
(* whatever it does to the app.                                             *)
JudgedCall(c) == CallGood(c, spec, dep, inv, lastDep, launch)

Judged(p) ==
    /\ \A q \in Callers \ {p} : call'[q] = call[q]
    /\ \/ call'[p] = IdleCall
       \/ /\ call'[p].j = call[p].j /\ call'[p].pc \notin RunPCs \cup {"idle"}
          /\ CallGood(call'[p], spec, dep, inv, lastDep, launch)
    /\ \A j \in Jobs : \/ handle'[j] = handle[j]
                       \/ j = call[p].j /\ MetaGood(handle'[j], j, dep, lastDep, launch)

(* What is known of a state a call has read.                                *)
Stated(j, st) ==
    /\ Terminal(st) => Ended(j, dep, inv, launch)
    /\ Undisturbed /\ st = "failed" => Failed(j, dep, inv, lastDep, launch)

LEMMA SetJudged ==
  ASSUME RunnerInv, NEW p \in Callers, NEW c, call' = [call EXCEPT ![p] = c], UNCHANGED handle,
         c.j = call[p].j, c.pc \notin RunPCs \cup {"idle"}, JudgedCall(c)
  PROVE  Judged(p)
  <1>1. \A q \in Callers : call'[q] = IF q = p THEN c ELSE call[q]
    BY DEF RunnerInv, TypeOK, RunnerTypeOK
  <1>2. call'[p] = c
    BY <1>1
  <1>3. CallGood(call'[p], spec, dep, inv, lastDep, launch)
    BY <1>2 DEF JudgedCall
  <1> QED
    BY <1>1, <1>2, <1>3 DEF Judged

LEMMA ReturnJudged ==
  ASSUME RunnerInv, NEW p \in Callers, NEW m, Return(p, m),
         MetaGood(m, call[p].j, dep, lastDep, launch)
  PROVE  Judged(p)
  <1>1. \A q \in Callers : call'[q] = IF q = p THEN IdleCall ELSE call[q]
    BY DEF Return, RunnerInv, TypeOK, RunnerTypeOK
  <1>2. \A j \in Jobs : handle'[j] = handle[j] \/ (j = call[p].j /\ handle'[j] = m)
    BY DEF Return, RunnerInv, TypeOK, RunnerTypeOK
  <1>3. \A j \in Jobs : \/ handle'[j] = handle[j]
                        \/ j = call[p].j /\ MetaGood(handle'[j], j, dep, lastDep, launch)
    BY <1>2
  <1> QED
    BY <1>1, <1>3 DEF Judged

LEMMA GotoJudged ==
  ASSUME RunnerInv, JudgeInv, NEW p \in Callers, NEW pc, Goto(p, pc), UNCHANGED handle,
         pc \notin RunPCs \cup {"idle"},
         pc \in Closing => call[p].pc \in Closing,
         pc \in CleanPCs => Ended(call[p].j, dep, inv, launch),
         pc \in StopPCs => call[p].pc \in StopPCs,
         pc \in Closing \ CleanPCs => call[p].m.dep # 0,
         pc = "status_launch" => call[p].m.dep = 0,
         pc \in SearchPCs /\ call[p].m.dep = 0 /\ Undisturbed =>
            launch[call[p].j] = 0 \/ spec.jobs[call[p].j] # "absent"
  PROVE  Judged(p)
  <1> DEFINE c == [call[p] EXCEPT !.pc = pc]
  <1>1. c.pc = pc /\ c.j = call[p].j /\ c.state = call[p].state /\ c.m = call[p].m /\ c.found = call[p].found
    BY CallerFacts DEF Call
  <1>2. call' = [call EXCEPT ![p] = c]
    BY DEF Goto
  <1>3. CallGood(call[p], spec, dep, inv, lastDep, launch)
    BY DEF JudgeInv, Judge
  <1> HIDE DEF c
  <1>4. JudgedCall(c)
    BY <1>1, <1>3 DEF CallGood, JudgedCall
  <1> QED
    BY <1>1, <1>2, <1>4, SetJudged

LEMMA DecideJudged ==
  ASSUME RunnerInv, NEW p \in Callers, NEW m, NEW found, NEW state,
         Decide(p, m, found, state), MetaGood(m, call[p].j, dep, lastDep, launch),
         found \in {0, m.dep}, Stated(call[p].j, state)
  PROVE  Judged(p)
  <1> DEFINE Go(pc, st) == [call[p] EXCEPT !.pc = pc, !.m = m, !.found = found, !.state = st]
  <1>1. CASE Return(p, m)
    BY <1>1, ReturnJudged
  <1>2. ASSUME NEW pc \in {"cleanup", "cancel_inv", "cancel_dep"}, NEW st,
               call' = [call EXCEPT ![p] = Go(pc, st)], UNCHANGED handle,
               pc = "cleanup" => st = state /\ Terminal(state),
               pc # "cleanup" => m.dep # 0 /\ st = "cancelled",
               pc = "cancel_inv" => found # 0
        PROVE  Judged(p)
    <2> DEFINE c == Go(pc, st)
    <2>1. c.pc = pc /\ c.j = call[p].j /\ c.state = st /\ c.m = m /\ c.found = found
      BY CallerFacts DEF Call
    <2>2. call' = [call EXCEPT ![p] = c]
      BY <1>2
    <2> HIDE DEF c
    <2>3. pc \notin RunPCs \cup {"idle"}
      BY DEF RunPCs
    <2>4. JudgedCall(c)
      BY <1>2, <2>1 DEF CallGood, JudgedCall, Stated, CleanPCs, StopPCs, SearchPCs, Closing
    <2> QED BY <1>2, <2>1, <2>2, <2>3, <2>4, SetJudged
  <1>3. \/ Return(p, m)
        \/ \E pc \in {"cleanup", "cancel_inv", "cancel_dep"}, st \in {state, "cancelled"} :
              /\ call' = [call EXCEPT ![p] = Go(pc, st)] /\ UNCHANGED handle
              /\ pc = "cleanup" => st = state /\ Terminal(state)
              /\ pc # "cleanup" => m.dep # 0 /\ st = "cancelled"
              /\ pc = "cancel_inv" => found # 0
    BY DEF Decide
  <1> HIDE DEF Go
  <1> QED
    BY <1>1, <1>2, <1>3

LEMMA RebindJudged ==
  ASSUME RunnerInv, NEW p \in Callers, NEW m, NEW pc \in {"historical", "invocation"},
         call' = [call EXCEPT ![p].m = m, ![p].pc = pc], UNCHANGED handle,
         MetaGood(m, call[p].j, dep, lastDep, launch),
         pc = "invocation" /\ m.dep = 0 /\ Undisturbed =>
            launch[call[p].j] = 0 \/ spec.jobs[call[p].j] # "absent"
  PROVE  Judged(p)
  <1> DEFINE c == [call[p] EXCEPT !.m = m, !.pc = pc]
  <1>1. c.pc = pc /\ c.j = call[p].j /\ c.m = m
    BY CallerFacts DEF Call
  <1>2. call' = [call EXCEPT ![p] = c]
    BY CallerFacts DEF Call, RunnerInv, TypeOK, RunnerTypeOK
  <1> HIDE DEF c
  <1>3. JudgedCall(c) /\ pc \notin RunPCs \cup {"idle"}
    BY <1>1 DEF CallGood, JudgedCall, CleanPCs, StopPCs, SearchPCs, Closing, RunPCs
  <1> QED
    BY <1>1, <1>2, <1>3, SetJudged

(* The facts about a caller's judgement that its steps start from.          *)
LEMMA JudgeFacts ==
  ASSUME RunnerInv, AppInv, NEW p \in Callers
  PROVE  /\ call[p].m \in Meta /\ call[p].j \in Jobs
         /\ BindsOwn(call[p].m, call[p].j, dep, lastDep)
         /\ MetaGood(call[p].m, call[p].j, dep, lastDep, launch)
         /\ CallGood(call[p], spec, dep, inv, lastDep, launch)
         /\ Sound(spec, dep, inv, launch)
         /\ Launches /\ JudgeInv /\ PlatformTypeOK /\ SlotsLive /\ OrderInv
  BY CallerFacts DEF AppInv, JudgeInv, Judge, CallGood

LEMMA BoundGood ==
  ASSUME NEW m \in Meta, NEW j \in Jobs, NEW d,
         MetaGood(m, j, dep, lastDep, launch), d = launch[j] \/ Leads(dep, lastDep, d)
  PROVE  MetaGood(Bound(m, j, dep, d), j, dep, lastDep, launch)
  <1>1. Bound(m, j, dep, d).dep = d /\ Bound(m, j, dep, d).prior = m.prior
    BY DEF Bound, Meta
  <1> QED
    BY <1>1 DEF MetaGood

(* In an undisturbed app, a spec without the component is the first one.    *)
LEMMA FirstSpecAgain ==
  ASSUME Undisturbed, NEW s \in Specs, s.base = FirstBase, NEW j \in Jobs, s.jobs[j] = "absent"
  PROVE  s = FirstSpec
  <1>1. s.jobs = [k \in Jobs |-> "absent"]
    BY DEF Undisturbed, OneJob, Specs
  <1> QED
    BY <1>1 DEF Specs, FirstSpec

LEMMA RecoverJudged ==
  ASSUME RunnerInv, AppInv, NEW p \in Callers, Recover(p)
  PROVE  Judged(p)
  <1> DEFINE m == BindHint(call[p].m, call[p].j, dep, inProgress, active)
             pc == IF m.dep = 0 /\ spec = m.prior THEN "historical" ELSE "invocation"
  <1>1. MetaGood(m, call[p].j, dep, lastDep, launch)
    <2>1. inProgress # 0 => Leads(dep, lastDep, inProgress)
      BY JudgeFacts, InProgressLeads
    <2>2. active # 0 => Leads(dep, lastDep, active)
      BY JudgeFacts DEF OrderInv
    <2> QED
      BY <2>1, <2>2, JudgeFacts, BoundGood DEF BindHint, Binds
  <1>2. pc = "invocation" /\ m.dep = 0 /\ Undisturbed => spec.jobs[call[p].j] # "absent"
    <2> SUFFICES ASSUME spec # m.prior, Undisturbed, spec.jobs[call[p].j] = "absent" PROVE FALSE
      OBVIOUS
    <2>1. m.prior = FirstSpec
      BY <1>1 DEF MetaGood
    <2>2. spec \in Specs /\ spec.base = FirstBase /\ call[p].j \in Jobs
      BY CallerFacts, JudgeFacts DEF Sound
    <2> HIDE DEF m
    <2> QED BY <2>1, <2>2, FirstSpecAgain
  <1>3. call' = [call EXCEPT ![p].m = m, ![p].pc = pc] /\ UNCHANGED handle
    BY DEF Recover
  <1> HIDE DEF m
  <1>4. pc \in {"historical", "invocation"}
    OBVIOUS
  <1> HIDE DEF pc
  <1> QED
    BY <1>1, <1>2, <1>3, <1>4, RebindJudged

LEMMA HistoricalJudged ==
  ASSUME RunnerInv, AppInv, NEW p \in Callers, Historical(p)
  PROVE  Judged(p)
  <1> DEFINE c == call[p]
             carrying == {d \in 1..lastDep : JobPresent(d, c.j)}
  <1>0. launch[c.j] # 0 => launch[c.j] \in carrying
    BY JudgeFacts DEF Launches
  <1>1. ASSUME carrying = {}, Goto(p, "invocation"), UNCHANGED handle PROVE Judged(p)
    <2>1. launch[c.j] = 0
      BY <1>0, <1>1
    <2>2. "invocation" \notin RunPCs \cup {"idle"} /\ "invocation" \notin Closing /\ "invocation" \notin StopPCs
          /\ "invocation" \notin CleanPCs
      BY DEF RunPCs, Closing, StopPCs, CleanPCs
    <2> HIDE DEF carrying
    <2> QED BY <1>1, <2>1, <2>2, JudgeFacts, GotoJudged
  <1>2. ASSUME NEW d \in carrying, carrying = {d},
               call' = [call EXCEPT ![p].m = Bound(c.m, c.j, dep, d), ![p].pc = "invocation"],
               UNCHANGED handle
        PROVE  Judged(p)
    <2> DEFINE m == Bound(c.m, c.j, dep, d)
    <2>1. d \in DepIDs /\ JobPresent(d, c.j) /\ d # 0
      BY JudgeFacts, DepFacts
    <2>2. launch[c.j] # 0
      BY <2>1, JudgeFacts DEF Launches
    <2>3. d = launch[c.j]
      BY <1>0, <1>2, <2>2
    <2>4. MetaGood(m, c.j, dep, lastDep, launch)
      BY <2>3, JudgeFacts, BoundGood
    <2>5. m.dep = d
      BY JudgeFacts DEF Bound, Meta
    <2>6. call' = [call EXCEPT ![p].m = m, ![p].pc = "invocation"]
      BY <1>2
    <2> HIDE DEF m, carrying
    <2> QED BY <1>2, <2>1, <2>4, <2>5, <2>6, RebindJudged
  <1>3. ASSUME Return(p, c.m) PROVE Judged(p)
    BY <1>3, JudgeFacts, ReturnJudged
  <1> QED
    BY <1>1, <1>2, <1>3 DEF Historical

(* The state of an invocation of the bound deployment.                      *)
LEMMA InvocationStated ==
  ASSUME RunnerInv, Launches, NEW m \in Meta, NEW j \in Jobs, m.dep # 0,
         BindsOwn(m, j, dep, lastDep), MetaGood(m, j, dep, lastDep, launch)
  PROVE  Stated(j, StateOf(inv[m.dep][j]))
  <1>1. m.dep \in 1..lastDep /\ HasIntent(dep[m.dep].spec.jobs[j])
    BY PlatformAssumption DEF BindsOwn, Meta, DepRefs
  <1>2. ASSUME NEW phase PROVE /\ Terminal(StateOf(phase)) => phase \notin {"none", "running"}
                               /\ StateOf(phase) = "failed" => phase \in {"failed", "skipped"}
    BY DEF StateOf, Terminal
  <1>3. PICK phase : phase = inv[m.dep][j]
    OBVIOUS
  <1>4. Terminal(StateOf(phase)) => Ended(j, dep, inv, launch)
    BY <1>2, <1>3, EndedBy
  <1>5. StateOf(phase) = "failed" => Failed(j, dep, inv, lastDep, launch)
    BY <1>1, <1>2, <1>3 DEF Failed
  <1> QED
    BY <1>3, <1>4, <1>5 DEF Stated

LEMMA PendingStated ==
  ASSUME NEW j
  PROVE  Stated(j, "pending")
  BY DEF Stated, Terminal

LEMMA InvocationJudged ==
  ASSUME RunnerInv, AppInv, NEW p \in Callers, Invocation(p)
  PROVE  Judged(p)
  <1> DEFINE c == call[p]
  <1>0. c.pc \in SearchPCs /\ CallGood(c, spec, dep, inv, lastDep, launch)
    BY JudgeFacts DEF Invocation, At, SearchPCs
  <1>1. ASSUME NEW pc \in {"status_dep", "status_launch"}, Goto(p, pc), UNCHANGED handle,
               pc = "status_launch" => c.m.dep = 0
        PROVE  Judged(p)
    <2>1. pc \notin Closing /\ pc \notin StopPCs /\ pc \notin CleanPCs /\ pc \notin RunPCs \cup {"idle"}
      BY DEF Closing, StopPCs, CleanPCs, RunPCs
    <2>2. call[p].m.dep = 0 /\ Undisturbed => launch[call[p].j] = 0 \/ spec.jobs[call[p].j] # "absent"
      BY <1>0 DEF CallGood
    <2> QED BY <1>1, <2>1, <2>2, JudgeFacts, GotoJudged
  <1>2. ASSUME Decide(p, c.m, 0, "pending") PROVE Judged(p)
    BY <1>2, JudgeFacts, PendingStated, DecideJudged
  <1>3. ASSUME Return(p, c.m) PROVE Judged(p)
    BY <1>3, JudgeFacts, ReturnJudged
  <1>4. ASSUME NEW d \in Invocations(c), InvocationBinds(c, d),
               LET m == IF c.m.dep = 0 THEN Bound(c.m, c.j, dep, d) ELSE c.m
               IN  Decide(p, [m EXCEPT !.job = d], d, StateOf(inv[d][c.j]))
        PROVE  Judged(p)
    <2> DEFINE m == IF c.m.dep = 0 THEN Bound(c.m, c.j, dep, d) ELSE c.m
               r == [m EXCEPT !.job = d]
    <2>1. c.m \in Meta /\ c.m.job \in {0, c.m.dep} /\ c.m.job \in DepRefs
      BY CallerFacts DEF BindsOwn, Meta
    <2>2. d \in DepRefs
      BY <1>4, <2>1, PlatformAssumption DEF Invocations, DepIDs, DepRefs
    <2>3. /\ m \in Meta /\ BindsOwn(m, c.j, dep, lastDep) /\ m.dep = d /\ d # 0
          /\ MetaGood(m, c.j, dep, lastDep, launch)
      <3>1. CASE c.m.dep = 0
        <4>1. Binds(c.m, c.j, dep, d)
          BY <1>4, <3>1 DEF InvocationBinds
        <4>2. m = Bound(c.m, c.j, dep, d) /\ m \in Meta /\ BindsOwn(m, c.j, dep, lastDep) /\ m.dep = d /\ d # 0
          BY <3>1, <4>1, <2>1, <2>2, CallerFacts, BoundIsOwned
        <4>3. c.m.job = 0
          BY <2>1, <3>1
        <4>4. d \in DepIDs /\ inv[d][c.j] # "none"
          BY <1>4, <4>3 DEF Invocations
        <4>5. Leads(dep, lastDep, d)
          BY <4>4, JudgeFacts DEF OrderInv
        <4> QED
          BY <4>2, <4>5, JudgeFacts, BoundGood
      <3>2. CASE c.m.dep # 0
        BY <1>4, <3>2, CallerFacts, JudgeFacts DEF InvocationBinds
      <3> QED BY <3>1, <3>2
    <2>4. c.j \in Jobs
      BY CallerFacts
    <2>5. Decide(p, r, d, StateOf(inv[d][c.j]))
      BY <1>4
    <2> HIDE DEF m
    <2>6. Stated(c.j, StateOf(inv[d][c.j]))
      BY <2>3, <2>4, JudgeFacts, InvocationStated
    <2>7. r.dep = d /\ r.prior = m.prior
      BY <2>3 DEF Meta
    <2>8. MetaGood(r, c.j, dep, lastDep, launch)
      BY <2>3, <2>7 DEF MetaGood
    <2> HIDE DEF r
    <2> QED BY <2>5, <2>6, <2>7, <2>8, DecideJudged
  <1> QED
    BY <1>1, <1>2, <1>3, <1>4 DEF Invocation

LEMMA StatusJudged ==
  ASSUME RunnerInv, AppInv, NEW p \in Callers, StatusDeployment(p) \/ StatusLaunch(p)
  PROVE  Judged(p)
  <1> DEFINE c == call[p]
  <1>1. CASE StatusLaunch(p)
    <2>1. ASSUME spec.jobs[c.j] = "absent" PROVE Stated(c.j, "failed")
      <3>1. Ended(c.j, dep, inv, launch)
        BY <2>1, JudgeFacts DEF Sound
      <3>2. CASE c.m.dep = 0
        <4>1. Undisturbed => launch[c.j] = 0
          BY <1>1, <2>1, <3>2, JudgeFacts DEF CallGood, StatusLaunch, At, SearchPCs
        <4> QED BY <3>1, <4>1 DEF Stated, Failed
      <3>3. c.m.dep = 0
        BY <1>1, JudgeFacts DEF CallGood, StatusLaunch, At
      <3> QED BY <3>2, <3>3
    <2> QED BY <1>1, <2>1, JudgeFacts, PendingStated, DecideJudged DEF StatusLaunch
  <1>2. CASE StatusDeployment(p)
    <2>1. \/ Return(p, c.m)
          \/ Decide(p, c.m, 0, "pending")
          \/ /\ c.m.dep # 0 /\ dep[c.m.dep].phase = "error"
             /\ Decide(p, c.m, 0, "failed")
          \/ /\ c.m.dep # 0 /\ dep[c.m.dep].phase = "canceled"
             /\ Decide(p, c.m, 0, "cancelled")
      BY <1>2 DEF StatusDeployment, Binds
    <2>2. ASSUME c.m.dep # 0, dep[c.m.dep].phase \in {"error", "canceled"}
          PROVE  Ended(c.j, dep, inv, launch)
      BY <2>2, JudgeFacts, EndedBy DEF Runs
    <2>3. ASSUME c.m.dep # 0, dep[c.m.dep].phase = "error"
          PROVE  Failed(c.j, dep, inv, lastDep, launch)
      <3>1. c.m \in Meta /\ c.m.dep \in DepRefs /\ BindsOwn(c.m, c.j, dep, lastDep)
        BY JudgeFacts DEF Meta
      <3>2. c.m.dep <= lastDep /\ HasIntent(dep[c.m.dep].spec.jobs[c.j])
        BY <2>3, <3>1 DEF BindsOwn
      <3>3. c.m.dep \in 1..lastDep
        BY <2>3, <3>1, <3>2, JudgeFacts, DepFacts, PlatformAssumption DEF DepRefs
      <3> HIDE DEF c
      <3> QED BY <2>3, <3>2, <3>3 DEF Failed
    <2>4. ASSUME Return(p, c.m) PROVE Judged(p)
      BY <2>4, JudgeFacts, ReturnJudged
    <2>5. ASSUME NEW st, Decide(p, c.m, 0, st), Stated(c.j, st) PROVE Judged(p)
      BY <2>5, JudgeFacts, DecideJudged
    <2> QED BY <2>1, <2>2, <2>3, <2>4, <2>5, PendingStated DEF Stated
  <1> QED
    BY <1>1, <1>2

-----------------------------------------------------------------------------
(* The steps that stop a job and clean up after it.                         *)

LEMMA StopPCsFacts ==
  /\ "cleanup" \in CleanPCs /\ "cleanup_update" \in CleanPCs /\ "cleanup_readback" \in CleanPCs
  /\ CleanPCs \subseteq Closing /\ StopPCs \subseteq Closing
  /\ CleanPCs \cap StopPCs = {} /\ Closing \cap SearchPCs = {}
  /\ "cancel_dep" \notin CleanPCs \cup StopPCs /\ "cancel_dep_send" \notin CleanPCs \cup StopPCs
  /\ "cancel_dep_readback" \notin CleanPCs \cup StopPCs
  /\ {"cancel_dep", "cancel_dep_send", "cancel_dep_readback"} \subseteq Closing
  /\ "cancel_inv" \in StopPCs /\ "cancel_inv_readback" \in StopPCs
  /\ Closing \cap (RunPCs \cup {"idle"}) = {} /\ "status_launch" \notin Closing
  BY DEF CleanPCs, StopPCs, Closing, SearchPCs, RunPCs

(* A closing call goes on, to clean up once the launch is known to be over. *)
LEMMA ClosingJudged ==
  ASSUME RunnerInv, AppInv, NEW p \in Callers, call[p].pc \in Closing,
         NEW pc \in Closing, Goto(p, pc), UNCHANGED handle,
         pc \in CleanPCs => Ended(call[p].j, dep, inv, launch),
         pc \notin CleanPCs => call[p].pc \notin CleanPCs,
         pc \in StopPCs => call[p].pc \in StopPCs
  PROVE  Judged(p)
  <1>1. pc \in Closing \ CleanPCs => call[p].m.dep # 0
    BY JudgeFacts DEF CallGood
  <1>2. pc \notin RunPCs \cup {"idle"} /\ pc # "status_launch" /\ pc \notin SearchPCs
    BY StopPCsFacts
  <1> QED
    BY <1>1, <1>2, JudgeFacts, GotoJudged

LEMMA CancelJudged ==
  ASSUME RunnerInv, AppInv, NEW p \in Callers,
         \/ CancelDeployment(p) \/ CancelDeploymentSend(p) \/ CancelDeploymentReadback(p)
         \/ CancelInvocation(p) \/ CancelInvocationReadback(p)
  PROVE  Judged(p)
  <1> DEFINE c == call[p]
  <1>1. ASSUME Return(p, c.m) PROVE Judged(p)
    BY <1>1, JudgeFacts, ReturnJudged
  <1>2. ASSUME c.pc \in {"cancel_dep", "cancel_dep_readback"}, c.m.dep # 0, DepOver(c.m.dep)
        PROVE  Ended(c.j, dep, inv, launch)
    <2>1. ~Runs(dep, c.m.dep)
      BY <1>2 DEF DepOver, Runs
    <2> QED BY <1>2, <2>1, JudgeFacts, EndedBy
  <1>3. ASSUME c.pc = "cancel_inv_readback", Terminal(StateOf(inv[c.found][c.j]))
        PROVE  Ended(c.j, dep, inv, launch)
    <2>1. c.found = c.m.dep /\ c.m.dep # 0
      BY <1>3, JudgeFacts, StopPCsFacts DEF CallGood
    <2>2. Stated(c.j, StateOf(inv[c.m.dep][c.j]))
      BY <2>1, JudgeFacts, InvocationStated
    <2> QED BY <1>3, <2>1, <2>2 DEF Stated
  <1>4. CASE CancelDeployment(p)
    <2>1. c.pc = "cancel_dep"
      BY <1>4 DEF CancelDeployment, At
    <2>2. ASSUME DepOver(c.m.dep), c.m.dep # 0, Goto(p, "cleanup"), UNCHANGED handle PROVE Judged(p)
      BY <1>2, <2>1, <2>2, StopPCsFacts, ClosingJudged
    <2>3. ASSUME Goto(p, "cancel_dep_send"), UNCHANGED handle PROVE Judged(p)
      BY <2>1, <2>3, StopPCsFacts, ClosingJudged
    <2> QED BY <1>1, <1>4, <2>2, <2>3 DEF CancelDeployment, Binds
  <1>5. CASE CancelDeploymentSend(p)
    <2>1. c.pc = "cancel_dep_send"
      BY <1>5 DEF CancelDeploymentSend, At
    <2>2. ASSUME Goto(p, "cancel_dep_readback"), UNCHANGED handle PROVE Judged(p)
      BY <2>1, <2>2, StopPCsFacts, ClosingJudged
    <2> QED BY <1>1, <1>5, <2>2 DEF CancelDeploymentSend
  <1>6. CASE CancelDeploymentReadback(p)
    <2>1. c.pc = "cancel_dep_readback"
      BY <1>6 DEF CancelDeploymentReadback, At
    <2>2. ASSUME DepOver(c.m.dep), c.m.dep # 0, Goto(p, "cleanup"), UNCHANGED handle PROVE Judged(p)
      BY <1>2, <2>1, <2>2, StopPCsFacts, ClosingJudged
    <2> QED BY <1>1, <1>6, <2>2 DEF CancelDeploymentReadback, Binds
  <1>7. CASE CancelInvocation(p)
    <2>1. c.pc = "cancel_inv"
      BY <1>7 DEF CancelInvocation, At
    <2>2. ASSUME Goto(p, "cancel_inv_readback"), UNCHANGED handle PROVE Judged(p)
      BY <2>1, <2>2, StopPCsFacts, ClosingJudged
    <2> QED BY <1>1, <1>7, <2>2 DEF CancelInvocation
  <1>8. CASE CancelInvocationReadback(p)
    <2>1. c.pc = "cancel_inv_readback"
      BY <1>8 DEF CancelInvocationReadback, At
    <2>2. ASSUME Terminal(StateOf(inv[c.found][c.j])), Goto(p, "cleanup"), UNCHANGED handle PROVE Judged(p)
      BY <1>3, <2>1, <2>2, StopPCsFacts, ClosingJudged
    <2> QED BY <1>1, <1>8, <2>2 DEF CancelInvocationReadback
  <1> QED
    BY <1>4, <1>5, <1>6, <1>7, <1>8

LEMMA CleanupJudged ==
  ASSUME RunnerInv, AppInv, NEW p \in Callers, Cleanup(p) \/ CleanupUpdate(p) \/ CleanupReadback(p)
  PROVE  Judged(p)
  <1> DEFINE c == call[p]
             w == Without(spec, c.j)
             k == [c EXCEPT !.pc = "cleanup_update", !.snap = w]
  <1>0. c.pc \in CleanPCs
    BY DEF Cleanup, CleanupUpdate, CleanupReadback, At, CleanPCs
  <1>1. ASSUME Return(p, c.m) PROVE Judged(p)
    BY <1>1, JudgeFacts, ReturnJudged
  <1>2. ASSUME Goto(p, "cleanup_readback"), UNCHANGED handle PROVE Judged(p)
    <2>1. Ended(c.j, dep, inv, launch)
      BY <1>0, JudgeFacts DEF CallGood
    <2> QED BY <1>0, <1>2, <2>1, StopPCsFacts, ClosingJudged
  <1>3. ASSUME call' = [call EXCEPT ![p].pc = "cleanup_update", ![p].snap = w], UNCHANGED handle
        PROVE  Judged(p)
    <2> HIDE DEF w
    <2>1. k.pc = "cleanup_update" /\ k.j = c.j /\ k.m = c.m /\ k.state = c.state /\ k.found = c.found
      BY CallerFacts DEF Call
    <2>2. call' = [call EXCEPT ![p] = k]
      BY <1>3, CallerFacts DEF Call, RunnerInv, TypeOK, RunnerTypeOK
    <2>3. k.pc \notin RunPCs \cup {"idle"}
      BY <2>1 DEF RunPCs
    <2> HIDE DEF k
    <2>4. JudgedCall(k)
      BY <1>0, <2>1, JudgeFacts, StopPCsFacts DEF JudgedCall, CallGood
    <2> QED BY <1>3, <2>1, <2>2, <2>3, <2>4, SetJudged
  <1> QED
    BY <1>1, <1>2, <1>3 DEF Cleanup, CleanupUpdate, CleanupReadback, ReturnClean

(* A call that ends, by a failed read or by a crash, knows nothing more.    *)
LEMMA EndJudged ==
  ASSUME RunnerInv, AppInv, NEW p \in Callers, ReadError(p) \/ Crash(p)
  PROVE  Judged(p)
  <1>1. CASE ReadError(p)
    BY <1>1, JudgeFacts, ReturnJudged DEF ReadError
  <1>2. CASE Crash(p)
    <2>1. call' = [call EXCEPT ![p] = IdleCall] /\ UNCHANGED handle
      BY <1>2 DEF Crash, Disturb
    <2>2. \A q \in Callers : call'[q] = IF q = p THEN IdleCall ELSE call[q]
      BY <2>1 DEF RunnerInv, TypeOK, RunnerTypeOK
    <2> QED BY <2>1, <2>2 DEF Judged
  <1> QED
    BY <1>1, <1>2

-----------------------------------------------------------------------------
(* What is known lasts, as long as the job's launch is the same.            *)

LEMMA EndedLasts ==
  ASSUME Lasting, Launches, NEW j \in Jobs, launch'[j] = launch[j], Ended(j, dep, inv, launch)
  PROVE  Ended(j, dep', inv', launch')
  <1> SUFFICES ASSUME launch[j] # 0
               PROVE  ~Runs(dep', launch[j]) \/ inv'[launch[j]][j] \notin {"none", "running"}
    BY DEF Ended
  <1>1. launch[j] \in 1..lastDep
    BY DEF Launches
  <1> QED
    BY <1>1 DEF Ended, Lasting

LEMMA FailedLasts ==
  ASSUME Lasting, NEW j \in Jobs, launch'[j] = launch[j], Failed(j, dep, inv, lastDep, launch)
  PROVE  Failed(j, dep', inv', lastDep', launch')
  <1>1. CASE launch[j] = 0
    BY <1>1 DEF Failed
  <1>2. CASE launch[j] # 0
    <2>1. PICK d \in 1..lastDep : /\ HasIntent(dep[d].spec.jobs[j])
                                  /\ dep[d].phase = "error" \/ inv[d][j] \in {"failed", "skipped"}
      BY <1>2 DEF Failed
    <2>2. d \in 1..lastDep'
      BY DEF Lasting
    <2>3. HasIntent(dep'[d].spec.jobs[j])
      BY <2>1 DEF Lasting
    <2>4. dep'[d].phase = "error" \/ inv'[d][j] \in {"failed", "skipped"}
      BY <2>1 DEF Lasting
    <2> QED BY <2>2, <2>3, <2>4 DEF Failed
  <1> QED
    BY <1>1, <1>2

LEMMA MetaLasts ==
  ASSUME Lasting, NEW m, NEW j, launch'[j] = launch[j], MetaGood(m, j, dep, lastDep, launch)
  PROVE  MetaGood(m, j, dep', lastDep', launch')
  BY LeadsLasts DEF MetaGood

LEMMA CallLasts ==
  ASSUME Lasting, Launches, NEW c, c.j \in Jobs, launch'[c.j] = launch[c.j], NEW s,
         CallGood(c, s, dep, inv, lastDep, launch)
  PROVE  CallGood(c, s, dep', inv', lastDep', launch')
  <1>1. MetaGood(c.m, c.j, dep', lastDep', launch')
    BY MetaLasts DEF CallGood
  <1>2. c.pc \in CleanPCs => Ended(c.j, dep', inv', launch')
    BY EndedLasts DEF CallGood
  <1>3. Undisturbed /\ c.pc \in Closing /\ c.state = "failed" => Failed(c.j, dep', inv', lastDep', launch')
    BY FailedLasts DEF CallGood
  <1> QED
    BY <1>1, <1>2, <1>3 DEF CallGood

LEMMA ReportLasts ==
  ASSUME Lasting, Launches, NEW j \in Jobs, launch'[j] = launch[j], NEW r,
         Reported(j, r, dep, inv, lastDep, launch)
  PROVE  Reported(j, r, dep', inv', lastDep', launch')
  BY EndedLasts, FailedLasts DEF Reported

LEMMA SoundLasts ==
  ASSUME Lasting, Launches, UNCHANGED launch, NEW s, Sound(s, dep, inv, launch)
  PROVE  Sound(s, dep', inv', launch')
  <1>1. \A j \in Jobs : s.jobs[j] = "absent" => Ended(j, dep', inv', launch')
    BY EndedLasts DEF Sound
  <1> QED
    BY <1>1 DEF Sound

(* No deployment is the first to carry a component but a launch.            *)
Unlaunched == \A j \in Jobs : launch[j] = 0 => \A d \in DepIDs : ~JobPresent(d, j)'

LEMMA LaunchesLast ==
  ASSUME RunnerInv, Lasting, Launches, NEW j \in Jobs, launch[j] # 0, launch'[j] = launch[j]
  PROVE  /\ launch[j] \in 1..lastDep' /\ JobPresent(launch[j], j)'
         /\ \A d \in DepIDs : JobPresent(d, j)' => launch[j] <= d
  <1>1. launch[j] \in 1..lastDep /\ JobPresent(launch[j], j)
        /\ \A d \in DepIDs : JobPresent(d, j) => launch[j] <= d
    BY DEF Launches
  <1>2. launch[j] \in 1..lastDep' /\ JobPresent(launch[j], j)'
    BY <1>1 DEF Lasting, JobPresent
  <1>3. ASSUME NEW d \in DepIDs, JobPresent(d, j)' PROVE launch[j] <= d
    <2>1. CASE d <= lastDep
      <3>1. d \in 1..lastDep
        BY <2>1, PlatformAssumption DEF DepIDs, Lasting
      <3>2. JobPresent(d, j)
        BY <1>3, <3>1 DEF Lasting, JobPresent
      <3> QED BY <1>1, <3>2
    <2>2. CASE ~(d <= lastDep)
      BY <1>1, <2>2, PlatformAssumption DEF DepIDs, Lasting
    <2> QED BY <2>1, <2>2
  <1> QED
    BY <1>2, <1>3

LEMMA JudgeLasts ==
  ASSUME RunnerInv, RunnerInv', Launches, Lasting, UNCHANGED launch, Unlaunched,
         Judge(handle', call', reported', spec', dep, inv, lastDep, launch)
  PROVE  Launches' /\ JudgeInv'
  <1>1. Launches'
    <2>1. \A j \in Jobs : launch[j] # 0 =>
              /\ launch[j] \in 1..lastDep' /\ JobPresent(launch[j], j)'
              /\ \A d \in DepIDs : JobPresent(d, j)' => launch[j] <= d
      BY LaunchesLast
    <2>2. launch' = launch
      OBVIOUS
    <2> QED BY <2>1, <2>2 DEF Launches, Unlaunched, JobPresent
  <1>2. \A j \in Jobs : MetaGood(handle'[j], j, dep', lastDep', launch')
    BY MetaLasts DEF Judge
  <1>3. ASSUME NEW q \in Callers PROVE CallGood(call'[q], spec', dep', inv', lastDep', launch')
    <2>1. call'[q].j \in Jobs
      BY DEF RunnerInv, TypeOK, RunnerTypeOK, Call
    <2> QED BY <2>1, CallLasts DEF Judge
  <1>4. \A q \in Callers : call'[q].pc \in WritePCs => Sound(call'[q].snap, dep', inv', launch')
    BY SoundLasts DEF Judge
  <1>5. \A j \in Jobs : Reported(j, reported'[j], dep', inv', lastDep', launch')
    BY ReportLasts DEF Judge
  <1>6. Sound(spec', dep', inv', launch')
    BY SoundLasts DEF Judge
  <1> QED
    BY <1>1, <1>2, <1>3, <1>4, <1>5, <1>6 DEF JudgeInv, Judge

-----------------------------------------------------------------------------
(* The app under a step of a call.                                          *)

Moves == Lasting /\ OrderInv' /\ SlotsLive'

LEMMA AppMoves ==
  ASSUME RunnerInv, AppInv
  PROVE  /\ UNCHANGED platformVars => Moves
         /\ \A s \in Specs : AcceptUpdate(s) => Moves
         /\ \A d, j : AcceptCancelDeployment(d) \/ AcceptCancelInvocation(d, j) => Moves
         /\ PlatformNext => Moves
  <1>0. PlatformTypeOK /\ SlotsLive /\ OrderInv
    BY DEF RunnerInv, TypeOK, AppInv
  <1>1. ASSUME UNCHANGED platformVars PROVE Moves
    BY <1>0, <1>1, IdleOrder, IdleStable DEF Moves, Stable
  <1>2. ASSUME NEW s \in Specs, AcceptUpdate(s) PROVE Moves
    BY <1>0, <1>2, UpdateOrder, UpdateStable DEF Moves, Stable
  <1>3. ASSUME NEW d, NEW j, AcceptCancelDeployment(d) \/ AcceptCancelInvocation(d, j) PROVE Moves
    BY <1>0, <1>3, CancelOrder, CancelStable DEF Moves, Stable
  <1>4. ASSUME PlatformNext PROVE Moves
    BY <1>0, <1>4, PlatformOrder, PlatformStable DEF Moves, Stable
  <1> QED
    BY <1>1, <1>2, <1>3, <1>4

LEMMA SoundStored ==
  ASSUME NEW s \in Specs, Sound(s, dep, inv, launch)
  PROVE  Sound(Stored(s), dep, inv, launch)
  <1>1. Stored(s).base = s.base /\ \A j \in Jobs : Stored(s).jobs[j] = "absent" <=> s.jobs[j] = "absent"
    BY DEF Specs, Stored
  <1> QED
    BY <1>1 DEF Sound

LEMMA UpdateUnlaunched ==
  ASSUME PlatformTypeOK, Launches, NEW s \in Specs, AcceptUpdate(s), Sound(s, dep, inv, launch)
  PROVE  Unlaunched /\ Sound(spec', dep, inv, launch)
  <1>1. ASSUME NEW j \in Jobs, launch[j] = 0, NEW d \in DepIDs PROVE dep'[d].spec.jobs[j] = "absent"
    <2>1. dep[d].spec.jobs[j] = "absent"
      BY <1>1 DEF Launches, JobPresent
    <2>2. Stored(s).jobs[j] = "absent"
      BY <1>1, UpdateSpecs DEF Sound
    <2> QED BY <2>1, <2>2, UpdateSpecs
  <1> QED
    BY <1>1, SoundStored, UpdateSpecs DEF Unlaunched, JobPresent

LEMMA SameUnlaunched ==
  ASSUME Launches, SameSpecs
  PROVE  Unlaunched
  BY DEF Launches, SameSpecs, Unlaunched, JobPresent

LEMMA IdleGood ==
  ASSUME NEW s
  PROVE  CallGood(IdleCall, s, dep, inv, lastDep, launch)
  BY DEF CallGood, MetaGood, IdleCall, NewMeta, CleanPCs, StopPCs, SearchPCs, Closing

(* A step of JobStatus or CancelJob, or the end of a call.                  *)
Works(p) ==
    /\ Judged(p)
    /\ call'[p].pc \in WritePCs => Sound(call'[p].snap, dep, inv, launch)
    /\ UNCHANGED launch
    /\ \A j \in Jobs : Reported(j, reported'[j], dep, inv, lastDep, launch)
    /\ Moves
    /\ \/ SameSpecs
       \/ /\ call'[p].pc \notin SearchPCs
          /\ \E s \in Specs : AcceptUpdate(s) /\ Sound(s, dep, inv, launch)

LEMMA WorksJudge ==
  ASSUME RunnerInv, RunnerInv', AppInv, NEW p \in Callers, Works(p)
  PROVE  OrderInv' /\ SlotsLive' /\ Launches' /\ JudgeInv'
  <1>0. PlatformTypeOK /\ Launches /\ JudgeInv /\ Sound(spec, dep, inv, launch)
    BY DEF RunnerInv, TypeOK, AppInv, JudgeInv, Judge
  <1>1. Unlaunched /\ Sound(spec', dep, inv, launch)
    BY <1>0, UpdateUnlaunched, SameUnlaunched DEF Works, SameSpecs
  <1>2. \A j \in Jobs : MetaGood(handle'[j], j, dep, lastDep, launch)
    BY <1>0 DEF JudgeInv, Judge, Works, Judged
  <1>3. ASSUME NEW q \in Callers PROVE CallGood(call'[q], spec', dep, inv, lastDep, launch)
    <2>1. CASE q # p
      <3>1. ~Undisturbed
        BY <2>1 DEF Undisturbed, OneCaller
      <3>2. CallGood(call[q], spec, dep, inv, lastDep, launch) /\ call'[q] = call[q]
        BY <1>0, <2>1 DEF JudgeInv, Judge, Works, Judged
      <3> QED BY <3>1, <3>2 DEF CallGood
    <2>2. CASE q = p /\ call'[p] = IdleCall
      BY <2>2, IdleGood
    <2>3. CASE q = p /\ CallGood(call'[p], spec, dep, inv, lastDep, launch)
      <3>1. spec' = spec \/ call'[p].pc \notin SearchPCs
        BY DEF Works, SameSpecs
      <3> QED BY <2>3, <3>1 DEF CallGood
    <2> QED BY <2>1, <2>2, <2>3 DEF Works, Judged
  <1>4. \A q \in Callers : call'[q].pc \in WritePCs => Sound(call'[q].snap, dep, inv, launch)
    BY <1>0 DEF JudgeInv, Judge, Works, Judged
  <1>5. Judge(handle', call', reported', spec', dep, inv, lastDep, launch)
    BY <1>1, <1>2, <1>3, <1>4 DEF Judge, Works
  <1> QED
    BY <1>0, <1>1, <1>5, JudgeLasts DEF Works, Moves

(* The protocol of calls: a RunJob for each job, a handle once it is over.  *)
LEMMA WorksProtocol ==
  ASSUME RunnerInv, Protocol, NEW p \in Callers, Judged(p), UNCHANGED <<launch, held, used>>,
         call[p].pc \notin RunPCs \cup {"idle"}, \A j \in Jobs : reported'[j] # {} => j \in held
  PROVE  Protocol'
  <1>1. \A q \in Callers : call'[q].pc \in RunPCs => call'[q] = call[q]
    BY DEF Judged, IdleCall, RunPCs
  <1>2. \A q \in Callers : \/ call'[q] = call[q] \/ call'[q] = IdleCall
                           \/ call'[q].j \in held /\ call'[q].pc \notin RunPCs
    BY DEF Judged, Protocol
  <1>3. {"run_preflight", "run_update"} \subseteq RunPCs /\ IdleCall.pc = "idle"
    BY DEF RunPCs, IdleCall
  <1>4. \A q \in Callers :
          /\ call'[q].pc \in RunPCs => call'[q].j \in used \ held
          /\ call'[q].pc \in {"run_preflight", "run_update"} => launch[call'[q].j] = 0
          /\ call'[q].pc \notin RunPCs \cup {"idle"} => call'[q].j \in held
    BY <1>1, <1>2, <1>3 DEF Protocol
  <1>5. \A q, r \in Callers :
          call'[q].pc \in RunPCs /\ call'[r].pc \in RunPCs /\ call'[q].j = call'[r].j => q = r
    BY <1>1 DEF Protocol
  <1> QED
    BY <1>4, <1>5 DEF Protocol

LEMMA EndProtocol ==
  ASSUME RunnerInv, Protocol, NEW p \in Callers, call'[p] = IdleCall,
         \A q \in Callers \ {p} : call'[q] = call[q], UNCHANGED <<launch, reported>>,
         \/ UNCHANGED <<held, used>>
         \/ call[p].pc = "run_preflight" /\ UNCHANGED held /\ used' = used \ {call[p].j}
         \/ call[p].pc \in RunPCs /\ held' = held \cup {call[p].j} /\ UNCHANGED used
  PROVE  Protocol'
  <1>1. \A q \in Callers : (call'[q] = call[q] /\ q # p) \/ call'[q].pc = "idle"
    BY DEF IdleCall
  <1>2. {"run_preflight", "run_update"} \subseteq RunPCs /\ "idle" \notin RunPCs
    BY DEF RunPCs
  <1>3. \A q \in Callers : call'[q].pc \in RunPCs =>
          /\ call'[q] = call[q] /\ call[q].j \in used \ held
          /\ call[p].pc \in RunPCs => call[q].j # call[p].j
    BY <1>1, <1>2 DEF Protocol
  <1>4. held \subseteq held' /\ held' \subseteq used'
    BY <1>2 DEF Protocol
  <1>5. \A q \in Callers : call'[q].pc \in RunPCs => call'[q].j \in used' \ held'
    BY <1>2, <1>3
  <1>6. \A j \in Jobs : launch[j] # 0 => j \in used'
    BY DEF Protocol
  <1>7. \A q \in Callers :
          /\ call'[q].pc \in {"run_preflight", "run_update"} => launch[call'[q].j] = 0
          /\ call'[q].pc \notin RunPCs \cup {"idle"} => call'[q].j \in held'
    BY <1>1, <1>4 DEF Protocol
  <1>8. \A q, r \in Callers :
          call'[q].pc \in RunPCs /\ call'[r].pc \in RunPCs /\ call'[q].j = call'[r].j => q = r
    BY <1>3 DEF Protocol
  <1>9. \A j \in Jobs : reported'[j] # {} => j \in held'
    BY <1>4 DEF Protocol
  <1> QED
    BY <1>4, <1>5, <1>6, <1>7, <1>8, <1>9 DEF Protocol

(* The clean reports of a call that cleans up.                              *)
LEMMA CleanReport ==
  ASSUME RunnerInv, AppInv, NEW p \in Callers, call[p].pc \in CleanPCs,
         ReturnClean(p) \/ UNCHANGED reported
  PROVE  \A j \in Jobs : /\ Reported(j, reported'[j], dep, inv, lastDep, launch)
                         /\ reported'[j] # {} => j \in held
  <1>0. \A j \in Jobs : /\ Reported(j, reported[j], dep, inv, lastDep, launch)
                        /\ reported[j] # {} => j \in held
    BY DEF AppInv, JudgeInv, Judge, Protocol
  <1>1. ASSUME ReturnClean(p), NEW j \in Jobs, reported'[j] # reported[j]
        PROVE  Reported(j, reported'[j], dep, inv, lastDep, launch) /\ j \in held
    <2>1. PICK st : st = (IF call[p].op = "cancel" THEN "cancel_ok" ELSE call[p].state)
      OBVIOUS
    <2>2. j = call[p].j /\ reported'[j] = reported[j] \cup {st}
      BY <1>1, <2>1 DEF ReturnClean, RunnerInv, TypeOK, RunnerTypeOK
    <2>3. Ended(j, dep, inv, launch)
      BY <2>2, JudgeFacts DEF CallGood
    <2>4. Undisturbed /\ st = "failed" => Failed(j, dep, inv, lastDep, launch)
      BY <2>1, <2>2, JudgeFacts, StopPCsFacts DEF CallGood
    <2>5. j \in held
      BY <2>2, StopPCsFacts DEF AppInv, Protocol
    <2> QED BY <1>0, <2>2, <2>3, <2>4, <2>5 DEF Reported
  <1> QED
    BY <1>0, <1>1

(* Every step of JobStatus and CancelJob.                                   *)
LEMMA SearchWorks ==
  ASSUME RunnerInv, RunnerInv', WriteInv, AppInv, NEW p \in Callers,
         \/ Recover(p) \/ Historical(p) \/ Invocation(p) \/ StatusDeployment(p) \/ StatusLaunch(p)
         \/ CancelDeployment(p) \/ CancelDeploymentSend(p) \/ CancelDeploymentReadback(p)
         \/ CancelInvocation(p) \/ CancelInvocationReadback(p)
  PROVE  AppInv'
  <1>0. DigestsIntent
    BY DEF WriteInv
  <1>1. Judged(p) /\ Quiet(p)
    BY <1>0, RecoverJudged, HistoricalJudged, InvocationJudged, StatusJudged, CancelJudged,
       RecoverQuiet, HistoricalQuiet, InvocationQuiet, StatusQuiet, CancelQuiet
  <1>2. UNCHANGED <<launch, held, used, reported>> /\ call[p].pc \notin RunPCs \cup {"idle"}
    BY DEF Recover, Historical, Invocation, StatusDeployment, StatusLaunch, CancelDeployment,
           CancelDeploymentSend, CancelDeploymentReadback, CancelInvocation, CancelInvocationReadback,
           At, RunPCs
  <1>3. \/ UNCHANGED platformVars
        \/ \E d, j : AcceptCancelDeployment(d) \/ AcceptCancelInvocation(d, j)
    BY DEF Recover, Historical, Invocation, StatusDeployment, StatusLaunch, CancelDeployment,
           CancelDeploymentSend, CancelDeploymentReadback, CancelInvocation, CancelInvocationReadback
  <1>4. Moves
    BY <1>3, AppMoves
  <1>5. \A j \in Jobs : /\ Reported(j, reported'[j], dep, inv, lastDep, launch)
                        /\ reported'[j] # {} => j \in held
    BY <1>2 DEF AppInv, JudgeInv, Judge, Protocol
  <1>6. Works(p)
    BY <1>1, <1>2, <1>4, <1>5 DEF Works, Quiet, Calm, WritePCs, RunPCs
  <1>7. Protocol'
    BY <1>1, <1>2, <1>5, WorksProtocol DEF AppInv
  <1> QED
    BY <1>6, <1>7, WorksJudge DEF AppInv

LEMMA CleanWorks ==
  ASSUME RunnerInv, RunnerInv', WriteInv, AppInv, NEW p \in Callers,
         Cleanup(p) \/ CleanupUpdate(p) \/ CleanupReadback(p)
  PROVE  AppInv'
  <1> DEFINE c == call[p]
             w == Without(spec, c.j)
  <1>0. c.pc \in CleanPCs /\ c.pc \notin RunPCs \cup {"idle"}
    BY DEF Cleanup, CleanupUpdate, CleanupReadback, At, CleanPCs, RunPCs
  <1>1. Judged(p)
    BY CleanupJudged
  <1>2. UNCHANGED <<launch, held, used>> /\ (ReturnClean(p) \/ UNCHANGED reported)
    BY DEF Cleanup, CleanupUpdate, CleanupReadback
  <1>3. \A j \in Jobs : /\ Reported(j, reported'[j], dep, inv, lastDep, launch)
                        /\ reported'[j] # {} => j \in held
    BY <1>0, <1>2, CleanReport
  <1>4. Protocol'
    BY <1>0, <1>1, <1>2, <1>3, WorksProtocol DEF AppInv
  <1>5. Sound(w, dep, inv, launch)
    <2>1. Ended(c.j, dep, inv, launch) /\ Sound(spec, dep, inv, launch) /\ spec \in Specs /\ c.j \in Jobs
      BY <1>0, JudgeFacts DEF CallGood, PlatformTypeOK
    <2>2. w.base = spec.base /\ \A j \in Jobs : w.jobs[j] = IF j = c.j THEN "absent" ELSE spec.jobs[j]
      BY <2>1 DEF Without, Specs
    <2> HIDE DEF w
    <2> QED BY <2>1, <2>2 DEF Sound
  <1>6. CASE Cleanup(p) \/ CleanupReadback(p)
    <2>1. UNCHANGED platformVars
      BY <1>6 DEF Cleanup, CleanupReadback
    <2>2. call'[p] = IdleCall \/ call'[p].snap = w
      BY <1>6, CallerFacts DEF Cleanup, CleanupReadback, ReturnClean, Return, Call, RunnerInv, TypeOK, RunnerTypeOK
    <2>3. call'[p].pc \in WritePCs => Sound(call'[p].snap, dep, inv, launch)
      BY <1>5, <2>2 DEF IdleCall, WritePCs
    <2>4. Works(p)
      BY <1>1, <1>2, <1>3, <2>1, <2>3, AppMoves, IdleSpecs DEF Works
    <2> QED BY <1>4, <2>4, WorksJudge DEF AppInv
  <1>7. CASE CleanupUpdate(p)
    <2>1. c.pc = "cleanup_update" /\ call'[p].pc = "cleanup_readback" /\ c.snap \in Specs
      BY <1>7, CallerFacts DEF CleanupUpdate, At, Goto, Call, RunnerInv, TypeOK, RunnerTypeOK
    <2>2. Sound(c.snap, dep, inv, launch)
      BY <2>1 DEF AppInv, JudgeInv, Judge, WritePCs
    <2>3. AcceptUpdate(c.snap) \/ UNCHANGED platformVars
      BY <1>7 DEF CleanupUpdate
    <2>4. call'[p].pc \notin WritePCs /\ call'[p].pc \notin SearchPCs
      BY <2>1 DEF WritePCs, SearchPCs
    <2>5. Moves
      BY <2>1, <2>3, AppMoves
    <2>6. SameSpecs \/ \E s \in Specs : AcceptUpdate(s) /\ Sound(s, dep, inv, launch)
      BY <2>1, <2>2, <2>3, IdleSpecs
    <2>7. Works(p)
      BY <1>1, <1>2, <1>3, <2>4, <2>5, <2>6 DEF Works
    <2> QED BY <1>4, <2>7, WorksJudge DEF AppInv
  <1> QED
    BY <1>6, <1>7

LEMMA EndWorks ==
  ASSUME RunnerInv, RunnerInv', AppInv, NEW p \in Callers, ReadError(p) \/ Crash(p)
  PROVE  AppInv'
  <1>1. Judged(p)
    BY EndJudged
  <1>2. /\ UNCHANGED <<launch, held, reported>> /\ UNCHANGED platformVars
        /\ used' = used \/ (call[p].pc = "run_preflight" /\ used' = used \ {call[p].j})
    BY DEF ReadError, Crash, Disturb, At
  <1>3. call'[p] = IdleCall /\ \A q \in Callers \ {p} : call'[q] = call[q]
    BY DEF ReadError, Crash, Return, RunnerInv, TypeOK, RunnerTypeOK
  <1>4. Protocol'
    BY <1>2, <1>3, EndProtocol DEF AppInv
  <1>5. \A j \in Jobs : Reported(j, reported'[j], dep, inv, lastDep, launch)
    BY <1>2 DEF AppInv, JudgeInv, Judge
  <1>6. call'[p].pc \notin WritePCs
    BY <1>3 DEF IdleCall, WritePCs
  <1>7. Works(p)
    BY <1>1, <1>2, <1>5, <1>6, AppMoves, IdleSpecs DEF Works
  <1> QED
    BY <1>4, <1>7, WorksJudge DEF AppInv

-----------------------------------------------------------------------------
(* RunJob, and how calls begin.                                             *)

LEMMA HintGood ==
  ASSUME RunnerInv, AppInv, NEW m \in Meta, NEW j \in Jobs, MetaGood(m, j, dep, lastDep, launch)
  PROVE  MetaGood(BindHint(m, j, dep, inProgress, active), j, dep, lastDep, launch)
  <1>0. PlatformTypeOK /\ SlotsLive /\ OrderInv
    BY DEF RunnerInv, TypeOK, AppInv
  <1>1. inProgress # 0 => Leads(dep, lastDep, inProgress)
    BY <1>0, InProgressLeads
  <1>2. active # 0 => Leads(dep, lastDep, active)
    BY <1>0 DEF OrderInv
  <1> QED
    BY <1>1, <1>2, BoundGood DEF BindHint, Binds

LEMMA RunReadbackWorks ==
  ASSUME RunnerInv, RunnerInv', WriteInv, AppInv, NEW p \in Callers, RunReadback(p)
  PROVE  AppInv'
  <1> DEFINE c == call[p]
             m == Acknowledge(c.m, c.j, spec, dep, inProgress, active)
  <1>0. c.pc \in RunPCs
    BY DEF RunReadback, At, RunPCs
  <1>1. MetaGood(m, c.j, dep, lastDep, launch)
    <2> DEFINE a == IF OwnedComponent(spec.jobs[c.j], c.m)
                    THEN [c.m EXCEPT !.digest = spec.jobs[c.j], !.acked = TRUE] ELSE c.m
    <2>1. c.m \in Meta /\ c.j \in Jobs /\ spec.jobs[c.j] \in Forms
      BY CallerFacts DEF PlatformTypeOK, Specs
    <2>2. a \in Meta /\ a.dep = c.m.dep /\ a.prior = c.m.prior
      BY <2>1 DEF Meta
    <2>3. MetaGood(a, c.j, dep, lastDep, launch)
      BY <2>2, JudgeFacts DEF MetaGood
    <2>4. m = BindHint(a, c.j, dep, inProgress, active)
      BY DEF Acknowledge
    <2> HIDE DEF a, m
    <2> QED BY <2>1, <2>2, <2>3, <2>4, HintGood
  <1>2. \/ Hold(p, m) \/ Hold(p, c.m)
    BY DEF RunReadback
  <1>3. /\ UNCHANGED platformVars /\ UNCHANGED <<launch, used, reported>>
        /\ held' = held \cup {c.j}
    BY DEF RunReadback, Hold
  <1> HIDE DEF m
  <1>4. Judged(p) /\ call'[p] = IdleCall
    <2>1. ASSUME NEW a, MetaGood(a, c.j, dep, lastDep, launch), Hold(p, a) PROVE Judged(p) /\ call'[p] = IdleCall
      <3>1. \A q \in Callers : call'[q] = IF q = p THEN IdleCall ELSE call[q]
        BY <2>1 DEF Hold, RunnerInv, TypeOK, RunnerTypeOK
      <3>2. \A j \in Jobs : handle'[j] = IF j = c.j THEN a ELSE handle[j]
        BY <2>1 DEF Hold, RunnerInv, TypeOK, RunnerTypeOK
      <3> QED BY <2>1, <3>1, <3>2 DEF Judged
    <2> QED BY <1>1, <1>2, <2>1, JudgeFacts
  <1>5. Protocol'
    BY <1>0, <1>3, <1>4, EndProtocol DEF AppInv, Judged
  <1>6. \A j \in Jobs : Reported(j, reported'[j], dep, inv, lastDep, launch)
    BY <1>3 DEF AppInv, JudgeInv, Judge
  <1>7. Works(p)
    BY <1>3, <1>4, <1>6, AppMoves, IdleSpecs DEF Works, IdleCall, WritePCs
  <1> QED
    BY <1>5, <1>7, WorksJudge DEF AppInv

(* A call goes on and nothing else changes.                                 *)
LEMMA StillJudge ==
  ASSUME RunnerInv, RunnerInv', AppInv, NEW p \in Callers, NEW c,
         call' = [call EXCEPT ![p] = c], UNCHANGED platformVars, UNCHANGED <<handle, launch, reported>>,
         CallGood(c, spec, dep, inv, lastDep, launch),
         c.pc \in WritePCs => Sound(c.snap, dep, inv, launch)
  PROVE  OrderInv' /\ SlotsLive' /\ Launches' /\ JudgeInv'
  <1>0. Launches /\ JudgeInv
    BY DEF AppInv
  <1>1. Moves /\ SameSpecs /\ Unlaunched
    BY <1>0, AppMoves, IdleSpecs, SameUnlaunched
  <1>2. \A q \in Callers : call'[q] = IF q = p THEN c ELSE call[q]
    BY DEF RunnerInv, TypeOK, RunnerTypeOK
  <1>3. spec' = spec
    BY <1>1 DEF SameSpecs
  <1>4. Judge(handle', call', reported', spec', dep, inv, lastDep, launch)
    BY <1>0, <1>2, <1>3 DEF JudgeInv, Judge
  <1> QED
    BY <1>0, <1>1, <1>4, JudgeLasts DEF Moves

LEMMA RunGetWorks ==
  ASSUME RunnerInv, RunnerInv', AppInv, NEW p \in Callers, NEW j \in Jobs, RunGet(p, j)
  PROVE  AppInv'
  <1> DEFINE c == [IdleCall EXCEPT !.pc = "run_preflight", !.op = "run", !.j = j,
                                   !.m = NewMeta(spec), !.snap = spec]
  <1>1. c.pc = "run_preflight" /\ c.j = j /\ c.m = NewMeta(spec) /\ c.snap = spec
    BY IdleCallType DEF Call
  <1>2. /\ call' = [call EXCEPT ![p] = c] /\ UNCHANGED platformVars
        /\ UNCHANGED <<handle, held, launch, reported>> /\ used' = used \cup {j} /\ j \notin used
        /\ spec.jobs[j] = "absent"
    BY DEF RunGet
  <1> HIDE DEF c
  <1>3. \A q \in Callers : call'[q] = IF q = p THEN c ELSE call[q]
    BY <1>2 DEF RunnerInv, TypeOK, RunnerTypeOK
  <1>4. Sound(spec, dep, inv, launch) /\ spec \in Specs
    BY JudgeFacts DEF PlatformTypeOK
  <1>5. Undisturbed => spec = FirstSpec
    BY <1>2, <1>4, FirstSpecAgain DEF Sound
  <1>6. CallGood(c, spec, dep, inv, lastDep, launch)
    BY <1>1, <1>5 DEF CallGood, MetaGood, NewMeta, CleanPCs, StopPCs, SearchPCs, Closing
  <1>7. OrderInv' /\ SlotsLive' /\ Launches' /\ JudgeInv'
    BY <1>1, <1>2, <1>4, <1>6, StillJudge
  <1>8. Protocol'
    <2>1. launch[j] = 0 /\ j \notin held
      BY <1>2 DEF AppInv, Protocol
    <2>2. c.pc \in RunPCs
      BY <1>1 DEF RunPCs
    <2>3. \A q \in Callers \ {p} : call'[q].pc \in RunPCs => call'[q].j \in used
      BY <1>3 DEF AppInv, Protocol
    <2>4. \A q, r \in Callers :
            call'[q].pc \in RunPCs /\ call'[r].pc \in RunPCs /\ call'[q].j = call'[r].j => q = r
      BY <1>1, <1>2, <1>3, <2>3 DEF AppInv, Protocol
    <2> QED
      BY <1>1, <1>2, <1>3, <2>1, <2>2, <2>4 DEF AppInv, Protocol
  <1> QED
    BY <1>7, <1>8 DEF AppInv

LEMMA RunPreflightWorks ==
  ASSUME RunnerInv, RunnerInv', AppInv, NEW p \in Callers, RunPreflight(p)
  PROVE  AppInv'
  <1> DEFINE c == [call[p] EXCEPT !.pc = "run_update"]
  <1>1. c.pc = "run_update" /\ c.j = call[p].j /\ c.m = call[p].m /\ c.snap = call[p].snap
    BY CallerFacts DEF Call
  <1>2. /\ call' = [call EXCEPT ![p] = c] /\ UNCHANGED platformVars
        /\ UNCHANGED <<handle, held, used, launch, reported>> /\ call[p].pc = "run_preflight"
    BY DEF RunPreflight, Goto, At
  <1> HIDE DEF c
  <1>3. \A q \in Callers : call'[q] = IF q = p THEN c ELSE call[q]
    BY <1>2 DEF RunnerInv, TypeOK, RunnerTypeOK
  <1>4. Sound(c.snap, dep, inv, launch)
    BY <1>1, <1>2 DEF AppInv, JudgeInv, Judge, WritePCs
  <1>5. CallGood(c, spec, dep, inv, lastDep, launch)
    BY <1>1, JudgeFacts DEF CallGood, CleanPCs, StopPCs, SearchPCs, Closing
  <1>6. OrderInv' /\ SlotsLive' /\ Launches' /\ JudgeInv'
    BY <1>1, <1>2, <1>4, <1>5, StillJudge
  <1>7. Protocol'
    <2>1. {"run_preflight", "run_update"} \subseteq RunPCs
      BY DEF RunPCs
    <2>2. \A q \in Callers : /\ call'[q].j = call[q].j
                             /\ call'[q].pc \in RunPCs <=> call[q].pc \in RunPCs
                             /\ call'[q].pc = "idle" <=> call[q].pc = "idle"
      BY <1>1, <1>2, <1>3, <2>1
    <2>3. \A q \in Callers : call'[q].pc \in {"run_preflight", "run_update"} => launch[call'[q].j] = 0
      BY <1>1, <1>2, <1>3 DEF AppInv, Protocol
    <2> QED
      BY <1>2, <2>2, <2>3 DEF AppInv, Protocol
  <1> QED
    BY <1>6, <1>7 DEF AppInv

LEMMA BeginWorks ==
  ASSUME RunnerInv, RunnerInv', AppInv, NEW p \in Callers, NEW j \in Jobs, NEW op, Begin(p, j, op)
  PROVE  AppInv'
  <1> DEFINE pc == IF handle[j].dep = 0 THEN "recover" ELSE "invocation"
             c == [IdleCall EXCEPT !.pc = pc, !.op = op, !.j = j, !.m = handle[j]]
  <1>1. c.pc = pc /\ c.j = j /\ c.m = handle[j]
    BY IdleCallType DEF Call
  <1>2. /\ call' = [call EXCEPT ![p] = c] /\ UNCHANGED platformVars /\ j \in held
        /\ UNCHANGED <<handle, held, used, launch, reported>>
    BY DEF Begin
  <1> HIDE DEF c
  <1>3. \A q \in Callers : call'[q] = IF q = p THEN c ELSE call[q]
    BY <1>2 DEF RunnerInv, TypeOK, RunnerTypeOK
  <1>4. c.pc \notin WritePCs /\ c.pc \notin RunPCs /\ c.pc # "idle"
    BY <1>1 DEF WritePCs, RunPCs
  <1>5. MetaGood(handle[j], j, dep, lastDep, launch)
    BY DEF AppInv, JudgeInv, Judge
  <1>6. CallGood(c, spec, dep, inv, lastDep, launch)
    BY <1>1, <1>5 DEF CallGood, CleanPCs, StopPCs, SearchPCs, Closing
  <1>7. OrderInv' /\ SlotsLive' /\ Launches' /\ JudgeInv'
    BY <1>2, <1>4, <1>6, StillJudge
  <1>8. Protocol'
    <2>1. \A q \in Callers : call'[q].pc \in RunPCs \/ call'[q].pc \in {"run_preflight", "run_update"}
                               => call'[q] = call[q]
      BY <1>3, <1>4 DEF RunPCs
    <2>2. \A q \in Callers : call'[q].pc \notin RunPCs \cup {"idle"} => call'[q].j \in held
      BY <1>1, <1>2, <1>3 DEF AppInv, Protocol
    <2> QED
      BY <1>2, <2>1, <2>2 DEF AppInv, Protocol
  <1> QED
    BY <1>7, <1>8 DEF AppInv

-----------------------------------------------------------------------------
(* The launch itself.                                                       *)

(* A job that has not been launched is bound nowhere.                       *)
LEMMA Unbound ==
  ASSUME RunnerInv, Launches, NEW j \in Jobs, launch[j] = 0, NEW m \in Meta,
         BindsOwn(m, j, dep, lastDep)
  PROVE  m.dep = 0
  <1> SUFFICES ASSUME m.dep # 0 PROVE FALSE
    OBVIOUS
  <1>1. m.dep \in DepIDs
    BY PlatformAssumption DEF Meta, DepRefs, DepIDs
  <1> QED
    BY <1>1 DEF BindsOwn, HasIntent, Launches, JobPresent

(* RunJob binds only a deployment that carries the component.               *)
LEMMA AcknowledgeOnly ==
  ASSUME NEW m \in Meta, m.dep = 0, NEW j \in Jobs, NEW s, NEW ds, NEW first \in DepRefs,
         NEW second \in DepRefs
  PROVE  /\ \/ Acknowledge(m, j, s, ds, first, second).dep = 0
            \/ /\ Acknowledge(m, j, s, ds, first, second).dep \in DepIDs
               /\ ds[Acknowledge(m, j, s, ds, first, second).dep].spec.jobs[j] # "absent"
         /\ Acknowledge(m, j, s, ds, first, second).prior = m.prior
  <1> DEFINE a == IF OwnedComponent(s.jobs[j], m) THEN [m EXCEPT !.digest = s.jobs[j], !.acked = TRUE] ELSE m
  <1>1. /\ a.dep = 0 /\ a.prior = m.prior
        /\ \A d, f : /\ [a EXCEPT !.dep = d, !.digest = f, !.acked = TRUE].dep = d
                     /\ [a EXCEPT !.dep = d, !.digest = f, !.acked = TRUE].prior = m.prior
    BY DEF Meta
  <1>2. Acknowledge(m, j, s, ds, first, second) = BindHint(a, j, ds, first, second)
    BY DEF Acknowledge
  <1> HIDE DEF a
  <1>3. ASSUME NEW d \in DepRefs, Binds(a, j, ds, d)
        PROVE  d \in DepIDs /\ ds[d].spec.jobs[j] # "absent"
    BY <1>3, PlatformAssumption DEF Binds, OwnedComponent, HasIntent, DepRefs, DepIDs
  <1>4. \A d : Bound(a, j, ds, d).dep = d /\ Bound(a, j, ds, d).prior = m.prior
    BY <1>1 DEF Bound
  <1> QED
    BY <1>1, <1>2, <1>3, <1>4 DEF BindHint

LEMMA RunUpdateProtocol ==
  ASSUME RunnerInv, WriteInv, AppInv, NEW p \in Callers, RunUpdate(p)
  PROVE  Protocol'
  <1>1. Launched(p)
    BY RunUpdateEnds DEF WriteInv
  <1>2. /\ call[p].pc = "run_update" /\ UNCHANGED <<used, reported>>
        /\ \A j \in Jobs : j # call[p].j => launch'[j] = launch[j]
    BY DEF RunUpdate, At, RunnerInv, TypeOK, RunnerTypeOK
  <1>3. {"run_preflight", "run_update", "run_readback"} = RunPCs /\ "idle" \notin RunPCs
    BY DEF RunPCs
  <1>4. \A q \in Callers \ {p} : /\ call'[q] = call[q] /\ call[q].j \in Jobs
                                 /\ call[q].pc \in RunPCs => call[q].j # call[p].j
    BY <1>1, <1>2, <1>3, CallerFacts DEF Launched, AppInv, Protocol
  <1>5. \/ call'[p].pc = "idle" /\ held' = held \cup {call[p].j}
        \/ call'[p].pc = "run_readback" /\ call'[p].j = call[p].j /\ held' = held
    BY <1>1 DEF Launched, IdleCall
  <1>6. call[p].j \in used \ held /\ call[p].j \in Jobs
    BY <1>2, <1>3, CallerFacts DEF AppInv, Protocol
  <1>7. held \subseteq held' /\ held' \subseteq used'
    BY <1>2, <1>5, <1>6 DEF AppInv, Protocol
  <1>8. \A q \in Callers :
          /\ call'[q].pc \in RunPCs => call'[q].j \in used' \ held'
          /\ call'[q].pc \in {"run_preflight", "run_update"} => launch'[call'[q].j] = 0
          /\ call'[q].pc \notin RunPCs \cup {"idle"} => call'[q].j \in held'
    BY <1>2, <1>3, <1>4, <1>5, <1>6, <1>7 DEF AppInv, Protocol
  <1>9. \A q, r \in Callers :
          call'[q].pc \in RunPCs /\ call'[r].pc \in RunPCs /\ call'[q].j = call'[r].j => q = r
    BY <1>3, <1>4, <1>5 DEF AppInv, Protocol
  <1>10. \A j \in Jobs : launch'[j] # 0 => j \in used'
    BY <1>2, <1>6 DEF AppInv, Protocol
  <1>11. \A j \in Jobs : reported'[j] # {} => j \in held'
    BY <1>2, <1>7 DEF AppInv, Protocol
  <1> QED
    BY <1>7, <1>8, <1>9, <1>10, <1>11 DEF Protocol

LEMMA LaunchWorks ==
  ASSUME NobodyDrops, RunnerInv, RunnerInv', WriteInv, AppInv, NEW p \in Callers, RunUpdate(p),
         AcceptUpdate(LaunchSpec(call[p])), launch' = [launch EXCEPT ![call[p].j] = lastDep']
  PROVE  OrderInv' /\ SlotsLive' /\ Launches' /\ JudgeInv'
  <1> DEFINE c == call[p]
             k == call[p].j
             s == LaunchSpec(call[p])
             n == lastDep'
  <1>0. /\ PlatformTypeOK /\ Launches /\ JudgeInv /\ Protocol
        /\ k \in Jobs /\ c.m \in Meta /\ c.snap \in Specs /\ BindsOwn(c.m, k, dep, lastDep)
    BY CallerFacts DEF AppInv
  <1>1. c.pc = "run_update" /\ launch[k] = 0 /\ k \notin held /\ reported[k] = {}
    BY <1>0 DEF RunUpdate, At, Protocol, RunPCs
  <1>2. Sound(c.snap, dep, inv, launch)
    BY <1>1, <1>0 DEF JudgeInv, Judge, WritePCs
  <1>3. /\ s \in Specs /\ s.base = c.snap.base
        /\ \A j \in Jobs : s.jobs[j] = IF j = k THEN "plain" ELSE c.snap.jobs[j]
    <2>1. "plain" \in Forms
      BY DEF Forms
    <2>2. s \in Specs
      BY <1>0, <2>1, SpecTypes DEF LaunchSpec
    <2>3. s.base = c.snap.base /\ \A j \in Jobs : s.jobs[j] = IF j = k THEN "plain" ELSE c.snap.jobs[j]
      BY <1>0 DEF LaunchSpec, Specs
    <2> QED BY <2>2, <2>3
  <1>4. AcceptUpdate(s) /\ n = lastDep + 1 /\ lastDep \in Nat /\ n \in DepIDs
    BY <1>0, DepFacts, PlatformAssumption DEF AcceptUpdate, DepIDs
  <1> HIDE DEF s
  <1>5. Moves /\ Lasting
    BY <1>3, <1>4, AppMoves DEF Moves
  <1>6. launch'[k] = n /\ \A j \in Jobs : j # k => launch'[j] = launch[j]
    BY <1>0 DEF RunnerInv, TypeOK, RunnerTypeOK
  <1>7. /\ spec' = Stored(s)
        /\ \A d \in DepIDs : dep'[d].spec = dep[d].spec \/ dep'[d].spec = Stored(s)
        /\ dep'[n].spec = Stored(s)
        /\ \A j \in Jobs : Stored(s).jobs[j] = "absent" <=> s.jobs[j] = "absent"
        /\ Stored(s).base = s.base
    <2>1. dep'[n].spec = Stored(s)
      BY <1>4 DEF AcceptUpdate
    <2>2. \A j \in Jobs : Stored(s).jobs[j] = "absent" <=> s.jobs[j] = "absent"
      BY <1>3 DEF Specs, Stored
    <2>3. Stored(s).base = s.base
      BY <1>3 DEF Specs, Stored
    <2> QED BY <1>0, <1>3, <1>4, <2>1, <2>2, <2>3, UpdateSpecs
  <1>8. \A d \in DepIDs : dep'[d].spec.jobs[k] # "absent" => d = n
    <2> SUFFICES ASSUME NEW d \in DepIDs, d # n, dep'[d].spec.jobs[k] # "absent" PROVE FALSE
      OBVIOUS
    <2>1. dep[d].spec.jobs[k] = "absent"
      BY <1>0, <1>1 DEF Launches, JobPresent
    <2>2. CASE d \in 1..lastDep
      BY <1>5, <2>1, <2>2 DEF Lasting
    <2>3. CASE d \notin 1..lastDep
      <3>1. d > n
        BY <1>4, <2>3, PlatformAssumption DEF DepIDs
      <3>2. dep'[d].spec = FirstSpec
        BY <3>1 DEF RunnerInv, Unborn
      <3> QED BY <1>0, <3>2 DEF FirstSpec
    <2> QED BY <2>2, <2>3
  <1>9. Launches'
    <2>1. ASSUME NEW j \in Jobs, j # k, launch[j] = 0, NEW d \in DepIDs PROVE dep'[d].spec.jobs[j] = "absent"
      <3>1. dep[d].spec.jobs[j] = "absent"
        BY <1>0, <2>1 DEF Launches, JobPresent
      <3>2. Stored(s).jobs[j] = "absent"
        BY <1>2, <1>3, <1>7, <2>1 DEF Sound
      <3> QED BY <1>7, <3>1, <3>2
    <2>2. n \in 1..lastDep' /\ dep'[n].spec.jobs[k] # "absent" /\ n # 0
      BY <1>0, <1>3, <1>4, <1>7
    <2>3. \A d \in DepIDs : dep'[d].spec.jobs[k] # "absent" => n <= d
      BY <1>4, <1>8
    <2>4. ASSUME NEW j \in Jobs, j # k, launch[j] # 0
          PROVE  /\ launch'[j] \in 1..lastDep' /\ dep'[launch'[j]].spec.jobs[j] # "absent"
                 /\ \A d \in DepIDs : dep'[d].spec.jobs[j] # "absent" => launch'[j] <= d
      BY <1>0, <1>5, <1>6, <2>4, LaunchesLast DEF JobPresent
    <2> QED
      BY <1>6, <2>1, <2>2, <2>3, <2>4 DEF Launches, JobPresent
  <1>10. Launched(p) /\ UNCHANGED reported
    BY RunUpdateEnds DEF WriteInv, RunUpdate
  <1>11. c.m.dep = 0 /\ MetaGood(c.m, k, dep, lastDep, launch)
    BY <1>0, <1>1, Unbound, JudgeFacts
  <1>12. ASSUME NEW j \in Jobs PROVE MetaGood(handle'[j], j, dep', lastDep', launch')
    <2>1. handle[j] \in Meta /\ BindsOwn(handle[j], j, dep, lastDep) /\ MetaGood(handle[j], j, dep, lastDep, launch)
      BY <1>0 DEF RunnerInv, TypeOK, RunnerTypeOK, BoundDeploymentOwned, JudgeInv, Judge
    <2>2. MetaGood(handle[j], j, dep', lastDep', launch')
      <3>1. CASE j = k
        BY <1>0, <1>1, <2>1, <3>1, Unbound DEF MetaGood
      <3>2. CASE j # k
        BY <1>5, <1>6, <2>1, <3>2, MetaLasts
      <3> QED BY <3>1, <3>2
    <2>3. CASE handle'[j] # handle[j]
      <3> DEFINE m == Acknowledge(c.m, k, spec', dep', inProgress', active')
      <3>1. j = k /\ handle'[j] = m
        BY <2>3 DEF RunUpdate, Hold, LaunchFailed, RunnerInv, TypeOK, RunnerTypeOK
      <3>2. inProgress' \in DepRefs /\ active' \in DepRefs
        BY DEF RunnerInv, TypeOK, PlatformTypeOK
      <3>3. m.dep \in {0, n} /\ m.prior = c.m.prior
        <4>1. /\ m.dep = 0 \/ (m.dep \in DepIDs /\ dep'[m.dep].spec.jobs[k] # "absent")
              /\ m.prior = c.m.prior
          BY <1>0, <1>11, <3>2, AcknowledgeOnly
        <4> HIDE DEF m
        <4> QED BY <1>8, <4>1
      <3> HIDE DEF m
      <3> QED BY <1>6, <1>11, <3>1, <3>3 DEF MetaGood
    <2> QED BY <2>2, <2>3
  <1>13. ASSUME NEW q \in Callers PROVE CallGood(call'[q], spec', dep', inv', lastDep', launch')
    <2>1. CASE q = p
      <3>1. CASE call'[p] = IdleCall
        BY <2>1, <3>1 DEF CallGood, MetaGood, IdleCall, NewMeta, CleanPCs, StopPCs, SearchPCs, Closing
      <3>2. CASE call'[p].pc = "run_readback" /\ call'[p].j = k
        <4>1. call'[p].m.dep = c.m.dep /\ call'[p].m.prior = c.m.prior
          <5>1. call' = [call EXCEPT ![p].pc = "run_readback", ![p].m.failed = TRUE]
            BY <3>2 DEF RunUpdate, Hold, LaunchFailed, IdleCall, RunnerInv, TypeOK, RunnerTypeOK
          <5> QED BY <1>0, <5>1, CallerFacts DEF Call, Meta, RunnerInv, TypeOK, RunnerTypeOK
        <4> QED BY <1>11, <2>1, <3>2, <4>1 DEF CallGood, MetaGood, CleanPCs, StopPCs, SearchPCs, Closing
      <3> QED BY <1>10, <3>1, <3>2 DEF Launched
    <2>2. CASE q # p /\ call[q].j = k
      <3>1. call'[q] = call[q] /\ call[q].pc = "idle"
        BY <1>0, <1>1, <1>10, <2>2 DEF Launched, Protocol, RunPCs
      <3>2. ~Undisturbed
        BY <2>2 DEF Undisturbed, OneCaller
      <3>3. call[q].m.dep = 0
        BY <1>0, <1>1, <2>2, CallerFacts, Unbound
      <3> QED BY <3>1, <3>2, <3>3 DEF CallGood, MetaGood, CleanPCs, StopPCs, SearchPCs, Closing
    <2>3. CASE q # p /\ call[q].j # k
      <3>1. call'[q] = call[q] /\ call[q].j \in Jobs
        BY <1>10, <2>3, CallerFacts DEF Launched
      <3>2. ~Undisturbed
        BY <2>3 DEF Undisturbed, OneCaller
      <3>3. CallGood(call[q], spec, dep, inv, lastDep, launch)
        BY <1>0 DEF JudgeInv, Judge
      <3>4. CallGood(call[q], spec, dep', inv', lastDep', launch')
        BY <1>0, <1>5, <1>6, <2>3, <3>1, <3>3, CallLasts
      <3> QED BY <3>1, <3>2, <3>4 DEF CallGood
    <2> QED BY <2>1, <2>2, <2>3
  <1>14. \A q \in Callers : call'[q].pc \notin WritePCs
    <2>1. call'[p].pc \notin WritePCs
      BY <1>10 DEF Launched, WritePCs, IdleCall
    <2>2. ASSUME NEW q \in Callers, q # p, call[q].pc \in WritePCs PROVE FALSE
      <3>1. call[q].j = k
        BY <1>0, <2>2, CallerFacts DEF NobodyDrops, OneCaller, OneJob
      <3> QED BY <1>0, <1>1, <2>2, <3>1 DEF Protocol, RunPCs, WritePCs
    <2> QED BY <1>10, <2>1, <2>2 DEF Launched
  <1>15. ASSUME NEW j \in Jobs PROVE Reported(j, reported'[j], dep', inv', lastDep', launch')
    <2>1. CASE j = k
      BY <1>1, <1>10, <2>1 DEF Reported
    <2>2. CASE j # k
      BY <1>0, <1>5, <1>6, <1>10, <2>2, ReportLasts DEF JudgeInv, Judge
    <2> QED BY <2>1, <2>2
  <1>16. Sound(spec', dep', inv', launch')
    <2>1. ASSUME NEW j \in Jobs, spec'.jobs[j] = "absent" PROVE Ended(j, dep', inv', launch')
      <3>1. j # k /\ c.snap.jobs[j] = "absent"
        BY <1>3, <1>7, <2>1
      <3>2. Ended(j, dep, inv, launch)
        BY <1>2, <3>1 DEF Sound
      <3> QED BY <1>0, <1>5, <1>6, <3>1, <3>2, EndedLasts
    <2>2. ASSUME NEW j \in Jobs, launch'[j] = 0 PROVE spec'.jobs[j] = "absent"
      <3>1. j # k /\ launch[j] = 0
        BY <1>4, <1>6, <2>2
      <3> QED BY <1>2, <1>3, <1>7, <3>1 DEF Sound
    <2>3. Undisturbed => spec'.base = FirstBase
      BY <1>2, <1>3, <1>7 DEF Sound
    <2> QED BY <2>1, <2>2, <2>3 DEF Sound
  <1> QED
    BY <1>5, <1>9, <1>12, <1>13, <1>14, <1>15, <1>16 DEF Moves, JudgeInv, Judge

LEMMA RunUpdateWorks ==
  ASSUME NobodyDrops, RunnerInv, RunnerInv', WriteInv, AppInv, NEW p \in Callers, RunUpdate(p)
  PROVE  AppInv'
  <1>1. Protocol'
    BY RunUpdateProtocol
  <1>2. CASE AcceptUpdate(LaunchSpec(call[p])) /\ launch' = [launch EXCEPT ![call[p].j] = lastDep']
    BY <1>1, <1>2, LaunchWorks DEF AppInv
  <1>3. CASE LaunchFailed(p) /\ UNCHANGED <<platformVars, launch>>
    <2> DEFINE m == [call[p].m EXCEPT !.failed = TRUE]
               c == [call[p] EXCEPT !.pc = "run_readback", !.m = m]
    <2>1. m.dep = call[p].m.dep /\ m.prior = call[p].m.prior
      BY CallerFacts DEF Meta
    <2>2. call' = [call EXCEPT ![p] = c] /\ UNCHANGED <<handle, reported>>
      BY <1>3, CallerFacts DEF LaunchFailed, Call, RunnerInv, TypeOK, RunnerTypeOK, RunUpdate
    <2> HIDE DEF m
    <2>3. c.pc = "run_readback" /\ c.j = call[p].j /\ c.m = m
      BY CallerFacts DEF Call
    <2> HIDE DEF c
    <2>4. CallGood(c, spec, dep, inv, lastDep, launch) /\ c.pc \notin WritePCs
      BY <2>1, <2>3, JudgeFacts DEF CallGood, MetaGood, CleanPCs, StopPCs, SearchPCs, Closing, WritePCs
    <2>5. OrderInv' /\ SlotsLive' /\ Launches' /\ JudgeInv'
      BY <1>3, <2>2, <2>4, StillJudge
    <2> QED BY <1>1, <2>5 DEF AppInv
  <1> QED
    BY <1>2, <1>3 DEF RunUpdate

-----------------------------------------------------------------------------
(* Other writers, time and the platform.                                    *)

LEMMA OutsideWorks ==
  ASSUME RunnerInv, RunnerInv', AppInv, Moves,
         UNCHANGED <<call, handle, reported, launch, held, used>>,
         SameSpecs \/ \E s \in Specs : AcceptUpdate(s) /\ Sound(s, dep, inv, launch),
         \A j \in Jobs : spec.jobs[j] # "absent" => spec'.jobs[j] # "absent"
  PROVE  AppInv'
  <1>0. PlatformTypeOK /\ Launches /\ JudgeInv /\ Sound(spec, dep, inv, launch)
    BY DEF RunnerInv, TypeOK, AppInv, JudgeInv, Judge
  <1>1. Unlaunched /\ Sound(spec', dep, inv, launch)
    BY <1>0, UpdateUnlaunched, SameUnlaunched DEF SameSpecs
  <1>2. ASSUME NEW q \in Callers PROVE CallGood(call'[q], spec', dep, inv, lastDep, launch)
    <2>1. CallGood(call[q], spec, dep, inv, lastDep, launch) /\ call[q].j \in Jobs
      BY <1>0, CallerFacts DEF JudgeInv, Judge
    <2> QED BY <2>1 DEF CallGood
  <1>3. Judge(handle', call', reported', spec', dep, inv, lastDep, launch)
    BY <1>0, <1>1, <1>2 DEF JudgeInv, Judge
  <1>4. Protocol'
    BY DEF AppInv, Protocol
  <1> QED
    BY <1>0, <1>1, <1>3, <1>4, JudgeLasts DEF AppInv, Moves

LEMMA ForeignWorks ==
  ASSUME NobodyDrops, RunnerInv, RunnerInv', AppInv,
         ForeignBase \/ ForeignApply \/ ForeignRedeploy \/ ForeignEdit
  PROVE  AppInv'
  <1>0. spec \in Specs /\ Sound(spec, dep, inv, launch) /\ Launches
    BY DEF RunnerInv, TypeOK, PlatformTypeOK, AppInv, JudgeInv, Judge
  <1>1. ASSUME NEW s \in Specs, NEW kind \in Disturbances, Foreign(kind, s),
               \A j \in Jobs : s.jobs[j] = "absent" <=> spec.jobs[j] = "absent",
               Undisturbed => s.base = spec.base
        PROVE  AppInv'
    <2>1. AcceptUpdate(s) /\ UNCHANGED <<call, handle, reported, launch, held, used>>
      BY <1>1 DEF Foreign, Disturb
    <2>2. Sound(s, dep, inv, launch)
      BY <1>0, <1>1 DEF Sound
    <2>3. \A j \in Jobs : spec.jobs[j] # "absent" => spec'.jobs[j] # "absent"
      <3>1. spec' = Stored(s)
        BY <2>1 DEF AcceptUpdate
      <3>2. \A j \in Jobs : Stored(s).jobs[j] = "absent" <=> s.jobs[j] = "absent"
        BY DEF Specs, Stored
      <3> QED BY <1>1, <3>1, <3>2
    <2>4. Moves
      BY <2>1, AppMoves
    <2> QED BY <2>1, <2>2, <2>3, <2>4, OutsideWorks
  <1>2. ASSUME ForeignBase PROVE AppInv'
    <2>1. PICK b \in Bases : Foreign("base", [spec EXCEPT !.base = b])
      BY <1>2 DEF ForeignBase
    <2> DEFINE s == [spec EXCEPT !.base = b]
    <2>2. s \in Specs /\ s.jobs = spec.jobs
      BY <1>0 DEF Specs
    <2>3. "base" \in Disturbances
      BY <2>1 DEF Foreign, Disturb
    <2>4. Foreign("base", s) /\ ~Undisturbed
      BY <2>1, <2>3 DEF Undisturbed
    <2> HIDE DEF s
    <2> QED BY <1>1, <2>2, <2>3, <2>4
  <1>3. ~ForeignApply
    BY DEF ForeignApply, Foreign, Disturb, NobodyDrops
  <1>4. ASSUME ForeignRedeploy PROVE AppInv'
    <2>1. "redeploy" \in Disturbances /\ Foreign("redeploy", spec)
      BY <1>4 DEF ForeignRedeploy, Foreign, Disturb
    <2> QED BY <1>0, <1>1, <2>1
  <1>5. ASSUME ForeignEdit PROVE AppInv'
    <2>1. PICK j \in Jobs : spec.jobs[j] # "absent" /\ Foreign("edit", [spec EXCEPT !.jobs[j] = "edited"])
      BY <1>5 DEF ForeignEdit
    <2> DEFINE s == [spec EXCEPT !.jobs[j] = "edited"]
    <2>2. s \in Specs
      BY <1>0, SpecTypes DEF Forms
    <2>3. s.base = spec.base /\ \A k \in Jobs : s.jobs[k] = IF k = j THEN "edited" ELSE spec.jobs[k]
      BY <1>0 DEF Specs
    <2>4. "edit" \in Disturbances /\ Foreign("edit", s)
      BY <2>1 DEF Foreign, Disturb
    <2> HIDE DEF s
    <2>5. \A k \in Jobs : s.jobs[k] = "absent" <=> spec.jobs[k] = "absent"
      BY <2>1, <2>3
    <2> QED BY <1>1, <2>2, <2>3, <2>4, <2>5
  <1> QED
    BY <1>2, <1>3, <1>4, <1>5

LEMMA NextWorks ==
  ASSUME NobodyDrops, RunnerInv, WriteInv, AppInv, [Next]_vars
  PROVE  AppInv'
  <1>0. RunnerInv'
    BY NextInv
  <1>1. ASSUME (\E j \in Jobs : Tick(j)) \/ UNCHANGED vars PROVE AppInv'
    <2>1. UNCHANGED platformVars /\ UNCHANGED <<call, handle, reported, launch, held, used>>
      BY <1>1 DEF Tick, vars, runnerVars
    <2>2. Moves /\ SameSpecs
      BY <2>1, AppMoves, IdleSpecs
    <2> QED BY <1>0, <2>1, <2>2, OutsideWorks DEF SameSpecs
  <1>2. ASSUME Platform PROVE AppInv'
    <2>1. PlatformNext /\ UNCHANGED <<call, handle, reported, launch, held, used>>
      BY <1>2 DEF Platform, runnerVars
    <2>2. Moves /\ SameSpecs
      BY <2>1, AppMoves, PlatformSpecs DEF RunnerInv, TypeOK
    <2> QED BY <1>0, <2>1, <2>2, OutsideWorks DEF SameSpecs
  <1>3. ASSUME NEW p \in Callers, Step(p) PROVE AppInv'
    <2>1. CASE RunPreflight(p) \/ RunUpdate(p) \/ RunReadback(p)
      BY <1>0, <2>1, RunPreflightWorks, RunUpdateWorks, RunReadbackWorks
    <2>2. CASE \/ Recover(p) \/ Historical(p) \/ Invocation(p) \/ StatusDeployment(p) \/ StatusLaunch(p)
               \/ CancelDeployment(p) \/ CancelDeploymentSend(p) \/ CancelDeploymentReadback(p)
               \/ CancelInvocation(p) \/ CancelInvocationReadback(p)
      BY <1>0, <2>2, SearchWorks
    <2>3. CASE Cleanup(p) \/ CleanupUpdate(p) \/ CleanupReadback(p)
      BY <1>0, <2>3, CleanWorks
    <2> QED BY <1>3, <2>1, <2>2, <2>3 DEF Step
  <1>4. ASSUME NEW p \in Callers, NEW j \in Jobs, RunGet(p, j) \/ BeginStatus(p, j) \/ BeginCancel(p, j)
        PROVE  AppInv'
    BY <1>0, <1>4, RunGetWorks, BeginWorks DEF BeginStatus, BeginCancel
  <1>5. ASSUME NEW p \in Callers, ReadError(p) \/ Crash(p) PROVE AppInv'
    BY <1>0, <1>5, EndWorks
  <1> QED
    BY <1>0, <1>1, <1>2, <1>3, <1>4, <1>5, ForeignWorks DEF Next

LEMMA InitApp == Init => AppInv
  <1> SUFFICES ASSUME Init PROVE AppInv
    OBVIOUS
  <1>1. SlotsLive /\ OrderInv
    BY InitTruth, InitOrder DEF TruthInv
  <1>2. /\ held = {} /\ used = {} /\ spec = FirstSpec
        /\ \A p \in Callers : call[p] = IdleCall
        /\ \A j \in Jobs : /\ reported[j] = {} /\ launch[j] = 0 /\ FirstSpec.jobs[j] = "absent"
                           /\ handle[j].dep = 0 /\ handle[j].prior = FirstSpec
        /\ \A d \in DepIDs : dep[d].spec = FirstSpec
        /\ FirstSpec.base = FirstBase
    BY DEF Init, PlatformInit, FirstSpec, NewMeta
  <1>0. IdleCall.pc = "idle"
    BY DEF IdleCall
  <1>3. Protocol
    <2>1. \A p \in Callers : call[p].pc = "idle"
      BY <1>0, <1>2
    <2>2. "idle" \notin RunPCs \cup {"run_preflight", "run_update"}
      BY DEF RunPCs
    <2> QED BY <1>2, <2>1, <2>2 DEF Protocol
  <1>4. Launches
    BY <1>2 DEF Launches, JobPresent
  <1>5. Sound(spec, dep, inv, launch)
    BY <1>2 DEF Sound, Ended
  <1>6. JudgeInv
    <2>1. \A j \in Jobs : MetaGood(handle[j], j, dep, lastDep, launch)
      BY <1>2 DEF MetaGood
    <2>2. \A p \in Callers : CallGood(call[p], spec, dep, inv, lastDep, launch)
      BY <1>2, IdleGood
    <2>3. \A p \in Callers : call[p].pc \notin WritePCs
      BY <1>0, <1>2 DEF WritePCs
    <2>4. \A j \in Jobs : Reported(j, reported[j], dep, inv, lastDep, launch)
      BY <1>2 DEF Reported
    <2> QED BY <1>5, <2>1, <2>2, <2>3, <2>4 DEF JudgeInv, Judge
  <1> QED
    BY <1>1, <1>3, <1>4, <1>6 DEF AppInv

LEMMA AppAlways ==
  ASSUME NobodyDrops
  PROVE  Spec => []AppInv
  <1>1. Init => AppInv
    BY InitApp
  <1>2. RunnerInv /\ WriteInv /\ AppInv /\ [Next]_vars => AppInv'
    BY NextWorks
  <1> QED
    BY <1>1, <1>2, WritesAlways, PTL DEF Spec

LEMMA OverShown ==
  ASSUME AppInv
  PROVE  CleanMeansOver
  <1> SUFFICES ASSUME NEW j \in Jobs, reported[j] # {}, launch[j] # 0, CanStillRun(launch[j], j)
               PROVE  FALSE
    BY DEF CleanMeansOver
  <1>1. Ended(j, dep, inv, launch)
    BY DEF AppInv, JudgeInv, Judge, Reported
  <1> QED
    BY <1>1 DEF Ended, Runs, CanStillRun, Unfinished

LEMMA FailureShown ==
  ASSUME AppInv, Undisturbed
  PROVE  TruthfulFailure
  <1> SUFFICES ASSUME NEW j \in Jobs, "failed" \in reported[j], launch[j] # 0
               PROVE  \E d \in Own(j) : dep[d].phase = "error" \/ inv[d][j] \in {"failed", "skipped"}
    BY DEF TruthfulFailure
  <1>1. Failed(j, dep, inv, lastDep, launch)
    BY DEF AppInv, JudgeInv, Judge, Reported
  <1> QED
    BY <1>1 DEF Failed, Own, IntactIn

(* A job that JobStatus or CancelJob reports over without error can no      *)
(* longer run in the deployment RunJob started, whatever was lost, retried  *)
(* or restarted on the way and however many calls work on the job, unless   *)
(* somebody takes a running job's component out of the app: an apply from   *)
(* configuration, or a call for another job with an older spec.             *)
THEOREM CleanReportsOver ==
  ASSUME NobodyDrops
  PROVE  Spec => []CleanMeansOver
  <1>1. AppInv => CleanMeansOver
    BY OverShown
  <1> QED
    BY <1>1, AppAlways, PTL

(* Every terminal state that JobStatus reports happened, failures included: *)
(* a "failed" is that of a launch that was never accepted, of a deployment  *)
(* in error or of a failed or skipped invocation, through lost answers,     *)
(* crashes, redeployments and edits of the component, when one caller works *)
(* on one job and nobody changes the rest of the app.                       *)
THEOREM ReportsTrue ==
  ASSUME Undisturbed
  PROVE  Spec => []TruthfulReport
  <1>1. NobodyDrops
    BY DEF Undisturbed, NobodyDrops
  <1>2. AppInv => TruthfulFailure
    BY FailureShown
  <1>3. TruthfulFailure /\ TruthfulSuccess /\ TruthfulCancel => TruthfulReport
    BY DEF TruthfulReport
  <1> QED
    BY <1>1, <1>2, <1>3, AppAlways, ReportsHappened, PTL

=============================================================================
