-------------------------- MODULE AppDeploy_proofs --------------------------
(***************************************************************************)
(* The deployment strategies, for any number of deployments, clones, calls, *)
(* updates by others and faults, and for both readings of a deployment's    *)
(* previous one.                                                            *)
(*                                                                          *)
(* Two arguments that do not depend on each other.  Order: an app's active  *)
(* deployment only gets newer, and what HealthCheck accepts is newer than   *)
(* what was active when Update read the app.  Clones: what the engine was   *)
(* told about a clone is true of the clone the driver holds now.            *)
(***************************************************************************)
EXTENDS AppDeploy, WellFoundedInduction, TLAPS

CloneStates == [state : {"none", "deploying", "active", "error", "deleted"},
                image : Bases, started : BOOLEAN]

SlotsShape ==
    /\ lastDep \in DepIDs /\ active \in DepIDs
    /\ pending \in DepRefs /\ inProgress \in DepRefs
    /\ prev \in [DepIDs -> DepRefs]

(* The types that the two arguments rest on.                                *)
Shape ==
    /\ SlotsShape
    /\ strategy \in Strategies
    /\ drv \in [waiting : BOOLEAN, target : DepRefs, prevActive : DepRefs]
    /\ cloneID \in CloneRefs /\ stableCheck \in BOOLEAN
    /\ clones \in [CloneIDs -> CloneStates]
    /\ call \in Call
    /\ validated \in BOOLEAN
    /\ goal \in [image : Bases, baseline : DepRefs]
    /\ health.dep \in DepRefs

(* The slots hold deployments in the order they were made, and each has a   *)
(* previous one that is older.                                              *)
SlotsOrdered ==
    /\ \A d \in DepIDs : prev[d] < d
    /\ active <= lastDep
    /\ inProgress # 0 => active < inProgress /\ inProgress <= lastDep
    /\ pending # 0 => active < pending /\ inProgress < pending /\ pending <= lastDep

(* What an update is about is newer than what it set out to replace.        *)
TargetNewer ==
    /\ goal.baseline <= drv.prevActive /\ drv.prevActive <= active
    /\ drv.target # 0 => goal.baseline < drv.target
    /\ health.dep # 0 => goal.baseline < health.dep
    /\ call.pc \in {"update_get", "update_put"} => health.dep = 0

OrderOK == Shape /\ SlotsOrdered /\ TargetNewer

(* The clone the driver holds has started if the engine may promote it, or  *)
(* the driver has turned to the stable app.                                 *)
CloneStarted ==
    /\ cloneID # 0 => clones[cloneID].state # "none" /\ strategy # "rolling"
    /\ \A c \in CloneIDs : clones[c].state = "active" => clones[c].started
    /\ Exists(cloneID) /\ (validated \/ (stableCheck /\ strategy # "canary"))
          => clones[cloneID].started
    /\ call.op = "promote" => cloneID # 0 /\ clones[cloneID].started /\ call.pc # "idle"
    /\ call.pc = "health_list" => ~ChecksClone
    /\ promoted \in SUBSET CloneIDs

ClonesOK == Shape /\ CloneStarted /\ PrevalidatedRollout /\ CloneKnown

-----------------------------------------------------------------------------
(* The operators of the model.                                              *)

(* A nonempty set of naturals with a bound has a largest element.           *)
LEMMA LargestExists ==
  ASSUME NEW n \in Nat, NEW S \in SUBSET (0..n), S # {}
  PROVE  \E d \in S : \A e \in S : e <= d
  <1> DEFINE T == {n - d : d \in S}
             R == OpToRel(<, Nat)
  <1> HIDE DEF R
  <1>1. T \subseteq Nat /\ T # {}
    <2>1. \A d \in S : n - d \in Nat
      OBVIOUS
    <2> QED
      BY <2>1
  <1>2. \E x \in T : \A y \in T : ~(<<y, x>> \in R)
    BY <1>1, WFMin, NatLessThanWellFounded, Zenon DEF R
  <1>3. PICK x \in T : \A y \in T : ~(y < x)
    BY <1>1, <1>2 DEF OpToRel, R
  <1>4. PICK d \in S : x = n - d
    OBVIOUS
  <1>5. \A e \in S : e <= d
    <2> SUFFICES ASSUME NEW e \in S PROVE e <= d
      OBVIOUS
    <2>1. n - e \in T /\ n - e \in Nat /\ e \in Nat /\ d \in Nat
      OBVIOUS
    <2> QED
      BY <1>3, <1>4, <2>1
  <1> QED
    BY <1>5

(* selectUpdateDeployment returns nothing or a slot that is newer.          *)
LEMMA SelectFacts ==
  ASSUME NEW a, NEW b, NEW c, NEW previousActive, NEW pv
  PROVE  LET d == Select(<<a, b, c>>, previousActive, pv)
         IN  d = 0 \/ (d \in {a, b, c} /\ Newer(d, previousActive, pv))
  <1> DEFINE slots == <<a, b, c>>
             newer == {i \in 1..3 : Newer(slots[i], previousActive, pv)}
             first == CHOOSE i \in newer : \A k \in newer : i <= k
  <1>1. CASE newer = {}
    BY <1>1 DEF Select
  <1>2. CASE newer # {}
    <2>1. newer \subseteq {1, 2, 3}
      OBVIOUS
    <2> HIDE DEF newer
    <2>2. \E i \in newer : \A k \in newer : i <= k
      <3>1. CASE 1 \in newer
        BY <2>1, <3>1
      <3>2. CASE 1 \notin newer /\ 2 \in newer
        BY <2>1, <3>2
      <3>3. CASE newer = {3}
        BY <3>3
      <3> QED
        BY <1>2, <2>1, <3>1, <3>2, <3>3
    <2>3. first \in newer
      BY <2>2
    <2> HIDE DEF first
    <2>4. Newer(slots[first], previousActive, pv) /\ slots[first] \in {a, b, c}
      BY <2>1, <2>3 DEF newer
    <2>5. Select(slots, previousActive, pv) = slots[first]
      BY <1>2 DEF Select, newer, first
    <2> QED
      BY <2>4, <2>5
  <1> QED
    BY <1>1, <1>2

LEMMA DepNumbers == DepIDs \subseteq Nat /\ DepRefs = DepIDs \cup {0} /\ DepRefs \subseteq Nat /\ 0 \notin DepIDs
  BY PlatformAssumption DEF DepIDs, DepRefs

(* A deployment no older than the active one, if it is newer than p that    *)
(* was active before, came after p.                                         *)
LEMMA NewerIsLater ==
  ASSUME NEW a \in DepIDs, NEW p \in DepRefs, p <= a,
         NEW pv \in [DepIDs -> DepRefs], \A e \in DepIDs : pv[e] < e,
         NEW d \in DepRefs, d # 0 => a <= d, Newer(d, p, pv)
  PROVE  d \in DepIDs /\ p < d
  <1>1. d \in DepIDs /\ pv[d] < d /\ a <= d
    BY DepNumbers DEF Newer
  <1>2. d \in Nat /\ a \in Nat /\ p \in Nat
    BY <1>1, DepNumbers
  <1>3. pv[d] # d
    BY <1>1, <1>2
  <1> QED
    BY <1>1, <1>2, <1>3 DEF Newer

(* An accepted Update, whatever the spec.                                   *)
LEMMA DeployOrdered ==
  ASSUME SlotsShape, SlotsOrdered, NEW s, Deploy(s)
  PROVE  /\ SlotsShape' /\ SlotsOrdered'
         /\ active' = active /\ lastDep' = lastDep + 1
  <1>1. /\ lastDep + 1 \in DepIDs /\ lastDep \in Nat /\ lastDep' = lastDep + 1 /\ active' = active
    BY PlatformAssumption DEF Deploy, AcceptUpdate, SlotsShape, DepIDs
  <1>2. /\ pending' \in {0, lastDep + 1} /\ inProgress' \in {inProgress, lastDep + 1}
        /\ inProgress' # inProgress => pending' = 0
    BY DEF Deploy, AcceptUpdate
  <1>3. PICK p \in {lastDep, active} : prev' = [prev EXCEPT ![lastDep + 1] = p]
    BY DEF Deploy
  <1>4. p \in DepIDs /\ p < lastDep + 1
    BY <1>1, DepNumbers DEF SlotsShape, SlotsOrdered
  <1>5. SlotsShape'
    BY <1>1, <1>2, <1>3, <1>4, DepNumbers DEF SlotsShape
  <1>6. \A d \in DepIDs : prev'[d] < d
    BY <1>3, <1>4 DEF SlotsShape, SlotsOrdered
  <1> QED
    BY <1>1, <1>2, <1>5, <1>6, DepNumbers DEF SlotsShape, SlotsOrdered

(* The platform's own steps.                                                *)
LEMMA PlatformOrdered ==
  ASSUME SlotsShape, SlotsOrdered, PlatformNext, UNCHANGED prev
  PROVE  SlotsShape' /\ SlotsOrdered' /\ active <= active'
  <1>1. lastDep' = lastDep /\ active' \in {active, inProgress} /\ (active' # active => inProgress # 0 /\ active' = inProgress)
    BY DEF PlatformNext, StartDeployment, StartJob, EndJob, ActivateDeployment, FailDeployment,
           SupersedeDeployment
  <1>2. \/ pending' = pending /\ inProgress' = inProgress /\ active' = active
        \/ pending' = 0 /\ inProgress' = pending /\ active' = active
        \/ pending' = pending /\ inProgress' = 0
    BY DEF PlatformNext, StartDeployment, StartJob, EndJob, ActivateDeployment, FailDeployment,
           SupersedeDeployment
  <1> QED
    BY <1>1, <1>2, DepNumbers DEF SlotsShape, SlotsOrdered

-----------------------------------------------------------------------------
(* Order.                                                                   *)

LEMMA IdleCallType == IdleCall \in Call /\ IdleCall.pc = "idle" /\ IdleCall.op = "none"
  BY PlatformAssumption DEF IdleCall, Call, PCs, Ops

LEMMA OrderInit == Init => OrderOK
  <1> SUFFICES ASSUME Init PROVE OrderOK
    OBVIOUS
  <1>1. SlotsShape /\ SlotsOrdered
    BY PlatformAssumption DEF Init, PlatformInit, SlotsShape, SlotsOrdered, DepIDs, DepRefs
  <1>2. Shape
    <2>1. /\ drv \in [waiting : BOOLEAN, target : DepRefs, prevActive : DepRefs]
          /\ goal \in [image : Bases, baseline : DepRefs] /\ health.dep \in DepRefs
      BY DepNumbers, PlatformAssumption DEF Init, NoHealth
    <2>2. cloneID \in CloneRefs /\ clones \in [CloneIDs -> CloneStates]
      BY DeployAssumption, PlatformAssumption DEF Init, CloneRefs, CloneStates
    <2> QED
      BY <1>1, <2>1, <2>2, IdleCallType DEF Init, Shape
  <1>3. TargetNewer
    BY PlatformAssumption DEF Init, PlatformInit, TargetNewer, IdleCall, NoHealth
  <1> QED
    BY <1>1, <1>2, <1>3 DEF OrderOK

(* A step that leaves the app and what is known of its update as they are.  *)
LEMMA OrderKept ==
  ASSUME OrderOK, Shape', UNCHANGED <<active, lastDep, pending, inProgress, prev>>,
         UNCHANGED <<drv, goal>>, health'.dep = 0 \/ UNCHANGED health,
         call'.pc \in {"update_get", "update_put"} =>
            health'.dep = 0 \/ (UNCHANGED health /\ call.pc \in {"update_get", "update_put"})
  PROVE  OrderOK'
  BY DEF OrderOK, SlotsOrdered, TargetNewer

LEMMA AnswerFacts ==
  ASSUME Shape, NEW a, NEW d, Answer(a, d)
  PROVE  /\ health'.dep \in {0, d} /\ validated' \in BOOLEAN
         /\ validated' => validated \/ a = "ok"
  BY DEF Answer, Shape

LEMMA UpdateOrder ==
  ASSUME OrderOK, NEW image \in Bases, Update(image)
  PROVE  OrderOK'
  <1>1. Shape'
    BY DepNumbers DEF OrderOK, Shape, SlotsShape, Update, Begin, NoHealth, Call, PCs, Ops,
       platformVars, driverVars
  <1> QED
    BY <1>1, OrderKept DEF Update, Begin, NoHealth, platformVars, driverVars

LEMMA PromoteOrder == ASSUME OrderOK, Promote PROVE OrderOK'
  <1>1. clones[cloneID].image \in Bases
    BY DEF OrderOK, Shape, Promote, CloneStates, CloneIDs, CloneRefs
  <1>2. Shape'
    BY <1>1, DepNumbers DEF OrderOK, Shape, SlotsShape, Promote, Begin, NoHealth, Call, PCs, Ops,
       platformVars, driverVars
  <1> QED
    BY <1>2, OrderKept DEF Promote, Begin, NoHealth, platformVars, driverVars

LEMMA CreateCloneFacts ==
  ASSUME Shape, NEW image \in Bases, NEW c \in CloneIDs, CreateClone(image, c)
  PROVE  /\ clones' \in [CloneIDs -> CloneStates]
         /\ clones'[c].state = "deploying" /\ clones'[c].started = clones[c].started
         /\ \A e \in CloneIDs \ {c} : clones'[e] = clones[e]
  <1>1. clones' = [clones EXCEPT ![c].state = "deploying", ![c].image = image]
    BY DEF CreateClone
  <1>2. clones \in [CloneIDs -> CloneStates]
    BY DEF Shape
  <1>3. clones' = [clones EXCEPT ![c] = [clones[c] EXCEPT !.state = "deploying", !.image = image]]
    BY <1>1, <1>2
  <1>4. /\ [clones[c] EXCEPT !.state = "deploying", !.image = image] \in CloneStates
        /\ clones'[c] = [clones[c] EXCEPT !.state = "deploying", !.image = image]
    BY <1>2, <1>3 DEF CloneStates
  <1> QED
    BY <1>2, <1>3, <1>4 DEF CloneStates

LEMMA CreateCloneOrder ==
  ASSUME OrderOK, NEW image \in Bases, NEW c \in CloneIDs, CreateClone(image, c)
  PROVE  OrderOK'
  <1>1. clones' \in [CloneIDs -> CloneStates]
    BY CreateCloneFacts DEF OrderOK
  <1>2. cloneID' \in CloneRefs
    <2>1. cloneID' \in {cloneID, c}
      BY DEF CreateClone, Cloned
    <2> QED
      BY <2>1, DeployAssumption DEF OrderOK, Shape, CloneIDs, CloneRefs
  <1>3. stableCheck' \in BOOLEAN /\ validated' \in BOOLEAN
    BY Zenon DEF OrderOK, Shape, CreateClone, Cloned
  <1>4. Shape'
    BY <1>1, <1>2, <1>3, DepNumbers DEF OrderOK, Shape, SlotsShape, CreateClone, NoHealth, platformVars
  <1> QED
    BY <1>4, OrderKept DEF CreateClone, NoHealth, platformVars, Call

LEMMA DeleteCloneShape ==
  ASSUME Shape, DeleteClone
  PROVE  clones' \in [CloneIDs -> CloneStates] /\ cloneID' \in CloneRefs
  <1>1. cloneID \in CloneIDs /\ cloneID' \in CloneRefs
    BY DeployAssumption DEF Shape, DeleteClone, Exists, CloneIDs, CloneRefs
  <1>2. clones' \in [CloneIDs -> CloneStates]
    BY <1>1 DEF Shape, DeleteClone, CloneStates
  <1> QED
    BY <1>1, <1>2

LEMMA DestroyCloneOrder == ASSUME OrderOK, DestroyClone PROVE OrderOK'
  <1>1. Shape'
    BY DeleteCloneShape, DepNumbers DEF OrderOK, Shape, SlotsShape, DestroyClone, NoHealth, platformVars
  <1> QED
    BY <1>1, OrderKept DEF DestroyClone, NoHealth, platformVars

LEMMA PromoteDeleteOrder == ASSUME OrderOK, PromoteDelete PROVE OrderOK'
  <1>1. Shape'
    BY DeleteCloneShape, IdleCallType DEF OrderOK, Shape, SlotsShape, PromoteDelete, platformVars
  <1> QED
    BY <1>1, OrderKept, IdleCallType DEF PromoteDelete, platformVars

LEMMA ClonePlatformOrder == ASSUME OrderOK, ClonePlatform PROVE OrderOK'
  <1>1. clones' \in [CloneIDs -> CloneStates]
    BY DEF OrderOK, Shape, ClonePlatform, CloneStates
  <1>2. Shape'
    BY <1>1 DEF OrderOK, Shape, SlotsShape, ClonePlatform, platformVars, driverVars, engineVars
  <1> QED
    BY <1>2, OrderKept DEF ClonePlatform, platformVars, driverVars, engineVars

LEMMA HealthErrorOrder == ASSUME OrderOK, HealthError PROVE OrderOK'
  <1>1. health'.dep = 0 /\ call' = IdleCall
    BY DEF HealthError
  <1>2. Shape'
    BY <1>1, DepNumbers, IdleCallType
    DEF OrderOK, Shape, SlotsShape, HealthError, platformVars, driverVars
  <1> QED
    BY <1>1, <1>2, OrderKept, IdleCallType DEF HealthError, platformVars, driverVars

LEMMA HealthCloneOrder == ASSUME OrderOK, HealthClone PROVE OrderOK'
  <1>1. health'.dep = 0 /\ validated' \in BOOLEAN
    BY AnswerFacts DEF HealthClone, OrderOK
  <1>2. Shape'
    BY <1>1, DepNumbers DEF OrderOK, Shape, SlotsShape, HealthClone, platformVars, driverVars
  <1> QED
    BY <1>1, <1>2, OrderKept DEF HealthClone, platformVars, driverVars

LEMMA UpdateGetOrder == ASSUME OrderOK, UpdateGet PROVE OrderOK'
  <1>1. /\ drv' \in [waiting : BOOLEAN, target : DepRefs, prevActive : DepRefs]
        /\ drv'.target = drv.target /\ drv'.prevActive \in {drv.prevActive, active}
    BY DepNumbers DEF UpdateGet, OrderOK, Shape, SlotsShape
  <1>2. /\ call' \in Call /\ call.pc = "update_get"
    BY IdleCallType DEF UpdateGet, OrderOK, Shape, Call, PCs
  <1>3. Shape'
    BY <1>1, <1>2 DEF OrderOK, Shape, SlotsShape, UpdateGet, platformVars
  <1>4. goal.baseline \in Nat /\ drv.prevActive \in Nat /\ active \in Nat /\ UNCHANGED <<goal, health, active>>
    BY DepNumbers DEF OrderOK, Shape, SlotsShape, UpdateGet, platformVars
  <1>5. TargetNewer'
    BY <1>1, <1>2, <1>4 DEF OrderOK, TargetNewer
  <1> QED
    BY <1>3, <1>5 DEF OrderOK, SlotsOrdered, UpdateGet, platformVars

(* Whichever slots the answer to an accepted Update shows, the deployment   *)
(* picked from them is newer than what Update read as active.               *)
LEMMA UpdatePutOrder == ASSUME OrderOK, UpdatePut PROVE OrderOK'
  <1>1. /\ call.pc = "update_put" /\ health' = health /\ health.dep = 0
        /\ strategy' = strategy /\ cloneID' = cloneID /\ clones' = clones /\ validated' = validated
    BY DEF UpdatePut, OrderOK, TargetNewer
  <1>2. SlotsShape' /\ SlotsOrdered' /\ active' = active
    <2>1. CASE Deploy([spec EXCEPT !.base = call.image])
      BY <2>1, DeployOrdered DEF OrderOK, Shape
    <2>2. CASE UNCHANGED <<platformVars, prev>>
      BY <2>2 DEF OrderOK, Shape, SlotsShape, SlotsOrdered, platformVars
    <2> QED
      BY <2>1, <2>2 DEF UpdatePut
  <1>3. stableCheck' \in BOOLEAN
    BY Zenon DEF UpdatePut, AfterUpdate, OrderOK, Shape
  <1>4. call' \in Call /\ call'.pc \in {"idle", "delete"}
    BY IdleCallType DEF UpdatePut, AfterUpdate, OrderOK, Shape, Call, PCs
  <1>5. CASE UNCHANGED <<drv, goal>>
    <2>1. Shape'
      BY <1>1, <1>2, <1>3, <1>4, <1>5 DEF OrderOK, Shape
    <2> QED
      BY <1>1, <1>2, <1>4, <1>5, <2>1 DEF OrderOK, TargetNewer
  <1>6. ASSUME Deploy([spec EXCEPT !.base = call.image]),
               NEW slots \in {<<inProgress, pending, active>>, <<inProgress', pending', active'>>},
               drv' = [drv EXCEPT !.waiting = TRUE, !.target = Select(slots, drv.prevActive, prev')],
               goal' = [image |-> call.image, baseline |-> drv.prevActive]
        PROVE  OrderOK'
    <2> DEFINE d == Select(slots, drv.prevActive, prev')
    <2>1. PICK a, b \in DepRefs : /\ slots = <<a, b, active>>
                                  /\ (a # 0 => active <= a) /\ (b # 0 => active <= b)
      <3>1. CASE slots = <<inProgress, pending, active>>
        BY <3>1, DepNumbers DEF OrderOK, Shape, SlotsShape, SlotsOrdered
      <3>2. CASE slots = <<inProgress', pending', active'>>
        BY <1>2, <3>2, DepNumbers DEF SlotsShape, SlotsOrdered
      <3> QED
        BY <1>6, <3>1, <3>2
    <2>2. /\ drv.prevActive \in DepRefs /\ drv.prevActive <= active /\ active \in DepIDs
          /\ prev' \in [DepIDs -> DepRefs] /\ \A e \in DepIDs : prev'[e] < e
      BY <1>2 DEF OrderOK, Shape, SlotsShape, SlotsOrdered, TargetNewer
    <2>3. d = 0 \/ (d \in {a, b, active} /\ Newer(d, drv.prevActive, prev'))
      BY <2>1, SelectFacts
    <2> HIDE DEF d
    <2>4. d # 0 => d \in DepIDs /\ drv.prevActive < d
      <3> SUFFICES ASSUME d # 0 PROVE d \in DepIDs /\ drv.prevActive < d
        OBVIOUS
      <3>1. d \in DepRefs /\ active <= d
        BY <2>1, <2>2, <2>3, DepNumbers
      <3> QED
        BY <2>2, <2>3, <3>1, NewerIsLater
    <2>5. /\ drv' \in [waiting : BOOLEAN, target : DepRefs, prevActive : DepRefs]
          /\ drv'.target = d /\ drv'.prevActive = drv.prevActive
      BY <1>6, <2>4, DepNumbers DEF OrderOK, Shape, d
    <2>6. goal' \in [image : Bases, baseline : DepRefs] /\ goal'.baseline = drv.prevActive
      BY <1>6, <2>2 DEF OrderOK, Shape, Call
    <2>7. Shape'
      BY <1>1, <1>2, <1>3, <1>4, <2>5, <2>6 DEF OrderOK, Shape
    <2>8. drv.prevActive \in Nat /\ active' = active /\ health'.dep = 0
      BY <1>1, <1>2, <2>2, DepNumbers
    <2>9. TargetNewer'
      BY <1>4, <2>2, <2>4, <2>5, <2>6, <2>8 DEF TargetNewer
    <2> QED
      BY <1>2, <2>7, <2>9 DEF OrderOK
  <1> QED
    BY <1>5, <1>6 DEF UpdatePut

(* HealthCheck of the stable app answers for a deployment that is newer.    *)
LEMMA HealthTargets ==
  ASSUME OrderOK, NEW d \in DepRefs, d = 0 \/ goal.baseline < d,
         drv' = [drv EXCEPT !.target = d] \/ UNCHANGED drv,
         health'.dep \in {0, d} \/ UNCHANGED health, validated' \in BOOLEAN,
         call' \in Call, call'.pc \notin {"update_get", "update_put"},
         UNCHANGED <<active, lastDep, pending, inProgress, prev, strategy, cloneID, stableCheck,
                     clones, goal>>
  PROVE  OrderOK'
  <1>1. /\ drv' \in [waiting : BOOLEAN, target : DepRefs, prevActive : DepRefs]
        /\ drv'.prevActive = drv.prevActive /\ drv'.target \in {drv.target, d}
    BY DEF OrderOK, Shape
  <1>2. Shape'
    BY <1>1, DepNumbers DEF OrderOK, Shape, SlotsShape
  <1>3. TargetNewer'
    BY <1>1 DEF OrderOK, TargetNewer
  <1> QED
    BY <1>2, <1>3 DEF OrderOK, SlotsOrdered

LEMMA HealthStableOrder == ASSUME OrderOK, HealthStable PROVE OrderOK'
  <1> DEFINE d == Select(<<inProgress, pending, active>>, drv.prevActive, prev)
  <1>1. /\ UNCHANGED <<active, lastDep, pending, inProgress, prev, strategy, cloneID, stableCheck,
                       clones, goal>>
    BY DEF HealthStable, platformVars
  <1>2. /\ drv.prevActive \in DepRefs /\ drv.prevActive <= active /\ active \in DepIDs
        /\ prev \in [DepIDs -> DepRefs] /\ \A e \in DepIDs : prev[e] < e
        /\ goal.baseline \in DepRefs /\ goal.baseline <= drv.prevActive
    BY DEF OrderOK, Shape, SlotsShape, SlotsOrdered, TargetNewer
  <1>3. d = 0 \/ (d \in {inProgress, pending, active} /\ Newer(d, drv.prevActive, prev))
    BY SelectFacts
  <1>4. /\ \/ ~drv.waiting /\ (\E a : Answer(a, 0)) /\ UNCHANGED <<drv, call>>
           \/ Answer(Verdict(d), d) /\ drv' = [drv EXCEPT !.target = d] /\ UNCHANGED call
           \/ /\ call' = [IdleCall EXCEPT !.pc = "health_list", !.op = "health"]
              /\ UNCHANGED <<drv, health, validated, faults>>
        /\ call.pc = "idle"
    BY DEF HealthStable
  <1> HIDE DEF d
  <1>5. d \in DepRefs /\ (d # 0 => goal.baseline < d)
    <2>1. CASE d = 0
      BY <2>1, DepNumbers
    <2>2. CASE d # 0
      <3>1. d \in DepRefs /\ active <= d
        BY <1>2, <1>3, <2>2, DepNumbers DEF OrderOK, Shape, SlotsShape, SlotsOrdered
      <3>2. d \in DepIDs /\ drv.prevActive < d
        BY <1>2, <1>3, <2>2, <3>1, NewerIsLater
      <3>3. goal.baseline \in Nat /\ drv.prevActive \in Nat /\ d \in Nat
        BY <1>2, <3>1, DepNumbers
      <3> QED
        BY <1>2, <3>1, <3>2, <3>3
    <2> QED
      BY <2>1, <2>2
  <1>6. /\ health'.dep \in {0, d} \/ UNCHANGED health
        /\ validated' \in BOOLEAN
    BY <1>4, AnswerFacts DEF OrderOK, Shape
  <1>7. call' \in Call /\ call'.pc \notin {"update_get", "update_put"}
    BY <1>4, IdleCallType DEF OrderOK, Shape, Call, PCs, Ops
  <1>8. drv' = [drv EXCEPT !.target = d] \/ UNCHANGED drv
    BY <1>4
  <1> QED
    BY <1>1, <1>5, <1>6, <1>7, <1>8, HealthTargets

LEMMA HealthListOrder == ASSUME OrderOK, HealthList PROVE OrderOK'
  <1> DEFINE known == {d \in 1..lastDep : IF drv.target # 0 THEN d = drv.target
                                          ELSE Historical(d, drv.prevActive)}
             first == CHOOSE d \in known : \A e \in known : e <= d
  <1>1. /\ UNCHANGED <<active, lastDep, pending, inProgress, prev, strategy, cloneID, stableCheck,
                       clones, goal>>
        /\ call' = IdleCall
        /\ \/ Answer("waiting", 0) /\ UNCHANGED drv
           \/ known # {} /\ Answer(Verdict(first), first) /\ drv' = [drv EXCEPT !.target = first]
    BY DEF HealthList, platformVars
  <1>2. lastDep \in Nat /\ known \in SUBSET (0..lastDep) /\ 1..lastDep \subseteq DepIDs
    BY PlatformAssumption DEF OrderOK, Shape, SlotsShape, DepIDs
  <1>3. \A d \in known : goal.baseline < d /\ d \in DepRefs
    <2> SUFFICES ASSUME NEW d \in known PROVE goal.baseline < d /\ d \in DepRefs
      OBVIOUS
    <2>1. /\ d \in DepIDs /\ goal.baseline \in DepRefs /\ drv.prevActive \in DepRefs
          /\ prev[d] < d /\ prev[d] \in DepRefs /\ goal.baseline <= drv.prevActive
      BY <1>2 DEF OrderOK, Shape, SlotsShape, SlotsOrdered, TargetNewer
    <2>2. goal.baseline \in Nat /\ drv.prevActive \in Nat /\ d \in Nat /\ prev[d] \in Nat /\ d # 0
      BY <2>1, DepNumbers
    <2>3. CASE drv.target # 0
      BY <2>1, <2>3, DepNumbers DEF OrderOK, TargetNewer
    <2>4. CASE drv.target = 0 /\ Historical(d, drv.prevActive)
      BY <2>1, <2>2, <2>4, DepNumbers DEF Historical
    <2> QED
      BY <2>3, <2>4
  <1> HIDE DEF known
  <1>4. known # {} => first \in known
    <2> SUFFICES ASSUME known # {} PROVE first \in known
      OBVIOUS
    <2>1. \E d \in known : \A e \in known : e <= d
      BY <1>2, LargestExists
    <2> QED
      BY <2>1
  <1> HIDE DEF first
  <1>5. CASE Answer("waiting", 0) /\ UNCHANGED drv
    <2>1. health'.dep = 0 /\ validated' \in BOOLEAN
      BY <1>5, AnswerFacts DEF OrderOK
    <2> QED
      BY <1>1, <1>5, <2>1, HealthTargets, DepNumbers, IdleCallType
  <1>6. CASE known # {} /\ Answer(Verdict(first), first) /\ drv' = [drv EXCEPT !.target = first]
    <2>1. health'.dep \in {0, first} /\ validated' \in BOOLEAN
      BY <1>6, AnswerFacts DEF OrderOK
    <2>2. first \in DepRefs /\ goal.baseline < first
      BY <1>3, <1>4, <1>6
    <2> QED
      BY <1>1, <1>6, <2>1, <2>2, HealthTargets, IdleCallType
  <1> QED
    BY <1>1, <1>5, <1>6

LEMMA PlatformOrder == ASSUME OrderOK, Platform PROVE OrderOK'
  <1>1. /\ SlotsShape' /\ SlotsOrdered' /\ active <= active'
        /\ UNCHANGED <<driverVars, clones, engineVars>>
    BY PlatformOrdered DEF Platform, OrderOK, Shape
  <1>2. Shape'
    BY <1>1 DEF OrderOK, Shape, driverVars, engineVars
  <1>3. drv.prevActive \in Nat /\ active \in Nat /\ active' \in Nat
    BY <1>1, DepNumbers DEF OrderOK, Shape, SlotsShape
  <1> QED
    BY <1>1, <1>2, <1>3 DEF OrderOK, TargetNewer, driverVars, engineVars

LEMMA ForeignOrder == ASSUME OrderOK, Foreign PROVE OrderOK'
  <1>1. /\ SlotsShape' /\ SlotsOrdered' /\ active' = active
        /\ UNCHANGED <<driverVars, clones, engineVars>>
    BY DeployOrdered DEF Foreign, OrderOK, Shape
  <1>2. Shape'
    BY <1>1 DEF OrderOK, Shape, driverVars, engineVars
  <1> QED
    BY <1>1, <1>2 DEF OrderOK, TargetNewer, driverVars, engineVars

LEMMA OrderNext == ASSUME OrderOK, [Next]_vars PROVE OrderOK'
  <1>1. ASSUME UNCHANGED vars PROVE OrderOK'
    BY <1>1 DEF OrderOK, Shape, SlotsShape, SlotsOrdered, TargetNewer, vars, platformVars, driverVars,
       engineVars
  <1>2. ASSUME Working \/ Polling PROVE OrderOK'
    BY <1>2, UpdateGetOrder, UpdatePutOrder, PromoteDeleteOrder, HealthListOrder, HealthCloneOrder,
       HealthStableOrder DEF Working, Polling
  <1>3. ASSUME SwitchTraffic \/ DestroyBlue \/ PromoteCanary \/ DestroyCanary PROVE OrderOK'
    BY <1>3, PromoteOrder, DestroyCloneOrder DEF SwitchTraffic, DestroyBlue, PromoteCanary, DestroyCanary
  <1>4. ASSUME NEW image \in Bases, NEW c \in CloneIDs, CreateGreen(image, c) \/ CreateCanary(image, c)
        PROVE  OrderOK'
    BY <1>4, CreateCloneOrder DEF CreateGreen, CreateCanary
  <1> QED
    BY <1>1, <1>2, <1>3, <1>4, UpdateOrder, HealthErrorOrder, ClonePlatformOrder, PlatformOrder,
       ForeignOrder DEF Next

(* HealthCheck never passes on the deployment that was active when Update   *)
(* read the app, however the slots shift, others deploy and answers are     *)
(* lost (selectUpdateDeployment, latestHistoricalUpdateDeployment).         *)
THEOREM OldActiveNeverPasses == Spec => []NeverOldActive
  <1>1. OrderOK => NeverOldActive
    <2> SUFFICES ASSUME OrderOK, health.dep # 0 PROVE health.dep # goal.baseline
      BY DEF NeverOldActive
    <2>1. health.dep \in Nat /\ goal.baseline \in Nat /\ goal.baseline < health.dep
      BY DepNumbers DEF OrderOK, Shape, TargetNewer
    <2> QED
      BY <2>1
  <1> QED
    BY <1>1, OrderInit, OrderNext, PTL DEF Spec

-----------------------------------------------------------------------------
(* Clones.                                                                  *)

LEMMA CloneNumbers == CloneRefs = CloneIDs \cup {0} /\ 0 \notin CloneIDs
  BY DeployAssumption DEF CloneRefs, CloneIDs

LEMMA ClonesInit == Init => ClonesOK
  <1> SUFFICES ASSUME Init PROVE ClonesOK
    OBVIOUS
  <1>1. Shape
    BY OrderInit DEF OrderOK
  <1>2. cloneID = 0 /\ promoted = {} /\ call = IdleCall /\ \A c \in CloneIDs : clones[c].state = "none"
    BY DEF Init
  <1> QED
    BY <1>1, <1>2, IdleCallType, CloneNumbers
    DEF ClonesOK, CloneStarted, PrevalidatedRollout, CloneKnown, Exists

(* A step that leaves the clones and what the driver knows of them as they  *)
(* are, and does not promote.                                               *)
LEMMA ClonesKept ==
  ASSUME ClonesOK, Shape', UNCHANGED <<strategy, cloneID, stableCheck, clones, promoted, lost>>,
         validated' => validated \/ (Exists(cloneID) => clones[cloneID].started),
         call'.op = "promote" => call'.pc # "idle" /\ (call.op = "promote" \/ (Exists(cloneID) /\ validated)),
         call'.pc = "health_list" => call.pc = "health_list" \/ ~ChecksClone
  PROVE  ClonesOK'
  BY DEF ClonesOK, CloneStarted, PrevalidatedRollout, CloneKnown, Exists, ChecksClone

LEMMA CreateCloneClones ==
  ASSUME ClonesOK, Shape', NEW image \in Bases, NEW c \in CloneIDs, CreateClone(image, c),
         strategy # "rolling"
  PROVE  ClonesOK'
  <1>1. /\ clones'[c].state = "deploying" /\ clones'[c].started = clones[c].started
        /\ \A e \in CloneIDs \ {c} : clones'[e] = clones[e]
    BY CreateCloneFacts DEF ClonesOK
  <1>2. /\ call.pc = "idle" /\ clones[c].state = "none" /\ \A e \in CloneIDs : ~Exists(e)
        /\ UNCHANGED <<strategy, call, promoted>> /\ validated' = FALSE /\ call.op # "promote"
        /\ \/ cloneID' = c /\ (stableCheck' => strategy = "canary") /\ lost' = lost
           \/ lost' = lost \cup {c} /\ UNCHANGED <<cloneID, stableCheck>>
    BY DEF CreateClone, Cloned, ClonesOK, CloneStarted
  <1>3. /\ cloneID \in CloneRefs /\ (cloneID # 0 => cloneID \in CloneIDs \ {c}) /\ c # 0
    BY <1>2, CloneNumbers DEF ClonesOK, Shape, CloneStarted
  <1>4. PrevalidatedRollout'
    BY <1>1, <1>2 DEF ClonesOK, CloneStarted, PrevalidatedRollout
  <1>5. CloneKnown'
    BY <1>1, <1>2 DEF CloneKnown, Exists
  <1>6. CloneStarted'
    BY <1>1, <1>2, <1>3 DEF ClonesOK, CloneStarted, Exists
  <1> QED
    BY <1>4, <1>5, <1>6 DEF ClonesOK

LEMMA DeleteCloneClones ==
  ASSUME ClonesOK, Shape', DeleteClone, UNCHANGED <<strategy, stableCheck, validated, promoted, lost>>,
         call' = IdleCall \/ (UNCHANGED call /\ call.pc = "idle")
  PROVE  ClonesOK'
  <1>1. /\ cloneID \in CloneIDs /\ cloneID # 0 /\ cloneID' \in {0, cloneID}
        /\ cloneID' = 0 => clones'[cloneID].state = "deleted"
        /\ \A e \in CloneIDs \ {cloneID} : clones'[e] = clones[e]
        /\ \/ clones' = clones
           \/ clones'[cloneID].state = "deleted" /\ clones'[cloneID].started = clones[cloneID].started
    BY CloneNumbers DEF ClonesOK, Shape, DeleteClone, Exists, CloneStates
  <1>2. call'.op # "promote" /\ call'.pc = "idle"
    BY IdleCallType DEF ClonesOK, CloneStarted
  <1>3. PrevalidatedRollout'
    BY <1>1 DEF ClonesOK, CloneStarted, PrevalidatedRollout
  <1>4. CloneKnown'
    BY <1>1 DEF ClonesOK, CloneKnown, Exists
  <1>5. CloneStarted'
    BY <1>1, <1>2 DEF ClonesOK, CloneStarted, Exists
  <1> QED
    BY <1>3, <1>4, <1>5 DEF ClonesOK

LEMMA ClonePlatformClones == ASSUME ClonesOK, Shape', ClonePlatform PROVE ClonesOK'
  <1>1. PICK c \in CloneIDs :
          /\ clones[c].state = "deploying"
          /\ \/ clones' = [clones EXCEPT ![c].state = "active", ![c].started = TRUE]
             \/ clones' = [clones EXCEPT ![c].state = "error"]
    BY DEF ClonePlatform
  <1>2. /\ clones'[c].state \in {"active", "error"}
        /\ clones'[c].state = "active" => clones'[c].started
        /\ clones[c].started => clones'[c].started
        /\ \A e \in CloneIDs \ {c} : clones'[e] = clones[e]
    BY <1>1 DEF ClonesOK, Shape, CloneStates
  <1>3. UNCHANGED <<strategy, cloneID, stableCheck, validated, call, promoted, lost>>
    BY DEF ClonePlatform, driverVars, engineVars
  <1>4. PrevalidatedRollout' /\ CloneKnown'
    BY <1>1, <1>2, <1>3 DEF ClonesOK, CloneStarted, PrevalidatedRollout, CloneKnown, Exists
  <1>5. CloneStarted'
    BY <1>1, <1>2, <1>3, CloneNumbers DEF ClonesOK, Shape, CloneStarted, Exists, ChecksClone
  <1> QED
    BY <1>4, <1>5 DEF ClonesOK

(* A rollout promotes the clone the engine saw healthy.                     *)
LEMMA UpdatePutClones == ASSUME ClonesOK, Shape', UpdatePut PROVE ClonesOK'
  <1>1. /\ UNCHANGED <<strategy, cloneID, clones, validated, lost>>
        /\ promoted' \subseteq promoted \cup (IF call.op = "promote" THEN {cloneID} ELSE {})
        /\ call' = IdleCall \/ (call.op = "promote" /\ call' = [call EXCEPT !.pc = "delete"])
    BY DEF UpdatePut, AfterUpdate
  <1>2. stableCheck' => stableCheck \/ call.op = "promote"
    BY Zenon DEF UpdatePut, AfterUpdate
  <1>3. /\ call'.op = "promote" => call.op = "promote" /\ call'.pc # "idle"
        /\ call'.pc # "health_list"
    BY <1>1, IdleCallType DEF ClonesOK, Shape, Call
  <1>4. call.op = "promote" => cloneID \in CloneIDs /\ clones[cloneID].started
    BY CloneNumbers DEF ClonesOK, Shape, CloneStarted
  <1>5. PrevalidatedRollout' /\ promoted' \in SUBSET CloneIDs
    BY <1>1, <1>4 DEF ClonesOK, CloneStarted, PrevalidatedRollout
  <1>6. CloneKnown'
    BY <1>1 DEF ClonesOK, CloneKnown, Exists
  <1>7. CloneStarted'
    BY <1>1, <1>2, <1>3, <1>4, <1>5 DEF ClonesOK, CloneStarted, Exists
  <1> QED
    BY <1>5, <1>6, <1>7 DEF ClonesOK

LEMMA UncheckedClone ==
  ASSUME ClonesOK, ~ChecksClone, Exists(cloneID)
  PROVE  clones[cloneID].started
  <1>1. strategy \in {"rolling", "prevalidated", "canary"} /\ cloneID # 0
    BY DeployAssumption DEF ClonesOK, Shape, Exists, StrategyKinds
  <1> QED
    BY <1>1 DEF ChecksClone, ClonesOK, CloneStarted

LEMMA HealthClones ==
  ASSUME ClonesOK, Shape', HealthClone \/ HealthStable \/ HealthList \/ HealthError
  PROVE  ClonesOK'
  <1>1. UNCHANGED <<strategy, cloneID, stableCheck, clones, promoted, lost>>
    BY DEF HealthClone, HealthStable, HealthList, HealthError, driverVars
  <1>2. validated' => validated \/ (Exists(cloneID) => clones[cloneID].started)
    <2>1. CASE HealthClone
      <3> DEFINE a == IF ~Exists(cloneID) THEN "error"
                      ELSE IF clones[cloneID].state = "active" THEN "ok" ELSE "waiting"
      <3>1. a = "ok" /\ Exists(cloneID) => clones[cloneID].started
        BY CloneNumbers DEF ClonesOK, Shape, CloneStarted, Exists
      <3>2. Answer(a, 0)
        BY <2>1 DEF HealthClone
      <3> HIDE DEF a
      <3>3. validated' => validated \/ a = "ok"
        BY <3>2, AnswerFacts DEF ClonesOK
      <3> QED
        BY <3>1, <3>3
    <2>2. CASE HealthStable \/ HealthList
      BY <2>2, UncheckedClone DEF HealthStable, HealthList, ClonesOK, CloneStarted
    <2>3. CASE HealthError
      BY <2>3 DEF HealthError
    <2> QED
      BY <2>1, <2>2, <2>3
  <1>3. \/ call' = call
        \/ call' = IdleCall
        \/ call' = [IdleCall EXCEPT !.pc = "health_list", !.op = "health"] /\ ~ChecksClone
    BY DEF HealthClone, HealthStable, HealthList, HealthError
  <1>4. /\ call'.op = "promote" =>
              call'.pc # "idle" /\ (call.op = "promote" \/ (Exists(cloneID) /\ validated))
        /\ call'.pc = "health_list" => call.pc = "health_list" \/ ~ChecksClone
    <2>1. CASE call' = call
      BY <2>1 DEF ClonesOK, CloneStarted
    <2>2. CASE call' = IdleCall
      BY <2>2, IdleCallType
    <2>3. CASE call' = [IdleCall EXCEPT !.pc = "health_list", !.op = "health"] /\ ~ChecksClone
      <3>1. call'.op = "health"
        BY <2>3 DEF IdleCall
      <3> QED
        BY <2>3, <3>1
    <2> QED
      BY <1>3, <2>1, <2>2, <2>3
  <1> QED
    BY <1>1, <1>2, <1>4, ClonesKept

LEMMA ClonesNext == ASSUME OrderOK, ClonesOK, [Next]_vars PROVE ClonesOK'
  <1>1. Shape'
    BY OrderNext DEF OrderOK
  <1>2. ASSUME UNCHANGED vars PROVE ClonesOK'
    BY <1>1, <1>2 DEF ClonesOK, CloneStarted, PrevalidatedRollout, CloneKnown, Exists, ChecksClone,
       vars, driverVars, engineVars
  <1>3. ASSUME NEW image \in Bases, Update(image) PROVE ClonesOK'
    <2>1. /\ UNCHANGED <<strategy, cloneID, stableCheck, clones, promoted, lost, validated>>
          /\ call'.op = "update" /\ call'.pc = "update_get"
      BY <1>3 DEF Update, Begin, driverVars
    <2> QED
      BY <1>1, <2>1, ClonesKept
  <1>4. ASSUME Promote PROVE ClonesOK'
    <2>1. /\ UNCHANGED <<strategy, cloneID, stableCheck, clones, promoted, lost, validated>>
          /\ call'.pc = "update_get" /\ Exists(cloneID) /\ validated
      BY <1>4 DEF Promote, Begin, driverVars
    <2> QED
      BY <1>1, <2>1, ClonesKept
  <1>5. ASSUME NEW image \in Bases, NEW c \in CloneIDs, CreateGreen(image, c) \/ CreateCanary(image, c)
        PROVE  ClonesOK'
    BY <1>1, <1>5, CreateCloneClones DEF CreateGreen, CreateCanary
  <1>6. ASSUME DestroyClone \/ PromoteDelete PROVE ClonesOK'
    BY <1>1, <1>6, DeleteCloneClones DEF DestroyClone, PromoteDelete
  <1>7. ASSUME UpdateGet PROVE ClonesOK'
    <2>1. /\ UNCHANGED <<strategy, cloneID, stableCheck, clones, promoted, lost, validated>>
          /\ call' = IdleCall \/ call' = [call EXCEPT !.pc = "update_put"]
      BY <1>7 DEF UpdateGet
    <2>2. /\ call'.op = "promote" => call'.pc # "idle" /\ call.op = "promote"
          /\ call'.pc # "health_list"
      BY <2>1 DEF ClonesOK, Shape, Call, IdleCall
    <2> QED
      BY <1>1, <2>1, <2>2, ClonesKept
  <1>8. ASSUME Platform \/ Foreign PROVE ClonesOK'
    <2>1. UNCHANGED <<strategy, cloneID, stableCheck, clones, promoted, lost, validated, call>>
      BY <1>8 DEF Platform, Foreign, driverVars, engineVars
    <2>2. call.op = "promote" => call.pc # "idle"
      BY DEF ClonesOK, CloneStarted
    <2> QED
      BY <1>1, <2>1, <2>2, ClonesKept
  <1>9. ASSUME Working \/ Polling PROVE ClonesOK'
    BY <1>1, <1>6, <1>7, <1>9, UpdatePutClones, HealthClones DEF Working, Polling
  <1>10. ASSUME SwitchTraffic \/ DestroyBlue \/ PromoteCanary \/ DestroyCanary PROVE ClonesOK'
    BY <1>4, <1>6, <1>10 DEF SwitchTraffic, DestroyBlue, PromoteCanary, DestroyCanary
  <1> QED
    BY <1>1, <1>2, <1>3, <1>5, <1>8, <1>9, <1>10, HealthClones, ClonePlatformClones DEF Next

LEMMA ClonesAlways == Spec => []ClonesOK
  BY OrderInit, OrderNext, ClonesInit, ClonesNext, PTL DEF Spec

(* SwitchTraffic and PromoteCanary roll out only the image of a clone that  *)
(* started, although the passed health check that allows them may have been *)
(* one of the stable app, and a clone may fail, be lost or be deleted in    *)
(* between.                                                                 *)
THEOREM RolloutsPrevalidated == Spec => []PrevalidatedRollout
  BY ClonesAlways, PTL DEF ClonesOK

(* A clone that exists is known to the driver, unless its creation was      *)
(* answered with an error: failed deletions do not make the driver forget.  *)
THEOREM ClonesStayKnown == Spec => []CloneKnown
  BY ClonesAlways, PTL DEF ClonesOK
=============================================================================
