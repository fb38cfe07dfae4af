----------------------------- MODULE AppDeploy -----------------------------
(***************************************************************************)
(* The deployment strategies of internal/drivers/deploy.go: rolling         *)
(* (AppDeployDriver), prevalidated rolling (AppPrevalidatedRollingDriver)   *)
(* and canary (AppCanaryDriver), each for one stable app.  The image is the *)
(* app's spec; every API call is a step.  The workflow engine that calls    *)
(* the driver is external: one call at a time, in any order, except that it *)
(* promotes a clone only after the health check that followed its creation. *)
(***************************************************************************)
EXTENDS AppDeployments

CONSTANTS
    Strategies,  \* the strategies considered
    MaxClones,   \* bound: clones ever created
    MaxCalls,    \* bound, for each strategy: calls other than HealthCheck
    MaxUpdates,  \* bound, for each strategy: Update is one of the first calls
    MaxForeign,  \* bound, for each strategy: updates by others (Scale, a redeployment)
    MaxFaults    \* bound: failed or lost API calls

StrategyKinds == {"rolling", "prevalidated", "canary"}

ASSUME DeployAssumption ==
    /\ Strategies \subseteq StrategyKinds
    /\ MaxCalls \in [Strategies -> Nat] /\ MaxUpdates \in [Strategies -> Nat] /\ MaxForeign \in [Strategies -> Nat]
    /\ MaxClones \in Nat /\ MaxFaults \in Nat

VARIABLES
    strategy,
    drv,         \* the stable app's driver
    cloneID,     \* greenID or canaryID (0: empty)
    stableCheck,
    clones,      \* the clone apps
    call,        \* the call in flight
    calls, foreign, faults,
    validated,   \* the engine: a health check passed since the clone was created
    promoted,    \* history: clones whose image went to the stable app
    goal,        \* history: image and earlier active deployment of the last good Update
    health,      \* history: the last HealthCheck's answer and the deployment it passed
    lost         \* history: clones whose creation was answered with an error

driverVars == <<strategy, drv, cloneID, stableCheck>>
engineVars == <<call, calls, validated, promoted, goal, health>>
vars == <<platformVars, prev, driverVars, clones, engineVars, foreign, faults, lost>>

CloneIDs  == 1..MaxClones
CloneRefs == 0..MaxClones
Answers   == {"none", "ok", "waiting", "failed", "error"}
PCs       == {"idle", "update_get", "update_put", "delete", "health_list"}
Ops       == {"none", "update", "promote", "health"}

Call     == [pc : PCs, op : Ops, image : Bases]
IdleCall == [pc |-> "idle", op |-> "none", image |-> FirstBase]
NoHealth == [answer |-> "none", dep |-> 0]

(* The type invariant of the driver, the clones and the call in flight.     *)
TypeOK ==
    /\ PlatformTypeOK
    /\ prev \in [DepIDs -> DepRefs]
    /\ strategy \in Strategies
    /\ drv \in [waiting : BOOLEAN, target : DepRefs, prevActive : DepRefs]
    /\ cloneID \in CloneRefs
    /\ stableCheck \in BOOLEAN
    /\ clones \in [CloneIDs -> [state : {"none", "deploying", "active", "error", "deleted"},
                                image : Bases, started : BOOLEAN]]
    /\ call \in Call
    /\ calls \in 0..MaxCalls[strategy] /\ foreign \in 0..MaxForeign[strategy] /\ faults \in 0..MaxFaults
    /\ validated \in BOOLEAN
    /\ promoted \in SUBSET CloneIDs
    /\ goal \in [image : Bases, baseline : DepRefs]
    /\ health \in [answer : Answers, dep : DepRefs]
    /\ lost \in SUBSET CloneIDs

Init ==
    /\ PlatformInit
    /\ prev = [d \in DepIDs |-> 0]
    /\ strategy \in Strategies
    /\ drv = [waiting |-> FALSE, target |-> 0, prevActive |-> 0]
    /\ cloneID = 0
    /\ stableCheck = FALSE
    /\ clones = [c \in CloneIDs |-> [state |-> "none", image |-> FirstBase, started |-> FALSE]]
    /\ call = IdleCall
    /\ calls = 0 /\ foreign = 0 /\ faults = 0
    /\ validated = FALSE
    /\ promoted = {}
    /\ goal = [image |-> FirstBase, baseline |-> 0]
    /\ health = NoHealth
    /\ lost = {}

-----------------------------------------------------------------------------
Fault == faults < MaxFaults /\ faults' = faults + 1

-----------------------------------------------------------------------------
(* AppDeployDriver.Update, also the second half of SwitchTraffic and        *)
(* PromoteCanary.                                                           *)

Begin(pc, op, image) ==
    /\ call.pc = "idle"
    /\ calls < MaxCalls[strategy]
    /\ calls' = calls + 1
    /\ call' = [pc |-> pc, op |-> op, image |-> image]
    /\ health' = NoHealth

Update(image) ==
    /\ calls < MaxUpdates[strategy]
    /\ Begin("update_get", "update", image)
    /\ UNCHANGED <<platformVars, prev, driverVars, clones, validated, promoted, goal, foreign, faults, lost>>

Exists(c) == c # 0 /\ clones[c].state \in {"deploying", "active", "error"}

(* SwitchTraffic and PromoteCanary: the clone's image goes to the stable    *)
(* app.  A clone that is gone makes them fail before they change anything.  *)
Promote ==
    /\ cloneID # 0
    /\ validated
    /\ Exists(cloneID)
    /\ Begin("update_get", "promote", clones[cloneID].image)
    /\ UNCHANGED <<platformVars, prev, driverVars, clones, validated, promoted, goal, foreign, faults, lost>>

SwitchTraffic == strategy = "prevalidated" /\ Promote
PromoteCanary == strategy = "canary" /\ Promote

(* The app is read; an error ends the call.                                 *)
UpdateGet ==
    /\ call.pc = "update_get"
    /\ \/ /\ drv' = [drv EXCEPT !.prevActive = active]
          /\ call' = [call EXCEPT !.pc = "update_put"]
          /\ UNCHANGED faults
       \/ Fault /\ call' = IdleCall /\ UNCHANGED drv
    /\ UNCHANGED <<platformVars, prev, strategy, cloneID, stableCheck, clones,
                   calls, validated, promoted, goal, health, foreign, lost>>

(* What follows the stable app's Update: SwitchTraffic moves the health     *)
(* check to the stable app, PromoteCanary deletes the canary.               *)
AfterUpdate ==
    /\ stableCheck' = (stableCheck \/ (call.op = "promote" /\ strategy = "prevalidated"))
    /\ call' = IF call.op = "promote" /\ strategy = "canary"
               THEN [call EXCEPT !.pc = "delete"] ELSE IdleCall

(* The write.  The answer may show the app before the new deployment is in  *)
(* a slot; a failed answer may follow an accepted write.                    *)
UpdatePut ==
    /\ call.pc = "update_put"
    /\ \/ /\ Deploy([spec EXCEPT !.base = call.image])
          /\ \E slots \in {<<inProgress, pending, active>>, <<inProgress', pending', active'>>} :
               drv' = [drv EXCEPT !.waiting = TRUE, !.target = Select(slots, drv.prevActive, prev')]
          /\ goal' = [image |-> call.image, baseline |-> drv.prevActive]
          /\ AfterUpdate
          /\ UNCHANGED faults
       \/ /\ Deploy([spec EXCEPT !.base = call.image]) \/ UNCHANGED <<platformVars, prev>>
          /\ Fault
          /\ call' = IdleCall
          /\ UNCHANGED <<drv, stableCheck, goal>>
    /\ promoted' = IF call.op = "promote" /\ lastDep' # lastDep THEN promoted \cup {cloneID} ELSE promoted
    /\ UNCHANGED <<strategy, cloneID, clones, calls, validated, health, foreign, lost>>

-----------------------------------------------------------------------------
(* The clone: CreateGreen, CreateCanary, DestroyBlue and DestroyCanary.     *)

(* Mutant: the new green app is not the one that is checked.                *)
Cloned_KeepCheck(c) == cloneID' = c /\ UNCHANGED stableCheck

Cloned(c) ==
    /\ cloneID' = c
    /\ stableCheck' = (stableCheck /\ strategy = "canary")

(* App names are unique, so a clone that exists makes Create fail.          *)
CreateClone(image, c) ==
    /\ call.pc = "idle"
    /\ calls < MaxCalls[strategy]
    /\ calls' = calls + 1
    /\ \A e \in CloneIDs : clones[e].state = "none" => c <= e
    /\ clones[c].state = "none"
    /\ ~\E e \in CloneIDs : Exists(e)
    /\ \/ /\ clones' = [clones EXCEPT ![c].state = "deploying", ![c].image = image]
          /\ Cloned(c)
          /\ validated' = FALSE
          /\ UNCHANGED <<faults, lost>>
       \/ /\ Fault
          /\ clones' = [clones EXCEPT ![c].state = "deploying", ![c].image = image]
          /\ lost' = lost \cup {c}
          /\ validated' = FALSE
          /\ UNCHANGED <<cloneID, stableCheck>>
    /\ health' = NoHealth
    /\ UNCHANGED <<platformVars, prev, strategy, drv, call, promoted, goal, foreign>>

CreateGreen(image, c)  == strategy = "prevalidated" /\ CreateClone(image, c)
CreateCanary(image, c) == strategy = "canary" /\ CreateClone(image, c)

(* Mutant: the identity is dropped before the answer is looked at.          *)
DeleteClone_DropFirst ==
    /\ \/ clones' = [clones EXCEPT ![cloneID].state = "deleted"] /\ UNCHANGED faults
       \/ Fault /\ UNCHANGED clones
    /\ cloneID' = IF strategy = "canary" THEN 0 ELSE cloneID

(* Delete: only the canary driver forgets the clone, and only on success.   *)
(* A clone that is gone already is an error.                                *)
DeleteClone ==
    \/ /\ Exists(cloneID)
       /\ clones' = [clones EXCEPT ![cloneID].state = "deleted"]
       /\ cloneID' = IF strategy = "canary" THEN 0 ELSE cloneID
       /\ UNCHANGED faults
    \/ /\ Exists(cloneID)
       /\ Fault
       /\ clones' = [clones EXCEPT ![cloneID].state = "deleted"] \/ UNCHANGED clones
       /\ UNCHANGED cloneID

DestroyClone ==
    /\ call.pc = "idle"
    /\ cloneID # 0
    /\ calls < MaxCalls[strategy]
    /\ calls' = calls + 1
    /\ DeleteClone
    /\ health' = NoHealth
    /\ UNCHANGED <<platformVars, prev, strategy, drv, stableCheck, call, validated, promoted, goal, foreign, lost>>

DestroyBlue   == strategy = "prevalidated" /\ DestroyClone
DestroyCanary == strategy = "canary" /\ DestroyClone

(* PromoteCanary's last step.                                               *)
PromoteDelete ==
    /\ call.pc = "delete"
    /\ DeleteClone
    /\ call' = IdleCall
    /\ UNCHANGED <<platformVars, prev, strategy, drv, stableCheck, calls, validated, promoted, goal, health, foreign, lost>>

-----------------------------------------------------------------------------
(* HealthCheck.                                                             *)

ChecksClone ==
    \/ strategy = "prevalidated" /\ cloneID # 0 /\ ~stableCheck
    \/ strategy = "canary" /\ cloneID # 0

(* A good deployment is reported healthy once the custom domains answer.    *)
Answer(a, d) ==
    /\ \/ health' = [answer |-> a, dep |-> IF a = "ok" THEN d ELSE 0] /\ UNCHANGED faults
       \/ a = "ok" /\ Fault /\ health' = [answer |-> "waiting", dep |-> 0]
    /\ validated' = (validated \/ health'.answer = "ok")

(* A clone's driver never made an update: its active deployment decides.    *)
HealthClone ==
    /\ call.pc = "idle"
    /\ ChecksClone
    /\ Answer(IF ~Exists(cloneID) THEN "error"
              ELSE IF clones[cloneID].state = "active" THEN "ok" ELSE "waiting", 0)
    /\ UNCHANGED <<platformVars, prev, driverVars, clones, call, calls, promoted, goal, foreign, lost>>

(* The stable app: before any update its active deployment decides, after   *)
(* one the update's deployment, looked for in the app's slots and then in   *)
(* the list of deployments.                                                 *)
HealthStable ==
    LET d == Select(<<inProgress, pending, active>>, drv.prevActive, prev)
        hit == d # 0 /\ (drv.target \in {0, d} \/ prev[d] = drv.target)
    IN  /\ call.pc = "idle"
        /\ ~ChecksClone
        /\ \/ /\ ~drv.waiting
              /\ Answer(IF active # 0 /\ dep[active].phase = "active" THEN "ok" ELSE "waiting", 0)
              /\ UNCHANGED <<drv, call>>
           \/ /\ drv.waiting /\ hit
              /\ drv' = [drv EXCEPT !.target = d]
              /\ Answer(Verdict(d), d)
              /\ UNCHANGED call
           \/ /\ drv.waiting /\ ~hit
              /\ call' = [IdleCall EXCEPT !.pc = "health_list", !.op = "health"]
              /\ UNCHANGED <<drv, health, validated, faults>>
        /\ UNCHANGED <<platformVars, prev, strategy, cloneID, stableCheck, clones, calls, promoted, goal, foreign, lost>>

(* The list, newest first.                                                  *)
HealthList ==
    LET known == {d \in 1..lastDep : IF drv.target # 0 THEN d = drv.target
                                     ELSE Historical(d, drv.prevActive)}
        first == CHOOSE d \in known : \A e \in known : e <= d
    IN  /\ call.pc = "health_list"
        /\ call' = IdleCall
        /\ IF known = {}
           THEN Answer("waiting", 0) /\ UNCHANGED drv
           ELSE Answer(Verdict(first), first) /\ drv' = [drv EXCEPT !.target = first]
        /\ UNCHANGED <<platformVars, prev, strategy, cloneID, stableCheck, clones, calls, promoted, goal, foreign, lost>>

(* A failed read ends the check with an error.                              *)
HealthError ==
    /\ call.pc \in {"idle", "health_list"}
    /\ Fault
    /\ health' = [answer |-> "error", dep |-> 0]
    /\ call' = IdleCall
    /\ UNCHANGED <<platformVars, prev, driverVars, clones, calls, validated, promoted, goal, foreign, lost>>

-----------------------------------------------------------------------------

ClonePlatform ==
    /\ \E c \in CloneIDs :
         /\ clones[c].state = "deploying"
         /\ \/ clones' = [clones EXCEPT ![c].state = "active", ![c].started = TRUE]
            \/ clones' = [clones EXCEPT ![c].state = "error"]
    /\ UNCHANGED <<platformVars, prev, driverVars, engineVars, foreign, faults, lost>>

Platform ==
    /\ PlatformNext
    /\ UNCHANGED <<prev, driverVars, clones, engineVars, foreign, faults, lost>>

Foreign ==
    /\ foreign < MaxForeign[strategy]
    /\ foreign' = foreign + 1
    /\ Deploy(spec)
    /\ UNCHANGED <<driverVars, clones, engineVars, faults, lost>>

Working == UpdateGet \/ UpdatePut \/ PromoteDelete \/ HealthList
Polling == HealthClone \/ HealthStable

Next ==
    \/ \E image \in Bases :
         Update(image) \/ \E c \in CloneIDs : CreateGreen(image, c) \/ CreateCanary(image, c)
    \/ SwitchTraffic \/ DestroyBlue
    \/ PromoteCanary \/ DestroyCanary
    \/ Working \/ Polling \/ HealthError
    \/ ClonePlatform \/ Platform \/ Foreign

Spec == Init /\ [][Next]_vars

(* The platform makes progress, a call that has begun goes on, and the      *)
(* engine polls HealthCheck.                                                *)
Fairness == WF_vars(Platform) /\ WF_vars(ClonePlatform) /\ WF_vars(Working) /\ WF_vars(Polling)

FairSpec == Spec /\ Fairness

-----------------------------------------------------------------------------
(* Properties.                                                              *)

(* "HealthCheck should wait instead of passing old active deployment": after *)
(* an Update, HealthCheck never passes on the deployment that was active    *)
(* when Update read the app.                                                *)
NeverOldActive ==
    health.answer = "ok" /\ health.dep # 0 => health.dep # goal.baseline

(* "Failed-to-start images never cause a blue rollout": SwitchTraffic and   *)
(* PromoteCanary roll out only the image of a clone that started.           *)
PrevalidatedRollout == \A c \in promoted : clones[c].started

(* A clone that exists is known to the driver, so that DestroyBlue or       *)
(* DestroyCanary can still delete it, unless Create itself was answered     *)
(* with an error.                                                           *)
CloneKnown == \A c \in CloneIDs : Exists(c) => cloneID = c \/ c \in lost

(* After an Update, polling HealthCheck ends with an answer, unless a later *)
(* Update has read the app (and overwritten previousActiveDeploymentID)     *)
(* without succeeding.                                                      *)
HealthSettles ==
    strategy = "rolling" /\ drv.waiting ~>
        health.answer \in {"ok", "failed"} \/ drv.prevActive # goal.baseline

=============================================================================
