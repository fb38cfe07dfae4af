---------------------------- MODULE AppPlatform ----------------------------
(***************************************************************************)
(* DigitalOcean App Platform as the provider's App Platform code sees it:   *)
(* one app, whose spec is replaced whole by every Update (there is no       *)
(* compare-and-swap), the deployments the updates create, the three         *)
(* deployment slots an app read reports, and the PRE_DEPLOY job invocations *)
(* a deployment runs.  The service is external; it is modelled from the     *)
(* calls internal/app_platform_runner.go makes and the answers it handles.  *)
(***************************************************************************)
EXTENDS Naturals, FiniteSets

CONSTANTS
    Jobs,            \* the one-off job components that may ever be added
    Bases,           \* contents of the rest of the app spec
    FirstBase,       \* the content before anything happens
    Encrypts,        \* TRUE when a job carries SECRET values (stored encrypted)
    MaxDeployments   \* bound: deployments the app may ever have

ASSUME PlatformAssumption ==
    /\ Jobs # {}
    /\ FirstBase \in Bases
    /\ Encrypts \in BOOLEAN
    /\ MaxDeployments \in Nat \ {0}

VARIABLES
    spec,        \* the live app spec
    dep,         \* deployments: an immutable spec and a phase each
    lastDep,     \* the newest deployment
    pending, inProgress, active,   \* the app's deployment slots (0: empty)
    inv          \* phase of each deployment's invocation of each job

platformVars == <<spec, dep, lastDep, pending, inProgress, active, inv>>

(***************************************************************************)
(* A job component is in the spec as it was submitted ("plain"), as the     *)
(* service stores it ("encrypted"), or as somebody else changed it.         *)
(***************************************************************************)
Forms == {"absent", "plain", "encrypted", "edited"}
Specs == [base : Bases, jobs : [Jobs -> Forms]]

DepIDs  == 1..MaxDeployments
DepRefs == 0..MaxDeployments

DepPhases == {"none", "pending", "building", "active", "error", "canceled", "superseded"}
InvPhases == {"none", "running", "succeeded", "failed", "canceled", "skipped"}

FirstSpec == [base |-> FirstBase, jobs |-> [j \in Jobs |-> "absent"]]

PlatformTypeOK ==
    /\ spec \in Specs
    /\ dep \in [DepIDs -> [spec : Specs, phase : DepPhases]]
    /\ lastDep \in DepIDs
    /\ pending \in DepRefs
    /\ inProgress \in DepRefs
    /\ active \in DepRefs
    /\ inv \in [DepIDs -> [Jobs -> InvPhases]]

PlatformInit ==
    /\ spec = FirstSpec
    /\ dep = [d \in DepIDs |->
                 [spec |-> FirstSpec, phase |-> IF d = 1 THEN "active" ELSE "none"]]
    /\ lastDep = 1
    /\ pending = 0
    /\ inProgress = 0
    /\ active = 1
    /\ inv = [d \in DepIDs |-> [j \in Jobs |-> "none"]]

(* What the service stores of a submitted spec: SECRET values encrypted.    *)
Stored(s) ==
    [s EXCEPT !.jobs = [j \in Jobs |->
        IF Encrypts /\ s.jobs[j] = "plain" THEN "encrypted" ELSE s.jobs[j]]]

(***************************************************************************)
(* An accepted Update: the spec is replaced and a new deployment created.   *)
(* It waits in the pending slot, superseding the one waiting there, or      *)
(* starts at once when no deployment is in progress.                        *)
(***************************************************************************)
AcceptUpdate(s) ==
    LET n == lastDep + 1 IN
    /\ lastDep < MaxDeployments
    /\ lastDep' = n
    /\ spec' = Stored(s)
    /\ \E start \in BOOLEAN :
         /\ start => (inProgress = 0 /\ pending = 0)
         /\ dep' = [d \in DepIDs |->
                      IF d = n THEN [spec |-> Stored(s),
                                     phase |-> IF start THEN "building" ELSE "pending"]
                      ELSE IF d = pending THEN [dep[d] EXCEPT !.phase = "superseded"]
                      ELSE dep[d]]
         /\ pending' = IF start THEN 0 ELSE n
         /\ inProgress' = IF start THEN n ELSE inProgress
    /\ UNCHANGED <<active, inv>>

StartDeployment ==
    /\ pending # 0 /\ inProgress = 0
    /\ dep' = [dep EXCEPT ![pending].phase = "building"]
    /\ inProgress' = pending
    /\ pending' = 0
    /\ UNCHANGED <<spec, lastDep, active, inv>>

JobPresent(d, j) == dep[d].spec.jobs[j] # "absent"

StartJob(j) ==
    /\ inProgress # 0
    /\ JobPresent(inProgress, j)
    /\ inv[inProgress][j] = "none"
    /\ inv' = [inv EXCEPT ![inProgress][j] = "running"]
    /\ UNCHANGED <<spec, dep, lastDep, pending, inProgress, active>>

EndJob(d, j) ==
    /\ inv[d][j] = "running"
    /\ \E result \in {"succeeded", "failed", "canceled"} :
         inv' = [inv EXCEPT ![d][j] = result]
    /\ UNCHANGED <<spec, dep, lastDep, pending, inProgress, active>>

(* All pre-deploy jobs succeeded: the deployment becomes the active one.    *)
ActivateDeployment ==
    /\ inProgress # 0
    /\ \A j \in Jobs : JobPresent(inProgress, j) => inv[inProgress][j] = "succeeded"
    /\ dep' = [d \in DepIDs |->
                 IF d = inProgress THEN [dep[d] EXCEPT !.phase = "active"]
                 ELSE IF d = active THEN [dep[d] EXCEPT !.phase = "superseded"]
                 ELSE dep[d]]
    /\ active' = inProgress
    /\ inProgress' = 0
    /\ UNCHANGED <<spec, lastDep, pending, inv>>

(* A build error before any job ran, or a job that did not succeed: the     *)
(* deployment leaves its slot; jobs it never started may be marked skipped. *)
FailDeployment ==
    /\ inProgress # 0
    /\ \A j \in Jobs : inv[inProgress][j] # "running"
    /\ dep' = [dep EXCEPT ![inProgress].phase = "error"]
    /\ \/ UNCHANGED inv
       \/ inv' = [inv EXCEPT ![inProgress] = [j \in Jobs |->
                     IF inv[inProgress][j] = "none" /\ JobPresent(inProgress, j)
                       THEN "skipped" ELSE inv[inProgress][j]]]
    /\ inProgress' = 0
    /\ UNCHANGED <<spec, lastDep, pending, active>>

(* A newer deployment takes over from one in progress that runs no job.     *)
SupersedeDeployment ==
    /\ inProgress # 0 /\ pending # 0
    /\ \A j \in Jobs : inv[inProgress][j] # "running"
    /\ dep' = [dep EXCEPT ![inProgress].phase = "superseded"]
    /\ inProgress' = 0
    /\ UNCHANGED <<spec, lastDep, pending, active, inv>>

PlatformNext ==
    \/ StartDeployment
    \/ \E j \in Jobs : StartJob(j)
    \/ \E d \in DepIDs, j \in Jobs : EndJob(d, j)
    \/ ActivateDeployment
    \/ FailDeployment
    \/ SupersedeDeployment

Unfinished(d) == dep[d].phase \in {"pending", "building"}

(* An accepted CancelDeployment stops a deployment that has not finished.   *)
AcceptCancelDeployment(d) ==
    /\ Unfinished(d)
    /\ dep' = [dep EXCEPT ![d].phase = "canceled"]
    /\ inv' = [inv EXCEPT ![d] = [j \in Jobs |->
                  IF inv[d][j] = "running" THEN "canceled" ELSE inv[d][j]]]
    /\ pending' = IF pending = d THEN 0 ELSE pending
    /\ inProgress' = IF inProgress = d THEN 0 ELSE inProgress
    /\ UNCHANGED <<spec, lastDep, active>>

AcceptCancelInvocation(d, j) ==
    /\ inv[d][j] = "running"
    /\ inv' = [inv EXCEPT ![d][j] = "canceled"]
    /\ UNCHANGED <<spec, dep, lastDep, pending, inProgress, active>>

=============================================================================
