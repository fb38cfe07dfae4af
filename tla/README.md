# Verification of workflow-plugin-digitalocean

TLA+ models of the parts of the DigitalOcean provider plugin whose correctness
depends on order: several callers, a cloud service that changes on its own,
answers that are lost, processes that end half way. The models are checked on
small instances with TLC and proved for every size with TLAPS where the prover
reaches.

The plugin is a gRPC server (`internal/iacserver.go`) started by a workflow
host. It keeps almost no state of its own: what matters is in DigitalOcean (apps,
deployments, databases, droplets, records, buckets) and in the handles and
records the host stores. So the models have three kinds of actor: *calls* into
the plugin, one API request per step; the *service*, which is external and is
modelled from the answers the code handles; and *others* who change the same
objects.

## Inventory

| Component | State it keeps | Operations | What is hard | What makes it correct |
|---|---|---|---|---|
| One-off job runner (`internal/app_platform_runner.go`) | the handle's metadata (at the host); the job component in the app's spec | RunJob, JobStatus, CancelJob, JobLogs | full-spec Update without compare-and-swap, lost answers, deployments started by others, encryption of SECRETs, deadlines | a handle binds only its own deployment; a clean report means the job is over; nothing foreign is touched; cleanup debt is never forgotten |
| State backend (`internal/statebackend/spaces.go`, `internal/statebackend_server.go`) | state and lock objects in a bucket | Configure, GetState, SaveState, ListStates, DeleteState, Lock, Unlock | several hosts, the S3 client's retries, locks without owner or expiry | exclusion, no lost update, complete listings, locks released |
| Deployment strategies (`internal/drivers/deploy.go`) | target and earlier active deployment, ID of the clone | Update, HealthCheck, CreateGreen, SwitchTraffic, DestroyBlue, CreateCanary, PromoteCanary, DestroyCanary | which deployment an Update is about; partial failure of promote and delete | the check never passes on the old deployment; only clones that started are promoted; no clone is forgotten; polling ends |
| App Platform resource driver (`internal/drivers/app_platform*.go`) | deployments waited for, per app; CNAME records of its domains | Create, Read, Update, Delete, Diff, HealthCheck, Scale, Troubleshoot | same tracking of deployments, beside other writers of the spec and of the zone | the check judges the new deployment; a name is never left without a record |
| Dirty-migration repair (`internal/drivers/app_platform_migration_repair.go`) | a temporary job in the app's spec | RepairDirtyMigration | restore after failure, writes by others meanwhile | the temporary job is removed and nothing else is lost |
| App domain driver (`internal/drivers/app_domain.go`) | domains in the shared app spec | Create, Update, Delete | read-modify-write of a shared spec | bound domains survive |
| Database and its users (`internal/drivers/database*.go`) | trusted sources deferred to FinalizeApply | CRUD, Scale, FlushDeferredUpdates, password rotation | deferred rules, a password that is answered only once | nothing deferred is forgotten; a stale password is rotated again |
| Droplet and volumes (`internal/drivers/droplet.go`, `volume.go`) | - | CRUD, Replace | detach, wait, delete, create: failure in between | volumes end attached to the new droplet; nothing runs unaccounted for |
| DNS (`internal/drivers/dns.go`) | - | CRUD of records | pagination, delete then upsert, conflicts with other processes | the zone has what is declared; foreign records survive |
| Other drivers (firewall, vpc, load balancer, certificate, registry, kubernetes, cache, Spaces, Spaces keys, API gateway, IAM role) | - | CRUD, Scale | lost answers to Create, states with a name for an ID | the state names exactly what was made for it |
| Provider and IaC server (`internal/provider.go`, `iacserver.go`, `resourcedriver_server.go`) | the driver table | Initialize, Plan, Destroy, Status, DetectDrift, Import, EnumerateAll, FinalizeApply | partial failure of a batch | nothing that exists is dropped from the state, ghosts are |
| Ownership (`internal/ownership.go`) | owner tags | GetOwner, SetOwner, ListOwners | untag then tag; paged listings | a success leaves its owner alone; none only after a failure |
| Bootstrap (`internal/bootstrap.go`) | the state bucket | BootstrapStateBackend | two hosts bootstrap at once | idempotent |
| Plan validation, sizing (`internal/validate_plan.go`, `sizing.go`) | - | pure | - | - |
| Step router and steps (`internal/step_router.go`, `internal/steps/`) | table of step handles | CreateStep, ExecuteStep, DestroyStep | scale's read-modify-write | as for the other writers of the spec |
| Log capture, API logging, fixtures, protobuf, CI policy tool | - | I/O, generated code, CI | - | - |

`PROJECT.json` lists the same components with their status, and under `hazards`
what could go wrong in each, at the line where it would.

## Modules

| Module | Stands for | Built on |
|---|---|---|
| `AppPlatform` | DigitalOcean App Platform (external): one app, its spec, deployments, slots and job invocations | |
| `AppDeployments` | how the drivers tell which deployment an update is about | `AppPlatform` |
| `AppJobRunner` | `internal/app_platform_runner.go` | `AppPlatform` |
| `AppDeploy` | `internal/drivers/deploy.go` | `AppDeployments` |
| `AppSpecWriters` | the concurrent writers of one app's spec: resource driver, domain driver, scale step, migration repair | `AppDeployments` |
| `SpacesState` | `internal/statebackend/spaces.go` and its RPCs, with the bucket | |
| `DnsRecords`, `DnsZone` | `internal/drivers/dns.go`: the pure half, and the operations on a zone | |
| `ManagedDatabase` | `internal/drivers/database.go`, `database_user.go` and FinalizeApply | |
| `DropletVolumes` | `internal/drivers/droplet.go`, `volume.go`, `actions_wait.go`, `droplet_pricing.go` | |
| `ResourceDrivers` | the other drivers, each as a record of the traits that decide its control flow | |
| `ResourceLifeCycle` | create, update, scale, destroy, drift and import of the provider, over those drivers | `ResourceDrivers` |
| `ResourceLedger` | abstract specification of what the provider promises to the host's state | implemented by `ResourceLifeCycle` |
| `OwnerTags` | `internal/ownership.go` | |
| `MC...` | instances for TLC: symmetry sets, configurations, scenarios | |
| `AppJobRunner_proofs`, `SpacesState_proofs`, `AppDeploy_proofs`, `AppSpecWriters_proofs`, `DropletVolumes_proofs`, `ManagedDatabase_proofs`, `DnsZone_proofs` | theorems and their proofs, each on the module it is named for | |
| `Provider_proofs` | theorems and their proofs | `ResourceLifeCycle`, `OwnerTags` |

Definitions named `Something_Variant` directly before `Something` are plausible
bugs of that definition; they are used by nothing in the specifications and show
that each property can fail (`mutants` in `PROJECT.json`).

### AppPlatform and AppDeployments

Derived from the calls the plugin makes and the answers it handles. An accepted
Update replaces the whole spec (`spec`) and creates a deployment with an
immutable copy of it (`dep`), which waits in the pending slot or starts at once.
A newer pending deployment supersedes an older one. A deployment in progress
runs the PRE_DEPLOY jobs of its spec (`inv`) and becomes active, or errors, or is
superseded or cancelled. SECRET values of a job are stored encrypted, so the
component that is read back is not the one that was submitted (`Stored`). The
`PreviousDeploymentID` of a deployment (`prev`) is the deployment created before
it, as in `internal/drivers/deploy_test.go:300-328`.

### AppJobRunner

Each caller (`call`) is one RPC in flight. `call[p].m` is the metadata the code
decodes from the handle and updates (`appPlatformJobMetadata`), `handle[j]` what
the host has stored. Digests are modelled by what they digest: `prior` is the
app spec RunJob read, `digest` the form of the component.

| Code | Actions |
|---|---|
| RunJob | `RunGet`, `RunPreflight`, `RunUpdate`, `RunReadback` |
| appJobInvocation | `Recover`, `Historical`, `Invocation` |
| JobStatus, CancelJob | `BeginStatus`, `BeginCancel`, `StatusDeployment`, `StatusLaunch`, `Decide` |
| cancelInvocation | `CancelDeployment`, `CancelDeploymentSend`, `CancelDeploymentReadback`, `CancelInvocation`, `CancelInvocationReadback` |
| cleanup | `Cleanup`, `CleanupUpdate`, `CleanupReadback` |
| failed calls, process end | `ReadError`, the `Fault` disjuncts, `Crash` |
| other writers of the app | `ForeignBase` (Scale, domains), `ForeignApply` (Update from configuration), `ForeignRedeploy`, `ForeignEdit` |

A reply's handle may be stored by the host or lost (`Return`). Readbacks by
GetDeployment that only compare an immutable spec again are part of the step
that reads the deployment's name. Left out: validation of the job spec, which
precedes every state change; JobLogs, which only reads; handles of older versions
without IntentDigest; identity checks on answers about the wrong app.

`TruthfulReport` has three parts: a reported success, failure or cancellation has
happened (`TruthfulSuccess`, `TruthfulFailure`, `TruthfulCancel`).

### AppDeploy

The image is the `base` of the spec. `drv` is the state of the stable app's
AppDeployDriver; `cloneID`, `stableCheck` that of the two strategies with a
clone. SwitchTraffic and PromoteCanary are the clone's image followed by Update's
two requests, then the assignment or the delete that follows. App names are
unique, so Create fails while a clone exists. The engine is external: it calls one
operation at a time, polls HealthCheck, and promotes only after a check that
passed since the clone was created (`validated`).

### AppSpecWriters

`call[p]` is one call into the provider; all of them end by replacing the whole
spec. A spec's `base` is a record of configuration, instance count and domains, so
that a lost update shows. `wait` is `waitingDeployments`, `records` the CNAME
records of the domains' names in their zones. Any request may fail before or after
the service has acted.

| Code | Actions |
|---|---|
| AppPlatformDriver.Update | `UpdateGet`, `UpdatePut`, `UpdateDeploy`, then the CNAME steps |
| reconcileAppDomainCNAMEs | `CNAMEList`, `CNAMECall` |
| AppPlatformDriver.HealthCheck | `HealthGet`, `HealthTarget`, `HealthList`, the CNAME steps, `HealthProbe` |
| Scale, app domain upsert and Delete, step.iac_scale | `EditGet`, `EditPut`, with `Edited` for what each changes |
| RepairDirtyMigration | `RepairPrepare`, `RepairPut`, `RepairPoll`, `RepairTimeout`, `RepairCancel`, `RestoreGet`, `RestorePut` |

HealthCheck reads the app first (`HealthGet`, the answer is `call[p].app`) and
consults the wait afterwards (`HealthTarget`); an Update by another caller may
replace the wait in between. `crossed` is a history variable: some check has judged
or cleared the wait of an Update that it read the app before. `HealthyIsNew` says
what the check promises as long as that has not happened.

### SpacesState

`lock` and `record` are the bucket, by object key. A host locks a resource, reads
its record, saves or deletes it and unlocks. Hosts are separate processes.
`SanitizeID` is a constant function, so whether two IDs share a key is a choice of
the instance. The AWS client's retry of a request whose answer was lost is
`LockRetry` and `UnlockRetry`; a request that fails for good is `CallError`.
`problems` counts what went wrong and notes whether one of them removed a lock
object without looking (a repeated DeleteObject, or a forced unlock).

ListStates is a loop over the pages of ListObjectsV2, and needs no lock.
`StateKey` and `LockKey` are the places of a key's two objects in the bucket's order.
`ListPage` is one request: the next `PageSize` objects after the last one listed
(`token`, the continuation token), with `more` for IsTruncated; lock objects take
places on the pages and are passed over. `ListGet` fetches the objects of the page in
order before the next page is asked for, and skips one that is gone or cannot be read;
a page that fails (`CallError`) ends the call. All of it interleaves with
whatever the other hosts do. `steady` is a history: the keys that have had a record,
and a readable one, at every moment since the listing began. `ListComplete` says that
a listing about to return has a record of each, and no key's twice.

### DnsRecords and DnsZone

A name or a value is an identity and a spelling (case, trailing dot), which is all
the canonicalisation tells apart; values also have the kind their syntax gives
them. `DnsRecords` has the parsing and validation of a configuration, identity,
upsert key, equality, and the round trip through the stored output. In `DnsZone`
`op[p]` is the operation of one workflow process, `zone` the records in listing
order; a listing is one step per page, so records that move between pages are
missed or seen twice as with the real service. What is still to delete or to upsert
(`todo`) keeps the positions of the list it was chosen from. `OperatorAdd` and `OperatorRemove`
edit the zone at any moment; a request may be refused, or be accepted and answered
with an error.

### ManagedDatabase

`queue` is `pendingFirewallUpdates`, `due` whether FinalizeApply has still to run;
`stored` is the outputs in the IaC state, which hold the password and the rotation
epoch. `Update` is `BeginUpdate`, `Preflight`, `UpdateRules`, `Resize`, `Firewall`,
`Recheck`, `Reset`, `ReadBack`, in the order of the code, and each may end the
operation with an error. Passwords are numbers; a reset makes a new one, which
only its answer shows. `Restart` empties the queue.

### DropletVolumes

Droplets, volumes and detach actions are numbered by the service; `Boots`,
`Detaches` and `Grows` are its own time. Replace is `Preflight`, `ReadOld`,
`DetachByDropletID` and `waitForActionComplete` for each volume, `DeleteOld`, then
the steps of Create with the detached IDs; `dropletOutput` names the attached
volumes one request at a time. Update and Scale of a droplet are refused by the
code without a request.

### ResourceDrivers, ResourceLifeCycle, ResourceLedger

The remaining drivers differ in seven traits (what Read asks for, healing of
recorded names, upsert, how Update works, Scale, whether deleting an absent
resource succeeds, whether absence is reported by the sentinel), which
`ResourceDrivers` gives for each type from its file. `ResourceLifeCycle` runs the
provider's operations over them, one API call per step (`op.call`), with the host's
`entry` per name. An ID stands for one incarnation; `Legacy` is an entry of an older
version that holds the name where the UUID belongs.

`ResourceLedger` is the abstract specification: a ledger from names to live
resources, and the steps it may take. The refinement mapping
(`Ledger == INSTANCE ResourceLedger WITH ledger <- ...`) takes a `Legacy` entry for
the resource it was written for. `LedgerKept == Ledger!Spec` then says that no
interleaving of failed, unanswered or interrupted calls with changes by others
makes the state drop or rebind a living resource, or name one that was made under
another name. The ledger does not tell who made a resource or who deleted it.

Assumed of the service: names are unique per type except for Spaces keys, and the S3
client has its credentials. The driver sees one registry per account, whatever the plan
(`registry.go:23-31`), so at most one declared name is a registry, and the others an
account may have are outside the model. An answer 405 means what 404 does, as
`errors.go:47` takes it: the resource is absent.

### OwnerTags

`tags` are the owner tags of each resource, `known` the tags of the account in
listing order. SetOwner is `ReadTags`, `Untag` for each other owner, `CreateTag`,
`TagResource`; ListOwners walks pages of tags and, for each, the pages of the three
listings of `EnumerateByTag`. `Resources` is constant: only tagging interleaves with a
listing, so volumes and databases deleted between two pages, which would shift the
pages after them, are not modelled, and `ListSound` promises nothing for that case.
An owner stands for its tag, since `ownerTagName` is one to one on owners. `NextTag` and `TagDone` are the walk from one tag
to the next. The module's Init, Next and Spec are `TagsInit`, `TagsNext`
and `TagsSpec`, because `Provider_proofs` extends it beside `ResourceLifeCycle`.

## Runs

| Run | Question | Bounds | States, time |
|---|---|---|---|
| `RunnerFaults` | Do ownership, reporting and cleanup survive an API fault and another writer at any point? | 1 job, 1 caller, 4 deployments, 2 base specs, 1 fault, 1 foreign write | 2,212,703, 2.5 min |
| `RunnerConcurrent` | ... and two calls on one handle? | 2 callers, 1 fault, 4 deployments | 2,116,542, 3.5 min |
| `RunnerLiveness` | Does a polled, bound job end and its component go? | 1 crash or dropped component, 1 fault, 4 deployments | 293,765, 1 min |
| `StateService` | Exclusion, no lost update, complete listings, locks released | 2 hosts, 2 resources, pages of 2 objects, every problem, 2 of them, 2 versions | 659,370, 3 min |
| `DeployStrategies` | The three strategies, safety and settling | 5 deployments, 2 clones, 1 fault, 3 to 5 calls, 1 update by others | 370,491, 1.5 min |
| `AppSpec` | Do concurrent writers of one spec, and of its CNAME records, keep each other's work? | 2 callers, 4 deployments, 2 domains, 2 records per name, 1 fault, 5 scenarios | 228,963, 1 min |
| `DnsApply` | Does a successful apply mean the zone is as declared, and does every operation end? | 2 processes, 6 configurations, 3 start zones, pages of 2, 2 attempts, 1 fault or operator edit | 246,957, 3 min |
| `DatabaseApply` | Are deferred rules and rotations kept through failures? | 6 configurations, 2 epochs, 4 operations, 1 fault or restart | 1,096,202, 1 min |
| `DropletReplace` | Do volumes survive a replacement that fails at any point? | 3 droplets, 3 volumes, 3 operations, 1 fault | 86,397, 0.5 min |
| `LifeCycle` | Does the provider keep the ledger; are ghosts forgotten and creations converging? | every type beside a network, 3 IDs, 1 fault, 2 changes by others | 265,611, 2 min |
| `OwnerTags` | Is the owner that was set the only one, and is a listing sound? | 4 resources (one per type), 2 owners, 2 callers, pages of 1, 1 fault, 2 calls | 636,413, 1 min |
| `DropletDisks` | (violation expected, see below) | 2 droplets, no fault | seconds |

Why the bounds are enough. One fault and one foreign write can fall between any
two requests of a call; the code has few counters or loops whose behaviour depends
on more, and those are at their limit: pages of one or two entries make every
listing span several, two attempts stand for the five of the DNS conflict loop, and
two records per name let the CNAME reconciliation meet a duplicate. Four
deployments are the first one, the launch, a foreign one and the cleanup. Five in
`DeployStrategies` are enough that no Update of the bounded calls is refused. The
scenarios of `AppSpec` pair the callers that share something: a repair with every
other writer, an Update with a check, two Updates of one name. Three IDs in
`LifeCycle` are a resource, its replacement and one of somebody else; with two changes
by others one may vanish and its name be taken. Four objects in pages of two make a
listing of `StateService` one or two pages, with the boundary on either side of a
lock object. Deadlock is
checked except where the instance really stops: bounded operations run out, and a
crashed holder's lock stops the hosts of the state run.

### What the code does otherwise than it says

`DropletDisks` shows a Replace that attaches the old droplet's volumes and not the
configuration's: a droplet whose configuration gains a volume is replaced without
it, and the operation succeeds (`findings` in `PROJECT.json`).

Deviations that the models reach and the properties except by name, so that the
rest can be checked:

- `app_platform_runner.go:274`: after a failed launch answer, JobStatus concludes
  "failed" from the component's absence, which a comment in the same file (line 390)
  calls no proof. An apply from configuration that drops the component (the
  disturbance "drop") is therefore not part of the runs that check `CleanMeansOver`.
- `app_platform_runner.go:314`: a launch that leaves the app's slots before a call
  has bound it is never found again; `BoundJobsEnd` is about bound handles.
- `app_platform_runner.go:274`, again: two JobStatus calls on a handle whose launch
  answer was lost may disagree. One sees the component gone because the other has
  just cleaned it up after a success, and reports a failure. `TruthfulReport` is
  checked with one call at a time on a handle (`RunnerFaults`).
- `app_platform_runner.go:388`, with one caller: after a lost launch answer a CancelJob
  cancels the launch before it has an invocation, and cleans up. If the rest of the app
  has changed when the next JobStatus reads it, that call skips the search of earlier
  deployments (the spec is not the one from before the launch); if the change is taken
  back before the call's own cleanup, it reports a failure for a job that was cancelled.
  That takes two writes by others; the runs have one.
- `app_platform_runner.go:114,537`: RunJob and cleanup write a spec they read earlier. If
  another job was launched in between, its component is gone while it may run, as after
  an apply. The runs have one job; `CleanReportsOver` excludes it by hypothesis.
- `drivers/app_platform.go:625-722`: HealthCheck reads the app, then takes the wait,
  and clears it by the app's ID without knowing whose it is, so a check that began
  before an Update may judge that Update by the older app, or clear its wait
  (`crossed`).
- `statebackend/spaces.go:368`: a repeated DeleteObject removes another host's lock
  (`problems.unlock`).
- `statebackend/spaces.go:158`: IDs that differ only in `/`, `\` and `_` share a
  record and a lock; the instance has distinct keys.
- `drivers/deploy.go:73`: a second Update during a rollout is judged by the first
  one's deployment; `NeverOldActive` only rules out the deployment that was active.
- `drivers/database.go:918`: a deferred rule set that FinalizeApply could not write
  is written later over newer rules (`hist.overwritten`), and the queue dies with
  the process (`hist.dropped`).
- `drivers/spaces.go:66`: a deleted bucket is not reported as
  ErrResourceNotFound, so DetectDrift fails for the whole state; `GhostsForgotten`
  asks for the sentinel.
- `ownership.go:53`: two overlapping SetOwner calls may leave two owners;
  `OwnerApplied` is about calls that did not overlap with another.
- `drivers/droplet.go:147-153`: a Replace that is repeated after one that failed with
  volumes detached attaches those the droplet still had and not the others;
  `VolumesCarriedOver` is about what was attached when the Replace began.
- `drivers/app_platform.go:148`: an Update or Delete that heals a state with a name for an
  ID acts on whatever resource bears the name by then, one that others made after the
  declared one vanished included. `LedgerKept` allows it.
- `drivers/droplet.go:801`: a price that moves during Replace leaves no droplet.
- `drivers/spaces_key.go:95`: a lost answer to Create leaves a key that nothing names.

Known and not counted as deviations: a crash between Lock and Unlock leaves a lock
until somebody unlocks it; a process that ends before the host stores the handle
leaves a job component nobody knows; a redeployment while the component is in the
spec runs the job again.

### Fairness

Liveness is checked with weak fairness of: a call that has begun making its next
request or reaching the deadline of a wait (every wait in the code has one), the
platform making progress, time passing, and the host polling (JobStatus,
HealthCheck), which is what both interfaces are for. `LifeCycle` has strong fairness
of the host beginning a drift check and the creation of a missing resource:
the host applies and refreshes again and again, and is idle in between only now and
then. There is no fairness on faults, crashes, other writers, new jobs, new updates,
CancelJob, destruction, or on a host taking a lock; in `DropletReplace` and `AppSpec`
none on the service either, whose actions may never end.

## Proofs

The theorems hold for any number of callers, jobs, deployments, hosts, resources,
records and faults. Each safety theorem has the same layout: an inductive invariant,
a lemma that Init establishes it, a lemma per action, one that combines them over
`Next`, and the temporal step. What the prover needs of the constants is in the named
ASSUMEs of each module, which TLC evaluates on every run. Most are types. The others:

- `ServiceAssumption` (`ResourceLifeCycle`): only Spaces keys share names, and at most
  one declared name is the registry in the driver's sight. The drivers find resources by
  name, or the registry by none, and rely on it.
- `EnoughIds`: the bound on IDs leaves one for every resource from before, so that
  Init has a state.
- `StateAssumption` (`SpacesState`): no two objects of the bucket have the same place in
  its order.
- `IsFiniteSet(VolNames)` (`DropletVolumes`): a configuration lists finitely many
  volumes; the first volumes are numbered.
- `DnsAssumption` (`DnsZone`): the records of a configuration and of a start zone are
  lists, and the bound on IDs leaves room for the start zone.
- `OwnerTagsAssumption` (`OwnerTags`): an account has finitely many resources and owners.
- `Configs \subseteq Confs` (`ManagedDatabase`) and the type of `Scenarios`
  (`AppSpecWriters`): configurations and requests have the form the code parses.

### AppJobRunner_proofs

- `RunnerInvariant`: `RunnerInv` is inductive. Ownership alone is not: a handle
  stays owned because specs of deployments never change and those yet to be
  created carry no component (`Unborn`), and because only calls with a final
  state reach cleanup (`EndsTerminal`). The lemmas per action rest on
  lemmas about binding (`BoundIsOwned`, `BindHintOwned`, `AcknowledgeOwned`) and on
  one that ownership survives whatever the platform and other writers do
  (`OwnedPersists`).
- `RunnerTypes`, `RunnerOwnership`: `TypeOK` and `BoundDeploymentOwned`.
- `WritesTouchOnlyOwn`: `TouchesOnlyOwn`, from `WriteInv`: a call about to
  write, since whose read nobody wrote, holds the app's spec (`ReadsCurrent`), what the
  service stores of a SECRET is never the plain form (`SpecStored`), and the digest in
  a handle is that of an unedited component (`DigestsIntent`).
- `LaunchNeverForgotten`: `CleanupIdentityKept`, under the hypothesis that no process
  ends (`"crash" \notin Disturbances`): a process that ends before the host has the
  handle leaves a component nobody knows, see above. The invariant is `DebtInv`:
  whatever is in the spec, in a deployment that may still run, or about to be put
  there is `Accounted` for by a handle or by a RunJob that will return one.
- `ReportsHappened`: `TruthfulSuccess` and `TruthfulCancel`. `Evidence` is what a final
  state in a handle must be able to show, and once shown it stays, because
  invocations and phases that ended do not change.
- `CleanReportsOver`: `CleanMeansOver`, under `NobodyDrops`: no apply from configuration
  takes the component out (the disturbance "drop"), and there is one job or one caller,
  so that no call for another job writes a spec from before the launch. Any number of
  calls may work on the one job, in the presence of every other disturbance.
- `ReportsTrue`: `TruthfulReport` with its third part, `TruthfulFailure`, under
  `Undisturbed`: one job, one caller, and nobody changes the rest of the app. Lost
  answers, crashes, redeployments and edits of the component are allowed. Each
  hypothesis excludes a deviation named above.

The last two share the invariant `AppInv`. Deployments leave the slots in order
(`OrderInv`, `Leads`), the launch is the first deployment that carries the component
(`Launches`), and a job has one RunJob, which is over before the host has the handle
(`Protocol`). `JudgeInv` says what is then known: a handle binds the launch or a
deployment that could only start once the launch was over (`MetaGood`); a call knows
at each step what it relies on (`CallGood`); the spec, and every spec about to be
written, lacks the component only before the launch or once the launch is over
(`Sound`); what was reported has happened (`Reported`). A step of a call is judged by
the app as it was before the step, and `JudgeLasts` carries the judgement over
whatever the step, the platform or others do to the app.

### SpacesState_proofs

With every modelled problem allowed:

- `StateTypes`: `TypeOK`.
- `LockInvariant`: as long as no Unlock took effect unseen or by force
  (`~problems.unlock`), whoever is between Lock and the end of Unlock made the lock
  object (`OwnsLock`) and has seen the current record (`SeenCurrent`). The history
  variable `owner` is what makes exclusion inductive: two holders of one key would
  both be its owner.
- `LockExclusive`, `UpdatesKept`: `MutualExclusion` and `NoLostUpdate`.
- `ListsComplete`: `ListComplete`, for any number of keys and any page size, from
  `ListInv`. A key whose record was there all along is `InSight`: still to fetch from the
  page at hand, or after the token with more to come, or fetched. What is fetched lies
  behind the token and is not on the page any more (`Pursuing`), which is why no
  key is listed twice; that the record fetched is the key's own is `OwnRecords`.

### Provider_proofs

The resources and the state that lists them (`ResourceLifeCycle`):

- `SafeAlways`: the inductive invariant `Safe`. What exists was issued for a name,
  once per name (`CloudOK`); an entry names a resource issued for it (`LedgerOK`); what
  an operation has still to do is consistent with its kind (`OpOK`); and the ID it
  carries between two requests is that of the entry or one issued for the name
  (`RefOK`).
- `LedgerImplemented`: `Spec => LedgerKept`, the refinement of `ResourceLedger`. One
  lemma per action shows that, from `Safe`, a step is a step of the ledger or leaves it
  alone.

Their owners (`OwnerTags`):

- `TagTypes`: the types, that the account has no owner tag twice, and that every tag a
  resource carries is one of the account's.
- `OwnerIsApplied`, `OwnerlessIsExplained`: `OwnerApplied` and `OwnerlessExplained`, from
  `Alone`: as long as a SetOwner has the resource to itself, what it has still to remove
  is all that stands between the resource and its owner.
- `ListingSound`: `ListSound`, from `ListOK`. A pair that was held all along has been found
  or is `ToCome` on the pages and listings ahead (`Place`), and what was found was held
  (`History`). Tags created meanwhile do not disturb the walk, because the account's list
  only grows at its end.

### AppDeploy_proofs

- `OldActiveNeverPasses`: `NeverOldActive`, from `OrderOK`. The deployments in the slots
  are ordered by age (`SlotsOrdered`), and the target a driver waits for is newer than
  the deployment it found active (`TargetNewer`); both readings of `prev` are covered.
- `RolloutsPrevalidated`, `ClonesStayKnown`: `PrevalidatedRollout` and `CloneKnown`, from
  `ClonesOK`: what the engine was told passed is true of the clone the driver holds now
  (`CloneStarted`), so a clone made after a failed delete is not taken for the old one.

### AppSpecWriters_proofs

One inductive invariant `Safe`, in parts that need each other only through the types:

- `RepairsLeaveNoJob`, `BoundDomainsKept`: `RepairLeavesNoJob` and `DomainsKept`, from
  `WritesOK`: a call that has read the spec holds it or a deployment was made since
  (`ReadCurrent`), two repairs do not share a job (`OneJob`), and a job
  about to be added is not in the spec, unless a stale write put it there
  (`NotYetAdded`).
- `HealthyIsNewAlways`: `HealthyIsNew`, from `HealthOK`: slots are ordered, the wait names
  what was active before the last Update (`WaitOK`), and a check that goes on to the
  records has found something newer (`HealthCall`).
- `NamesStayServed`: `NameServed`. Each reconciliation plans from one listing which
  records to put and to drop. `RecordsOK` says that no plan, however old, drops the
  record that every plan keeps.

### DropletVolumes_proofs

- `DisksCarriedOver`, `DropletsAccounted`, `DeletesAfterDetach`: `VolumesCarriedOver`,
  `AliveAccounted`, `DeleteAfterDetach`. `Safe` says that while an operation runs the
  stored droplet is the one it works on or is gone (`StoredKnown`), that every volume
  the old droplet had is known to Replace at every step (`Carried`), and that one
  already detached has no detach action left that could take it off the new droplet.

### ManagedDatabase_proofs

- `PasswordsCurrentOrRotated`, `RecordedEpochsReset`: `StalePasswordRotatesAgain` and
  `EpochMeansReset`, from `Credentials`, which relates the service's password, the
  stored one and the epochs at every step between the reset and the end of Update.
- `DeferredRulesKept`: `DeferredNotForgotten`, from `Deferral`: the rule set that is owed
  is `Remembered` in the queue, in what FinalizeApply has still to write or in what it
  keeps for later. The queue is a sequence; no induction over it is needed, since the
  code only appends to it and takes its head.

### DnsZone_proofs

The inductive invariant `Safe` is `Shape`, the types, and `Good` for each operation, in
three parts. `PlaceOK`: the place in the code and what the operation has at hand there,
its requests with distinct upsert keys. `ListedOK`: an ID that was listed and still
exists has the type and name it was listed with, since IDs are not used again.
`Reached`: for an operation that nobody disturbed, the pages listed are the start of the
zone, a record that must be absent is gone or still to delete, each request is still to
do or up to date, and a success has a domain and an output equal to the zone.

- `DnsTypes`: the types, unique record IDs and the bounds of the conflict loops.
- `ZoneConverges`: `Converged`, from `Reached` at the end of the last read.
- `DiffSettles`: `NoPerpetualDiff`: the stored output is the zone, so the next Diff finds
  every declared record in it.
- `QuietDiffs`: `QuietDiffSawZone`.
- `OthersRecordsKept`: `UnmanagedKept`, an action property, from `ListedOK`: the writes go
  by IDs of an earlier listing.

Lists are functions on their positions, and the code picks, skips and compares entries
without accumulating over them, so no induction over sequences is needed.

### Only model-checked

- Liveness (`BoundJobsEnd`, `LocksAreReleased`, `HealthSettles`, `OperationsEnd`,
  `CallsReturn`, `GhostsForgotten`, `CreatesConverge`): fairness and ENABLED are outside
  the prover.
- `CleanMeansOver` beyond `NobodyDrops` and `TruthfulReport` beyond `Undisturbed`: not
  theorems for arbitrary constants, as the list of deviations says. The runs show
  `CleanMeansOver` with one job and no drop, where the theorem also holds, and
  `TruthfulReport` with one change to the rest of the app (`RunnerFaults`), where it goes
  beyond the theorem.

Every other invariant and action property of the passing runs is a theorem for all
values of the constants, `CleanupIdentityKept` as long as no process ends.


## Not modelled

- Plan, Status, EnumerateAll, ResolveSizing and the
  read-only operations of the drivers (Diff where it only compares, HealthCheck of
  the simple drivers, Troubleshoot): they change nothing, and no later step relies
  on an order of theirs.
- The IAM role driver, which makes no request: it returns what is declared.
- RevokeProviderCredential: one request, whose "not found" is a success.
- The translation of a configuration into a request beyond what a property tells
  apart (buildAppSpec, firewall rules, load balancer forwarding rules), price lists,
  sizing, plan validation: pure functions of one input, covered by table tests.
- Bootstrap of the state bucket: HeadBucket, then CreateBucket whose one race is an
  answer the code takes for success.
- The step router's table of handles: a mutex-protected map; log capture and
  streaming; protobuf and JSON conversions; generated code; the CI policy tool.
