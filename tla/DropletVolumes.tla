--------------------------- MODULE DropletVolumes ---------------------------
(***************************************************************************)
(* The droplet and volume drivers of internal/drivers/droplet.go and        *)
(* volume.go, with actions_wait.go and droplet_pricing.go.  One droplet     *)
(* resource and the volumes it may use; every API request is a step.        *)
(* Replace moves the volumes of the old droplet to a new one: it detaches   *)
(* them one by one, waits for each detach action, deletes and creates.  The *)
(* service, which runs actions on its own time, and wfctl are external.     *)
(***************************************************************************)
EXTENDS Naturals, FiniteSets

CONSTANTS
    VolNames,   \* volume resources
    Configs,    \* droplet configurations: size, names of volumes, price cap
    Sizes,      \* volume sizes in GB
    MaxDroplet, \* bound: droplets created
    MaxVolume,  \* bound: volumes created
    MaxOps,     \* bound: operations begun
    MaxFaults   \* bound: failed requests and other mishaps

ASSUME DropletAssumption ==
    /\ MaxDroplet \in Nat /\ MaxVolume \in Nat /\ MaxOps \in Nat /\ MaxFaults \in Nat
    /\ Sizes \subseteq Nat \ {0}
    /\ IsFiniteSet(VolNames)

VARIABLES
    droplets, \* the droplets ever created, by number
    volumes,  \* the volumes ever created, by ID, with their last detach action
    cheap,    \* whether the catalog price is within the cap
    op,       \* what each driver is doing
    stored,   \* the droplet's output in the IaC state
    disks,    \* the volumes' outputs in the IaC state
    hist,     \* history, for the properties
    used,     \* droplet and volume IDs handed out
    ops, faults

service == <<droplets, volumes, cheap, used>>
vars == <<service, op, stored, disks, hist, ops, faults>>

Drivers == {"droplet", "volume"}
RawId   == "raw"  \* a volume ID that could not be turned into a name

NewVolume(v, size) ==
    [name |-> v, alive |-> TRUE, at |-> 0, size |-> size, target |-> 0, detach |-> "none"]
NoState  == [id |-> 0, size |-> 0, vols |-> {}, ip |-> FALSE]
NoConf   == [size |-> 0, vols |-> {}, capped |-> FALSE]

(* todo: volume IDs yet to detach or name; ids: resolved or detached ones;  *)
(* at: the droplet worked on; vol: the volume waited for.                   *)
Idle == [pc |-> "idle", conf |-> NoConf, replace |-> FALSE, at |-> 0, todo |-> {}, ids |-> {},
         names |-> {}, ip |-> FALSE, vol |-> 0, name |-> CHOOSE v \in VolNames : TRUE, size |-> 0]

(* had: volume IDs of the old droplet when Replace read it; left, missing:  *)
(* of the last droplet an operation reported, the volumes it should have    *)
(* kept and those its configuration names that it does not have; lost:      *)
(* droplets whose creation was not reported.                                *)
NoHistory == [had |-> {}, left |-> {}, missing |-> {}, lost |-> {}]

Alive(i) == i \in DOMAIN droplets /\ droplets[i].status \in {"new", "active"}
Named(names) == {k \in DOMAIN volumes : volumes[k].alive /\ volumes[k].name \in names}
Attached(i) == {k \in DOMAIN volumes : volumes[k].alive /\ volumes[k].at = i}

(* The type invariant.                                                      *)
TypeOK ==
    /\ used.droplet \in 0..MaxDroplet /\ used.volume \in 0..MaxVolume
    /\ DOMAIN droplets = 1..used.droplet
    /\ DOMAIN volumes = 1..used.volume
    /\ \A k \in DOMAIN volumes : volumes[k].at = 0 \/ Alive(volumes[k].at)
    /\ \A v \in VolNames : Cardinality(Named({v})) <= 1
    /\ cheap \in BOOLEAN
    /\ op["droplet"].ids \subseteq DOMAIN volumes
    /\ stored.id \in 0..used.droplet /\ stored.vols \subseteq VolNames \cup {RawId}
    /\ disks \in [VolNames -> [id : 0..MaxVolume, size : Sizes \cup {0}]]
    /\ ops \in 0..MaxOps /\ faults \in 0..MaxFaults

(* Every volume resource has been created, in some order.                   *)
FirstIds == CHOOSE f \in [VolNames -> 1..Cardinality(VolNames)] :
                \A x, y \in VolNames : f[x] = f[y] => x = y
FirstNameOf(k) == CHOOSE v \in VolNames : FirstIds[v] = k

Init ==
    /\ droplets = <<>> /\ used = [droplet |-> 0, volume |-> Cardinality(VolNames)]
    /\ volumes = [k \in 1..used.volume |-> NewVolume(FirstNameOf(k), 1)]
    /\ disks = [v \in VolNames |-> [id |-> FirstIds[v], size |-> 1]]
    /\ cheap = TRUE
    /\ op = [d \in Drivers |-> Idle]
    /\ stored = NoState
    /\ hist = NoHistory
    /\ ops = 0 /\ faults = 0

(***************************************************************************)
(* Steps of an operation                                                    *)
(***************************************************************************)

At(d, pc) == op[d].pc = pc
To(d, o)  == op' = [op EXCEPT ![d] = o]
End(d)    == To(d, Idle)
Begin(d, o) ==
    /\ At(d, "idle") /\ ops < MaxOps /\ ops' = ops + 1
    /\ To(d, o)
    /\ UNCHANGED <<service, stored, disks, hist, faults>>
Fault == faults < MaxFaults /\ faults' = faults + 1

(* A droplet under creation is not reported when its operation fails.       *)
Abandon(d) ==
    hist' = IF d = "droplet" /\ op[d].pc = "ready" THEN [hist EXCEPT !.lost = @ \cup {op[d].at}]
            ELSE hist

(* The operation fails; nothing it did is undone.                           *)
Fails(d) ==
    /\ End(d)
    /\ Abandon(d)
    /\ UNCHANGED <<service, stored, disks, ops>>

(* A request fails without effect.  GetVolume in dropletOutput may fail too *)
(* and fails nothing: see NameVolume.                                       *)
RequestFails(d) ==
    /\ op[d].pc \notin {"idle", "wait", "output"}
    /\ Fault
    /\ Fails(d)

(* A read that lets the operation go on, or ends it.                        *)
Look(d, pc, ok, next) ==
    /\ At(d, pc)
    /\ IF ok THEN To(d, next) /\ UNCHANGED <<service, stored, disks, hist, ops>> ELSE Fails(d)
    /\ UNCHANGED faults

(***************************************************************************)
(* Droplet: Create                                                          *)
(***************************************************************************)

o == op["droplet"]

(* A capped configuration is refused when the live price exceeds the cap.   *)
QuoteDropletPrice(conf) == conf.capped => cheap

BeginCreate(conf) ==
    stored.id = 0 /\ Begin("droplet", [Idle EXCEPT !.pc = "quote", !.conf = conf])

(* A mistake in Create: names are looked up whatever was detached.          *)
Create_ByName(ids) == [o EXCEPT !.pc = IF o.conf.vols = {} THEN "create" ELSE "resolve", !.ids = {}]

(* Volumes that Replace detached are taken as they are; otherwise the names *)
(* of the configuration are looked up.                                      *)
Create(ids) ==
    [o EXCEPT !.pc = IF ids # {} \/ o.conf.vols = {} THEN "create" ELSE "resolve"]

Quote == Look("droplet", "quote", QuoteDropletPrice(o.conf), Create(o.ids))

resolveDropletVolumes ==
    \E v \in o.conf.vols \ o.names :
        Look("droplet", "resolve", Named({v}) # {},
             [o EXCEPT !.names = @ \cup {v}, !.ids = @ \cup Named({v}),
                       !.pc = IF o.conf.vols = o.names \cup {v} THEN "create" ELSE @])

(* The service refuses volumes that are gone or attached.  The answer may   *)
(* be lost; the droplet is then there and nobody knows it.                  *)
CreateDroplet ==
    LET i == used.droplet + 1
        ok == \A k \in o.ids : volumes[k].alive /\ volumes[k].at = 0
    IN /\ At("droplet", "create")
       /\ \/ ~ok /\ UNCHANGED faults /\ Fails("droplet")
          \/ /\ ok /\ i <= MaxDroplet
             /\ used' = [used EXCEPT !.droplet = i]
             /\ droplets' = [j \in 1..i |-> IF j = i THEN [status |-> "new", ip |-> FALSE, size |-> o.conf.size]
                                            ELSE droplets[j]]
             /\ volumes' = [k \in DOMAIN volumes |-> IF k \in o.ids THEN [volumes[k] EXCEPT !.at = i]
                                                    ELSE volumes[k]]
             /\ \/ /\ To("droplet", [o EXCEPT !.pc = "ready", !.at = i])
                   /\ UNCHANGED <<hist, faults>>
                \/ /\ Fault /\ End("droplet")
                   /\ hist' = [hist EXCEPT !.lost = @ \cup {i}]
             /\ UNCHANGED <<cheap, stored, disks, ops>>

dropletReady(i) == droplets[i].status = "active" /\ droplets[i].ip

(* Then dropletOutput names the droplet's volumes.                          *)
Reading(i) == [o EXCEPT !.pc = "output", !.at = i, !.todo = Attached(i), !.names = {},
                        !.ip = droplets[i].ip]

(* The poll loop ends with a ready droplet, its absence, or the deadline.   *)
waitForDropletReady ==
    /\ At("droplet", "ready")
    /\ \/ Alive(o.at) /\ dropletReady(o.at) /\ To("droplet", Reading(o.at))
          /\ UNCHANGED <<service, stored, disks, hist, ops>>
       \/ ~Alive(o.at) /\ Fails("droplet")
       \/ Fails("droplet")
    /\ UNCHANGED faults

VolumeName(k) == volumes[k].name

(* One GetVolume: a volume that cannot be read is recorded by its raw ID.   *)
NameVolume ==
    /\ At("droplet", "output")
    /\ \E k \in o.todo :
          \/ /\ volumes[k].alive
             /\ To("droplet", [o EXCEPT !.todo = @ \ {k}, !.names = @ \cup {VolumeName(k)}])
             /\ UNCHANGED faults
          \/ /\ To("droplet", [o EXCEPT !.todo = @ \ {k}, !.names = @ \cup {RawId}])
             /\ IF volumes[k].alive THEN Fault ELSE UNCHANGED faults
    /\ UNCHANGED <<service, stored, disks, hist, ops>>

(* The operation succeeds and wfctl stores its output.                      *)
dropletOutput ==
    /\ At("droplet", "output") /\ o.todo = {}
    /\ End("droplet")
    /\ stored' = [id |-> o.at, size |-> droplets[o.at].size, vols |-> o.names, ip |-> o.ip]
    /\ hist' = IF o.conf = NoConf \/ ~Alive(o.at) THEN hist
               ELSE [hist EXCEPT !.had = {},
                                 !.left = IF o.replace THEN hist.had \ Attached(o.at) ELSE {},
                                 !.missing = Named(o.conf.vols) \ Attached(o.at)]
    /\ UNCHANGED <<service, disks, ops, faults>>

(***************************************************************************)
(* Droplet: Read, Delete, Replace                                           *)
(***************************************************************************)

BeginRead ==
    stored.id # 0 /\ Begin("droplet", [Idle EXCEPT !.pc = "read", !.at = stored.id])

Read == Look("droplet", "read", Alive(o.at), Reading(o.at))

Destroyed(i) ==
    /\ droplets' = [droplets EXCEPT ![i].status = "gone"]
    /\ volumes' = [k \in DOMAIN volumes |-> IF k \in Attached(i) THEN [volumes[k] EXCEPT !.at = 0]
                                           ELSE volumes[k]]
    /\ UNCHANGED <<cheap, used>>

BeginDelete ==
    stored.id # 0 /\ Begin("droplet", [Idle EXCEPT !.pc = "remove", !.at = stored.id])

Delete ==
    /\ At("droplet", "remove")
    /\ IF ~Alive(o.at) THEN Fails("droplet") /\ UNCHANGED faults
       ELSE /\ Destroyed(o.at)
            /\ End("droplet")
            /\ \/ stored' = NoState /\ UNCHANGED faults
               \/ Fault /\ UNCHANGED stored
            /\ UNCHANGED <<disks, hist, ops>>

(* Any difference forces a replacement; a configuration that names no       *)
(* volumes does not compare them.                                           *)
Diff(conf) == stored.size # conf.size \/ (conf.vols # {} /\ stored.vols # conf.vols)

BeginReplace(conf) ==
    /\ stored.id # 0 /\ Diff(conf)
    /\ Begin("droplet", [Idle EXCEPT !.pc = "preflight", !.conf = conf, !.replace = TRUE,
                                     !.at = stored.id])

Preflight == Look("droplet", "preflight", QuoteDropletPrice(o.conf), [o EXCEPT !.pc = "get"])

(* A mistake in AfterDetach: a droplet without volumes is not deleted.      *)
AfterDetach_SkipDelete(left, ids) ==
    [o EXCEPT !.pc = IF left # {} THEN "detach" ELSE IF ids # {} THEN "delete" ELSE "quote",
              !.todo = left, !.ids = ids]

AfterDetach(left, ids) ==
    [o EXCEPT !.pc = IF left # {} THEN "detach" ELSE "delete", !.todo = left, !.ids = ids]

(* The old droplet may be gone already: there is then nothing to detach or  *)
(* delete.                                                                  *)
ReadOld ==
    /\ At("droplet", "get")
    /\ To("droplet", IF Alive(o.at) THEN AfterDetach(Attached(o.at), {})
                     ELSE [o EXCEPT !.pc = "quote"])
    /\ hist' = [hist EXCEPT !.had = IF Alive(o.at) THEN Attached(o.at) ELSE {}]
    /\ UNCHANGED <<service, stored, disks, ops, faults>>

(* The service refuses a volume that is not attached or has an action.      *)
DetachByDropletID ==
    /\ At("droplet", "detach")
    /\ \E k \in o.todo :
          IF volumes[k].at # o.at \/ volumes[k].detach = "running"
          THEN Fails("droplet") /\ UNCHANGED faults
          ELSE /\ volumes' = [volumes EXCEPT ![k].detach = "running"]
               /\ \/ To("droplet", [o EXCEPT !.pc = "wait", !.vol = k]) /\ UNCHANGED faults
                  \/ End("droplet") /\ Fault
               /\ UNCHANGED <<droplets, cheap, used, stored, disks, hist, ops>>

(* A mistake in Waited: an accepted detach counts as done.                  *)
Waited_AnyStatus(status) == TRUE

Waited(status) == status = "completed"

(* A mistake in Deadline: the poll loop has no deadline.                    *)
Deadline_None(d) == FALSE

Deadline(d) == Fails(d)

(* The poll loop ends with the action, or with the deadline.                *)
waitForActionComplete ==
    /\ At("droplet", "wait")
    /\ \/ /\ Waited(volumes[o.vol].detach)
          /\ To("droplet", AfterDetach(o.todo \ {o.vol}, o.ids \cup {o.vol}))
          /\ UNCHANGED <<service, stored, disks, hist, ops>>
       \/ volumes[o.vol].detach = "errored" /\ Fails("droplet")
       \/ Deadline("droplet")
    /\ UNCHANGED faults

DeleteOld ==
    /\ At("droplet", "delete")
    /\ IF ~Alive(o.at) THEN Fails("droplet") /\ UNCHANGED faults
       ELSE /\ Destroyed(o.at)
            /\ \/ To("droplet", [o EXCEPT !.pc = "quote"]) /\ UNCHANGED faults
               \/ End("droplet") /\ Fault
            /\ UNCHANGED <<stored, disks, hist, ops>>

(***************************************************************************)
(* Volume                                                                   *)
(***************************************************************************)

w == op["volume"]

BeginVolume(pc, v, size) ==
    Begin("volume", [Idle EXCEPT !.pc = pc, !.name = v, !.size = size])

BeginVolumeCreate(v, size) == disks[v].id = 0 /\ BeginVolume("vol_create", v, size)

(* Only growth is an update; a shrink is a deletion and a creation.         *)
BeginVolumeUpdate(v, size) ==
    disks[v].id # 0 /\ size > disks[v].size /\ BeginVolume("vol_get", v, size)
BeginVolumeDelete(v) == disks[v].id # 0 /\ BeginVolume("vol_delete", v, 0)

Store(v, id, size) == disks' = [disks EXCEPT ![v] = [id |-> id, size |-> size]]
Known(v) == disks[v].id # 0 /\ volumes[disks[v].id].alive

Mine == disks[w.name].id

(* A name is used once.                                                     *)
CreateVolume ==
    LET k == used.volume + 1 IN
    /\ At("volume", "vol_create")
    /\ IF Named({w.name}) # {} THEN Fails("volume") /\ UNCHANGED faults
       ELSE /\ k <= MaxVolume
            /\ used' = [used EXCEPT !.volume = k]
            /\ volumes' = [j \in 1..k |-> IF j = k THEN NewVolume(w.name, w.size) ELSE volumes[j]]
            /\ End("volume")
            /\ \/ Store(w.name, k, w.size) /\ UNCHANGED faults
               \/ Fault /\ UNCHANGED disks
            /\ UNCHANGED <<droplets, cheap, stored, hist, ops>>

(* Update: an equal size is stored as it is, a smaller one refused.         *)
GetVolume ==
    /\ At("volume", "vol_get")
    /\ \/ /\ Known(w.name) /\ volumes[Mine].size = w.size
          /\ Store(w.name, Mine, w.size)
          /\ End("volume")
          /\ UNCHANGED <<service, stored, hist, ops>>
       \/ /\ Known(w.name) /\ volumes[Mine].size < w.size
          /\ To("volume", [w EXCEPT !.pc = "vol_resize"])
          /\ UNCHANGED <<service, stored, disks, hist, ops>>
       \/ (Known(w.name) => volumes[Mine].size > w.size) /\ Fails("volume")
    /\ UNCHANGED faults

(* The service grows the volume later.                                      *)
Resize ==
    /\ At("volume", "vol_resize")
    /\ IF ~Known(w.name) \/ volumes[Mine].target # 0 THEN Fails("volume") /\ UNCHANGED faults
       ELSE /\ volumes' = [volumes EXCEPT ![Mine].target = w.size]
            /\ \/ To("volume", [w EXCEPT !.pc = "vol_read"]) /\ UNCHANGED faults
               \/ End("volume") /\ Fault
            /\ UNCHANGED <<droplets, cheap, used, stored, disks, hist, ops>>

ReadBack(v) == Store(v, disks[v].id, volumes[disks[v].id].size)

ReadVolume ==
    /\ At("volume", "vol_read")
    /\ IF Known(w.name) THEN ReadBack(w.name) /\ End("volume") /\ UNCHANGED <<service, stored, hist, ops>>
       ELSE Fails("volume")
    /\ UNCHANGED faults

(* The service keeps a volume that is attached.                             *)
DeleteVolume ==
    /\ At("volume", "vol_delete")
    /\ IF ~Known(w.name) \/ volumes[Mine].at # 0 THEN Fails("volume") /\ UNCHANGED faults
       ELSE /\ volumes' = [volumes EXCEPT ![Mine].alive = FALSE]
            /\ End("volume")
            /\ \/ Store(w.name, 0, 0) /\ UNCHANGED faults
               \/ Fault /\ UNCHANGED disks
            /\ UNCHANGED <<droplets, cheap, used, stored, hist, ops>>

(***************************************************************************)
(* The service and others                                                   *)
(***************************************************************************)

others == <<op, stored, disks, hist, ops, used>>

Boots(i) ==
    /\ Alive(i)
    /\ \/ droplets[i].status = "new" /\ droplets' = [droplets EXCEPT ![i].status = "active"]
       \/ /\ droplets[i].status = "active" /\ ~droplets[i].ip
          /\ droplets' = [droplets EXCEPT ![i].ip = TRUE]
    /\ UNCHANGED <<volumes, cheap, others, faults>>

Detaches(k) ==
    /\ volumes[k].detach = "running"
    /\ \/ /\ volumes' = [volumes EXCEPT ![k].detach = "completed", ![k].at = 0]
          /\ UNCHANGED faults
       \/ volumes' = [volumes EXCEPT ![k].detach = "errored"] /\ Fault
    /\ UNCHANGED <<droplets, cheap, others>>

Grows(k) ==
    /\ volumes[k].target # 0
    /\ volumes' = [volumes EXCEPT ![k].size = volumes[k].target, ![k].target = 0]
    /\ UNCHANGED <<droplets, cheap, others, faults>>

PriceMoves ==
    /\ Fault
    /\ cheap' = ~cheap
    /\ UNCHANGED <<droplets, volumes, others>>

OperatorDeletes(i) ==
    /\ Alive(i) /\ Fault
    /\ Destroyed(i)
    /\ UNCHANGED <<op, stored, disks, hist, ops>>

OperatorDeletesVolume(k) ==
    /\ volumes[k].alive /\ volumes[k].at = 0 /\ Fault
    /\ volumes' = [volumes EXCEPT ![k].alive = FALSE]
    /\ UNCHANGED <<droplets, cheap, others>>

(***************************************************************************)
(* The specification                                                        *)
(***************************************************************************)

DropletStep ==
    \/ Quote \/ resolveDropletVolumes \/ CreateDroplet \/ waitForDropletReady \/ NameVolume
    \/ dropletOutput \/ Read \/ Delete \/ Preflight \/ ReadOld \/ DetachByDropletID
    \/ waitForActionComplete \/ DeleteOld

VolumeStep == CreateVolume \/ GetVolume \/ Resize \/ ReadVolume \/ DeleteVolume

Begins ==
    \/ \E conf \in Configs : BeginCreate(conf) \/ BeginReplace(conf)
    \/ BeginRead \/ BeginDelete
    \/ \E v \in VolNames, size \in Sizes : BeginVolumeCreate(v, size) \/ BeginVolumeUpdate(v, size)
    \/ \E v \in VolNames : BeginVolumeDelete(v)

Environment ==
    \/ \E i \in 1..used.droplet : Boots(i) \/ OperatorDeletes(i)
    \/ \E k \in 1..used.volume : Detaches(k) \/ Grows(k) \/ OperatorDeletesVolume(k)
    \/ PriceMoves

Next ==
    \/ Begins \/ DropletStep \/ VolumeStep \/ Environment
    \/ \E d \in Drivers : RequestFails(d)

(* A driver's goroutine keeps running; poll loops meet their deadlines.     *)
Fairness == WF_vars(DropletStep) /\ WF_vars(VolumeStep)

Spec == Init /\ [][Next]_vars /\ Fairness

(***************************************************************************)
(* Properties                                                               *)
(***************************************************************************)

(* No disk is lost on the way: the droplet that a Replace reports has every *)
(* volume the old droplet had when the Replace began.                       *)
VolumesCarriedOver == hist.left = {}

(* "a typo or wrong type must NOT silently leave the Droplet running        *)
(* without an expected disk": the droplet that an operation reports has     *)
(* every volume its configuration names.                                    *)
ExpectedDisks == hist.missing = {}

(* Replace does not delete the old droplet under its volumes: none is       *)
(* attached to it or on its way off when the deletion is requested.         *)
DeleteAfterDetach ==
    [][\A i \in DOMAIN droplets :
          Alive(i) /\ ~Alive(i)' /\ At("droplet", "delete") /\ faults' = faults
          => Attached(i) = {} /\ \A k \in o.ids : volumes[k].detach # "running"]_vars

(* Nothing runs unaccounted for: a live droplet is the one in the state,    *)
(* the one being created, or one whose creation could not be reported.      *)
AliveAccounted ==
    \A i \in DOMAIN droplets :
        Alive(i) => i \in {stored.id} \cup hist.lost \/ (o.at = i /\ o.pc \in {"ready", "output"})

(* Every operation ends, whatever the service does with its actions.        *)
OperationsEnd == \A d \in Drivers : ~At(d, "idle") ~> At(d, "idle")

=============================================================================
