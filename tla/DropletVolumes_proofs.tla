------------------------ MODULE DropletVolumes_proofs ------------------------
(***************************************************************************)
(* The droplet driver, for any volumes, configurations, number of droplets, *)
(* operations and mishaps.                                                  *)
(*                                                                          *)
(* Two arguments.  Accounts: while an operation runs, the droplet of the    *)
(* IaC state is the one it works on, or is gone.  Carried: Replace knows,   *)
(* at every step, each volume the old droplet had, and none of those it has *)
(* detached has a detach action left that could take it away again.         *)
(***************************************************************************)
EXTENDS DropletVolumes, FunctionTheorems, FiniteSetTheorems, TLAPS

Confs     == Configs \cup {NoConf}
FirstName == CHOOSE v \in VolNames : TRUE
AnyName   == VolNames \cup {FirstName, RawId} \cup UNION {c.vols : c \in Confs}

VolumeRecs == [name : VolNames \cup {FirstName}, alive : BOOLEAN, at : Nat, size : Nat, target : Nat,
               detach : {"none", "running", "completed", "errored"}]
ConfSizes   == {c.size : c \in Confs}
DropletRecs == [status : {"new", "active", "gone"}, ip : BOOLEAN, size : ConfSizes]
Pcs == {"idle", "quote", "resolve", "create", "ready", "output", "read", "remove", "preflight", "get",
        "detach", "wait", "delete", "vol_create", "vol_get", "vol_resize", "vol_read", "vol_delete"}
OpRecs == [pc : Pcs, conf : Confs, replace : BOOLEAN, at : Nat, todo : SUBSET Nat, ids : SUBSET Nat,
           names : SUBSET AnyName, ip : BOOLEAN, vol : Nat, name : VolNames \cup {FirstName}, size : Nat]

HistRecs == [had : SUBSET Nat, left : SUBSET Nat, missing : SUBSET Nat, lost : SUBSET Nat]

Shape ==
    /\ used \in [droplet : Nat, volume : Nat]
    /\ droplets \in [1..used.droplet -> DropletRecs]
    /\ volumes \in [1..used.volume -> VolumeRecs]
    /\ op \in [Drivers -> OpRecs]
    /\ stored.id \in 0..used.droplet /\ o.at \in 0..used.droplet
    /\ o.ids \subseteq DOMAIN volumes /\ o.todo \subseteq DOMAIN volumes
    /\ hist \in HistRecs
    /\ faults \in Nat

(* The droplet in the state, seen from the operation x under way.           *)
StoredFor(x) ==
    /\ x.pc \in {"read", "remove", "preflight", "get", "detach", "wait", "delete"} => x.at = stored.id
    /\ x.pc \in {"quote", "resolve", "create", "ready"} => ~Alive(stored.id)
    /\ x.pc = "output" => x.at = stored.id \/ ~Alive(stored.id)

(* A volume in its place: on the droplet i, with nothing about to move it.  *)
Held(k, i) == /\ k \in DOMAIN volumes
              /\ volumes[k].alive /\ volumes[k].at = i /\ volumes[k].detach # "running"

(* While Replace detaches, what is still attached is on its list; what is   *)
(* not has no action running.                                               *)
DetachingFor(x) ==
    x.pc \in {"detach", "wait", "delete"} =>
        /\ x.at # 0
        /\ Attached(x.at) \subseteq x.todo
        /\ x.ids \cap x.todo = {}
        /\ hist.had \subseteq x.ids \cup x.todo
        /\ \A k \in x.ids : volumes[k].detach # "running"
        /\ x.pc = "delete" => x.todo = {}
        /\ x.pc = "wait" => /\ x.vol \in x.todo
                            /\ volumes[x.vol].detach = "completed" => volumes[x.vol].at = 0

(* Then it has them in hand, and at last on the new droplet.                *)
CarriedFor(x) ==
    x.replace =>
        /\ x.pc # "read"
        /\ x.pc \in {"quote", "resolve", "create"} =>
              hist.had \subseteq x.ids /\ \A k \in hist.had : volumes[k].detach # "running"
        /\ x.pc \in {"ready", "output"} /\ Alive(x.at) => \A k \in hist.had : Held(k, x.at)

StoredKnown == StoredFor(o)
Detaching   == DetachingFor(o)
Carried     == CarriedFor(o)

Safe ==
    /\ Shape
    /\ StoredKnown /\ AliveAccounted
    /\ Detaching /\ Carried /\ VolumesCarriedOver

---------------------------------------------------------------------------
(* Helpers.                                                                 *)

LEMMA IdleType == Idle \in OpRecs /\ Idle.pc = "idle" /\ Idle.at = 0 /\ Idle.ids = {} /\ Idle.todo = {}
                  /\ ~Idle.replace
  <1>1. NoConf \in Confs
    BY DEF Confs
  <1>2. FirstName \in VolNames \cup {FirstName}
    OBVIOUS
  <1>3. Idle = [pc |-> "idle", conf |-> NoConf, replace |-> FALSE, at |-> 0, todo |-> {}, ids |-> {},
                names |-> {}, ip |-> FALSE, vol |-> 0, name |-> FirstName, size |-> 0]
    BY Zenon DEF Idle, FirstName
  <1>4. Idle \in OpRecs
    BY <1>1, <1>2, <1>3 DEF OpRecs, Pcs
  <1> QED
    BY <1>3, <1>4

LEMMA ShapeFacts ==
  ASSUME Shape
  PROVE  /\ o \in OpRecs
         /\ DOMAIN droplets = 1..used.droplet /\ DOMAIN volumes = 1..used.volume
         /\ used.droplet \in Nat /\ used.volume \in Nat
         /\ \A k \in DOMAIN volumes : volumes[k] \in VolumeRecs
         /\ \A i \in DOMAIN droplets : droplets[i] \in DropletRecs
  BY DEF Shape, o, Drivers

(* A step of the droplet driver.                                            *)
LEMMA ToDroplet ==
  ASSUME Shape, NEW new \in OpRecs, To("droplet", new)
  PROVE  op' \in [Drivers -> OpRecs] /\ o' = new
  BY DEF Shape, To, o, Drivers

(* A step of the volume driver.                                             *)
LEMMA ToVolume ==
  ASSUME Shape, NEW new \in OpRecs, To("volume", new)
  PROVE  op' \in [Drivers -> OpRecs] /\ o' = o
  BY DEF Shape, To, o, Drivers

---------------------------------------------------------------------------
(* Steps that leave the droplet driver alone: of the service, of others and *)
(* of the volume driver.  Droplets go but do not come back; a volume leaves *)
(* its droplet only by a detach action or with the droplet.                 *)
LEMMA ElsewhereKeeps ==
  ASSUME Safe,
         op' \in [Drivers -> OpRecs], o' = o, stored' = stored, hist' = hist, faults' \in Nat,
         used' \in [droplet : Nat, volume : Nat], used'.droplet = used.droplet,
         used.volume <= used'.volume,
         droplets' \in [1..used'.droplet -> DropletRecs], volumes' \in [1..used'.volume -> VolumeRecs],
         \A i \in DOMAIN droplets : Alive(i)' => Alive(i),
         \A k \in 1..used'.volume :
            /\ volumes'[k].detach = "running" => k \in DOMAIN volumes /\ volumes[k].detach = "running"
            /\ volumes'[k].at # 0 => /\ k \in DOMAIN volumes /\ volumes'[k].at = volumes[k].at
                                     /\ volumes'[k].alive => volumes[k].alive
            /\ volumes'[k].detach = "completed" => \/ volumes'[k].at = 0
                                                   \/ k \in DOMAIN volumes /\ volumes[k].detach = "completed",
         \A k \in DOMAIN volumes, i \in DOMAIN droplets :
            volumes[k].alive /\ volumes[k].at = i /\ Alive(i)' /\ volumes[k].detach # "running"
            => volumes'[k].alive /\ volumes'[k].at = i
  PROVE  Safe'
  <1>1. /\ o \in OpRecs /\ DOMAIN droplets = 1..used.droplet /\ DOMAIN volumes = 1..used.volume
        /\ used.droplet \in Nat /\ used.volume \in Nat /\ used'.volume \in Nat
    BY ShapeFacts DEF Safe
  <1>2. DOMAIN volumes' = 1..used'.volume /\ DOMAIN volumes \subseteq DOMAIN volumes'
    BY <1>1
  <1>3. DOMAIN droplets' = DOMAIN droplets /\ \A i : Alive(i)' => Alive(i)
    BY <1>1 DEF Alive
  <1>4. Shape'
    BY <1>1, <1>2 DEF Safe, Shape
  <1>5. StoredKnown' /\ AliveAccounted'
    BY <1>3 DEF Safe, StoredKnown, StoredFor, AliveAccounted
  <1>6. Detaching'
    <2> SUFFICES ASSUME o.pc \in {"detach", "wait", "delete"}
                 PROVE  /\ o.at # 0
                        /\ Attached(o.at)' \subseteq o.todo
                        /\ o.ids \cap o.todo = {}
                        /\ hist.had \subseteq o.ids \cup o.todo
                        /\ \A k \in o.ids : volumes'[k].detach # "running"
                        /\ o.pc = "delete" => o.todo = {}
                        /\ o.pc = "wait" => /\ o.vol \in o.todo
                                            /\ volumes'[o.vol].detach = "completed" => volumes'[o.vol].at = 0
      BY DEF Detaching, DetachingFor, Attached
    <2>1. /\ o.at # 0 /\ Attached(o.at) \subseteq o.todo
          /\ o.ids \cap o.todo = {} /\ hist.had \subseteq o.ids \cup o.todo
          /\ \A k \in o.ids : volumes[k].detach # "running"
          /\ o.pc = "delete" => o.todo = {}
          /\ o.pc = "wait" => /\ o.vol \in o.todo
                              /\ volumes[o.vol].detach = "completed" => volumes[o.vol].at = 0
          /\ o.ids \subseteq DOMAIN volumes /\ o.todo \subseteq DOMAIN volumes
      BY DEF Safe, Detaching, DetachingFor, Shape
    <2>2. Attached(o.at)' \subseteq Attached(o.at)
      BY <1>2, <2>1 DEF Attached
    <2>3. \A k \in o.ids : volumes'[k].detach # "running"
      BY <1>2, <2>1
    <2>4. o.pc = "wait" => (volumes'[o.vol].detach = "completed" => volumes'[o.vol].at = 0)
      BY <1>2, <2>1
    <2> QED
      BY <2>1, <2>2, <2>3, <2>4
  <1>7. Carried'
    <2> SUFFICES ASSUME o.replace
                 PROVE  /\ o.pc # "read"
                        /\ o.pc \in {"quote", "resolve", "create"} =>
                              /\ hist.had \subseteq o.ids
                              /\ \A k \in hist.had : volumes'[k].detach # "running"
                        /\ o.pc \in {"ready", "output"} /\ Alive(o.at)' =>
                              \A k \in hist.had : Held(k, o.at)'
      BY DEF Carried, CarriedFor, Held
    <2>1. ASSUME o.pc \in {"quote", "resolve", "create"}
          PROVE  hist.had \subseteq o.ids /\ \A k \in hist.had : volumes'[k].detach # "running"
      <3>1. /\ hist.had \subseteq o.ids /\ \A k \in hist.had : volumes[k].detach # "running"
            /\ o.ids \subseteq DOMAIN volumes
        BY <2>1 DEF Safe, Carried, CarriedFor, Shape
      <3> QED
        BY <1>2, <3>1
    <2>2. ASSUME o.pc \in {"ready", "output"}, Alive(o.at)', NEW k \in hist.had
          PROVE  Held(k, o.at)'
      <3>1. k \in DOMAIN volumes /\ volumes[k].alive /\ volumes[k].at = o.at /\ volumes[k].detach # "running"
        BY <1>3, <2>2 DEF Safe, Carried, CarriedFor, Held
      <3>2. o.at \in DOMAIN droplets
        BY <1>3, <2>2 DEF Alive
      <3>3. volumes'[k].alive /\ volumes'[k].at = o.at /\ volumes'[k].detach # "running"
        BY <1>2, <2>2, <3>1, <3>2
      <3> QED
        BY <1>2, <3>1, <3>3 DEF Held
    <2>3. o.pc # "read"
      BY DEF Safe, Carried, CarriedFor
    <2> QED
      BY <2>1, <2>2, <2>3
  <1>8. VolumesCarriedOver'
    BY DEF Safe, VolumesCarriedOver
  <1> QED
    BY <1>4, <1>5, <1>6, <1>7, <1>8 DEF Safe

(* The service as it was.                                                   *)
LEMMA QuietKeeps ==
  ASSUME Safe, op' \in [Drivers -> OpRecs], o' = o, stored' = stored, hist' = hist, faults' \in Nat,
         used' = used, droplets' = droplets, volumes' = volumes
  PROVE  Safe'
  <1>1. /\ used \in [droplet : Nat, volume : Nat] /\ used.volume <= used.volume
        /\ droplets \in [1..used.droplet -> DropletRecs] /\ volumes \in [1..used.volume -> VolumeRecs]
        /\ DOMAIN volumes = 1..used.volume
    BY DEF Safe, Shape
  <1>2. \A i : Alive(i)' <=> Alive(i)
    BY DEF Alive
  <1> QED
    BY <1>1, <1>2, ElsewhereKeeps

(* One volume changed, where it is alone.                                   *)
LEMMA OneVolumeKeeps ==
  ASSUME Safe, op' \in [Drivers -> OpRecs], o' = o, stored' = stored, hist' = hist, faults' \in Nat,
         used' = used, droplets' = droplets, NEW k \in DOMAIN volumes, NEW new \in VolumeRecs,
         volumes' = [volumes EXCEPT ![k] = new],
         new.detach = "running" => volumes[k].detach = "running",
         new.at = 0 \/ (new.at = volumes[k].at /\ new.alive = volumes[k].alive),
         new.at = 0 => volumes[k].at = 0 \/ volumes[k].detach = "running",
         new.detach = "completed" => new.at = 0 \/ volumes[k].detach = "completed"
  PROVE  Safe'
  <1>1. /\ used \in [droplet : Nat, volume : Nat] /\ used.volume <= used.volume
        /\ droplets \in [1..used.droplet -> DropletRecs] /\ volumes \in [1..used.volume -> VolumeRecs]
        /\ DOMAIN volumes = 1..used.volume /\ DOMAIN droplets = 1..used.droplet
        /\ used.droplet \in Nat
    BY DEF Safe, Shape
  <1>2. \A i : Alive(i)' <=> Alive(i)
    BY DEF Alive
  <1>3. /\ volumes' \in [1..used.volume -> VolumeRecs]
        /\ volumes'[k] = new /\ \A j \in DOMAIN volumes : j # k => volumes'[j] = volumes[j]
    BY <1>1
  <1>4. \A j \in 1..used.volume :
            /\ volumes'[j].detach = "running" => volumes[j].detach = "running"
            /\ volumes'[j].at # 0 => volumes'[j].at = volumes[j].at /\ (volumes'[j].alive => volumes[j].alive)
            /\ volumes'[j].detach = "completed" => volumes'[j].at = 0 \/ volumes[j].detach = "completed"
    BY <1>1, <1>3
  <1>5. \A j \in DOMAIN volumes, i \in DOMAIN droplets :
            volumes[j].alive /\ volumes[j].at = i /\ Alive(i)' /\ volumes[j].detach # "running"
            => volumes'[j].alive /\ volumes'[j].at = i
    BY <1>1, <1>3
  <1> QED
    BY <1>1, <1>2, <1>3, <1>4, <1>5, ElsewhereKeeps

LEMMA BootsOK ==
  ASSUME Safe, NEW i \in 1..used.droplet, Boots(i)
  PROVE  Safe'
  <1>1. /\ used \in [droplet : Nat, volume : Nat] /\ used.volume <= used.volume
        /\ droplets \in [1..used.droplet -> DropletRecs] /\ volumes \in [1..used.volume -> VolumeRecs]
        /\ op \in [Drivers -> OpRecs] /\ faults \in Nat /\ DOMAIN volumes = 1..used.volume
        /\ DOMAIN droplets = 1..used.droplet
    BY DEF Safe, Shape
  <1>2. /\ op' = op /\ stored' = stored /\ hist' = hist /\ faults' = faults /\ used' = used
        /\ volumes' = volumes /\ Alive(i)
        /\ \/ droplets' = [droplets EXCEPT ![i].status = "active"]
           \/ droplets' = [droplets EXCEPT ![i].ip = TRUE]
    BY DEF Boots, others
  <1>3. droplets' \in [1..used.droplet -> DropletRecs] /\ DOMAIN droplets' = DOMAIN droplets
    <2>1. CASE droplets' = [droplets EXCEPT ![i].status = "active"]
      BY <1>1, <2>1 DEF DropletRecs
    <2>2. CASE droplets' = [droplets EXCEPT ![i].ip = TRUE]
      BY <1>1, <2>2 DEF DropletRecs
    <2> QED
      BY <1>2, <2>1, <2>2
  <1>4. \A j \in DOMAIN droplets : Alive(j)' => Alive(j)
    BY <1>1, <1>2, <1>3 DEF Alive
  <1>5. o' = o
    BY <1>2 DEF o
  <1> QED
    BY <1>1, <1>2, <1>3, <1>4, <1>5, ElsewhereKeeps

LEMMA DetachesOK ==
  ASSUME Safe, NEW k \in 1..used.volume, Detaches(k)
  PROVE  Safe'
  <1>1. /\ volumes \in [1..used.volume -> VolumeRecs] /\ volumes[k] \in VolumeRecs
        /\ op \in [Drivers -> OpRecs] /\ faults \in Nat /\ DOMAIN volumes = 1..used.volume
    BY DEF Safe, Shape
  <1>2. /\ op' = op /\ stored' = stored /\ hist' = hist /\ used' = used /\ droplets' = droplets
        /\ volumes[k].detach = "running" /\ faults' \in Nat
        /\ \/ volumes' = [volumes EXCEPT ![k].detach = "completed", ![k].at = 0]
           \/ volumes' = [volumes EXCEPT ![k].detach = "errored"]
    BY <1>1 DEF Detaches, others, Fault
  <1>3. o' = o
    BY <1>2 DEF o
  <1>4. CASE volumes' = [volumes EXCEPT ![k].detach = "completed", ![k].at = 0]
    <2> DEFINE new == [volumes[k] EXCEPT !.detach = "completed", !.at = 0]
    <2>1. volumes' = [volumes EXCEPT ![k] = new]
      BY <1>1, <1>4
    <2>2. new \in VolumeRecs /\ new.at = 0 /\ new.detach = "completed"
      BY <1>1 DEF VolumeRecs
    <2> QED
      BY <1>1, <1>2, <1>3, <2>1, <2>2, OneVolumeKeeps
  <1>5. CASE volumes' = [volumes EXCEPT ![k].detach = "errored"]
    <2> DEFINE new == [volumes[k] EXCEPT !.detach = "errored"]
    <2>1. volumes' = [volumes EXCEPT ![k] = new]
      BY <1>1, <1>5
    <2>2. new \in VolumeRecs /\ new.detach = "errored" /\ new.at = volumes[k].at
          /\ new.alive = volumes[k].alive
      BY <1>1 DEF VolumeRecs
    <2> QED
      BY <1>1, <1>2, <1>3, <2>1, <2>2, OneVolumeKeeps
  <1> QED
    BY <1>2, <1>4, <1>5

LEMMA GrowsOK ==
  ASSUME Safe, NEW k \in 1..used.volume, Grows(k)
  PROVE  Safe'
  <1>1. /\ volumes \in [1..used.volume -> VolumeRecs] /\ volumes[k] \in VolumeRecs
        /\ op \in [Drivers -> OpRecs] /\ faults \in Nat /\ DOMAIN volumes = 1..used.volume
    BY DEF Safe, Shape
  <1>2. /\ op' = op /\ stored' = stored /\ hist' = hist /\ used' = used /\ droplets' = droplets
        /\ faults' = faults
        /\ volumes' = [volumes EXCEPT ![k].size = volumes[k].target, ![k].target = 0]
    BY DEF Grows, others
  <1>3. o' = o
    BY <1>2 DEF o
  <1> DEFINE new == [volumes[k] EXCEPT !.size = volumes[k].target, !.target = 0]
  <1>4. volumes' = [volumes EXCEPT ![k] = new]
    BY <1>1, <1>2
  <1>5. new \in VolumeRecs /\ new.detach = volumes[k].detach /\ new.at = volumes[k].at
        /\ new.alive = volumes[k].alive
    BY <1>1 DEF VolumeRecs
  <1> QED
    BY <1>1, <1>2, <1>3, <1>4, <1>5, OneVolumeKeeps

LEMMA OperatorDeletesVolumeOK ==
  ASSUME Safe, NEW k \in 1..used.volume, OperatorDeletesVolume(k)
  PROVE  Safe'
  <1>1. /\ volumes \in [1..used.volume -> VolumeRecs] /\ volumes[k] \in VolumeRecs
        /\ op \in [Drivers -> OpRecs] /\ faults \in Nat /\ DOMAIN volumes = 1..used.volume
    BY DEF Safe, Shape
  <1>2. /\ op' = op /\ stored' = stored /\ hist' = hist /\ used' = used /\ droplets' = droplets
        /\ faults' \in Nat /\ volumes[k].at = 0
        /\ volumes' = [volumes EXCEPT ![k].alive = FALSE]
    BY <1>1 DEF OperatorDeletesVolume, others, Fault
  <1>3. o' = o
    BY <1>2 DEF o
  <1> DEFINE new == [volumes[k] EXCEPT !.alive = FALSE]
  <1>4. volumes' = [volumes EXCEPT ![k] = new]
    BY <1>1, <1>2
  <1>5. new \in VolumeRecs /\ new.detach = volumes[k].detach /\ new.at = 0
    BY <1>1, <1>2 DEF VolumeRecs
  <1> QED
    BY <1>1, <1>2, <1>3, <1>4, <1>5, OneVolumeKeeps

LEMMA PriceMovesOK ==
  ASSUME Safe, PriceMoves
  PROVE  Safe'
  <1>1. /\ op' = op /\ stored' = stored /\ hist' = hist /\ used' = used /\ droplets' = droplets
        /\ faults' \in Nat /\ volumes' = volumes
    BY DEF PriceMoves, others, Fault, Safe, Shape
  <1>2. o' = o /\ op \in [Drivers -> OpRecs]
    BY <1>1 DEF o, Safe, Shape
  <1> QED
    BY <1>1, <1>2, QuietKeeps

(* A droplet goes, and with it what it has attached.                        *)
LEMMA DestroyedFacts ==
  ASSUME Shape, NEW i \in DOMAIN droplets, Destroyed(i)
  PROVE  /\ used' = used
         /\ droplets' \in [1..used.droplet -> DropletRecs] /\ volumes' \in [1..used.volume -> VolumeRecs]
         /\ ~Alive(i)'
         /\ \A j : j # i => (Alive(j)' <=> Alive(j))
         /\ \A k \in DOMAIN volumes :
               /\ volumes'[k].detach = volumes[k].detach /\ volumes'[k].alive = volumes[k].alive
               /\ volumes[k].at # i => volumes'[k].at = volumes[k].at
               /\ volumes[k].alive /\ volumes[k].at = i => volumes'[k].at = 0
               /\ volumes'[k].at \in {0, volumes[k].at}
  <1>1. /\ used \in [droplet : Nat, volume : Nat]
        /\ droplets \in [1..used.droplet -> DropletRecs] /\ volumes \in [1..used.volume -> VolumeRecs]
        /\ DOMAIN volumes = 1..used.volume /\ DOMAIN droplets = 1..used.droplet
    BY DEF Shape
  <1>2. /\ droplets' = [droplets EXCEPT ![i].status = "gone"]
        /\ volumes' = [k \in DOMAIN volumes |-> IF k \in Attached(i) THEN [volumes[k] EXCEPT !.at = 0]
                                                ELSE volumes[k]]
        /\ used' = used
    BY DEF Destroyed
  <1>3. droplets' \in [1..used.droplet -> DropletRecs]
    BY <1>1, <1>2 DEF DropletRecs
  <1>4. ~Alive(i)' /\ \A j : j # i => (Alive(j)' <=> Alive(j))
    BY <1>1, <1>2, <1>3 DEF Alive
  <1>5. ASSUME NEW k \in DOMAIN volumes
        PROVE  /\ volumes'[k] \in VolumeRecs
               /\ volumes'[k].detach = volumes[k].detach /\ volumes'[k].alive = volumes[k].alive
               /\ volumes[k].at # i => volumes'[k].at = volumes[k].at
               /\ volumes[k].alive /\ volumes[k].at = i => volumes'[k].at = 0
               /\ volumes'[k].at \in {0, volumes[k].at}
    <2>1. volumes[k] \in VolumeRecs
      BY <1>1
    <2>2. CASE k \in Attached(i)
      <3>1. volumes'[k] = [volumes[k] EXCEPT !.at = 0]
        BY <1>2, <2>2
      <3> QED
        BY <2>1, <2>2, <3>1 DEF VolumeRecs, Attached
    <2>3. CASE k \notin Attached(i)
      <3>1. volumes'[k] = volumes[k]
        BY <1>2, <2>3
      <3> QED
        BY <2>1, <2>3, <3>1 DEF Attached
    <2> QED
      BY <2>2, <2>3
  <1>6. volumes' \in [1..used.volume -> VolumeRecs]
    BY <1>1, <1>2, <1>5
  <1> QED
    BY <1>2, <1>3, <1>4, <1>5, <1>6

LEMMA OperatorDeletesOK ==
  ASSUME Safe, NEW i \in 1..used.droplet, OperatorDeletes(i)
  PROVE  Safe'
  <1>1. /\ Shape /\ op \in [Drivers -> OpRecs] /\ faults \in Nat /\ DOMAIN volumes = 1..used.volume
        /\ DOMAIN droplets = 1..used.droplet /\ used \in [droplet : Nat, volume : Nat]
        /\ used.volume <= used.volume
    BY DEF Safe, Shape
  <1>2. /\ op' = op /\ stored' = stored /\ hist' = hist /\ faults' \in Nat /\ Destroyed(i) /\ Alive(i)
    BY <1>1 DEF OperatorDeletes, Fault
  <1>3. o' = o
    BY <1>2 DEF o
  <1>4. /\ used' = used
        /\ droplets' \in [1..used.droplet -> DropletRecs] /\ volumes' \in [1..used.volume -> VolumeRecs]
        /\ \A j : Alive(j)' => Alive(j) /\ j # i
        /\ \A k \in DOMAIN volumes :
               /\ volumes'[k].detach = volumes[k].detach /\ volumes'[k].alive = volumes[k].alive
               /\ volumes[k].at # i => volumes'[k].at = volumes[k].at
               /\ volumes'[k].at \in {0, volumes[k].at}
    BY <1>1, <1>2, DestroyedFacts
  <1>5. \A k \in 1..used'.volume :
            /\ volumes'[k].detach = "running" => k \in DOMAIN volumes /\ volumes[k].detach = "running"
            /\ volumes'[k].at # 0 => /\ k \in DOMAIN volumes /\ volumes'[k].at = volumes[k].at
                                     /\ volumes'[k].alive => volumes[k].alive
            /\ volumes'[k].detach = "completed" => k \in DOMAIN volumes /\ volumes[k].detach = "completed"
    BY <1>1, <1>4
  <1>6. \A k \in DOMAIN volumes, j \in DOMAIN droplets :
            volumes[k].alive /\ volumes[k].at = j /\ Alive(j)' /\ volumes[k].detach # "running"
            => volumes'[k].alive /\ volumes'[k].at = j
    BY <1>4
  <1> QED
    BY <1>1, <1>2, <1>3, <1>4, <1>5, <1>6, ElsewhereKeeps

---------------------------------------------------------------------------
(* The volume driver.                                                       *)

LEMMA VolumeFailsOK ==
  ASSUME Safe, Fails("volume"), faults' \in Nat
  PROVE  Safe'
  <1>1. /\ stored' = stored /\ hist' = hist /\ used' = used /\ droplets' = droplets
        /\ volumes' = volumes /\ To("volume", Idle)
    BY DEF Fails, End, Abandon, service
  <1>2. op' \in [Drivers -> OpRecs] /\ o' = o
    BY <1>1, IdleType, ToVolume DEF Safe
  <1> QED
    BY <1>1, <1>2, QuietKeeps

LEMMA VolumeBeginsOK ==
  ASSUME Safe, NEW pc \in Pcs, NEW v \in VolNames, NEW size \in Nat, BeginVolume(pc, v, size)
  PROVE  Safe'
  <1>1. /\ stored' = stored /\ hist' = hist /\ used' = used /\ droplets' = droplets
        /\ volumes' = volumes /\ faults' = faults
        /\ To("volume", [Idle EXCEPT !.pc = pc, !.name = v, !.size = size])
    BY DEF BeginVolume, Begin, service
  <1>2. [Idle EXCEPT !.pc = pc, !.name = v, !.size = size] \in OpRecs
    BY IdleType DEF OpRecs
  <1>3. op' \in [Drivers -> OpRecs] /\ o' = o
    BY <1>1, <1>2, ToVolume DEF Safe
  <1>4. faults \in Nat
    BY DEF Safe, Shape
  <1> QED
    BY <1>1, <1>3, <1>4, QuietKeeps

LEMMA VolumeDriverFacts ==
  ASSUME Safe
  PROVE  w \in OpRecs /\ faults \in Nat
  BY DEF Safe, Shape, w, Drivers

LEMMA CreateVolumeOK ==
  ASSUME Safe, CreateVolume
  PROVE  Safe'
  <1> DEFINE k == used.volume + 1
  <1>1. w \in OpRecs /\ faults \in Nat
    BY VolumeDriverFacts
  <1>2. CASE Named({w.name}) # {}
    BY <1>1, <1>2, VolumeFailsOK DEF CreateVolume
  <1>3. CASE Named({w.name}) = {}
    <2>0. /\ used' = [used EXCEPT !.volume = k]
          /\ volumes' = [j \in 1..k |-> IF j = k THEN NewVolume(w.name, w.size) ELSE volumes[j]]
          /\ To("volume", Idle)
          /\ UNCHANGED <<droplets, cheap, stored, hist, ops>>
          /\ (Store(w.name, k, w.size) /\ UNCHANGED faults) \/ (Fault /\ UNCHANGED disks)
      BY <1>3, Zenon DEF CreateVolume, End
    <2>1. droplets' = droplets /\ stored' = stored /\ hist' = hist /\ faults' \in Nat
      BY <1>1, <2>0 DEF Fault
    <2>2. op' \in [Drivers -> OpRecs] /\ o' = o
      BY <2>0, <2>1, IdleType, ToVolume DEF Safe
    <2>3. /\ used \in [droplet : Nat, volume : Nat] /\ DOMAIN volumes = 1..used.volume
          /\ volumes \in [1..used.volume -> VolumeRecs] /\ droplets \in [1..used.droplet -> DropletRecs]
      BY DEF Safe, Shape
    <2>4. /\ used' \in [droplet : Nat, volume : Nat] /\ used'.droplet = used.droplet
          /\ used'.volume = k /\ used.volume \in Nat
      BY <2>0, <2>1, <2>3
    <2>5. NewVolume(w.name, w.size) \in VolumeRecs /\ NewVolume(w.name, w.size).at = 0
          /\ NewVolume(w.name, w.size).detach = "none"
      BY <1>1 DEF NewVolume, VolumeRecs, OpRecs
    <2>6. /\ volumes' \in [1..k -> VolumeRecs] /\ volumes'[k] = NewVolume(w.name, w.size)
          /\ \A j \in 1..used.volume : volumes'[j] = volumes[j]
          /\ \A j \in 1..k : j = k \/ j \in 1..used.volume
      BY <2>0, <2>1, <2>3, <2>4, <2>5
    <2>7. \A i : Alive(i)' <=> Alive(i)
      BY <2>0, <2>1 DEF Alive
    <2>8. used.volume <= used'.volume
      BY <2>4
    <2> HIDE DEF k
    <2> QED
      BY <2>0, <2>1, <2>2, <2>3, <2>4, <2>5, <2>6, <2>7, <2>8, ElsewhereKeeps
  <1> QED
    BY <1>2, <1>3

LEMMA GetVolumeOK ==
  ASSUME Safe, GetVolume \/ ReadVolume
  PROVE  Safe'
  <1>1. w \in OpRecs /\ faults \in Nat /\ faults' = faults
    BY VolumeDriverFacts DEF GetVolume, ReadVolume
  <1>2. CASE Fails("volume")
    BY <1>1, <1>2, VolumeFailsOK
  <1>3. CASE /\ used' = used /\ volumes' = volumes /\ droplets' = droplets /\ stored' = stored
             /\ hist' = hist
             /\ To("volume", Idle) \/ To("volume", [w EXCEPT !.pc = "vol_resize"])
    <2>1. [w EXCEPT !.pc = "vol_resize"] \in OpRecs
      BY <1>1 DEF OpRecs, Pcs
    <2>2. op' \in [Drivers -> OpRecs] /\ o' = o
      BY <1>3, <2>1, IdleType, ToVolume DEF Safe
    <2> QED
      BY <1>1, <1>3, <2>2, QuietKeeps
  <1> QED
    BY <1>2, <1>3 DEF GetVolume, ReadVolume, End, service

(* A request about the volume in the state, that changes it in one field.   *)
LEMMA ResizeOK ==
  ASSUME Safe, Resize
  PROVE  Safe'
  <1>1. w \in OpRecs /\ faults \in Nat
    BY VolumeDriverFacts
  <1>2. CASE Fails("volume")
    BY <1>1, <1>2, VolumeFailsOK DEF Resize, Fault
  <1>3. CASE ~Fails("volume")
    <2>1. /\ volumes' = [volumes EXCEPT ![Mine].target = w.size]
          /\ used' = used /\ droplets' = droplets /\ stored' = stored /\ hist' = hist /\ faults' \in Nat
          /\ To("volume", Idle) \/ To("volume", [w EXCEPT !.pc = "vol_read"])
      BY <1>1, <1>3 DEF Resize, End, Fault
    <2>2. [w EXCEPT !.pc = "vol_read"] \in OpRecs
      BY <1>1 DEF OpRecs, Pcs
    <2>3. op' \in [Drivers -> OpRecs] /\ o' = o
      BY <2>1, <2>2, IdleType, ToVolume DEF Safe
    <2>4. volumes \in [1..used.volume -> VolumeRecs] /\ DOMAIN volumes = 1..used.volume
      BY DEF Safe, Shape
    <2>5. CASE Mine \in DOMAIN volumes
      <3>1. PICK k \in DOMAIN volumes : k = Mine
        BY <2>5
      <3>2. volumes[k] \in VolumeRecs /\ w.size \in Nat
        BY <1>1, <2>4 DEF OpRecs
      <3>3. PICK new : new = [volumes[k] EXCEPT !.target = w.size]
        OBVIOUS
      <3>4. /\ new \in VolumeRecs /\ new.detach = volumes[k].detach /\ new.at = volumes[k].at
            /\ new.alive = volumes[k].alive
        BY <3>2, <3>3 DEF VolumeRecs
      <3>5. volumes' = [volumes EXCEPT ![k] = new]
        BY <2>1, <2>4, <3>1, <3>2, <3>3
      <3> QED
        BY <2>1, <2>3, <3>4, <3>5, OneVolumeKeeps, ZenonT(60)
    <2>6. CASE Mine \notin DOMAIN volumes
      <3>1. volumes' = volumes
        BY <2>1, <2>4, <2>6
      <3> QED
        BY <2>1, <2>3, <3>1, QuietKeeps
    <2> QED
      BY <2>5, <2>6
  <1> QED
    BY <1>2, <1>3

LEMMA DeleteVolumeOK ==
  ASSUME Safe, DeleteVolume
  PROVE  Safe'
  <1>1. w \in OpRecs /\ faults \in Nat
    BY VolumeDriverFacts
  <1>2. CASE Fails("volume")
    BY <1>1, <1>2, VolumeFailsOK DEF DeleteVolume, Fault
  <1>3. CASE ~Fails("volume")
    <2>1. /\ volumes' = [volumes EXCEPT ![Mine].alive = FALSE] /\ volumes[Mine].at = 0
          /\ used' = used /\ droplets' = droplets /\ stored' = stored /\ hist' = hist /\ faults' \in Nat
          /\ To("volume", Idle)
      BY <1>1, <1>3 DEF DeleteVolume, End, Fault
    <2>2. op' \in [Drivers -> OpRecs] /\ o' = o
      BY <2>1, IdleType, ToVolume DEF Safe
    <2>3. volumes \in [1..used.volume -> VolumeRecs] /\ DOMAIN volumes = 1..used.volume
      BY DEF Safe, Shape
    <2>4. CASE Mine \in DOMAIN volumes
      <3>1. PICK k \in DOMAIN volumes : k = Mine
        BY <2>4
      <3>2. volumes[k] \in VolumeRecs /\ volumes[k].at = 0
        BY <2>1, <2>3, <3>1
      <3>3. PICK new : new = [volumes[k] EXCEPT !.alive = FALSE]
        OBVIOUS
      <3>4. new \in VolumeRecs /\ new.detach = volumes[k].detach /\ new.at = 0
        BY <3>2, <3>3 DEF VolumeRecs
      <3>5. volumes' = [volumes EXCEPT ![k] = new]
        BY <2>1, <2>3, <3>1, <3>2, <3>3
      <3> QED
        BY <2>1, <2>2, <3>2, <3>4, <3>5, OneVolumeKeeps
    <2>5. CASE Mine \notin DOMAIN volumes
      <3>1. volumes' = volumes
        BY <2>1, <2>3, <2>5
      <3> QED
        BY <2>1, <2>2, <3>1, QuietKeeps
    <2> QED
      BY <2>4, <2>5
  <1> QED
    BY <1>2, <1>3

---------------------------------------------------------------------------
(* The droplet driver.                                                      *)

(* The driver moves on and the service stays as it is.                      *)
LEMMA DriverKeeps ==
  ASSUME Safe, NEW new \in OpRecs, To("droplet", new), UNCHANGED <<droplets, volumes, used, stored, hist>>,
         faults' \in Nat,
         new.at \in 0..used.droplet, new.ids \subseteq DOMAIN volumes, new.todo \subseteq DOMAIN volumes,
         StoredFor(new), DetachingFor(new), CarriedFor(new),
         o.pc \in {"ready", "output"} => new.pc \in {"ready", "output"} /\ new.at = o.at
  PROVE  Safe'
  <1>1. op' \in [Drivers -> OpRecs] /\ o' = new
    BY ToDroplet DEF Safe
  <1>2. \A i : Alive(i)' <=> Alive(i)
    BY DEF Alive
  <1>3. Shape'
    BY <1>1 DEF Safe, Shape
  <1>4. StoredKnown' /\ Detaching' /\ Carried' /\ VolumesCarriedOver'
    BY <1>1 DEF Safe, StoredKnown, StoredFor, Detaching, DetachingFor, Carried, CarriedFor,
                VolumesCarriedOver, Alive, Attached, Held
  <1>5. AliveAccounted'
    BY <1>1, <1>2 DEF Safe, AliveAccounted
  <1> QED
    BY <1>3, <1>4, <1>5 DEF Safe

LEMMA DropletFailsOK ==
  ASSUME Safe, Fails("droplet"), faults' \in Nat, o.pc # "output"
  PROVE  Safe'
  <1>1. /\ UNCHANGED <<droplets, volumes, used, stored>> /\ To("droplet", Idle)
        /\ hist' = IF o.pc = "ready" THEN [hist EXCEPT !.lost = @ \cup {o.at}] ELSE hist
    BY DEF Fails, End, Abandon, service, o
  <1>2. op' \in [Drivers -> OpRecs] /\ o' = Idle
    BY <1>1, IdleType, ToDroplet DEF Safe
  <1>3. /\ hist \in HistRecs
        /\ o.at \in Nat /\ used.droplet \in Nat
    BY DEF Safe, Shape
  <1>4. /\ hist' \in HistRecs
        /\ hist'.left = hist.left /\ hist.lost \subseteq hist'.lost
        /\ o.pc = "ready" => o.at \in hist'.lost
    BY <1>1, <1>3 DEF HistRecs
  <1>5. Shape'
    <2>1. o'.at = 0 /\ o'.ids = {} /\ o'.todo = {}
      BY <1>2, IdleType
    <2>2. /\ used' \in [droplet : Nat, volume : Nat]
          /\ droplets' \in [1..used'.droplet -> DropletRecs]
          /\ volumes' \in [1..used'.volume -> VolumeRecs]
          /\ stored'.id \in 0..used'.droplet
      BY <1>1 DEF Safe, Shape
    <2>3. o'.at \in 0..used'.droplet
      BY <1>1, <1>3, <2>1
    <2> QED
      BY <1>2, <1>4, <2>1, <2>2, <2>3 DEF Shape
  <1>6. StoredKnown' /\ Detaching' /\ Carried' /\ VolumesCarriedOver'
    BY <1>2, <1>4, IdleType DEF Safe, StoredKnown, StoredFor, Detaching, DetachingFor, Carried, CarriedFor,
                      VolumesCarriedOver
  <1>7. AliveAccounted'
    <2>1. DOMAIN droplets' = DOMAIN droplets /\ \A i : Alive(i)' => Alive(i)
      BY <1>1 DEF Alive
    <2> QED
      BY <1>1, <1>4, <2>1 DEF Safe, AliveAccounted
  <1> QED
    BY <1>5, <1>6, <1>7 DEF Safe

LEMMA DriverFacts ==
  ASSUME Safe
  PROVE  /\ o \in OpRecs /\ faults \in Nat /\ used.droplet \in Nat
         /\ o.at \in 0..used.droplet /\ stored.id \in 0..used.droplet
         /\ o.ids \subseteq DOMAIN volumes /\ o.todo \subseteq DOMAIN volumes
         /\ DOMAIN volumes \subseteq Nat
         /\ StoredFor(o) /\ DetachingFor(o) /\ CarriedFor(o)
  BY ShapeFacts DEF Safe, Shape, StoredKnown, Detaching, Carried

(* The beginnings.                                                          *)
LEMMA DropletBeginsOK ==
  ASSUME Safe, \/ \E conf \in Configs : BeginCreate(conf) \/ BeginReplace(conf)
               \/ BeginRead \/ BeginDelete
  PROVE  Safe'
  <1>0. /\ o \in OpRecs /\ faults \in Nat /\ used.droplet \in Nat /\ stored.id \in 0..used.droplet
        /\ stored.id \in Nat
    BY DriverFacts
  <1>1. ~Alive(0)
    BY ShapeFacts, SMTT(30) DEF Safe, Alive
  <1>2. PICK new : /\ Begin("droplet", new)
                   /\ \/ \E conf \in Configs :
                           \/ stored.id = 0 /\ new = [Idle EXCEPT !.pc = "quote", !.conf = conf]
                           \/ new = [Idle EXCEPT !.pc = "preflight", !.conf = conf, !.replace = TRUE,
                                                !.at = stored.id]
                      \/ new = [Idle EXCEPT !.pc = "read", !.at = stored.id]
                      \/ new = [Idle EXCEPT !.pc = "remove", !.at = stored.id]
    BY ZenonT(60) DEF BeginCreate, BeginReplace, BeginRead, BeginDelete
  <1>3. /\ To("droplet", new) /\ UNCHANGED <<droplets, volumes, used, stored, hist, faults>> /\ o.pc = "idle"
    BY <1>2, ZenonT(60) DEF Begin, service, At, o
  <1>4. /\ new \in OpRecs /\ new.ids = {} /\ new.todo = {} /\ new.at \in 0..used.droplet
        /\ \/ new.pc = "quote" /\ ~new.replace /\ stored.id = 0
           \/ new.pc \in {"read", "remove"} /\ ~new.replace /\ new.at = stored.id
           \/ new.pc = "preflight" /\ new.at = stored.id
    <2>1. ASSUME NEW conf \in Configs, stored.id = 0, new = [Idle EXCEPT !.pc = "quote", !.conf = conf]
          PROVE  <1>4!:
      BY <1>0, <2>1, IdleType DEF OpRecs, Pcs, Confs
    <2>2. ASSUME NEW conf \in Configs, new = [Idle EXCEPT !.pc = "preflight", !.conf = conf, !.replace = TRUE,
                                                        !.at = stored.id]
          PROVE  <1>4!:
      BY <1>0, <2>2, IdleType DEF OpRecs, Pcs, Confs
    <2>3. CASE \/ new = [Idle EXCEPT !.pc = "read", !.at = stored.id]
               \/ new = [Idle EXCEPT !.pc = "remove", !.at = stored.id]
      BY <1>0, <2>3, IdleType DEF OpRecs, Pcs
    <2> QED
      BY <1>2, <2>1, <2>2, <2>3
  <1>5. StoredFor(new) /\ DetachingFor(new) /\ CarriedFor(new)
    BY <1>1, <1>4 DEF StoredFor, DetachingFor, CarriedFor
  <1> QED
    BY <1>0, <1>3, <1>4, <1>5, DriverKeeps

(* A step that only moves to another point of the operation.                *)
LEMMA PointKeeps ==
  ASSUME Safe, NEW pc \in Pcs, To("droplet", [o EXCEPT !.pc = pc]),
         UNCHANGED <<droplets, volumes, used, stored, hist, faults>>,
         \/ o.pc = "quote" /\ pc \in {"create", "resolve"}
         \/ o.pc = "preflight" /\ pc = "get"
  PROVE  Safe'
  <1>1. /\ o \in OpRecs /\ faults \in Nat /\ o.at \in 0..used.droplet
        /\ o.ids \subseteq DOMAIN volumes /\ o.todo \subseteq DOMAIN volumes
        /\ StoredFor(o) /\ DetachingFor(o) /\ CarriedFor(o)
    BY DriverFacts
  <1>2. PICK new : new = [o EXCEPT !.pc = pc]
    OBVIOUS
  <1>3. /\ new \in OpRecs /\ new.pc = pc /\ new.at = o.at /\ new.ids = o.ids /\ new.todo = o.todo
        /\ new.replace = o.replace
    BY <1>1, <1>2 DEF OpRecs
  <1>4. StoredFor(new) /\ DetachingFor(new) /\ CarriedFor(new)
    BY <1>1, <1>3 DEF StoredFor, DetachingFor, CarriedFor
  <1> QED
    BY <1>1, <1>2, <1>3, <1>4, DriverKeeps

LEMMA QuoteOK ==
  ASSUME Safe, Quote
  PROVE  Safe'
  <1>1. o.pc = "quote" /\ faults' = faults /\ faults \in Nat
    BY DriverFacts DEF Quote, Look, At, o
  <1>2. CASE Fails("droplet")
    BY <1>1, <1>2, DropletFailsOK
  <1>3. CASE To("droplet", Create(o.ids)) /\ UNCHANGED <<service, stored, disks, hist, ops>>
    <2>1. PICK pc : pc = IF o.ids # {} \/ o.conf.vols = {} THEN "create" ELSE "resolve"
      OBVIOUS
    <2>2. pc \in {"create", "resolve"} /\ pc \in Pcs
      BY <2>1 DEF Pcs
    <2>3. To("droplet", [o EXCEPT !.pc = pc])
      BY <1>3, <2>1 DEF Create
    <2> QED
      BY <1>1, <1>3, <2>2, <2>3, PointKeeps DEF service
  <1> QED
    BY <1>2, <1>3 DEF Quote, Look

LEMMA PreflightOK ==
  ASSUME Safe, Preflight
  PROVE  Safe'
  <1>1. o.pc = "preflight" /\ faults' = faults /\ faults \in Nat /\ "get" \in Pcs
    BY DriverFacts DEF Preflight, Look, At, o, Pcs
  <1>2. CASE Fails("droplet")
    BY <1>1, <1>2, DropletFailsOK
  <1>3. CASE To("droplet", [o EXCEPT !.pc = "get"]) /\ UNCHANGED <<service, stored, disks, hist, ops>>
    BY <1>1, <1>3, PointKeeps DEF service
  <1> QED
    BY <1>2, <1>3 DEF Preflight, Look

LEMMA ResolveOK ==
  ASSUME Safe, resolveDropletVolumes
  PROVE  Safe'
  <1>1. o.pc = "resolve" /\ faults' = faults
    BY DEF resolveDropletVolumes, Look, At, o
  <1>2. /\ o \in OpRecs /\ faults \in Nat /\ o.at \in 0..used.droplet
        /\ o.ids \subseteq DOMAIN volumes /\ o.todo \subseteq DOMAIN volumes /\ DOMAIN volumes \subseteq Nat
        /\ StoredFor(o) /\ DetachingFor(o) /\ CarriedFor(o)
    BY DriverFacts
  <1>3. CASE Fails("droplet")
    BY <1>1, <1>2, <1>3, DropletFailsOK
  <1>4. ASSUME NEW v \in o.conf.vols,
               To("droplet", [o EXCEPT !.names = @ \cup {v}, !.ids = @ \cup Named({v}),
                              !.pc = IF o.conf.vols = o.names \cup {v} THEN "create" ELSE @]),
               UNCHANGED <<service, stored, disks, hist, ops>>
        PROVE  Safe'
    <2>1. PICK pc : pc = IF o.conf.vols = o.names \cup {v} THEN "create" ELSE o.pc
      OBVIOUS
    <2>2. PICK found : found = Named({v})
      OBVIOUS
    <2>3. PICK new : new = [o EXCEPT !.names = @ \cup {v}, !.ids = @ \cup found, !.pc = pc]
      OBVIOUS
    <2>4. pc \in {"create", "resolve"} /\ found \subseteq DOMAIN volumes
      BY <1>1, <2>1, <2>2 DEF Named
    <2>5. v \in AnyName
      BY <1>2 DEF AnyName, OpRecs
    <2>6. /\ new \in OpRecs /\ new.pc = pc /\ new.at = o.at /\ new.ids = o.ids \cup found
          /\ new.todo = o.todo /\ new.replace = o.replace
      BY <1>2, <2>3, <2>4, <2>5 DEF OpRecs, Pcs
    <2>7. StoredFor(new) /\ DetachingFor(new) /\ CarriedFor(new)
      BY <1>1, <1>2, <2>4, <2>6 DEF StoredFor, DetachingFor, CarriedFor
    <2>8. To("droplet", new)
      BY <1>4, <2>1, <2>2, <2>3
    <2>9. new.ids \subseteq DOMAIN volumes
      BY <1>2, <2>4, <2>6
    <2> QED
      BY <1>1, <1>2, <1>4, <2>6, <2>7, <2>8, <2>9, DriverKeeps DEF service
  <1> QED
    BY <1>3, <1>4 DEF resolveDropletVolumes, Look

(* The reading of a droplet begins.                                         *)
LEMMA ReadingKeeps ==
  ASSUME Safe, Alive(o.at), To("droplet", Reading(o.at)), UNCHANGED <<droplets, volumes, used, stored, hist, faults>>,
         o.pc \in {"read", "ready"}
  PROVE  Safe'
  <1>1. /\ o \in OpRecs /\ faults \in Nat /\ o.at \in 0..used.droplet /\ o.at \in Nat
        /\ o.ids \subseteq DOMAIN volumes /\ DOMAIN volumes \subseteq Nat
        /\ StoredFor(o) /\ CarriedFor(o)
        /\ droplets[o.at] \in DropletRecs
    BY DriverFacts, ShapeFacts DEF Alive, Safe
  <1>2. PICK todo : todo = Attached(o.at)
    OBVIOUS
  <1>3. PICK ip : ip = droplets[o.at].ip
    OBVIOUS
  <1>4. todo \subseteq DOMAIN volumes /\ ip \in BOOLEAN
    BY <1>1, <1>2, <1>3 DEF Attached, DropletRecs
  <1>5. PICK new : new = [o EXCEPT !.pc = "output", !.at = o.at, !.todo = todo, !.names = {}, !.ip = ip]
    OBVIOUS
  <1>6. /\ new \in OpRecs /\ new.pc = "output" /\ new.at = o.at /\ new.ids = o.ids /\ new.todo = todo
        /\ new.replace = o.replace
    BY <1>1, <1>4, <1>5 DEF OpRecs, Pcs
  <1>7. To("droplet", new)
    BY <1>2, <1>3, <1>5 DEF Reading
  <1>8. StoredFor(new) /\ DetachingFor(new)
    BY <1>1, <1>6 DEF StoredFor, DetachingFor
  <1>9. CarriedFor(new)
    BY <1>1, <1>6 DEF CarriedFor
  <1> QED
    BY <1>1, <1>4, <1>6, <1>7, <1>8, <1>9, DriverKeeps

LEMMA WaitReadyOK ==
  ASSUME Safe, waitForDropletReady
  PROVE  Safe'
  <1>1. o.pc = "ready" /\ faults' = faults /\ faults \in Nat
    BY DriverFacts DEF waitForDropletReady, At, o
  <1>2. CASE Fails("droplet")
    BY <1>1, <1>2, DropletFailsOK
  <1>3. CASE Alive(o.at) /\ To("droplet", Reading(o.at)) /\ UNCHANGED <<service, stored, disks, hist, ops>>
    BY <1>1, <1>3, ReadingKeeps DEF service
  <1> QED
    BY <1>2, <1>3 DEF waitForDropletReady

LEMMA ReadOK ==
  ASSUME Safe, Read
  PROVE  Safe'
  <1>1. o.pc = "read" /\ faults' = faults /\ faults \in Nat
    BY DriverFacts DEF Read, Look, At, o
  <1>2. CASE Fails("droplet")
    BY <1>1, <1>2, DropletFailsOK
  <1>3. CASE Alive(o.at) /\ To("droplet", Reading(o.at)) /\ UNCHANGED <<service, stored, disks, hist, ops>>
    BY <1>1, <1>3, ReadingKeeps DEF service
  <1> QED
    BY <1>2, <1>3 DEF Read, Look

LEMMA NameVolumeOK ==
  ASSUME Safe, NameVolume
  PROVE  Safe'
  <1>1. o.pc = "output" /\ UNCHANGED <<droplets, volumes, used, stored, hist>>
    BY DEF NameVolume, At, o, service
  <1>2. /\ o \in OpRecs /\ faults \in Nat /\ o.at \in 0..used.droplet
        /\ o.ids \subseteq DOMAIN volumes /\ o.todo \subseteq DOMAIN volumes
        /\ StoredFor(o) /\ DetachingFor(o) /\ CarriedFor(o)
    BY DriverFacts
  <1>3. PICK k \in o.todo : \E name :
          /\ To("droplet", [o EXCEPT !.todo = @ \ {k}, !.names = @ \cup {name}])
          /\ name = VolumeName(k) \/ name = RawId
    BY DEF NameVolume
  <1>a. PICK name :
          /\ To("droplet", [o EXCEPT !.todo = @ \ {k}, !.names = @ \cup {name}])
          /\ name = VolumeName(k) \/ name = RawId
    BY <1>3
  <1>4. faults' \in Nat
    BY <1>2 DEF NameVolume, Fault
  <1>5. volumes[k] \in VolumeRecs
    BY <1>2, ShapeFacts DEF Safe
  <1>6. CASE name \in AnyName
    <2>1. PICK new : new = [o EXCEPT !.todo = @ \ {k}, !.names = @ \cup {name}]
      OBVIOUS
    <2>2. /\ new \in OpRecs /\ new.pc = "output" /\ new.at = o.at /\ new.ids = o.ids
          /\ new.todo = o.todo \ {k} /\ new.replace = o.replace
      BY <1>1, <1>2, <1>6, <2>1 DEF OpRecs
    <2>3. StoredFor(new) /\ DetachingFor(new) /\ CarriedFor(new)
      BY <1>1, <1>2, <2>2 DEF StoredFor, DetachingFor, CarriedFor
    <2> QED
      BY <1>1, <1>2, <1>3, <1>a, <1>4, <2>1, <2>2, <2>3, DriverKeeps
  <1>7. name \in AnyName
    BY <1>3, <1>a, <1>5 DEF VolumeName, VolumeRecs, AnyName
  <1> QED
    BY <1>6, <1>7

(* A driver that has ended, whatever became of the service.                 *)
LEMMA IdleKeeps ==
  ASSUME Safe, To("droplet", Idle), faults' \in Nat,
         used' \in [droplet : Nat, volume : Nat],
         droplets' \in [1..used'.droplet -> DropletRecs], volumes' \in [1..used'.volume -> VolumeRecs],
         stored'.id \in 0..used'.droplet, hist' \in HistRecs, hist'.left = {}, AliveAccounted'
  PROVE  Safe'
  <1>1. op' \in [Drivers -> OpRecs] /\ o' = Idle
    BY IdleType, ToDroplet DEF Safe
  <1>2. o'.at = 0 /\ o'.ids = {} /\ o'.todo = {} /\ o'.pc = "idle" /\ ~o'.replace
    BY <1>1, IdleType
  <1>3. used'.droplet \in Nat
    OBVIOUS
  <1>4. o'.at \in 0..used'.droplet
    BY <1>2, <1>3
  <1>5. Shape'
    BY <1>1, <1>2, <1>4 DEF Shape
  <1>6. StoredKnown' /\ Detaching' /\ Carried' /\ VolumesCarriedOver'
    BY <1>2 DEF StoredKnown, StoredFor, Detaching, DetachingFor, Carried, CarriedFor, VolumesCarriedOver
  <1> QED
    BY <1>5, <1>6 DEF Safe

LEMMA OutputOK ==
  ASSUME Safe, dropletOutput
  PROVE  Safe'
  <1>1. /\ o.pc = "output" /\ UNCHANGED <<droplets, volumes, used, faults>> /\ To("droplet", Idle)
        /\ stored'.id = o.at
        /\ \/ hist' = hist
           \/ /\ Alive(o.at)
              /\ hist' = [hist EXCEPT !.had = {}, !.left = IF o.replace THEN hist.had \ Attached(o.at) ELSE {},
                                     !.missing = Named(o.conf.vols) \ Attached(o.at)]
    BY DEF dropletOutput, At, o, service, End
  <1>2. /\ faults \in Nat /\ o.at \in 0..used.droplet /\ StoredFor(o) /\ CarriedFor(o)
        /\ DOMAIN volumes \subseteq Nat
    BY DriverFacts
  <1>3. /\ hist \in HistRecs /\ hist.left = {} /\ used \in [droplet : Nat, volume : Nat]
        /\ droplets \in [1..used.droplet -> DropletRecs] /\ volumes \in [1..used.volume -> VolumeRecs]
        /\ AliveAccounted
    BY DEF Safe, Shape, VolumesCarriedOver
  <1>4. hist' \in HistRecs /\ hist'.left = {} /\ hist'.lost = hist.lost
    <2>1. CASE hist' = hist
      BY <1>3, <2>1
    <2>2. CASE /\ Alive(o.at)
               /\ hist' = [hist EXCEPT !.had = {}, !.left = IF o.replace THEN hist.had \ Attached(o.at) ELSE {},
                                      !.missing = Named(o.conf.vols) \ Attached(o.at)]
      <3>1. PICK left : left = IF o.replace THEN hist.had \ Attached(o.at) ELSE {}
        OBVIOUS
      <3>2. PICK missing : missing = Named(o.conf.vols) \ Attached(o.at)
        OBVIOUS
      <3>3. left = {}
        BY <1>1, <1>2, <2>2, <3>1 DEF CarriedFor, Held, Attached
      <3>4. missing \subseteq Nat
        BY <1>2, <3>2 DEF Named
      <3>5. hist' = [hist EXCEPT !.had = {}, !.left = left, !.missing = missing]
        BY <2>2, <3>1, <3>2
      <3> QED
        BY <1>3, <3>3, <3>4, <3>5 DEF HistRecs
    <2> QED
      BY <1>1, <2>1, <2>2
  <1>5. AliveAccounted'
    <2>1. DOMAIN droplets' = DOMAIN droplets /\ \A i : Alive(i)' => Alive(i)
      BY <1>1 DEF Alive
    <2> SUFFICES ASSUME NEW i \in DOMAIN droplets, Alive(i)
                 PROVE  i \in {stored'.id} \cup hist'.lost
      BY <2>1 DEF AliveAccounted
    <2>2. i \in {stored.id} \cup hist.lost \/ o.at = i
      BY <1>3 DEF AliveAccounted
    <2> QED
      BY <1>1, <1>2, <1>4, <2>2 DEF StoredFor
  <1> QED
    BY <1>1, <1>2, <1>3, <1>4, <1>5, IdleKeeps

LEMMA DeleteOK ==
  ASSUME Safe, Delete
  PROVE  Safe'
  <1>1. o.pc = "remove"
    BY DEF Delete, At, o
  <1>2. /\ faults \in Nat /\ o.at \in 0..used.droplet /\ o.at = stored.id /\ stored.id \in 0..used.droplet
        /\ used.droplet \in Nat
    BY <1>1, DriverFacts DEF StoredFor
  <1>3. CASE Fails("droplet") /\ UNCHANGED faults
    BY <1>1, <1>2, <1>3, DropletFailsOK
  <1>4. CASE /\ Alive(o.at) /\ Destroyed(o.at) /\ To("droplet", Idle) /\ hist' = hist
             /\ (stored' = NoState /\ UNCHANGED faults) \/ (Fault /\ UNCHANGED stored)
    <2>1. /\ hist \in HistRecs /\ hist.left = {} /\ used \in [droplet : Nat, volume : Nat]
          /\ AliveAccounted /\ Shape
      BY DEF Safe, Shape, VolumesCarriedOver
    <2>2. PICK i \in DOMAIN droplets : i = o.at
      BY <1>4 DEF Alive
    <2>3. Destroyed(i)
      BY <1>4, <2>2
    <2>4. /\ used' = used
          /\ droplets' \in [1..used.droplet -> DropletRecs] /\ volumes' \in [1..used.volume -> VolumeRecs]
          /\ ~Alive(i)' /\ \A j : j # i => (Alive(j)' <=> Alive(j))
      BY <2>1, <2>3, DestroyedFacts
    <2>5. /\ stored'.id \in 0..used.droplet /\ faults' \in Nat
      BY <1>2, <1>4 DEF NoState, Fault
    <2>6. AliveAccounted'
      <3>1. DOMAIN droplets' = DOMAIN droplets
        BY <2>1, <2>4 DEF Shape
      <3> QED
        BY <1>1, <1>2, <1>4, <2>1, <2>2, <2>4, <3>1 DEF AliveAccounted
    <2> QED
      BY <1>4, <2>1, <2>4, <2>5, <2>6, IdleKeeps
  <1> QED
    BY <1>3, <1>4 DEF Delete, End

(* What AfterDetach makes of the operation.                                 *)
LEMMA AfterDetachFacts ==
  ASSUME o \in OpRecs, NEW left \in SUBSET Nat, NEW ids \in SUBSET Nat
  PROVE  LET new == AfterDetach(left, ids) IN
         /\ new \in OpRecs /\ new.pc \in {"detach", "delete"} /\ (new.pc = "delete" <=> left = {})
         /\ new.at = o.at /\ new.todo = left /\ new.ids = ids /\ new.replace = o.replace
  <1>1. PICK pc : pc = IF left # {} THEN "detach" ELSE "delete"
    OBVIOUS
  <1>2. AfterDetach(left, ids) = [o EXCEPT !.pc = pc, !.todo = left, !.ids = ids]
    BY <1>1 DEF AfterDetach
  <1>3. pc \in {"detach", "delete"} /\ (pc = "delete" <=> left = {})
    BY <1>1
  <1> QED
    BY <1>2, <1>3 DEF OpRecs, Pcs

LEMMA ReadOldOK ==
  ASSUME Safe, ReadOld
  PROVE  Safe'
  <1>1. /\ o.pc = "get" /\ UNCHANGED <<droplets, volumes, used, stored, faults>>
        /\ hist' = [hist EXCEPT !.had = IF Alive(o.at) THEN Attached(o.at) ELSE {}]
    BY DEF ReadOld, At, o, service
  <1>2. /\ o \in OpRecs /\ faults \in Nat /\ o.at \in 0..used.droplet /\ DOMAIN volumes \subseteq Nat
        /\ o.ids \subseteq DOMAIN volumes /\ o.todo \subseteq DOMAIN volumes
        /\ StoredFor(o)
    BY DriverFacts
  <1>3. PICK had : had = IF Alive(o.at) THEN Attached(o.at) ELSE {}
    OBVIOUS
  <1>4. had \subseteq DOMAIN volumes /\ hist \in HistRecs
    BY <1>3 DEF Attached, Safe, Shape
  <1>5. hist' \in HistRecs /\ hist'.had = had /\ hist'.left = hist.left /\ hist'.lost = hist.lost
    BY <1>1, <1>2, <1>3, <1>4 DEF HistRecs
  <1>6. PICK new : new = IF Alive(o.at) THEN AfterDetach(Attached(o.at), {}) ELSE [o EXCEPT !.pc = "quote"]
    OBVIOUS
  <1>7. To("droplet", new)
    BY <1>6 DEF ReadOld
  <1>8. /\ new \in OpRecs /\ new.at = o.at
        /\ \/ /\ Alive(o.at) /\ new.pc \in {"detach", "delete"} /\ (new.pc = "delete" <=> had = {})
              /\ new.todo = had /\ new.ids = {}
           \/ ~Alive(o.at) /\ new.pc = "quote" /\ new.todo = o.todo /\ new.ids = o.ids /\ had = {}
    <2>1. CASE Alive(o.at)
      <3>1. new = AfterDetach(had, {})
        BY <1>3, <1>6, <2>1
      <3>2. had \in SUBSET Nat /\ {} \in SUBSET Nat
        BY <1>2, <1>4
      <3> QED
        BY <1>2, <2>1, <3>1, <3>2, AfterDetachFacts
    <2>2. CASE ~Alive(o.at)
      <3>1. new = [o EXCEPT !.pc = "quote"]
        BY <1>6, <2>2
      <3> QED
        BY <1>2, <1>3, <2>2, <3>1 DEF OpRecs, Pcs
    <2> QED
      BY <2>1, <2>2
  <1>9. op' \in [Drivers -> OpRecs] /\ o' = new
    BY <1>7, <1>8, ToDroplet DEF Safe
  <1>10. Shape'
    BY <1>1, <1>2, <1>4, <1>5, <1>8, <1>9 DEF Safe, Shape
  <1>11. \A i : (Alive(i)' <=> Alive(i)) /\ (Attached(i)' = Attached(i))
    BY <1>1 DEF Alive, Attached
  <1>12. StoredKnown'
    BY <1>1, <1>2, <1>8, <1>9, <1>11 DEF StoredKnown, StoredFor
  <1>13. AliveAccounted'
    BY <1>1, <1>5, <1>11 DEF Safe, AliveAccounted
  <1>14. Detaching'
    <2>1. Alive(o.at) => o.at # 0 /\ Attached(o.at) = had
      BY <1>3, ShapeFacts DEF Alive, Safe
    <2>2. \A i \in {o.at} : Attached(i)' = Attached(i)
      BY <1>11
    <2>3. Attached(new.at)' = Attached(new.at)
      BY <1>11
    <2> SUFFICES ASSUME new.pc \in {"detach", "wait", "delete"}
                 PROVE  /\ new.at # 0
                        /\ Attached(new.at) \subseteq new.todo
                        /\ new.ids \cap new.todo = {}
                        /\ had \subseteq new.ids \cup new.todo
                        /\ \A k \in new.ids : volumes'[k].detach # "running"
                        /\ new.pc = "delete" => new.todo = {}
                        /\ new.pc # "wait"
      BY <1>5, <1>9, <2>3 DEF Detaching, DetachingFor, Attached
    <2> QED
      BY <1>8, <2>1
  <1>15. Carried' /\ VolumesCarriedOver'
    BY <1>5, <1>8, <1>9 DEF Carried, CarriedFor, Safe, VolumesCarriedOver
  <1> QED
    BY <1>10, <1>12, <1>13, <1>14, <1>15 DEF Safe

LEMMA DetachOK ==
  ASSUME Safe, DetachByDropletID
  PROVE  Safe'
  <1>1. o.pc = "detach"
    BY DEF DetachByDropletID, At, o
  <1>2. /\ o \in OpRecs /\ faults \in Nat /\ o.at \in 0..used.droplet /\ DOMAIN volumes \subseteq Nat
        /\ o.ids \subseteq DOMAIN volumes /\ o.todo \subseteq DOMAIN volumes
        /\ StoredFor(o) /\ DetachingFor(o)
    BY DriverFacts
  <1>3. CASE Fails("droplet") /\ UNCHANGED faults
    BY <1>1, <1>2, <1>3, DropletFailsOK
  <1>4. ASSUME NEW k \in o.todo, volumes' = [volumes EXCEPT ![k].detach = "running"],
               \/ To("droplet", [o EXCEPT !.pc = "wait", !.vol = k]) /\ UNCHANGED faults
               \/ To("droplet", Idle) /\ Fault,
               UNCHANGED <<droplets, cheap, used, stored, disks, hist, ops>>
        PROVE  Safe'
    <2>1. /\ volumes \in [1..used.volume -> VolumeRecs] /\ DOMAIN volumes = 1..used.volume
          /\ k \in DOMAIN volumes /\ volumes[k] \in VolumeRecs
          /\ used \in [droplet : Nat, volume : Nat] /\ droplets \in [1..used.droplet -> DropletRecs]
          /\ stored.id \in 0..used.droplet /\ hist \in HistRecs /\ hist.left = {} /\ AliveAccounted
      BY <1>2 DEF Safe, Shape, VolumesCarriedOver
    <2>2. volumes' = [volumes EXCEPT ![k] = [volumes[k] EXCEPT !.detach = "running"]]
      BY <1>4, <2>1
    <2>3. /\ volumes' \in [1..used.volume -> VolumeRecs] /\ DOMAIN volumes' = DOMAIN volumes
          /\ volumes'[k].detach = "running" /\ volumes'[k].at = volumes[k].at
          /\ volumes'[k].alive = volumes[k].alive
          /\ \A j \in DOMAIN volumes : j # k => volumes'[j] = volumes[j]
      BY <2>1, <2>2 DEF VolumeRecs
    <2>4. \A i : Alive(i)' <=> Alive(i)
      BY <1>4 DEF Alive
    <2>5. CASE To("droplet", Idle) /\ Fault
      <3>1. AliveAccounted'
        BY <1>1, <1>4, <2>1, <2>4 DEF AliveAccounted
      <3>2. faults' \in Nat
        BY <1>2, <2>5 DEF Fault
      <3> QED
        BY <1>4, <2>1, <2>3, <2>5, <3>1, <3>2, IdleKeeps
    <2>6. CASE To("droplet", [o EXCEPT !.pc = "wait", !.vol = k]) /\ UNCHANGED faults
      <3>1. PICK new : new = [o EXCEPT !.pc = "wait", !.vol = k]
        OBVIOUS
      <3>2. /\ new \in OpRecs /\ new.pc = "wait" /\ new.at = o.at /\ new.ids = o.ids /\ new.todo = o.todo
            /\ new.vol = k
        BY <1>2, <3>1 DEF OpRecs, Pcs
      <3>3. op' \in [Drivers -> OpRecs] /\ o' = new
        BY <2>6, <3>1, <3>2, ToDroplet DEF Safe
      <3>4. Shape'
        BY <1>2, <1>4, <2>1, <2>3, <2>6, <3>2, <3>3 DEF Shape
      <3>5. StoredKnown'
        BY <1>1, <1>2, <1>4, <3>2, <3>3 DEF StoredKnown, StoredFor
      <3>6. AliveAccounted'
        BY <1>1, <1>4, <2>1, <2>4 DEF AliveAccounted
      <3>7. Carried' /\ VolumesCarriedOver'
        BY <1>4, <2>1, <3>2, <3>3 DEF Carried, CarriedFor, VolumesCarriedOver
      <3>8. /\ o.at # 0 /\ Attached(o.at) \subseteq o.todo /\ o.ids \cap o.todo = {}
            /\ hist.had \subseteq o.ids \cup o.todo /\ \A j \in o.ids : volumes[j].detach # "running"
        BY <1>1, <1>2 DEF DetachingFor
      <3>9. \A j \in o.ids : volumes'[j].detach # "running"
        BY <1>2, <2>3, <3>8
      <3>10. \A j \in DOMAIN volumes' : volumes'[j].alive /\ volumes'[j].at = o.at => j \in o.todo
        BY <2>3, <3>8 DEF Attached
      <3>11. Detaching'
        BY <1>4, <2>3, <3>2, <3>3, <3>8, <3>9, <3>10 DEF Detaching, DetachingFor, Attached
      <3> QED
        BY <3>4, <3>5, <3>6, <3>7, <3>11 DEF Safe
    <2> QED
      BY <1>4, <2>5, <2>6
  <1> QED
    BY <1>3, <1>4 DEF DetachByDropletID, End

LEMMA WaitActionOK ==
  ASSUME Safe, waitForActionComplete
  PROVE  Safe'
  <1>1. o.pc = "wait" /\ faults' = faults
    BY DEF waitForActionComplete, At, o
  <1>2. /\ o \in OpRecs /\ faults \in Nat /\ o.at \in 0..used.droplet /\ DOMAIN volumes \subseteq Nat
        /\ o.ids \subseteq DOMAIN volumes /\ o.todo \subseteq DOMAIN volumes
        /\ StoredFor(o) /\ DetachingFor(o) /\ CarriedFor(o)
    BY DriverFacts
  <1>3. CASE Fails("droplet")
    BY <1>1, <1>2, <1>3, DropletFailsOK
  <1>4. CASE /\ volumes[o.vol].detach = "completed"
             /\ To("droplet", AfterDetach(o.todo \ {o.vol}, o.ids \cup {o.vol}))
             /\ UNCHANGED <<service, stored, disks, hist, ops>>
    <2>1. /\ o.at # 0 /\ Attached(o.at) \subseteq o.todo /\ o.ids \cap o.todo = {}
          /\ hist.had \subseteq o.ids \cup o.todo /\ \A j \in o.ids : volumes[j].detach # "running"
          /\ o.vol \in o.todo /\ volumes[o.vol].at = 0
      BY <1>1, <1>2, <1>4 DEF DetachingFor
    <2>2. PICK left : left = o.todo \ {o.vol}
      OBVIOUS
    <2>3. PICK ids : ids = o.ids \cup {o.vol}
      OBVIOUS
    <2>4. PICK new : new = AfterDetach(left, ids)
      OBVIOUS
    <2>5. left \in SUBSET Nat /\ ids \in SUBSET Nat
      BY <1>2, <2>1, <2>2, <2>3
    <2>6. /\ new \in OpRecs /\ new.pc \in {"detach", "delete"} /\ (new.pc = "delete" <=> left = {})
          /\ new.at = o.at /\ new.todo = left /\ new.ids = ids /\ new.replace = o.replace
      BY <1>2, <2>4, <2>5, AfterDetachFacts
    <2>7. To("droplet", new)
      BY <1>4, <2>2, <2>3, <2>4
    <2>8. Attached(o.at) \subseteq left
      BY <2>1, <2>2 DEF Attached
    <2>9. DetachingFor(new)
      BY <1>4, <2>1, <2>2, <2>3, <2>6, <2>8 DEF DetachingFor
    <2>10. StoredFor(new) /\ CarriedFor(new)
      BY <1>1, <1>2, <2>6 DEF StoredFor, CarriedFor
    <2>11. new.at \in 0..used.droplet /\ new.ids \subseteq DOMAIN volumes /\ new.todo \subseteq DOMAIN volumes
      BY <1>2, <2>1, <2>2, <2>3, <2>6
    <2> QED
      BY <1>1, <1>2, <1>4, <2>6, <2>7, <2>9, <2>10, <2>11, DriverKeeps DEF service
  <1> QED
    BY <1>3, <1>4 DEF waitForActionComplete, Waited, Deadline

LEMMA DeleteOldOK ==
  ASSUME Safe, DeleteOld
  PROVE  Safe'
  <1>1. o.pc = "delete"
    BY DEF DeleteOld, At, o
  <1>2. /\ o \in OpRecs /\ faults \in Nat /\ o.at \in 0..used.droplet
        /\ o.ids \subseteq DOMAIN volumes /\ o.todo \subseteq DOMAIN volumes
        /\ o.at = stored.id /\ DetachingFor(o)
    BY <1>1, DriverFacts DEF StoredFor
  <1>3. CASE Fails("droplet") /\ UNCHANGED faults
    BY <1>1, <1>2, <1>3, DropletFailsOK
  <1>4. CASE /\ Alive(o.at) /\ Destroyed(o.at) /\ hist' = hist /\ stored' = stored
             /\ \/ To("droplet", [o EXCEPT !.pc = "quote"]) /\ UNCHANGED faults
                \/ To("droplet", Idle) /\ Fault
    <2>1. /\ hist \in HistRecs /\ hist.left = {} /\ used \in [droplet : Nat, volume : Nat]
          /\ AliveAccounted /\ Shape /\ stored.id \in 0..used.droplet
          /\ DOMAIN droplets = 1..used.droplet /\ DOMAIN volumes = 1..used.volume
      BY DEF Safe, Shape, VolumesCarriedOver
    <2>2. PICK i \in DOMAIN droplets : i = o.at
      BY <1>4 DEF Alive
    <2>3. Destroyed(i)
      BY <1>4, <2>2
    <2>4. /\ used' = used
          /\ droplets' \in [1..used.droplet -> DropletRecs] /\ volumes' \in [1..used.volume -> VolumeRecs]
          /\ ~Alive(i)' /\ \A j : j # i => (Alive(j)' <=> Alive(j))
          /\ \A k \in DOMAIN volumes : volumes'[k].detach = volumes[k].detach
      BY <2>1, <2>3, DestroyedFacts
    <2>5. AliveAccounted'
      <3>1. DOMAIN droplets' = DOMAIN droplets
        BY <2>1, <2>4
      <3> QED
        BY <1>1, <1>2, <1>4, <2>1, <2>2, <2>4, <3>1 DEF AliveAccounted
    <2>6. CASE To("droplet", Idle) /\ Fault
      <3>1. faults' \in Nat
        BY <1>2, <2>6 DEF Fault
      <3> QED
        BY <1>4, <2>1, <2>4, <2>5, <2>6, <3>1, IdleKeeps
    <2>7. CASE To("droplet", [o EXCEPT !.pc = "quote"]) /\ UNCHANGED faults
      <3>1. PICK new : new = [o EXCEPT !.pc = "quote"]
        OBVIOUS
      <3>2. /\ new \in OpRecs /\ new.pc = "quote" /\ new.at = o.at /\ new.ids = o.ids /\ new.todo = o.todo
        BY <1>2, <3>1 DEF OpRecs, Pcs
      <3>3. op' \in [Drivers -> OpRecs] /\ o' = new
        BY <2>7, <3>1, <3>2, ToDroplet DEF Safe
      <3>4. Shape'
        BY <1>2, <1>4, <2>1, <2>4, <2>7, <3>2, <3>3 DEF Shape
      <3>5. hist.had \subseteq o.ids /\ \A k \in o.ids : volumes[k].detach # "running"
        BY <1>1, <1>2 DEF DetachingFor
      <3>6. Detaching' /\ VolumesCarriedOver'
        BY <1>4, <2>1, <3>2, <3>3 DEF Detaching, DetachingFor, VolumesCarriedOver
      <3>7. Carried'
        BY <1>2, <1>4, <2>4, <3>2, <3>3, <3>5 DEF Carried, CarriedFor
      <3>8. StoredKnown'
        <4>1. ~Alive(stored.id)'
          BY <1>2, <1>4, <2>2, <2>4
        <4> QED
          BY <3>2, <3>3, <4>1 DEF StoredKnown, StoredFor
      <3> QED
        BY <2>5, <3>4, <3>6, <3>7, <3>8 DEF Safe
    <2> QED
      BY <1>4, <2>6, <2>7
  <1> QED
    BY <1>3, <1>4 DEF DeleteOld, End

(* A new droplet with the volumes in hand.                                  *)
LEMMA CreateDropletOK ==
  ASSUME Safe, CreateDroplet
  PROVE  Safe'
  <1> DEFINE i == used.droplet + 1
             ok == \A k \in o.ids : volumes[k].alive /\ volumes[k].at = 0
  <1>1. o.pc = "create"
    BY DEF CreateDroplet, At, o
  <1>2. /\ o \in OpRecs /\ faults \in Nat /\ o.ids \subseteq DOMAIN volumes /\ o.todo \subseteq DOMAIN volumes
        /\ used.droplet \in Nat /\ stored.id \in 0..used.droplet
        /\ StoredFor(o) /\ CarriedFor(o)
    BY DriverFacts
  <1>3. CASE Fails("droplet") /\ UNCHANGED faults
    BY <1>1, <1>2, <1>3, DropletFailsOK
  <1>4. CASE /\ ok
             /\ used' = [used EXCEPT !.droplet = i]
             /\ droplets' = [j \in 1..i |-> IF j = i THEN [status |-> "new", ip |-> FALSE, size |-> o.conf.size]
                                            ELSE droplets[j]]
             /\ volumes' = [k \in DOMAIN volumes |-> IF k \in o.ids THEN [volumes[k] EXCEPT !.at = i]
                                                    ELSE volumes[k]]
             /\ \/ /\ To("droplet", [o EXCEPT !.pc = "ready", !.at = i])
                   /\ UNCHANGED <<hist, faults>>
                \/ /\ Fault /\ To("droplet", Idle)
                   /\ hist' = [hist EXCEPT !.lost = @ \cup {i}]
             /\ stored' = stored
    <2>1. /\ used \in [droplet : Nat, volume : Nat] /\ droplets \in [1..used.droplet -> DropletRecs]
          /\ volumes \in [1..used.volume -> VolumeRecs] /\ DOMAIN volumes = 1..used.volume
          /\ DOMAIN droplets = 1..used.droplet
          /\ hist \in HistRecs /\ hist.left = {} /\ AliveAccounted
      BY DEF Safe, Shape, VolumesCarriedOver
    <2>2. /\ used' \in [droplet : Nat, volume : Nat] /\ used'.droplet = i /\ used'.volume = used.volume
          /\ i \in Nat
      <3>1. used' = [used EXCEPT !.droplet = i] /\ i \in Nat
        BY <1>2, <1>4
      <3> HIDE DEF i
      <3> QED
        BY <2>1, <3>1
    <2>3. [status |-> "new", ip |-> FALSE, size |-> o.conf.size] \in DropletRecs
      <3>1. o.conf.size \in ConfSizes
        BY <1>2 DEF OpRecs, ConfSizes
      <3> QED
        BY <3>1 DEF DropletRecs
    <2>4. /\ droplets' \in [1..i -> DropletRecs] /\ droplets'[i].status = "new" /\ DOMAIN droplets' = 1..i
          /\ \A j \in 1..used.droplet : j # i /\ droplets'[j] = droplets[j]
          /\ \A j \in 1..i : j = i \/ j \in 1..used.droplet
          /\ 1..used.droplet \subseteq 1..i /\ i \in 1..i
      BY <1>2, <1>4, <2>1, <2>3
    <2>5. stored.id # i /\ stored.id \in 0..i /\ i \in 0..i
      BY <1>2
    <2>6. ASSUME NEW k \in DOMAIN volumes
          PROVE  /\ volumes'[k] \in VolumeRecs /\ volumes'[k].detach = volumes[k].detach
                 /\ volumes'[k].alive = volumes[k].alive
                 /\ k \in o.ids => volumes'[k].at = i
      <3>1. volumes[k] \in VolumeRecs
        BY <2>1
      <3>2. CASE k \in o.ids
        <4>1. volumes'[k] = [volumes[k] EXCEPT !.at = i]
          BY <1>4, <3>2
        <4> QED
          BY <2>2, <3>1, <4>1 DEF VolumeRecs
      <3>3. CASE k \notin o.ids
        <4>1. volumes'[k] = volumes[k]
          BY <1>4, <3>3
        <4> QED
          BY <3>1, <3>3, <4>1
      <3> QED
        BY <3>2, <3>3
    <2>7. volumes' \in [1..used.volume -> VolumeRecs] /\ DOMAIN volumes' = DOMAIN volumes
      BY <1>4, <2>1, <2>6
    <2> HIDE DEF i
    <2>8. \A j : Alive(j)' => Alive(j) \/ j = i
      BY <2>1, <2>4 DEF Alive
    <2>9. ~Alive(stored.id)'
      BY <1>1, <1>2, <1>4, <2>5, <2>8 DEF StoredFor
    <2>10. CASE /\ Fault /\ To("droplet", Idle) /\ hist' = [hist EXCEPT !.lost = @ \cup {i}]
      <3>1. hist' \in HistRecs /\ hist'.left = {} /\ hist'.lost = hist.lost \cup {i}
        BY <2>1, <2>2, <2>10 DEF HistRecs
      <3>2. AliveAccounted'
        BY <1>1, <1>4, <2>1, <2>4, <2>8, <3>1 DEF AliveAccounted, Alive
      <3>3. faults' \in Nat
        BY <1>2, <2>10 DEF Fault
      <3> QED
        BY <1>4, <2>2, <2>4, <2>5, <2>7, <2>10, <3>1, <3>2, <3>3, IdleKeeps
    <2>11. CASE To("droplet", [o EXCEPT !.pc = "ready", !.at = i]) /\ UNCHANGED <<hist, faults>>
      <3>1. PICK new : new = [o EXCEPT !.pc = "ready", !.at = i]
        OBVIOUS
      <3>2. /\ new \in OpRecs /\ new.pc = "ready" /\ new.at = i /\ new.ids = o.ids /\ new.todo = o.todo
            /\ new.replace = o.replace
        BY <1>2, <2>2, <3>1 DEF OpRecs, Pcs
      <3>3. op' \in [Drivers -> OpRecs] /\ o' = new
        BY <2>11, <3>1, <3>2, ToDroplet DEF Safe
      <3>4. Shape'
        BY <1>2, <1>4, <2>1, <2>2, <2>4, <2>5, <2>7, <2>11, <3>2, <3>3 DEF Shape
      <3>5. StoredKnown'
        BY <2>9, <3>2, <3>3 DEF StoredKnown, StoredFor
      <3>6. AliveAccounted'
        BY <1>1, <1>4, <2>1, <2>4, <2>8, <2>11, <3>2, <3>3 DEF AliveAccounted, Alive
      <3>7. Detaching' /\ VolumesCarriedOver'
        BY <2>1, <2>11, <3>2, <3>3 DEF Detaching, DetachingFor, VolumesCarriedOver
      <3>8. Carried'
        <4>1. ASSUME o.replace, NEW k \in hist.had
              PROVE  /\ k \in DOMAIN volumes' /\ volumes'[k].alive /\ volumes'[k].at = i
                     /\ volumes'[k].detach # "running"
          <5>1. k \in o.ids /\ volumes[k].detach # "running"
            BY <1>1, <1>2, <4>1 DEF CarriedFor
          <5> QED
            BY <1>2, <1>4, <2>6, <2>7, <5>1
        <4> QED
          BY <2>11, <3>2, <3>3, <4>1 DEF Carried, CarriedFor, Held
      <3> QED
        BY <3>4, <3>5, <3>6, <3>7, <3>8 DEF Safe
    <2> QED
      BY <1>4, <2>10, <2>11
  <1> QED
    BY <1>3, <1>4 DEF CreateDroplet, End

---------------------------------------------------------------------------
(* The specification.                                                       *)

(* The first volumes have the names of the resources, one each.             *)
LEMMA FirstNames ==
  /\ Cardinality(VolNames) \in Nat
  /\ \A k \in 1..Cardinality(VolNames) : FirstNameOf(k) \in VolNames
  <1> DEFINE n == Cardinality(VolNames)
             P(f) == \A x, y \in VolNames : f[x] = f[y] => x = y
  <1>1. IsFiniteSet(VolNames) /\ n \in Nat
    BY DropletAssumption, FS_CardinalityType
  <1>2. IsFiniteSet(1..n) /\ Cardinality(1..n) = n
    <2>1. 1 \in Int /\ n \in Int
      BY <1>1
    <2> QED
      BY <1>1, <2>1, FS_Interval
  <1>3. ExistsBijection(VolNames, 1..n)
    BY <1>1, <1>2, FS_SameCardinalityBij
  <1>4. \E f \in [VolNames -> 1..n] : P(f)
    BY <1>3 DEF ExistsBijection, Bijection, Injection, IsInjective
  <1>5. FirstIds \in [VolNames -> 1..n] /\ P(FirstIds)
    BY <1>4, Zenon DEF FirstIds
  <1>6. FirstIds \in Injection(VolNames, 1..n)
    BY <1>5 DEF Injection, IsInjective
  <1>7. FirstIds \in Surjection(VolNames, 1..n)
    BY <1>1, <1>2, <1>6, FS_Injection
  <1>8. \A k \in 1..n : \E v \in VolNames : FirstIds[v] = k
    BY <1>7 DEF Surjection
  <1>9. \A k \in 1..n : FirstNameOf(k) \in VolNames
    BY <1>8 DEF FirstNameOf
  <1> QED
    BY <1>1, <1>9

LEMMA SafeInit == Init => Safe
  <1> SUFFICES ASSUME Init PROVE Safe
    OBVIOUS
  <1>1. /\ used = [droplet |-> 0, volume |-> Cardinality(VolNames)] /\ droplets = <<>>
        /\ op = [d \in Drivers |-> Idle] /\ stored = NoState /\ hist = NoHistory /\ faults = 0
    BY DEF Init
  <1>2. PICK n : n = Cardinality(VolNames)
    OBVIOUS
  <1>3. used.droplet = 0 /\ used.volume = n /\ n \in Nat
    BY <1>1, <1>2, DropletAssumption, FS_CardinalityType
  <1>4. volumes \in [1..n -> VolumeRecs]
    <2>1. volumes = [k \in 1..n |-> NewVolume(FirstNameOf(k), 1)]
      BY <1>3 DEF Init
    <2>2. \A k \in 1..n : FirstNameOf(k) \in VolNames
      BY <1>2, FirstNames
    <2>3. \A v \in VolNames : NewVolume(v, 1) \in VolumeRecs
      BY DEF NewVolume, VolumeRecs
    <2> QED
      BY <2>1, <2>2, <2>3
  <1>5. droplets \in [1..used.droplet -> DropletRecs] /\ DOMAIN droplets = {}
    BY <1>1, <1>3
  <1>6. o = Idle /\ op \in [Drivers -> OpRecs]
    BY <1>1, IdleType DEF o, Drivers
  <1>7. o.at = 0 /\ o.ids = {} /\ o.todo = {} /\ o.pc = "idle" /\ ~o.replace
    BY <1>6, IdleType
  <1>8. stored.id = 0 /\ hist \in HistRecs /\ hist.left = {}
    BY <1>1 DEF NoState, NoHistory, HistRecs
  <1>9. used \in [droplet : Nat, volume : Nat]
    BY <1>1, <1>2, <1>3
  <1>10. Shape
    BY <1>1, <1>3, <1>4, <1>5, <1>6, <1>7, <1>8, <1>9 DEF Shape
  <1> QED
    BY <1>5, <1>7, <1>8, <1>10 DEF Safe, StoredKnown, StoredFor, AliveAccounted, Detaching, DetachingFor,
       Carried, CarriedFor, VolumesCarriedOver

LEMMA RequestFailsOK ==
  ASSUME Safe, NEW d \in Drivers, RequestFails(d)
  PROVE  Safe'
  <1>1. Fails(d) /\ faults' \in Nat
    BY DriverFacts DEF RequestFails, Fault
  <1>2. CASE d = "droplet"
    BY <1>1, <1>2, DropletFailsOK DEF RequestFails, o
  <1>3. CASE d = "volume"
    BY <1>1, <1>3, VolumeFailsOK
  <1> QED
    BY <1>2, <1>3 DEF Drivers

LEMMA BeginsOK ==
  ASSUME Safe, Begins
  PROVE  Safe'
  <1>1. ASSUME NEW v \in VolNames, NEW size \in Nat, NEW pc \in Pcs, BeginVolume(pc, v, size)
        PROVE  Safe'
    BY <1>1, VolumeBeginsOK
  <1>2. Sizes \subseteq Nat /\ 0 \in Nat /\ {"vol_create", "vol_get", "vol_delete"} \subseteq Pcs
    BY DropletAssumption DEF Pcs
  <1>3. ASSUME NEW v \in VolNames, NEW size \in Sizes, BeginVolumeCreate(v, size) \/ BeginVolumeUpdate(v, size)
        PROVE  Safe'
    BY <1>1, <1>2, <1>3 DEF BeginVolumeCreate, BeginVolumeUpdate
  <1>4. ASSUME NEW v \in VolNames, BeginVolumeDelete(v)
        PROVE  Safe'
    BY <1>1, <1>2, <1>4 DEF BeginVolumeDelete
  <1> QED
    BY <1>3, <1>4, DropletBeginsOK DEF Begins

LEMMA SafeNext == Safe /\ [Next]_vars => Safe'
  <1> SUFFICES ASSUME Safe, [Next]_vars PROVE Safe'
    OBVIOUS
  <1>1. CASE UNCHANGED vars
    <2>1. /\ op' = op /\ stored' = stored /\ hist' = hist /\ faults' = faults /\ used' = used
          /\ droplets' = droplets /\ volumes' = volumes
      BY <1>1 DEF vars, service
    <2>2. o' = o /\ op \in [Drivers -> OpRecs] /\ faults \in Nat
      BY <2>1 DEF o, Safe, Shape
    <2> QED
      BY <2>1, <2>2, QuietKeeps
  <1>2. CASE Begins
    BY <1>2, BeginsOK
  <1>3. CASE DropletStep
    BY <1>3, QuoteOK, ResolveOK, CreateDropletOK, WaitReadyOK, NameVolumeOK, OutputOK, ReadOK, DeleteOK,
       PreflightOK, ReadOldOK, DetachOK, WaitActionOK, DeleteOldOK DEF DropletStep
  <1>4. CASE VolumeStep
    BY <1>4, CreateVolumeOK, GetVolumeOK, ResizeOK, DeleteVolumeOK DEF VolumeStep
  <1>5. CASE Environment
    BY <1>5, BootsOK, OperatorDeletesOK, DetachesOK, GrowsOK, OperatorDeletesVolumeOK, PriceMovesOK
       DEF Environment
  <1>6. CASE \E d \in Drivers : RequestFails(d)
    BY <1>6, RequestFailsOK
  <1> QED
    BY <1>1, <1>2, <1>3, <1>4, <1>5, <1>6 DEF Next

LEMMA SafeAlways == Spec => []Safe
  BY SafeInit, SafeNext, PTL DEF Spec

(* The volumes a droplet had when Replace read it are on the droplet that   *)
(* Replace reports, for any volumes and whatever fails on the way (Replace  *)
(* hands the detached IDs to create).                                       *)
THEOREM DisksCarriedOver == Spec => []VolumesCarriedOver
  <1>1. Safe => VolumesCarriedOver
    BY DEF Safe
  <1> QED
    BY <1>1, SafeAlways, PTL

(* A live droplet is the one in the state, the one under creation, or one   *)
(* whose creation failed or was not answered (Create, Replace, Delete).     *)
THEOREM DropletsAccounted == Spec => []AliveAccounted
  <1>1. Safe => AliveAccounted
    BY DEF Safe
  <1> QED
    BY <1>1, SafeAlways, PTL

(* Who ends a droplet while Replace is about to delete.                     *)
LEMMA OldGone ==
  ASSUME Safe, Next, NEW i \in DOMAIN droplets, Alive(i), ~Alive(i)', o.pc = "delete", faults' = faults
  PROVE  i = o.at
  <1>1. Shape /\ faults \in Nat /\ DOMAIN droplets = 1..used.droplet /\ DOMAIN volumes = 1..used.volume
        /\ droplets \in [1..used.droplet -> DropletRecs]
    <2>1. Shape /\ faults \in Nat /\ droplets \in [1..used.droplet -> DropletRecs]
          /\ DOMAIN volumes = 1..used.volume
      BY SMTT(30) DEF Safe, Shape
    <2> QED  BY <2>1
  <1>2. droplets' # droplets
    BY DEF Alive
  <1>3. ~Fault
    BY <1>1 DEF Fault
  <1>4. ~Begins /\ ~VolumeStep /\ \A d \in Drivers : ~RequestFails(d)
    BY <1>2 DEF Begins, BeginCreate, BeginReplace, BeginRead, BeginDelete, BeginVolumeCreate,
       BeginVolumeUpdate, BeginVolumeDelete, BeginVolume, Begin, VolumeStep, CreateVolume, GetVolume, Resize,
       ReadVolume, DeleteVolume, RequestFails, Fails, service
  <1>5. ASSUME Environment
        PROVE  FALSE
    <2>1. PICK j \in 1..used.droplet : Boots(j)
      BY <1>2, <1>3, <1>5 DEF Environment, OperatorDeletes, Detaches, Grows, OperatorDeletesVolume, PriceMoves
    <2>2. \/ droplets' = [droplets EXCEPT ![j].status = "active"]
          \/ droplets' = [droplets EXCEPT ![j].ip = TRUE]
      BY <2>1 DEF Boots
    <2>3. i \in 1..used.droplet /\ droplets[i].status # "gone"
      BY <1>1 DEF Alive
    <2>4. DOMAIN droplets' = DOMAIN droplets
      BY <2>2
    <2>5. droplets'[i].status \in {"active", droplets[i].status}
      <3>1. \A x \in DropletRecs : /\ [x EXCEPT !.status = "active"].status = "active"
                                   /\ [x EXCEPT !.ip = TRUE].status = x.status
        BY DEF DropletRecs
      <3>2. droplets'[i] \in {[droplets[i] EXCEPT !.status = "active"], [droplets[i] EXCEPT !.ip = TRUE], droplets[i]}
        <4> HIDE DEF DropletRecs
        <4> QED  BY <1>1, <2>2, <2>3
      <3>3. droplets[i] \in DropletRecs
        BY <1>1, <2>3
      <3> HIDE DEF DropletRecs
      <3> QED
        BY <3>1, <3>2, <3>3, Zenon
    <2>6. Alive(i)'
      BY <2>3, <2>4, <2>5 DEF Alive
    <2> QED
      BY <2>6
  <1>6. DropletStep => DeleteOld
    BY <1>2 DEF DropletStep, Quote, resolveDropletVolumes, CreateDroplet, waitForDropletReady, NameVolume,
       dropletOutput, Read, Delete, Preflight, ReadOld, DetachByDropletID, waitForActionComplete, Look, Fails,
       service, At, o
  <1>7. CASE DeleteOld
    <2>1. Destroyed(o.at) /\ Alive(o.at)
      BY <1>2, <1>7 DEF DeleteOld, Fails, service
    <2>2. PICK j \in DOMAIN droplets : j = o.at
      BY <2>1 DEF Alive
    <2>3. Destroyed(j)
      BY <2>1, <2>2
    <2>4. \A k : k # j => (Alive(k)' <=> Alive(k))
      BY <1>1, <2>3, DestroyedFacts
    <2> QED
      BY <2>2, <2>4
  <1> QED
    BY <1>4, <1>5, <1>6, <1>7 DEF Next

(* Replace deletes the old droplet only when it holds no volume and none of *)
(* the volumes it had is on its way off (waitForActionComplete before the   *)
(* deletion).                                                               *)
THEOREM DeletesAfterDetach == Spec => DeleteAfterDetach
  <1> DEFINE Good == \A i \in DOMAIN droplets :
                        Alive(i) /\ ~Alive(i)' /\ At("droplet", "delete") /\ faults' = faults
                        => Attached(i) = {} /\ \A k \in o.ids : volumes[k].detach # "running"
  <1>1. Safe /\ [Next]_vars => [Good]_vars
    <2> SUFFICES ASSUME Safe, Next, NEW i \in DOMAIN droplets, Alive(i), ~Alive(i)', At("droplet", "delete"),
                        faults' = faults
                 PROVE  Attached(i) = {} /\ \A k \in o.ids : volumes[k].detach # "running"
      OBVIOUS
    <2>1. o.pc = "delete"
      BY DEF At, o
    <2>2. i = o.at
      BY <2>1, OldGone
    <2>3. DetachingFor(o)
      BY DriverFacts
    <2> QED
      BY <2>1, <2>2, <2>3 DEF DetachingFor
  <1>2. Spec => [][Good]_vars
    BY <1>1, SafeAlways, PTL DEF Spec
  <1> QED
    BY <1>2 DEF DeleteAfterDetach
=============================================================================
