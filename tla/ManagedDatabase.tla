-------------------------- MODULE ManagedDatabase --------------------------
(***************************************************************************)
(* The database and database-user drivers of internal/drivers/database.go   *)
(* and database_user.go, with FinalizeApply of internal/iacserver.go.  One  *)
(* database and one of its users; every API request is a step.  Trusted     *)
(* sources may name apps that do not exist yet: the driver then writes the  *)
(* other rules and queues the whole specification for FinalizeApply.  A new *)
(* rotation epoch resets a password.  The service, the apps and the order   *)
(* in which wfctl calls the drivers are external.                           *)
(***************************************************************************)
EXTENDS Naturals, Sequences, FiniteSets

CONSTANTS
    AppNames,  \* apps that trusted sources may name
    Configs,   \* database configurations
    MaxEpoch,  \* bound: rotation epochs
    MaxUid,    \* bound: database and app UUIDs
    Restarts,  \* whether the plugin process may end
    MaxOps,    \* bound: operations begun
    MaxFaults  \* bound: failed requests

(* A configuration: present tells whether it has trusted_sources at all.    *)
Engines == {"pg"} \cup {c.engine : c \in Configs}
Sources == AppNames \cup UNION {c.sources : c \in Configs}
Confs   == [engine : Engines, size : Nat, nodes : Nat, present : BOOLEAN,
            sources : SUBSET Sources, epoch : 0..MaxEpoch]

ASSUME DatabaseAssumption ==
    /\ MaxEpoch \in Nat /\ MaxUid \in Nat /\ MaxOps \in Nat /\ MaxFaults \in Nat
    /\ Configs \subseteq Confs

VARIABLES
    db,     \* the database: uid 0 if there is none
    user,   \* its user: the password, 0 if there is none
    uids,   \* database UUIDs handed out
    apps,   \* the apps: UUID, and whether it exists
    queue,  \* pendingFirewallUpdates
    due,    \* an apply has queued rules and FinalizeApply has not run since
    op,     \* what each driver is doing
    stored, \* the resources' outputs in the IaC state
    hist,   \* history, for the properties
    ops, faults

vars == <<db, user, uids, apps, queue, due, op, stored, hist, ops, faults>>

NoDb    == [uid |-> 0, engine |-> "pg", size |-> 0, nodes |-> 0, rules |-> {}, password |-> 0]
NoState == [known |-> FALSE, uid |-> 0, epoch |-> 0, password |-> 0, size |-> 0, nodes |-> 0]
NoConf  == [engine |-> "pg", size |-> 0, nodes |-> 0, present |-> FALSE, sources |-> {}, epoch |-> 0]

(* conf: the configuration; uid: the database worked on; rules: what will   *)
(* be written; deferred: app rules are left to FinalizeApply; left, kept:   *)
(* entries a flush has yet to try and has to keep.                          *)
Idle == [pc |-> "idle", conf |-> NoConf, uid |-> 0, rules |-> {}, deferred |-> FALSE,
         rotate |-> FALSE, left |-> <<>>, kept |-> <<>>]

Drivers == {"database", "user"}

(* State of an early version: it names the database and has no UUID.        *)
ByName(conf) == [NoState EXCEPT !.known = TRUE, !.size = conf.size, !.nodes = conf.nodes]

(* conf: whose rules were written last (none when that answer was lost);    *)
(* overwritten: by an older queue entry since; dropped: the queue was lost  *)
(* with the process; epoch: the highest epoch asked for; lost: a reset's    *)
(* answer was lost since the last password was stored.                      *)
NoHistory == [conf |-> NoConf, overwritten |-> FALSE, dropped |-> FALSE,
              epoch |-> [d \in Drivers |-> 0], lost |-> [d \in Drivers |-> FALSE]]

(* The type invariant; a queue entry names a database that was created.     *)
TypeOK ==
    /\ db.uid \in 0..uids /\ (db.uid = 0 => db = NoDb)
    /\ user \in Nat /\ uids \in 0..MaxUid
    /\ apps \in [AppNames -> [uid : 0..MaxUid, alive : BOOLEAN]]
    /\ \A i \in DOMAIN queue : queue[i].uid \in 1..uids /\ queue[i].conf.present
    /\ stored["database"].uid \in 0..uids
    /\ \A d \in Drivers : stored[d].epoch \in 0..MaxEpoch
    /\ ops \in 0..MaxOps /\ faults \in 0..MaxFaults

Init ==
    /\ \/ db = NoDb /\ uids = 0 /\ stored = [d \in Drivers |-> NoState]
       \/ \E conf \in Configs :
             /\ db = [uid |-> 1, engine |-> conf.engine, size |-> conf.size, nodes |-> conf.nodes,
                      rules |-> {}, password |-> 1]
             /\ uids = 1
             /\ stored = [d \in Drivers |-> IF d = "database" THEN ByName(conf) ELSE NoState]
    /\ user = 0
    /\ apps = [a \in AppNames |-> [uid |-> 0, alive |-> FALSE]]
    /\ queue = <<>> /\ due = FALSE
    /\ op = [d \in Drivers |-> Idle]
    /\ hist = NoHistory
    /\ ops = 0 /\ faults = 0

(***************************************************************************)
(* Trusted sources                                                          *)
(***************************************************************************)

Missing(conf) == {a \in conf.sources \cap AppNames : ~apps[a].alive}

(* Rules with app names resolved to UUIDs, and the subset that needs none.  *)
Rules(conf) ==
    {[name |-> s, uid |-> IF s \in AppNames THEN apps[s].uid ELSE 0] : s \in conf.sources}
RulesExcludingApps(conf) == {[name |-> s, uid |-> 0] : s \in conf.sources \ AppNames}

(* The rules an operation will write and whether some are deferred.         *)
WithRules(o) ==
    [o EXCEPT !.deferred = Missing(o.conf) # {},
              !.rules = IF Missing(o.conf) = {} THEN Rules(o.conf)
                        ELSE RulesExcludingApps(o.conf)]

Deferred(o, uid) ==
    IF o.deferred THEN Append(queue, [uid |-> uid, conf |-> o.conf]) ELSE queue

(***************************************************************************)
(* Steps of an operation                                                    *)
(***************************************************************************)

At(d, pc) == op[d].pc = pc
To(d, o)  == op' = [op EXCEPT ![d] = o]
End(d)    == To(d, Idle)
ThenTo(d, pc) == To(d, [op[d] EXCEPT !.pc = pc])

(* wfctl calls FinalizeApply at the end of every apply.                     *)
Begin(d)  == At(d, "idle") /\ ops < MaxOps /\ ops' = ops + 1
Action(d) == Begin(d) /\ (d = "database" => ~due)
Fault     == faults < MaxFaults /\ faults' = faults + 1
Gone(d)   == db.uid = 0 \/ db.uid # op[d].uid

service == <<db, user, uids, apps>>
local   == <<queue, due, stored, hist>>

(* A request fails without effect: so does the operation.                   *)
Fail(d) ==
    /\ op[d].pc \notin {"idle", "flush"}
    /\ Fault
    /\ End(d)
    /\ UNCHANGED <<service, local, ops>>

(* A read that finds the database as needed, or ends the operation.         *)
Look(d, pc, ok, next) ==
    /\ At(d, pc)
    /\ To(d, IF ok THEN next ELSE Idle)
    /\ UNCHANGED <<service, local, ops, faults>>

(* A write to the database: ends the operation if there is none, otherwise  *)
(* has its effect, and its answer may be lost.                              *)
Write(d, new, next) ==
    \/ Gone(d) /\ End(d) /\ UNCHANGED <<db, faults>>
    \/ ~Gone(d) /\ db' = new /\ To(d, next) /\ UNCHANGED faults
    \/ ~Gone(d) /\ db' = new /\ End(d) /\ Fault

(* Credentials need PostgreSQL or MySQL and a complete endpoint.            *)
databaseTLSURI == db.engine = "pg"

Later(a, b) == IF a > b THEN a ELSE b
Asked(d, epoch) == hist' = [hist EXCEPT !.epoch[d] = Later(@, epoch)]

(***************************************************************************)
(* Database: Create                                                         *)
(***************************************************************************)

BeginCreate(conf) ==
    /\ Action("database")
    /\ ~stored["database"].known
    /\ conf.epoch = 0 \/ conf.epoch >= hist.epoch["database"]
    /\ To("database", [Idle EXCEPT !.pc = "create_rules", !.conf = conf])
    /\ Asked("database", conf.epoch)
    /\ UNCHANGED <<service, queue, due, stored, faults>>

CreateRules == Look("database", "create_rules", TRUE,
                    [WithRules(op["database"]) EXCEPT !.pc = "create"])

(* The rules of conf are the ones written last.                             *)
Ruled(conf) == [hist EXCEPT !.conf = conf, !.overwritten = FALSE, !.dropped = FALSE]

(* The database is created with its rules.  An epoch asks for the admin     *)
(* credential, which only some engines can give: Create then fails although *)
(* the database is there and its rules are queued.                          *)
Create ==
    LET o == op["database"]
        uid == uids + 1
    IN /\ At("database", "create")
       /\ db.uid = 0 /\ uid <= MaxUid
       /\ db' = [uid |-> uid, engine |-> o.conf.engine, size |-> o.conf.size,
                 nodes |-> o.conf.nodes, rules |-> o.rules, password |-> 1]
       /\ user' = 0 /\ uids' = uid
       /\ End("database")
       /\ \/ Fault /\ hist' = Ruled(NoConf) /\ UNCHANGED <<queue, due, stored>>
          \/ /\ queue' = Deferred(o, uid) /\ due' = o.deferred
             /\ hist' = [Ruled(o.conf) EXCEPT !.lost["database"] = FALSE]
             /\ stored' = IF o.conf.epoch # 0 /\ o.conf.engine # "pg" THEN stored
                          ELSE [stored EXCEPT !["database"] =
                                  [known |-> TRUE, uid |-> uid, epoch |-> o.conf.epoch,
                                   password |-> 1, size |-> o.conf.size, nodes |-> o.conf.nodes]]
             /\ UNCHANGED faults
       /\ UNCHANGED <<apps, ops>>

(* The name is taken: wfctl reads the database by name and updates it; with *)
(* no prior state an epoch is refused.                                      *)
CreateConflict ==
    /\ At("database", "create")
    /\ db.uid # 0
    /\ To("database", IF op["database"].conf.epoch # 0 THEN Idle
                      ELSE [op["database"] EXCEPT !.pc = "rules", !.uid = db.uid])
    /\ UNCHANGED <<service, local, ops, faults>>

(***************************************************************************)
(* Database: Update, Scale, Delete                                          *)
(***************************************************************************)

(* Diff compares the epoch, the size and the nodes, never trusted_sources.  *)
Diff(conf, s) ==
    \/ conf.epoch \notin {0, s.epoch}
    \/ conf.size # s.size
    \/ conf.nodes # s.nodes

(* wfctl updates what Diff wants updated; epochs are not used twice.        *)
BeginUpdate(conf) ==
    LET s == stored["database"]
        rotate == conf.epoch \notin {0, s.epoch}
    IN /\ Action("database")
       /\ s.known
       /\ conf.epoch = 0 \/ conf.epoch >= hist.epoch["database"]
       /\ Diff(conf, s)
       /\ s.uid = 0 => ~rotate
       /\ To("database", [Idle EXCEPT !.pc = CASE s.uid = 0 -> "heal" [] rotate -> "preflight"
                                               [] OTHER -> "rules",
                                      !.conf = conf, !.uid = s.uid, !.rotate = rotate])
       /\ Asked("database", conf.epoch)
       /\ UNCHANGED <<service, queue, due, stored, faults>>

(* State that has no UUID is healed by a lookup of the name.                *)
resolveProviderID == Look("database", "heal", db.uid # 0,
                          [op["database"] EXCEPT !.pc = "rules", !.uid = db.uid])

Preflight == Look("database", "preflight", ~Gone("database") /\ databaseTLSURI,
                  [op["database"] EXCEPT !.pc = "rules"])

UpdateRules == Look("database", "rules", TRUE,
                    [WithRules(op["database"]) EXCEPT !.pc = "resize"])

(* A mistake in AfterWrites: the rotation is forgotten.                     *)
AfterWrites_NoReset(o) == [o EXCEPT !.pc = "read"]

(* After the writes, rotation reads the database again before the reset.    *)
AfterWrites(o) == [o EXCEPT !.pc = IF o.rotate THEN "recheck" ELSE "read"]

Resize ==
    LET o == op["database"]
        next == IF o.conf.present THEN [o EXCEPT !.pc = "firewall"] ELSE AfterWrites(o)
    IN /\ At("database", "resize")
       /\ Write("database", [db EXCEPT !.size = o.conf.size, !.nodes = o.conf.nodes], next)
       /\ UNCHANGED <<user, uids, apps, local, ops>>

(* The rules are written if trusted_sources is present, and only then are   *)
(* deferred ones queued.                                                    *)
Firewall ==
    LET o == op["database"]
        answered == op'["database"].pc # "idle"
    IN /\ At("database", "firewall")
       /\ Write("database", [db EXCEPT !.rules = o.rules], AfterWrites(o))
       /\ queue' = IF answered THEN Deferred(o, o.uid) ELSE queue
       /\ due' = (queue' # queue)
       /\ hist' = IF answered THEN Ruled(o.conf) ELSE IF Gone("database") THEN hist ELSE Ruled(NoConf)
       /\ UNCHANGED <<user, uids, apps, stored, ops>>

Recheck == Look("database", "recheck", ~Gone("database") /\ databaseTLSURI,
                [op["database"] EXCEPT !.pc = "reset"])

(* A mistake in StoreReset: the epoch is recorded whatever the answer.      *)
StoreReset_EpochFirst(d, password, epoch, answered) ==
    /\ stored' = IF answered THEN [stored EXCEPT ![d].password = password, ![d].epoch = epoch]
                 ELSE [stored EXCEPT ![d].epoch = epoch]
    /\ hist' = [hist EXCEPT !.lost[d] = ~answered]

(* A reset's answer alone carries the new password; it is stored with the   *)
(* epoch.                                                                   *)
StoreReset(d, password, epoch, answered) ==
    /\ stored' = IF answered THEN [stored EXCEPT ![d].password = password, ![d].epoch = epoch]
                 ELSE stored
    /\ hist' = [hist EXCEPT !.lost[d] = ~answered]

Reset ==
    LET o == op["database"] IN
    /\ At("database", "reset")
    /\ Write("database", [db EXCEPT !.password = @ + 1], Idle)
    /\ IF db' = db THEN UNCHANGED <<stored, hist>>
       ELSE StoreReset("database", db'.password, o.conf.epoch, faults' = faults)
    /\ UNCHANGED <<user, uids, apps, queue, due, ops>>

(* Read leaves credentials out; what the prior state holds is preserved.    *)
ReadBack ==
    LET o == op["database"]
        s == stored["database"]
        read == [s EXCEPT !.known = TRUE, !.uid = o.uid, !.size = db.size, !.nodes = db.nodes,
                          !.epoch = IF o.conf.epoch # 0 THEN o.conf.epoch ELSE s.epoch]
    IN /\ At("database", "read")
       /\ End("database")
       /\ stored' = IF Gone("database") THEN stored ELSE [stored EXCEPT !["database"] = read]
       /\ UNCHANGED <<service, queue, due, hist, ops, faults>>

BeginScale(n) ==
    /\ Action("database")
    /\ stored["database"].known /\ stored["database"].uid # 0
    /\ To("database", [Idle EXCEPT !.pc = "scale", !.uid = stored["database"].uid,
                                   !.conf.nodes = n])
    /\ UNCHANGED <<service, local, faults>>

(* Scale resizes with the size it has just read.                            *)
ScaleGet == Look("database", "scale", ~Gone("database"),
                 [op["database"] EXCEPT !.pc = "resize", !.conf.size = db.size])

Delete ==
    /\ Action("database")
    /\ stored["database"].known
    /\ IF db.uid # 0 /\ stored["database"].uid \in {0, db.uid}
       THEN /\ db' = NoDb /\ user' = 0
            /\ stored' = [stored EXCEPT !["database"] = NoState]
       ELSE UNCHANGED <<db, user, stored>>
    /\ UNCHANGED <<uids, apps, queue, due, op, hist, faults>>

(***************************************************************************)
(* FinalizeApply                                                            *)
(***************************************************************************)

BeginFlush ==
    /\ Begin("database")
    /\ queue # <<>>
    /\ To("database", [Idle EXCEPT !.pc = "flush", !.left = queue])
    /\ UNCHANGED <<service, local, faults>>

(* A mistake in Remaining: failed entries are dropped too.                  *)
Remaining_DropAll(o, flushed) == o.kept

Remaining(o, flushed) == IF flushed THEN o.kept ELSE Append(o.kept, o.left[1])

(* One queue entry: its names are resolved and all its rules written; an    *)
(* entry that fails stays queued.                                           *)
Flush ==
    LET o == op["database"]
        e == o.left[1]
        able == Missing(e.conf) = {} /\ db.uid = e.uid
        rest(flushed) == [o EXCEPT !.left = Tail(@), !.kept = Remaining(o, flushed)]
        Step(flushed) ==
            /\ To("database", IF Len(o.left) = 1 THEN Idle ELSE rest(flushed))
            /\ queue' = IF Len(o.left) = 1 THEN rest(flushed).kept ELSE queue
            /\ due' = (due /\ Len(o.left) > 1)
    IN /\ At("database", "flush")
       /\ \/ able /\ Step(TRUE) /\ UNCHANGED faults
          \/ ~able /\ Step(FALSE) /\ UNCHANGED faults
          \/ Step(FALSE) /\ Fault
       /\ \/ able /\ db' = [db EXCEPT !.rules = Rules(e.conf)]
             /\ hist' = [hist EXCEPT !.overwritten = e.conf # hist.conf]
          \/ (~able \/ faults' # faults) /\ UNCHANGED <<db, hist>>
       /\ UNCHANGED <<user, uids, apps, stored, ops>>

(***************************************************************************)
(* Database user                                                            *)
(***************************************************************************)

BeginUser(pc, epoch) ==
    /\ Action("user")
    /\ epoch = 0 \/ epoch >= hist.epoch["user"]
    /\ To("user", [Idle EXCEPT !.pc = pc, !.conf.epoch = epoch, !.uid = db.uid])
    /\ Asked("user", epoch)
    /\ UNCHANGED <<service, queue, due, stored, faults>>

BeginUserCreate(epoch) == ~stored["user"].known /\ BeginUser("user_parent", epoch)

(* Only an epoch that differs from the stored one resets the password;      *)
(* otherwise the user is read and everything stored is preserved.           *)
BeginUserUpdate(epoch) ==
    /\ stored["user"].known
    /\ epoch \notin {0, stored["user"].epoch}
    /\ BeginUser("user_rotate", epoch)

UserParent == Look("user", "user_parent", ~Gone("user") /\ databaseTLSURI,
                   [op["user"] EXCEPT !.pc = "user_create"])

UserRead == Look("user", "user_rotate", ~Gone("user") /\ databaseTLSURI /\ user # 0,
                 [op["user"] EXCEPT !.pc = "user_reset"])

(* CreateUser fails if the user is there; its answer carries the password.  *)
UserCreate ==
    /\ At("user", "user_create")
    /\ End("user")
    /\ IF Gone("user") \/ user # 0 THEN UNCHANGED <<user, faults, stored, hist>>
       ELSE /\ user' = 1
            /\ \/ Fault /\ UNCHANGED <<stored, hist>>
               \/ /\ stored' = [stored EXCEPT !["user"] =
                        [NoState EXCEPT !.known = TRUE, !.uid = db.uid, !.password = 1,
                                        !.epoch = op["user"].conf.epoch]]
                  /\ UNCHANGED <<hist, faults>>
    /\ UNCHANGED <<db, uids, apps, queue, due, ops>>

UserReset ==
    /\ At("user", "user_reset")
    /\ End("user")
    /\ IF Gone("user") \/ user = 0 THEN UNCHANGED <<user, faults, stored, hist>>
       ELSE /\ user' = user + 1
            /\ UNCHANGED faults \/ Fault
            /\ StoreReset("user", user', op["user"].conf.epoch, faults' = faults)
    /\ UNCHANGED <<db, uids, apps, queue, due, ops>>

(* Deleting a user that is not there succeeds.                              *)
UserDelete ==
    /\ Action("user")
    /\ stored["user"].known
    /\ user' = IF db.uid = stored["user"].uid THEN 0 ELSE user
    /\ stored' = [stored EXCEPT !["user"] = NoState]
    /\ UNCHANGED <<db, uids, apps, queue, due, op, hist, faults>>

(***************************************************************************)
(* Everything else                                                          *)
(***************************************************************************)

AppCreated(a) ==
    /\ ~apps[a].alive /\ apps[a].uid < MaxUid
    /\ apps' = [apps EXCEPT ![a] = [uid |-> @.uid + 1, alive |-> TRUE]]
    /\ UNCHANGED <<db, user, uids, op, local, ops, faults>>

AppDeleted(a) ==
    /\ apps[a].alive
    /\ apps' = [apps EXCEPT ![a].alive = FALSE]
    /\ UNCHANGED <<db, user, uids, op, local, ops, faults>>

OperatorDeletes ==
    /\ db.uid # 0 /\ Fault
    /\ db' = NoDb /\ user' = 0
    /\ UNCHANGED <<uids, apps, op, local, ops>>

(* The plugin process ends between operations: the queue is in memory only. *)
Restart ==
    /\ Restarts /\ queue # <<>> /\ Fault
    /\ \A d \in Drivers : At(d, "idle")
    /\ queue' = <<>> /\ due' = FALSE
    /\ hist' = [hist EXCEPT !.dropped = TRUE]
    /\ UNCHANGED <<service, op, stored, ops>>

Database ==
    \/ \E conf \in Configs : BeginCreate(conf) \/ BeginUpdate(conf)
    \/ \E n \in 1..2 : BeginScale(n)
    \/ CreateRules \/ Create \/ CreateConflict \/ resolveProviderID \/ Preflight \/ UpdateRules \/ Resize
    \/ Firewall \/ Recheck \/ Reset \/ ReadBack \/ ScaleGet \/ Delete
    \/ BeginFlush \/ Flush

User ==
    \/ \E epoch \in 0..MaxEpoch : BeginUserCreate(epoch) \/ BeginUserUpdate(epoch)
    \/ UserParent \/ UserRead \/ UserCreate \/ UserReset \/ UserDelete

Next ==
    \/ Database \/ User \/ Restart \/ OperatorDeletes
    \/ \E d \in Drivers : Fail(d)
    \/ \E a \in AppNames : AppCreated(a) \/ AppDeleted(a)

Spec == Init /\ [][Next]_vars

(***************************************************************************)
(* Properties                                                               *)
(***************************************************************************)

RuleNames == {r.name : r \in db.rules}

Pending(conf) == \E i \in DOMAIN queue : queue[i].conf = conf /\ queue[i].uid = db.uid

(* Trusted sources that were left out because their app did not exist are   *)
(* not forgotten: until they are written, FinalizeApply still has them to   *)
(* write, however often it fails, unless the process ended or an older      *)
(* entry has overwritten the rules since.                                   *)
DeferredNotForgotten ==
    At("database", "idle") /\ db.uid # 0 /\ stored["database"].uid = db.uid
        /\ hist.conf.present /\ ~hist.overwritten /\ ~hist.dropped
    => hist.conf.sources \subseteq RuleNames \/ Pending(hist.conf)

Live(d) == IF d = "database" THEN db.password ELSE user

(* A stored password is the current one; the only way to a stale one is a   *)
(* reset whose answer was lost, and then the stored epoch is behind the     *)
(* epoch asked for, so that the next apply rotates again.  No other failure *)
(* of an update comes between a reset and the storing of its password.      *)
StalePasswordRotatesAgain ==
    \A d \in Drivers :
        stored[d].known /\ stored[d].uid = db.uid /\ stored[d].password \notin {0, Live(d)}
            /\ Live(d) # 0
        => hist.lost[d] /\ stored[d].epoch < hist.epoch[d]

(* A rotation that was recorded has happened: the stored epoch never moves  *)
(* without a new password for the credential it stands for.                 *)
EpochMeansReset ==
    [][\A d \in Drivers :
          stored[d].known /\ stored'[d].known /\ stored'[d].epoch # stored[d].epoch
          => stored'[d].password = Live(d)' /\ Live(d)' # Live(d)]_vars

=============================================================================
