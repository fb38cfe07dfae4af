----------------------- MODULE ManagedDatabase_proofs -----------------------
(***************************************************************************)
(* The database and database-user drivers for any configurations, apps and  *)
(* epochs and any number of operations and failures: stored passwords are   *)
(* current or rotated again, a recorded epoch means a reset, and deferred   *)
(* trusted sources are not forgotten (internal/drivers/database.go,         *)
(* database_user.go, FinalizeApply).                                        *)
(***************************************************************************)
EXTENDS ManagedDatabase, TLAPS

-----------------------------------------------------------------------------
(* Shape.                                                                   *)

Pcs == {"idle", "create_rules", "create", "heal", "preflight", "rules", "resize", "firewall",
        "recheck", "reset", "read", "scale", "flush",
        "user_parent", "user_rotate", "user_create", "user_reset"}

RuleRecs  == [name : Sources, uid : Nat]
Entries   == [uid : Nat, conf : Confs]
DbRecs    == [uid : Nat, engine : Engines, size : Nat, nodes : Nat,
              rules : SUBSET RuleRecs, password : Nat]
StoreRecs == [known : BOOLEAN, uid : Nat, epoch : Nat, password : Nat, size : Nat, nodes : Nat]
OpRecs    == [pc : Pcs, conf : Confs, uid : Nat, rules : SUBSET RuleRecs, deferred : BOOLEAN,
              rotate : BOOLEAN, left : Seq(Entries), kept : Seq(Entries)]
HistRecs  == [conf : Confs, overwritten : BOOLEAN, dropped : BOOLEAN,
              epoch : [Drivers -> Nat], lost : [Drivers -> BOOLEAN]]

Shape ==
    /\ db \in DbRecs /\ user \in Nat /\ uids \in Nat
    /\ apps \in [AppNames -> [uid : Nat, alive : BOOLEAN]]
    /\ queue \in Seq(Entries) /\ due \in BOOLEAN
    /\ op \in [Drivers -> OpRecs]
    /\ stored \in [Drivers -> StoreRecs]
    /\ hist \in HistRecs

-----------------------------------------------------------------------------
(* Credentials.  What an operation of the database or the user driver knows *)
(* of the stored state stays true until it stores something: the drivers    *)
(* are sequential, each on its own resource.                                *)

UpdatePcs == {"heal", "preflight", "rules", "resize", "firewall", "recheck", "reset", "read", "scale"}

DatabaseOp(o, s, asked) ==
    /\ o.pc \in {"create_rules", "create"} => ~s.known /\ ~o.rotate
    /\ o.pc \in UpdatePcs =>
          /\ s.uid \in {0, o.uid}
          /\ IF o.rotate THEN /\ s.known /\ s.uid # 0
                              /\ o.conf.epoch > s.epoch /\ asked = o.conf.epoch
             ELSE o.conf.epoch \in {0, s.epoch}
    /\ o.pc \in {"preflight", "recheck", "reset"} => o.rotate
    /\ o.pc = "scale" => ~o.conf.present
    /\ o.pc = "heal" => s.uid = 0
    /\ o.pc = "read" => ~o.rotate
    /\ o.pc # "idle" => o.conf.epoch <= asked
    /\ o.pc \notin {"user_parent", "user_rotate", "user_create", "user_reset"}

UserOp(o, s, asked) ==
    /\ o.pc \in {"idle", "user_parent", "user_rotate", "user_create", "user_reset"}
    /\ o.pc \in {"user_parent", "user_create"} => ~s.known /\ o.conf.epoch <= asked
    /\ o.pc \in {"user_rotate", "user_reset"} =>
          s.known /\ o.conf.epoch > s.epoch /\ asked = o.conf.epoch

StoredOK ==
    /\ \A d \in Drivers : stored[d].epoch <= hist.epoch[d]
    /\ stored["database"].uid = 0 => stored["database"].password = 0
    /\ ~stored["database"].known => stored["database"] = NoState

Credentials ==
    /\ DatabaseOp(op["database"], stored["database"], hist.epoch["database"])
    /\ UserOp(op["user"], stored["user"], hist.epoch["user"])
    /\ StoredOK
    /\ StalePasswordRotatesAgain

-----------------------------------------------------------------------------
(* Deferred rules.  While FinalizeApply runs, what is owed is among the     *)
(* entries it has yet to try and those it keeps.                            *)

Has(s, conf, uid) == \E i \in 1..Len(s) : s[i].conf = conf /\ s[i].uid = uid

Covers(rules, sources) == \A x \in sources : \E r \in rules : r.name = x

Owed == db.uid # 0 /\ hist.conf.present /\ ~hist.overwritten /\ ~hist.dropped

Remembered ==
    LET o == op["database"] IN
    IF o.pc = "flush" THEN Has(o.left, hist.conf, db.uid) \/ Has(o.kept, hist.conf, db.uid)
    ELSE Has(queue, hist.conf, db.uid)

RulesReady(o) ==
    o.pc \in {"create", "resize", "firewall"} /\ o.conf.present /\ ~o.deferred =>
        Covers(o.rules, o.conf.sources)

Deferral ==
    /\ Owed => Covers(db.rules, hist.conf.sources) \/ Remembered
    /\ RulesReady(op["database"])
    /\ op["database"].pc = "flush" => op["database"].left # <<>>

Safe == Shape /\ Credentials /\ Deferral

-----------------------------------------------------------------------------
(* Facts about the values the drivers start from.                           *)

LEMMA IdleFacts ==
    /\ NoConf \in Confs /\ ~NoConf.present /\ NoConf.epoch = 0
    /\ Idle \in OpRecs /\ Idle.conf = NoConf
    /\ Idle.pc = "idle" /\ ~Idle.rotate /\ ~Idle.deferred /\ Idle.kept = <<>>
<1>1. NoConf \in Confs /\ ~NoConf.present /\ NoConf.epoch = 0
    <2>1. "pg" \in Engines /\ 0 \in 0..MaxEpoch  BY DatabaseAssumption DEF Engines
    <2> QED  BY <2>1 DEF NoConf, Confs
<1>2. <<>> \in Seq(Entries) /\ "idle" \in Pcs  BY DEF Pcs
<1> QED  BY <1>1, <1>2 DEF Idle, OpRecs

LEMMA StoreFacts ==
    /\ NoState \in StoreRecs /\ NoDb \in DbRecs /\ NoHistory \in HistRecs
    /\ ~NoState.known /\ NoState.uid = 0 /\ NoState.password = 0 /\ NoState.epoch = 0
    /\ NoDb.uid = 0
<1>1. NoConf \in Confs  BY IdleFacts
<1>2. "pg" \in Engines  BY DEF Engines
<1>3. NoDb \in DbRecs  BY <1>2 DEF NoDb, DbRecs
<1>4. NoHistory \in HistRecs  BY <1>1 DEF NoHistory, HistRecs
<1> QED  BY <1>3, <1>4 DEF NoState, StoreRecs, NoDb

(* Apps are named by sources; rules with every app resolved cover them all. *)
LEMMA RulesFacts ==
    ASSUME Shape, NEW conf \in Confs
    PROVE  /\ Rules(conf) \in SUBSET RuleRecs
           /\ RulesExcludingApps(conf) \in SUBSET RuleRecs
           /\ Covers(Rules(conf), conf.sources)
<1>1. conf.sources \subseteq Sources  BY DEF Confs
<1>2. \A s \in conf.sources : (IF s \in AppNames THEN apps[s].uid ELSE 0) \in Nat
    BY DEF Shape
<1>3. Rules(conf) \in SUBSET RuleRecs  BY <1>1, <1>2 DEF Rules, RuleRecs
<1>4. RulesExcludingApps(conf) \in SUBSET RuleRecs  BY <1>1 DEF RulesExcludingApps, RuleRecs
<1>5. Covers(Rules(conf), conf.sources)
    <2> SUFFICES ASSUME NEW x \in conf.sources PROVE \E r \in Rules(conf) : r.name = x
        BY DEF Covers
    <2>1. [name |-> x, uid |-> IF x \in AppNames THEN apps[x].uid ELSE 0] \in Rules(conf)
        BY DEF Rules
    <2> QED  BY <2>1
<1> QED  BY <1>3, <1>4, <1>5

LEMMA HasAppend ==
    ASSUME NEW s \in Seq(Entries), NEW e \in Entries, NEW conf, NEW uid
    PROVE  /\ Append(s, e) \in Seq(Entries)
           /\ Has(s, conf, uid) => Has(Append(s, e), conf, uid)
           /\ e.conf = conf /\ e.uid = uid => Has(Append(s, e), conf, uid)
<1>1. /\ Append(s, e) \in Seq(Entries) /\ Len(Append(s, e)) = Len(s) + 1 /\ Len(s) \in Nat
      /\ \A i \in 1..Len(s) : Append(s, e)[i] = s[i]
      /\ Append(s, e)[Len(s) + 1] = e
    OBVIOUS
<1>2. 1..Len(s) \subseteq 1..Len(Append(s, e)) /\ Len(s) + 1 \in 1..Len(Append(s, e))  BY <1>1
<1> QED  BY <1>1, <1>2 DEF Has

LEMMA HasTail ==
    ASSUME NEW s \in Seq(Entries), s # <<>>, NEW conf, NEW uid
    PROVE  /\ Tail(s) \in Seq(Entries) /\ s[1] \in Entries
           /\ Len(s) = 1 <=> Tail(s) = <<>>
           /\ Has(s, conf, uid) =>
                 \/ s[1].conf = conf /\ s[1].uid = uid
                 \/ Has(Tail(s), conf, uid)
<1>1. /\ Tail(s) \in Seq(Entries) /\ s[1] \in Entries /\ Len(Tail(s)) = Len(s) - 1
      /\ Len(s) \in Nat /\ Len(s) > 0
    OBVIOUS
<1>2. \A i \in 1..(Len(s) - 1) : Tail(s)[i] = s[i + 1]  OBVIOUS
<1>3. ASSUME Has(s, conf, uid), ~(s[1].conf = conf /\ s[1].uid = uid)
      PROVE  Has(Tail(s), conf, uid)
    <2> PICK i \in 1..Len(s) : s[i].conf = conf /\ s[i].uid = uid  BY <1>3 DEF Has
    <2>1. i # 1  BY <1>3
    <2>2. i - 1 \in 1..(Len(s) - 1) /\ (i - 1) + 1 = i  BY <2>1, <1>1
    <2>3. Tail(s)[i - 1] = s[i]  BY <2>2, <1>2
    <2> QED  BY <2>2, <2>3, <1>1 DEF Has
<1>4. Len(s) = 1 <=> Tail(s) = <<>>
    <2> PICK t \in Seq(Entries) : t = Tail(s)  BY <1>1
    <2>1. t # <<>> => Len(t) > 0  OBVIOUS
    <2>2. t = <<>> => Len(t) = 0  OBVIOUS
    <2> QED  BY <2>1, <2>2, <1>1
<1> QED  BY <1>1, <1>3, <1>4

LEMMA NothingHeld ==
    ASSUME NEW conf, NEW uid
    PROVE  ~Has(<<>>, conf, uid)
BY DEF Has

-----------------------------------------------------------------------------
(* The initial states, and steps that only move an operation on.            *)

LEMMA InitSafe == Init => Safe
<1> SUFFICES ASSUME Init PROVE Safe  OBVIOUS
<1> USE DEF Drivers
<1>1. op = [d \in Drivers |-> Idle] /\ hist = NoHistory /\ queue = <<>>  BY DEF Init
<1>2. /\ db \in DbRecs /\ stored \in [Drivers -> StoreRecs] /\ uids \in Nat
      /\ \A d \in Drivers : stored[d].epoch = 0 /\ stored[d].uid = 0 /\ stored[d].password = 0
      /\ ~stored["database"].known => stored["database"] = NoState
      /\ ~stored["user"].known
    <2>1. CASE db = NoDb /\ uids = 0 /\ stored = [d \in Drivers |-> NoState]
        BY <2>1, StoreFacts
    <2>2. CASE \E conf \in Configs :
                  /\ db = [uid |-> 1, engine |-> conf.engine, size |-> conf.size,
                           nodes |-> conf.nodes, rules |-> {}, password |-> 1]
                  /\ uids = 1
                  /\ stored = [d \in Drivers |-> IF d = "database" THEN ByName(conf) ELSE NoState]
        <3> PICK conf \in Configs :
                  /\ db = [uid |-> 1, engine |-> conf.engine, size |-> conf.size,
                           nodes |-> conf.nodes, rules |-> {}, password |-> 1]
                  /\ uids = 1
                  /\ stored = [d \in Drivers |-> IF d = "database" THEN ByName(conf) ELSE NoState]
            BY <2>2
        <3>1. conf \in Confs  BY DatabaseAssumption
        <3>2. db \in DbRecs  BY <3>1 DEF DbRecs, Confs
        <3>3. /\ ByName(conf) \in StoreRecs /\ ByName(conf).known /\ ByName(conf).epoch = 0
              /\ ByName(conf).uid = 0 /\ ByName(conf).password = 0
            BY <3>1 DEF ByName, NoState, StoreRecs, Confs
        <3> QED  BY <3>2, <3>3, StoreFacts
    <2> QED  BY <2>1, <2>2 DEF Init
<1>3. Shape
    <2>1. apps \in [AppNames -> [uid : Nat, alive : BOOLEAN]] /\ queue \in Seq(Entries)
        BY DEF Init
    <2> QED  BY <1>1, <1>2, <2>1, IdleFacts, StoreFacts, ZenonT(60) DEF Init, Shape
<1>4. Credentials
    <2>1. hist.epoch["database"] = 0 /\ hist.epoch["user"] = 0  BY <1>1 DEF NoHistory
    <2>2. DatabaseOp(op["database"], stored["database"], hist.epoch["database"])
        BY <1>1, <2>1, IdleFacts DEF DatabaseOp, UpdatePcs
    <2>3. UserOp(op["user"], stored["user"], hist.epoch["user"])
        BY <1>1, <2>1, IdleFacts DEF UserOp
    <2>4. StoredOK  BY <1>2, <2>1 DEF StoredOK
    <2>5. StalePasswordRotatesAgain  BY <1>2 DEF StalePasswordRotatesAgain
    <2> QED  BY <2>2, <2>3, <2>4, <2>5 DEF Credentials
<1>5. Deferral
    BY <1>1, IdleFacts DEF Deferral, Owed, RulesReady, NoHistory
<1> QED  BY <1>3, <1>4, <1>5 DEF Safe

(* The history records an epoch that was asked for, and nothing else.       *)
Asking(d, epoch) ==
    /\ hist' \in HistRecs
    /\ hist'.conf = hist.conf /\ hist'.overwritten = hist.overwritten
    /\ hist'.dropped = hist.dropped /\ hist'.lost = hist.lost
    /\ \A e \in Drivers : hist'.epoch[e] = IF e = d THEN epoch ELSE hist.epoch[e]

LEMMA DatabaseMoves ==
    ASSUME Safe, NEW o \in OpRecs, To("database", o), NEW epoch \in Nat,
           Asking("database", epoch), epoch >= hist.epoch["database"],
           UNCHANGED <<service, queue, stored>>, due' \in BOOLEAN,
           DatabaseOp(o, stored["database"], epoch), RulesReady(o),
           o.pc # "flush", op["database"].pc # "flush"
    PROVE  Safe'
<1> USE DEF Safe, Drivers
<1>1. op'["database"] = o /\ op'["user"] = op["user"]  BY DEF Shape, To
<1>2. hist'.epoch["database"] = epoch /\ hist'.epoch["user"] = hist.epoch["user"]
    BY DEF Asking
<1>3. Shape'
    <2>1. op' \in [Drivers -> OpRecs]  BY DEF Shape, To
    <2> QED  BY <2>1 DEF Shape, Asking, service
<1>4. Credentials'
    <2>1. DatabaseOp(op["database"], stored["database"], hist.epoch["database"])'
        BY <1>1, <1>2
    <2>2. UserOp(op["user"], stored["user"], hist.epoch["user"])'
        BY <1>1, <1>2 DEF Credentials
    <2>3. StoredOK'
        BY <1>2 DEF Credentials, StoredOK, Shape, StoreRecs, HistRecs
    <2>4. StalePasswordRotatesAgain'
        BY <1>2, SMTT(30) DEF Credentials, StalePasswordRotatesAgain, Live, Shape, StoreRecs, HistRecs,
                    Asking, service
    <2> QED  BY <2>1, <2>2, <2>3, <2>4 DEF Credentials
<1>5. Deferral'
    BY <1>1 DEF Deferral, Owed, Remembered, Asking, service
<1> QED  BY <1>3, <1>4, <1>5

LEMMA UserMoves ==
    ASSUME Safe, NEW o \in OpRecs, To("user", o), NEW epoch \in Nat,
           Asking("user", epoch), epoch >= hist.epoch["user"],
           UNCHANGED <<service, queue, stored>>, due' \in BOOLEAN,
           UserOp(o, stored["user"], epoch)
    PROVE  Safe'
<1> USE DEF Safe, Drivers
<1>1. op'["database"] = op["database"] /\ op'["user"] = o  BY DEF Shape, To
<1>2. hist'.epoch["user"] = epoch /\ hist'.epoch["database"] = hist.epoch["database"]
    BY DEF Asking
<1>3. Shape'
    <2>1. op' \in [Drivers -> OpRecs]  BY DEF Shape, To
    <2> QED  BY <2>1 DEF Shape, Asking, service
<1>4. Credentials'
    <2>1. DatabaseOp(op["database"], stored["database"], hist.epoch["database"])'
        BY <1>1, <1>2 DEF Credentials
    <2>2. UserOp(op["user"], stored["user"], hist.epoch["user"])'
        BY <1>1, <1>2
    <2>3. StoredOK'
        BY <1>2 DEF Credentials, StoredOK, Shape, StoreRecs, HistRecs
    <2>4. StalePasswordRotatesAgain'
        BY <1>2, SMTT(30) DEF Credentials, StalePasswordRotatesAgain, Live, Shape, StoreRecs, HistRecs,
                    Asking, service
    <2> QED  BY <2>1, <2>2, <2>3, <2>4 DEF Credentials
<1>5. Deferral'
    BY <1>1 DEF Deferral, Owed, Remembered, Asking, service
<1> QED  BY <1>3, <1>4, <1>5

(* A step that leaves the history alone asks for nothing.                   *)
LEMMA AskingNothing ==
    ASSUME Shape, NEW d \in Drivers, hist' = hist
    PROVE  Asking(d, hist.epoch[d]) /\ hist.epoch[d] \in Nat
BY DEF Asking, Shape, HistRecs

LEMMA AskingEpoch ==
    ASSUME Shape, NEW d \in Drivers, NEW epoch \in Nat, Asked(d, epoch)
    PROVE  \E e \in Nat : e >= hist.epoch[d] /\ e >= epoch /\ Asking(d, e)
                          /\ (epoch >= hist.epoch[d] => e = epoch)
<1>1. hist \in HistRecs /\ hist.epoch \in [Drivers -> Nat] /\ hist.epoch[d] \in Nat
    BY DEF Shape, HistRecs
<1> PICK e : e = Later(hist.epoch[d], epoch)  OBVIOUS
<1>2. e \in Nat /\ e >= hist.epoch[d] /\ e >= epoch /\ (epoch >= hist.epoch[d] => e = epoch)
    BY <1>1 DEF Later
<1>3. hist' = [hist EXCEPT !.epoch = [hist.epoch EXCEPT ![d] = e]]
    BY <1>1 DEF Asked, HistRecs
<1>4. [hist.epoch EXCEPT ![d] = e] \in [Drivers -> Nat]  BY <1>1, <1>2
<1>5. Asking(d, e)  BY <1>1, <1>3, <1>4 DEF Asking, HistRecs
<1> QED  BY <1>2, <1>5

(* A driver that ends, and one that only looks.                             *)
LEMMA DatabaseEnds ==
    ASSUME Safe, End("database"), UNCHANGED <<service, queue, stored, hist>>, due' \in BOOLEAN,
           op["database"].pc # "flush"
    PROVE  Safe'
<1>1. DatabaseOp(Idle, stored["database"], hist.epoch["database"]) /\ RulesReady(Idle)
    BY IdleFacts DEF DatabaseOp, UpdatePcs, RulesReady
<1>2. Asking("database", hist.epoch["database"]) /\ hist.epoch["database"] \in Nat
    BY AskingNothing DEF Safe, Drivers
<1> QED  BY <1>1, <1>2, IdleFacts, DatabaseMoves DEF End

LEMMA UserEnds ==
    ASSUME Safe, End("user"), UNCHANGED <<service, queue, stored, hist>>, due' \in BOOLEAN
    PROVE  Safe'
<1>1. UserOp(Idle, stored["user"], hist.epoch["user"])  BY IdleFacts DEF UserOp
<1>2. Asking("user", hist.epoch["user"]) /\ hist.epoch["user"] \in Nat
    BY AskingNothing DEF Safe, Drivers
<1> QED  BY <1>1, <1>2, IdleFacts, UserMoves DEF End

LEMMA DatabaseLooks ==
    ASSUME Safe, NEW pc, NEW ok, NEW next, Look("database", pc, ok, next), pc # "flush",
           ok => /\ next \in OpRecs /\ next.pc # "flush" /\ RulesReady(next)
                 /\ DatabaseOp(next, stored["database"], hist.epoch["database"])
    PROVE  Safe'
<1>1. /\ UNCHANGED <<service, queue, stored, hist>> /\ due' \in BOOLEAN
      /\ op["database"].pc # "flush"
    BY DEF Look, local, At, Safe, Shape
<1>2. CASE ok
    <2>1. To("database", next)  BY <1>2 DEF Look
    <2>2. Asking("database", hist.epoch["database"]) /\ hist.epoch["database"] \in Nat
        BY <1>1, AskingNothing DEF Safe, Drivers
    <2> QED  BY <1>1, <1>2, <2>1, <2>2, DatabaseMoves
<1>3. CASE ~ok
    <2>1. End("database")  BY <1>3 DEF Look, End
    <2> QED  BY <1>1, <2>1, DatabaseEnds
<1> QED  BY <1>2, <1>3

LEMMA UserLooks ==
    ASSUME Safe, NEW pc, NEW ok, NEW next, Look("user", pc, ok, next),
           ok => next \in OpRecs /\ UserOp(next, stored["user"], hist.epoch["user"])
    PROVE  Safe'
<1>1. UNCHANGED <<service, queue, stored, hist>> /\ due' \in BOOLEAN
    BY DEF Look, local, Safe, Shape
<1>2. CASE ok
    <2>1. To("user", next)  BY <1>2 DEF Look
    <2>2. Asking("user", hist.epoch["user"]) /\ hist.epoch["user"] \in Nat
        BY <1>1, AskingNothing DEF Safe, Drivers
    <2> QED  BY <1>1, <1>2, <2>1, <2>2, UserMoves
<1>3. CASE ~ok
    <2>1. End("user")  BY <1>3 DEF Look, End
    <2> QED  BY <1>1, <2>1, UserEnds
<1> QED  BY <1>2, <1>3

-----------------------------------------------------------------------------
(* The database driver's steps that read.                                   *)

Readied(o, pc) == [WithRules(o) EXCEPT !.pc = pc]

LEMMA WithRulesFacts ==
    ASSUME Shape, NEW o \in OpRecs, NEW pc \in Pcs, NEW n, n = Readied(o, pc)
    PROVE  /\ n \in OpRecs /\ n.pc = pc /\ n.conf = o.conf /\ n.uid = o.uid
           /\ n.rotate = o.rotate /\ RulesReady(n)
<1>1. o.conf \in Confs  BY DEF OpRecs
<1> PICK m \in BOOLEAN : m = (Missing(o.conf) # {})  OBVIOUS
<1> PICK r : r = IF Missing(o.conf) = {} THEN Rules(o.conf) ELSE RulesExcludingApps(o.conf)
    OBVIOUS
<1>2. r \in SUBSET RuleRecs /\ (~m => Covers(r, o.conf.sources))  BY <1>1, RulesFacts
<1>3. n = [o EXCEPT !.deferred = m, !.rules = r, !.pc = pc]  BY DEF Readied, WithRules, OpRecs
<1>4. /\ n \in OpRecs /\ n.pc = pc /\ n.conf = o.conf /\ n.uid = o.uid
      /\ n.rotate = o.rotate /\ n.deferred = m /\ n.rules = r
    BY <1>2, <1>3 DEF OpRecs
<1> QED  BY <1>2, <1>4 DEF RulesReady

LEMMA CreateRulesSafe == ASSUME Safe, CreateRules PROVE Safe'
<1> PICK o \in OpRecs : o = op["database"]  BY DEF Safe, Shape, Drivers
<1> PICK n : n = Readied(o, "create")  OBVIOUS
<1>1. /\ n \in OpRecs /\ n.pc = "create" /\ n.conf = o.conf /\ n.uid = o.uid
      /\ n.rotate = o.rotate /\ RulesReady(n)
    BY WithRulesFacts DEF Safe, Pcs
<1>2. Look("database", "create_rules", TRUE, n) /\ o.pc = "create_rules"
    BY DEF CreateRules, Look, At, Readied
<1>3. DatabaseOp(n, stored["database"], hist.epoch["database"])
    BY <1>1, <1>2 DEF Safe, Credentials, DatabaseOp, UpdatePcs
<1> QED  BY <1>1, <1>2, <1>3, DatabaseLooks

LEMMA UpdateRulesSafe == ASSUME Safe, UpdateRules PROVE Safe'
<1> PICK o \in OpRecs : o = op["database"]  BY DEF Safe, Shape, Drivers
<1> PICK n : n = Readied(o, "resize")  OBVIOUS
<1>1. /\ n \in OpRecs /\ n.pc = "resize" /\ n.conf = o.conf /\ n.uid = o.uid
      /\ n.rotate = o.rotate /\ RulesReady(n)
    BY WithRulesFacts DEF Safe, Pcs
<1>2. Look("database", "rules", TRUE, n) /\ o.pc = "rules"
    BY DEF UpdateRules, Look, At, Readied
<1>3. DatabaseOp(n, stored["database"], hist.epoch["database"])
    BY <1>1, <1>2 DEF Safe, Credentials, DatabaseOp, UpdatePcs
<1> QED  BY <1>1, <1>2, <1>3, DatabaseLooks

(* The other reads change where the operation is, and perhaps its database. *)
LEMMA resolveProviderIDSafe == ASSUME Safe, resolveProviderID PROVE Safe'
<1> PICK o \in OpRecs : o = op["database"]  BY DEF Safe, Shape, Drivers
<1> PICK n : n = [o EXCEPT !.pc = "rules", !.uid = db.uid]  OBVIOUS
<1>1. /\ n \in OpRecs /\ n.pc = "rules" /\ n.conf = o.conf /\ n.uid = db.uid
      /\ n.rotate = o.rotate
    BY DEF OpRecs, Pcs, Safe, Shape, DbRecs
<1>2. Look("database", "heal", db.uid # 0, n) /\ o.pc = "heal"
    BY DEF resolveProviderID, Look, At
<1>3. DatabaseOp(n, stored["database"], hist.epoch["database"])
    BY <1>1, <1>2 DEF Safe, Credentials, DatabaseOp, UpdatePcs
<1> QED  BY <1>1, <1>2, <1>3, DatabaseLooks DEF RulesReady

LEMMA PreflightSafe == ASSUME Safe, Preflight PROVE Safe'
<1> PICK o \in OpRecs : o = op["database"]  BY DEF Safe, Shape, Drivers
<1> PICK n : n = [o EXCEPT !.pc = "rules"]  OBVIOUS
<1>1. n \in OpRecs /\ n.pc = "rules" /\ n.conf = o.conf /\ n.uid = o.uid /\ n.rotate = o.rotate
    BY DEF OpRecs, Pcs
<1> PICK ok \in BOOLEAN : ok = (~Gone("database") /\ databaseTLSURI)
    BY DEF databaseTLSURI, Gone
<1>2. Look("database", "preflight", ok, n) /\ o.pc = "preflight"
    BY DEF Preflight, Look, At
<1>3. DatabaseOp(n, stored["database"], hist.epoch["database"])
    BY <1>1, <1>2 DEF Safe, Credentials, DatabaseOp, UpdatePcs
<1> QED  BY <1>1, <1>2, <1>3, DatabaseLooks DEF RulesReady

LEMMA RecheckSafe == ASSUME Safe, Recheck PROVE Safe'
<1> PICK o \in OpRecs : o = op["database"]  BY DEF Safe, Shape, Drivers
<1> PICK n : n = [o EXCEPT !.pc = "reset"]  OBVIOUS
<1>1. n \in OpRecs /\ n.pc = "reset" /\ n.conf = o.conf /\ n.uid = o.uid /\ n.rotate = o.rotate
    BY DEF OpRecs, Pcs
<1> PICK ok \in BOOLEAN : ok = (~Gone("database") /\ databaseTLSURI)
    BY DEF databaseTLSURI, Gone
<1>2. Look("database", "recheck", ok, n) /\ o.pc = "recheck"
    BY DEF Recheck, Look, At
<1>3. DatabaseOp(n, stored["database"], hist.epoch["database"])
    BY <1>1, <1>2 DEF Safe, Credentials, DatabaseOp, UpdatePcs
<1> QED  BY <1>1, <1>2, <1>3, DatabaseLooks DEF RulesReady

(* Scale has no trusted sources to write.                                   *)
LEMMA ScaleGetSafe == ASSUME Safe, ScaleGet PROVE Safe'
<1> PICK o \in OpRecs : o = op["database"]  BY DEF Safe, Shape, Drivers
<1> PICK c : c = [o.conf EXCEPT !.size = db.size]  OBVIOUS
<1>1. /\ c \in Confs /\ c.epoch = o.conf.epoch /\ c.present = o.conf.present
    BY DEF OpRecs, Confs, Safe, Shape, DbRecs
<1> PICK n : n = [o EXCEPT !.pc = "resize", !.conf = c]  OBVIOUS
<1>2. n \in OpRecs /\ n.pc = "resize" /\ n.conf = c /\ n.uid = o.uid /\ n.rotate = o.rotate
    BY <1>1 DEF OpRecs, Pcs
<1> PICK ok \in BOOLEAN : ok = ~Gone("database")  BY DEF Gone
<1>3. Look("database", "scale", ok, n) /\ o.pc = "scale"
    BY DEF ScaleGet, Look, At
<1>4. DatabaseOp(n, stored["database"], hist.epoch["database"])
    BY <1>1, <1>2, <1>3 DEF Safe, Credentials, DatabaseOp, UpdatePcs
<1>5. RulesReady(n)  BY <1>1, <1>2, <1>3 DEF RulesReady, Safe, Credentials, DatabaseOp
<1> QED  BY <1>2, <1>3, <1>4, <1>5, DatabaseLooks

LEMMA CreateConflictSafe == ASSUME Safe, CreateConflict PROVE Safe'
<1> PICK o \in OpRecs : o = op["database"]  BY DEF Safe, Shape, Drivers
<1> PICK n : n = [o EXCEPT !.pc = "rules", !.uid = db.uid]  OBVIOUS
<1>1. /\ n \in OpRecs /\ n.pc = "rules" /\ n.conf = o.conf /\ n.uid = db.uid
      /\ n.rotate = o.rotate
    BY DEF OpRecs, Pcs, Safe, Shape, DbRecs
<1> PICK ok \in BOOLEAN : ok = (o.conf.epoch = 0)  OBVIOUS
<1>2. Look("database", "create", ok, n) /\ o.pc = "create"
    BY DEF CreateConflict, Look, At
<1>3. ASSUME ok PROVE DatabaseOp(n, stored["database"], hist.epoch["database"])
    BY <1>1, <1>2, <1>3, StoreFacts DEF Safe, Credentials, DatabaseOp, UpdatePcs, StoredOK
<1> QED  BY <1>1, <1>2, <1>3, DatabaseLooks DEF RulesReady

(* Operations begun.                                                        *)
LEMMA BeginCreateSafe == ASSUME Safe, NEW conf \in Configs, BeginCreate(conf) PROVE Safe'
<1>1. conf \in Confs /\ conf.epoch \in Nat  BY DatabaseAssumption DEF Confs
<1> PICK n : n = [Idle EXCEPT !.pc = "create_rules", !.conf = conf]  OBVIOUS
<1>2. n \in OpRecs /\ n.pc = "create_rules" /\ n.conf = conf /\ ~n.rotate
    BY <1>1, IdleFacts DEF OpRecs, Pcs
<1> PICK e \in Nat : e >= hist.epoch["database"] /\ e >= conf.epoch /\ Asking("database", e)
    BY <1>1, AskingEpoch DEF BeginCreate, Safe, Drivers
<1>3. /\ To("database", n) /\ UNCHANGED <<service, queue, stored>> /\ due' \in BOOLEAN
      /\ op["database"].pc # "flush" /\ ~stored["database"].known
    BY DEF BeginCreate, Action, Begin, At, Safe, Shape
<1>4. DatabaseOp(n, stored["database"], e) /\ RulesReady(n)
    BY <1>1, <1>2, <1>3 DEF DatabaseOp, UpdatePcs, RulesReady
<1> QED  BY <1>2, <1>3, <1>4, DatabaseMoves

LEMMA BeginUpdateSafe == ASSUME Safe, NEW conf \in Configs, BeginUpdate(conf) PROVE Safe'
<1>1. conf \in Confs /\ conf.epoch \in Nat  BY DatabaseAssumption DEF Confs
<1> PICK s \in StoreRecs : s = stored["database"]  BY DEF Safe, Shape, Drivers
<1> PICK r \in BOOLEAN : r <=> (conf.epoch \notin {0, s.epoch})  OBVIOUS
<1>p. PICK pc : pc = CASE s.uid = 0 -> "heal" [] r -> "preflight" [] OTHER -> "rules"  OBVIOUS
<1>2. /\ pc \in {"heal", "preflight", "rules"} /\ (pc = "preflight" => r)
      /\ pc = "heal" => s.uid = 0
    BY <1>p
<1>3. hist.epoch["database"] \in Nat /\ s.epoch <= hist.epoch["database"] /\ s.epoch \in Nat
    BY DEF Safe, Shape, HistRecs, Credentials, StoredOK, Drivers, StoreRecs
<1>n. PICK n : n = [Idle EXCEPT !.pc = pc, !.conf = conf, !.uid = s.uid, !.rotate = r]  OBVIOUS
<1>4. n \in OpRecs /\ n.pc = pc /\ n.conf = conf /\ n.rotate = r /\ n.uid = s.uid
    BY <1>n, <1>1, <1>2, IdleFacts DEF OpRecs, Pcs, StoreRecs
<1>e. PICK e \in Nat : /\ e >= hist.epoch["database"] /\ e >= conf.epoch
                       /\ Asking("database", e)
                       /\ conf.epoch >= hist.epoch["database"] => e = conf.epoch
    BY <1>1, AskingEpoch DEF BeginUpdate, Safe, Drivers
<1>5. To("database", n)  BY <1>n, <1>p DEF BeginUpdate
<1>6. /\ UNCHANGED <<service, queue, stored>> /\ due' \in BOOLEAN
      /\ op["database"].pc # "flush" /\ s.known
      /\ conf.epoch = 0 \/ conf.epoch >= hist.epoch["database"]
      /\ r => s.uid # 0
    BY DEF BeginUpdate, Action, Begin, At, Safe, Shape
<1>7. r => e = conf.epoch /\ conf.epoch > s.epoch
    BY <1>1, <1>3, <1>6, <1>e
<1>8. DatabaseOp(n, s, e) /\ RulesReady(n)
    BY <1>1, <1>2, <1>4, <1>6, <1>7, <1>e DEF DatabaseOp, UpdatePcs, RulesReady
<1>9. n.pc # "flush"  BY <1>2, <1>4
<1> QED  BY <1>4, <1>5, <1>6, <1>8, <1>9, <1>e, DatabaseMoves

LEMMA BeginScaleSafe == ASSUME Safe, NEW m \in 1..2, BeginScale(m) PROVE Safe'
<1> PICK s \in StoreRecs : s = stored["database"]  BY DEF Safe, Shape, Drivers
<1>c. PICK c : c = [NoConf EXCEPT !.nodes = m]  OBVIOUS
<1>1. c \in Confs /\ c.epoch = 0 /\ ~c.present  BY <1>c, IdleFacts DEF Confs
<1>n. PICK n : n = [Idle EXCEPT !.pc = "scale", !.uid = s.uid, !.conf = c]  OBVIOUS
<1>2. n \in OpRecs /\ n.pc = "scale" /\ n.conf = c /\ n.uid = s.uid /\ ~n.rotate
    BY <1>n, <1>1, IdleFacts DEF OpRecs, Pcs, StoreRecs
<1>3. n = [Idle EXCEPT !.pc = "scale", !.uid = stored["database"].uid, !.conf.nodes = m]
    BY <1>n, <1>c DEF Idle
<1>4. /\ To("database", n) /\ UNCHANGED <<service, queue, stored, hist>> /\ due' \in BOOLEAN
      /\ op["database"].pc # "flush"
    BY <1>3, Zenon DEF BeginScale, Action, Begin, At, Safe, Shape, local
<1>5. Asking("database", hist.epoch["database"]) /\ hist.epoch["database"] \in Nat
    BY <1>4, AskingNothing DEF Safe, Drivers
<1>6. DatabaseOp(n, s, hist.epoch["database"]) /\ RulesReady(n)
    BY <1>1, <1>2, <1>5 DEF DatabaseOp, UpdatePcs, RulesReady
<1> QED  BY <1>2, <1>4, <1>5, <1>6, DatabaseMoves

-----------------------------------------------------------------------------
(* The database driver's steps that write.                                  *)

(* The credentials: a step of the database driver that changes no password. *)
LEMMA CredentialsKept ==
    ASSUME Safe, db'.uid = db.uid, db'.password = db.password, user' = user, stored' = stored,
           hist'.epoch = hist.epoch, hist'.lost = hist.lost, op'["user"] = op["user"],
           DatabaseOp(op'["database"], stored["database"], hist.epoch["database"])
    PROVE  Credentials'
<1> USE DEF Safe, Credentials
<1>1. StoredOK'  BY DEF StoredOK
<1>2. StalePasswordRotatesAgain'  BY DEF StalePasswordRotatesAgain, Live
<1>3. DatabaseOp(op["database"], stored["database"], hist.epoch["database"])'  OBVIOUS
<1>4. UserOp(op["user"], stored["user"], hist.epoch["user"])'  OBVIOUS
<1> QED  BY <1>1, <1>2, <1>3, <1>4

LEMMA IdleDatabase ==
    \A s, epoch : DatabaseOp(Idle, s, epoch) /\ RulesReady(Idle)
BY IdleFacts DEF DatabaseOp, UpdatePcs, RulesReady

LEMMA AfterWritesFacts ==
    ASSUME NEW o \in OpRecs, NEW s, NEW asked, DatabaseOp(o, s, asked), o.pc \in UpdatePcs,
           o.pc # "heal", NEW n, n = AfterWrites(o)
    PROVE  /\ n \in OpRecs /\ n.pc \in {"recheck", "read"} /\ n.conf = o.conf /\ n.uid = o.uid
           /\ DatabaseOp(n, s, asked) /\ RulesReady(n)
<1>1. /\ n \in OpRecs /\ n.conf = o.conf /\ n.uid = o.uid /\ n.rotate = o.rotate
      /\ n.pc = IF o.rotate THEN "recheck" ELSE "read"
    BY DEF AfterWrites, OpRecs, Pcs
<1>2. o.pc # "idle"  BY DEF UpdatePcs
<1>3. DatabaseOp(n, s, asked)  BY <1>1, <1>2 DEF DatabaseOp, UpdatePcs
<1>4. RulesReady(n)  BY <1>1 DEF RulesReady
<1> QED  BY <1>1, <1>3, <1>4

LEMMA FailSafe == ASSUME Safe, NEW d \in Drivers, Fail(d) PROVE Safe'
<1>1. /\ UNCHANGED <<service, queue, stored, hist>> /\ due' \in BOOLEAN
      /\ End(d) /\ op[d].pc # "flush"
    BY DEF Fail, local, Safe, Shape
<1>2. CASE d = "database"  BY <1>1, <1>2, DatabaseEnds
<1>3. CASE d = "user"  BY <1>1, <1>3, UserEnds
<1> QED  BY <1>2, <1>3 DEF Drivers

LEMMA ResizeSafe == ASSUME Safe, Resize PROVE Safe'
<1> PICK o \in OpRecs : o = op["database"]  BY DEF Safe, Shape, Drivers
<1>n. PICK n : n = IF o.conf.present THEN [o EXCEPT !.pc = "firewall"] ELSE AfterWrites(o)
    OBVIOUS
<1>d. PICK new : new = [db EXCEPT !.size = o.conf.size, !.nodes = o.conf.nodes]  OBVIOUS
<1>1. /\ o.pc = "resize" /\ Write("database", new, n)
      /\ UNCHANGED <<user, uids, apps, queue, due, stored, hist>>
    BY <1>n, <1>d DEF Resize, At, local
<1>2. /\ new \in DbRecs /\ new.uid = db.uid /\ new.password = db.password
      /\ new.rules = db.rules
    BY <1>d DEF Safe, Shape, DbRecs, OpRecs, Confs
<1>3. /\ n \in OpRecs /\ n.pc # "flush" /\ RulesReady(n)
      /\ DatabaseOp(n, stored["database"], hist.epoch["database"])
    <2>1. CASE o.conf.present
        <3>1. n = [o EXCEPT !.pc = "firewall"]  BY <2>1, <1>n
        <3>2. n \in OpRecs /\ n.pc = "firewall" /\ n.conf = o.conf /\ n.uid = o.uid
              /\ n.rotate = o.rotate /\ n.rules = o.rules /\ n.deferred = o.deferred
            BY <3>1 DEF OpRecs, Pcs
        <3> QED
            BY <1>1, <3>2 DEF Safe, Credentials, DatabaseOp, UpdatePcs, Deferral, RulesReady
    <2>2. CASE ~o.conf.present
        <3>1. n = AfterWrites(o)  BY <2>2, <1>n
        <3> QED  BY <1>1, <3>1, AfterWritesFacts DEF Safe, Credentials, UpdatePcs
    <2> QED  BY <2>1, <2>2
<1> PICK m \in OpRecs : /\ m \in {n, Idle} /\ To("database", m)
                        /\ db' = db \/ db' = new
    BY <1>1, <1>3, IdleFacts DEF Write, End
<1>4. /\ m.pc # "flush" /\ RulesReady(m)
      /\ DatabaseOp(m, stored["database"], hist.epoch["database"])
    BY <1>3, IdleFacts, IdleDatabase
<1>5. /\ op'["database"] = m /\ op'["user"] = op["user"] /\ op' \in [Drivers -> OpRecs]
      /\ db' \in DbRecs /\ db'.uid = db.uid /\ db'.password = db.password /\ db'.rules = db.rules
    BY <1>2 DEF Safe, Shape, To, Drivers
<1>6. Shape'  BY <1>1, <1>5 DEF Safe, Shape
<1>7. Credentials'  BY <1>1, <1>4, <1>5, CredentialsKept
<1>8. Deferral'
    BY <1>1, <1>4, <1>5 DEF Safe, Deferral, Owed, Remembered
<1> QED  BY <1>6, <1>7, <1>8 DEF Safe

(* The rules of the configuration are written, or their answer is lost.     *)
LEMMA RuledFacts ==
    ASSUME Shape, NEW conf \in Confs, NEW h, h = Ruled(conf)
    PROVE  /\ h \in HistRecs /\ h.conf = conf /\ ~h.overwritten /\ ~h.dropped
           /\ h.epoch = hist.epoch /\ h.lost = hist.lost
BY DEF Ruled, Shape, HistRecs

LEMMA DeferredFacts ==
    ASSUME Shape, NEW o \in OpRecs, NEW uid \in Nat, NEW q, q = Deferred(o, uid)
    PROVE  q \in Seq(Entries) /\ (o.deferred => Has(q, o.conf, uid))
<1> PICK e : e = [uid |-> uid, conf |-> o.conf]  OBVIOUS
<1>1. e \in Entries /\ e.conf = o.conf /\ e.uid = uid  BY DEF Entries, OpRecs
<1>2. queue \in Seq(Entries)  BY DEF Shape
<1>3. Append(queue, e) \in Seq(Entries) /\ Has(Append(queue, e), o.conf, uid)
    BY <1>1, <1>2, HasAppend
<1> QED  BY <1>2, <1>3 DEF Deferred

LEMMA FirewallSafe == ASSUME Safe, Firewall PROVE Safe'
<1> PICK o \in OpRecs : o = op["database"]  BY DEF Safe, Shape, Drivers
<1>n. PICK n : n = AfterWrites(o)  OBVIOUS
<1>d. PICK new : new = [db EXCEPT !.rules = o.rules]  OBVIOUS
<1> DEFINE answered == op'["database"].pc # "idle"
<1>1. /\ o.pc = "firewall" /\ Write("database", new, n)
      /\ UNCHANGED <<user, uids, apps, stored>>
      /\ queue' = IF answered THEN Deferred(o, o.uid) ELSE queue
      /\ due' = (queue' # queue)
      /\ hist' = IF answered THEN Ruled(o.conf)
                 ELSE IF Gone("database") THEN hist ELSE Ruled(NoConf)
    BY <1>n, <1>d DEF Firewall, At
<1>2. /\ new \in DbRecs /\ new.uid = db.uid /\ new.password = db.password
      /\ new.rules = o.rules
    BY <1>d DEF Safe, Shape, DbRecs, OpRecs
<1>3. /\ n \in OpRecs /\ n.pc \in {"recheck", "read"} /\ RulesReady(n)
      /\ DatabaseOp(n, stored["database"], hist.epoch["database"])
    BY <1>n, <1>1, AfterWritesFacts DEF Safe, Credentials, UpdatePcs
<1>4. CASE ~Gone("database") /\ db' = new /\ To("database", n)
    <2>1. /\ op'["database"] = n /\ op'["user"] = op["user"] /\ op' \in [Drivers -> OpRecs]
        BY <1>3, <1>4 DEF Safe, Shape, To, Drivers
    <2>2. answered  BY <2>1, <1>3
    <2>3. queue' = Deferred(o, o.uid) /\ hist' = Ruled(o.conf)  BY <2>2, <1>1
    <2> HIDE DEF answered
    <2>4. o.conf \in Confs /\ o.uid \in Nat /\ o.uid = db.uid  BY <1>4 DEF OpRecs, Gone
    <2>5. queue' \in Seq(Entries) /\ (o.deferred => Has(queue', o.conf, o.uid))
        BY <2>3, <2>4, DeferredFacts DEF Safe
    <2>6. /\ hist' \in HistRecs /\ hist'.conf = o.conf /\ hist'.epoch = hist.epoch
          /\ hist'.lost = hist.lost
        BY <2>3, <2>4, RuledFacts DEF Safe
    <2>7. Shape'  BY <1>1, <1>2, <1>4, <2>1, <2>5, <2>6 DEF Safe, Shape
    <2>8. Credentials'  BY <1>1, <1>2, <1>3, <1>4, <2>1, <2>6, CredentialsKept
    <2>9. Deferral'
        <3>1. RulesReady(o)  BY DEF Safe, Deferral
        <3>2. Owed' => Covers(db'.rules, hist'.conf.sources) \/ Has(queue', hist'.conf, db'.uid)
            BY <1>1, <1>2, <1>4, <2>4, <2>5, <2>6, <3>1 DEF Owed, RulesReady
        <3> QED  BY <3>2, <2>1, <1>3 DEF Deferral, Remembered
    <2> QED  BY <2>7, <2>8, <2>9 DEF Safe
<1>5. CASE ~Gone("database") /\ db' = new /\ End("database")
    <2>1. op'["database"] = Idle /\ op'["user"] = op["user"] /\ op' \in [Drivers -> OpRecs]
        BY <1>5, IdleFacts DEF Safe, Shape, To, End, Drivers
    <2>2. ~answered  BY <2>1, IdleFacts
    <2>3. queue' = queue /\ hist' = Ruled(NoConf)  BY <2>2, <1>1, <1>5
    <2> HIDE DEF answered
    <2>4. /\ hist' \in HistRecs /\ hist'.conf = NoConf /\ hist'.epoch = hist.epoch
          /\ hist'.lost = hist.lost
        BY <2>3, IdleFacts, RuledFacts DEF Safe
    <2>5. Shape'  BY <1>1, <1>2, <1>5, <2>1, <2>3, <2>4 DEF Safe, Shape
    <2>6. Credentials'  BY <1>1, <1>2, <1>5, <2>1, <2>4, IdleDatabase, CredentialsKept
    <2>7. Deferral'
        BY <2>1, <2>4, IdleFacts, IdleDatabase DEF Deferral, Owed
    <2> QED  BY <2>5, <2>6, <2>7 DEF Safe
<1>6. CASE Gone("database") /\ End("database") /\ UNCHANGED db
    <2>1. op'["database"] = Idle  BY <1>6 DEF Safe, Shape, To, End, Drivers
    <2>2. ~answered  BY <2>1, IdleFacts
    <2>3. queue' = queue /\ hist' = hist  BY <2>2, <1>1, <1>6
    <2> QED  BY <1>1, <1>6, <2>3, DatabaseEnds DEF service
<1> HIDE DEF answered
<1> QED  BY <1>1, <1>4, <1>5, <1>6 DEF Write

(* A reset that was answered is stored; one that was not leaves the stored  *)
(* epoch behind the one asked for.                                          *)
LEMMA StoreResetFacts ==
    ASSUME Shape, NEW d \in Drivers, NEW password \in Nat, NEW epoch \in Nat,
           NEW answered \in BOOLEAN, StoreReset(d, password, epoch, answered)
    PROVE  /\ stored' \in [Drivers -> StoreRecs] /\ hist' \in HistRecs
           /\ \A e \in Drivers \ {d} : stored'[e] = stored[e] /\ hist'.lost[e] = hist.lost[e]
           /\ ~answered => stored' = stored /\ hist'.lost[d]
           /\ answered => /\ stored'[d].password = password /\ stored'[d].epoch = epoch
                          /\ stored'[d].known = stored[d].known /\ stored'[d].uid = stored[d].uid
           /\ hist'.conf = hist.conf /\ hist'.overwritten = hist.overwritten
           /\ hist'.dropped = hist.dropped /\ hist'.epoch = hist.epoch
<1>1. /\ hist \in HistRecs /\ hist.lost \in [Drivers -> BOOLEAN]
      /\ stored \in [Drivers -> StoreRecs] /\ stored[d] \in StoreRecs
    BY DEF Shape, HistRecs
<1> PICK l : l = [hist.lost EXCEPT ![d] = ~answered]  OBVIOUS
<1>2. /\ l \in [Drivers -> BOOLEAN] /\ l[d] = ~answered
      /\ \A e \in Drivers \ {d} : l[e] = hist.lost[e]
    BY <1>1
<1>3. hist' = [hist EXCEPT !.lost = l]  BY <1>1 DEF StoreReset, HistRecs
<1>4. /\ hist' \in HistRecs /\ hist'.lost = l
      /\ hist'.conf = hist.conf /\ hist'.overwritten = hist.overwritten
      /\ hist'.dropped = hist.dropped /\ hist'.epoch = hist.epoch
    BY <1>1, <1>2, <1>3 DEF HistRecs
<1>5. CASE answered
    <2>1. stored' = [stored EXCEPT ![d].password = password, ![d].epoch = epoch]
        BY <1>5 DEF StoreReset
    <2> PICK r : r = [stored[d] EXCEPT !.password = password, !.epoch = epoch]  OBVIOUS
    <2>2. /\ r \in StoreRecs /\ r.password = password /\ r.epoch = epoch
          /\ r.known = stored[d].known /\ r.uid = stored[d].uid
        BY <1>1 DEF StoreRecs
    <2>3. stored' = [stored EXCEPT ![d] = r]  BY <1>1, <2>1 DEF StoreRecs
    <2> QED  BY <1>1, <1>2, <1>4, <1>5, <2>2, <2>3
<1>6. CASE ~answered
    <2>1. stored' = stored  BY <1>6 DEF StoreReset
    <2> QED  BY <1>1, <1>2, <1>4, <1>6, <2>1
<1> QED  BY <1>5, <1>6

LEMMA ResetSafe == ASSUME Safe, Reset PROVE Safe'
<1> USE DEF Drivers
<1> PICK o \in OpRecs : o = op["database"]  BY DEF Safe, Shape
<1>d. PICK new : new = [db EXCEPT !.password = @ + 1]  OBVIOUS
<1>1. /\ o.pc = "reset" /\ Write("database", new, Idle)
      /\ IF db' = db THEN UNCHANGED <<stored, hist>>
         ELSE StoreReset("database", db'.password, o.conf.epoch, faults' = faults)
      /\ UNCHANGED <<user, uids, apps, queue, due>>
    BY <1>d DEF Reset, At
<1>2. /\ new \in DbRecs /\ new.uid = db.uid /\ new.password = db.password + 1
      /\ new.rules = db.rules /\ db.password \in Nat /\ new # db
    BY <1>d DEF Safe, Shape, DbRecs
<1>3. End("database") /\ (db' = db \/ (db' = new /\ ~Gone("database")))
    BY <1>1 DEF Write, End
<1>4. CASE db' = db
    BY <1>1, <1>3, <1>4, DatabaseEnds DEF service, Safe, Shape
<1>5. CASE db' = new /\ ~Gone("database")
    <2>1. op'["database"] = Idle /\ op'["user"] = op["user"] /\ op' \in [Drivers -> OpRecs]
        BY <1>3, IdleFacts DEF Safe, Shape, To, End
    <2> PICK a \in BOOLEAN : a <=> (faults' = faults)  OBVIOUS
    <2>2. o.conf.epoch \in Nat /\ new.password \in Nat  BY <1>2 DEF OpRecs, Confs
    <2>3. StoreReset("database", new.password, o.conf.epoch, a)
        BY <1>1, <1>2, <1>5 DEF StoreReset
    <2>4. /\ stored' \in [Drivers -> StoreRecs] /\ hist' \in HistRecs
          /\ stored'["user"] = stored["user"] /\ hist'.lost["user"] = hist.lost["user"]
          /\ ~a => stored' = stored /\ hist'.lost["database"]
          /\ a => /\ stored'["database"].password = new.password
                  /\ stored'["database"].epoch = o.conf.epoch
                  /\ stored'["database"].known = stored["database"].known
                  /\ stored'["database"].uid = stored["database"].uid
          /\ hist'.conf = hist.conf /\ hist'.overwritten = hist.overwritten
          /\ hist'.dropped = hist.dropped /\ hist'.epoch = hist.epoch
        BY <2>2, <2>3, StoreResetFacts DEF Safe
    <2>5. /\ stored["database"].known /\ stored["database"].uid # 0
          /\ o.conf.epoch > stored["database"].epoch /\ hist.epoch["database"] = o.conf.epoch
        BY <1>1 DEF Safe, Credentials, DatabaseOp, UpdatePcs
    <2>6. Shape'  BY <1>1, <1>2, <1>5, <2>1, <2>4 DEF Safe, Shape
    <2>7. Credentials'
        <3>1. StoredOK'
            <4>1. CASE a
                <5>1. stored'["database"].epoch <= hist'.epoch["database"]
                    BY <2>2, <2>4, <2>5, <4>1
                <5>2. stored'["user"].epoch <= hist'.epoch["user"]
                    BY <2>4 DEF Safe, Credentials, StoredOK
                <5> QED  BY <2>4, <2>5, <4>1, <5>1, <5>2 DEF StoredOK
            <4>2. CASE ~a  BY <2>4, <4>2 DEF Safe, Credentials, StoredOK
            <4> QED  BY <4>1, <4>2
        <3>2. StalePasswordRotatesAgain'
            BY <1>1, <1>2, <1>5, <2>4, <2>5 DEF Safe, Credentials, StalePasswordRotatesAgain, Live
        <3>3. DatabaseOp(op["database"], stored["database"], hist.epoch["database"])'
            BY <2>1, IdleDatabase
        <3>4. UserOp(op["user"], stored["user"], hist.epoch["user"])'
            BY <2>1, <2>4 DEF Safe, Credentials
        <3> QED  BY <3>1, <3>2, <3>3, <3>4 DEF Credentials
    <2>8. Deferral'
        BY <1>1, <1>2, <1>5, <2>1, <2>4, IdleFacts, IdleDatabase
        DEF Safe, Deferral, Owed, Remembered
    <2> QED  BY <2>6, <2>7, <2>8 DEF Safe
<1> QED  BY <1>3, <1>4, <1>5

LEMMA ReadBackSafe == ASSUME Safe, ReadBack PROVE Safe'
<1> USE DEF Drivers
<1> PICK o \in OpRecs : o = op["database"]  BY DEF Safe, Shape
<1> PICK s \in StoreRecs : s = stored["database"]  BY DEF Safe, Shape
<1>1. /\ o.pc = "read" /\ End("database")
      /\ UNCHANGED <<service, queue, due, hist>> /\ due' \in BOOLEAN
    BY DEF ReadBack, At, Safe, Shape
<1>2. CASE Gone("database")
    BY <1>1, <1>2, DatabaseEnds DEF ReadBack
<1>3. CASE ~Gone("database")
    <2>1. op'["database"] = Idle /\ op'["user"] = op["user"] /\ op' \in [Drivers -> OpRecs]
        BY <1>1, IdleFacts DEF Safe, Shape, To, End
    <2>r. PICK r : r = [s EXCEPT !.known = TRUE, !.uid = o.uid, !.size = db.size,
                             !.nodes = db.nodes,
                             !.epoch = IF o.conf.epoch # 0 THEN o.conf.epoch ELSE s.epoch]
        OBVIOUS
    <2>2. o.uid = db.uid /\ db.uid # 0 /\ db.uid \in Nat /\ db.size \in Nat /\ db.nodes \in Nat
        BY <1>3 DEF Gone, Safe, Shape, DbRecs
    <2>3. s.uid \in {0, o.uid} /\ o.conf.epoch \in {0, s.epoch}
        BY <1>1 DEF Safe, Credentials, DatabaseOp, UpdatePcs
    <2>4. r \in StoreRecs /\ r.known /\ r.uid = o.uid /\ r.password = s.password
          /\ r.epoch = s.epoch
        <3>1. r = [s EXCEPT !.known = TRUE, !.uid = o.uid, !.size = db.size,
                            !.nodes = db.nodes, !.epoch = s.epoch]
            BY <2>r, <2>3 DEF StoreRecs
        <3> QED  BY <3>1, <2>2 DEF StoreRecs
    <2>5. stored' = [stored EXCEPT !["database"] = r]
        BY <2>r, <1>3 DEF ReadBack, Safe, Shape, StoreRecs
    <2>6. /\ stored'["database"] = r /\ stored'["user"] = stored["user"]
          /\ stored' \in [Drivers -> StoreRecs]
        BY <2>4, <2>5 DEF Safe, Shape
    <2>7. Shape'  BY <1>1, <2>1, <2>6 DEF Safe, Shape, service
    <2>8. Credentials'
        <3>1. StoredOK'
            BY <1>1, <2>2, <2>4, <2>6 DEF Safe, Credentials, StoredOK
        <3>2. ~s.known => s.password = 0
            BY StoreFacts DEF Safe, Credentials, StoredOK
        <3>3. s.uid = 0 => s.password = 0  BY DEF Safe, Credentials, StoredOK
        <3>4. StalePasswordRotatesAgain'
            BY <1>1, <2>2, <2>3, <2>4, <2>6, <3>2, <3>3
            DEF Safe, Credentials, StalePasswordRotatesAgain, Live, service
        <3>5. DatabaseOp(op["database"], stored["database"], hist.epoch["database"])'
            BY <2>1, IdleDatabase
        <3>6. UserOp(op["user"], stored["user"], hist.epoch["user"])'
            BY <1>1, <2>1, <2>6 DEF Safe, Credentials
        <3> QED  BY <3>1, <3>4, <3>5, <3>6 DEF Credentials
    <2>9. Deferral'
        BY <1>1, <2>1, IdleFacts, IdleDatabase DEF Safe, Deferral, Owed, Remembered, service
    <2> QED  BY <2>7, <2>8, <2>9 DEF Safe
<1> QED  BY <1>2, <1>3

LEMMA DeleteSafe == ASSUME Safe, Delete PROVE Safe'
<1> USE DEF Drivers
<1>1. UNCHANGED <<uids, apps, queue, due, op, hist>>  BY DEF Delete
<1>2. CASE UNCHANGED <<db, user, stored>>
    BY <1>1, <1>2 DEF Safe, Shape, Credentials, StoredOK, StalePasswordRotatesAgain, Live,
                      Deferral, Owed, Remembered
<1>3. CASE /\ db' = NoDb /\ user' = 0
           /\ stored' = [stored EXCEPT !["database"] = NoState]
    <2>1. /\ stored'["database"] = NoState /\ stored'["user"] = stored["user"]
          /\ stored' \in [Drivers -> StoreRecs] /\ op["database"].pc = "idle"
        BY <1>3, StoreFacts DEF Safe, Shape, Delete, Action, Begin, At
    <2>2. Shape'  BY <1>1, <1>3, <2>1, StoreFacts DEF Safe, Shape
    <2>3. Credentials'
        <3>1. StoredOK'
            BY <1>1, <2>1, StoreFacts DEF Safe, Credentials, StoredOK, Shape, HistRecs
        <3>2. StalePasswordRotatesAgain'
            BY <1>1, <1>3, <2>1, StoreFacts DEF StalePasswordRotatesAgain, Live
        <3>3. DatabaseOp(op["database"], stored["database"], hist.epoch["database"])'
            BY <1>1, <2>1 DEF DatabaseOp, UpdatePcs
        <3>4. UserOp(op["user"], stored["user"], hist.epoch["user"])'
            BY <1>1, <2>1 DEF Safe, Credentials
        <3> QED  BY <3>1, <3>2, <3>3, <3>4 DEF Credentials
    <2>4. Deferral'
        BY <1>1, <1>3, StoreFacts DEF Safe, Deferral, Owed
    <2> QED  BY <2>2, <2>3, <2>4 DEF Safe
<1> QED  BY <1>2, <1>3 DEF Delete

LEMMA CreateSafe == ASSUME Safe, Create PROVE Safe'
<1> USE DEF Drivers
<1> PICK o \in OpRecs : o = op["database"]  BY DEF Safe, Shape
<1> PICK uid \in Nat : uid = uids + 1 /\ uid # 0  BY DEF Safe, Shape
<1>d. PICK new : new = [uid |-> uid, engine |-> o.conf.engine, size |-> o.conf.size,
                        nodes |-> o.conf.nodes, rules |-> o.rules, password |-> 1]
    OBVIOUS
<1>s. PICK s : s = [known |-> TRUE, uid |-> uid, epoch |-> o.conf.epoch, password |-> 1,
                    size |-> o.conf.size, nodes |-> o.conf.nodes]
    OBVIOUS
<1>1. o.conf \in Confs /\ o.conf.epoch \in Nat  BY DEF OpRecs, Confs
<1>2. new \in DbRecs /\ new.uid = uid /\ new.password = 1 /\ new.rules = o.rules
    BY <1>d, <1>1 DEF DbRecs, OpRecs, Confs
<1>3. /\ s \in StoreRecs /\ s.known /\ s.uid = uid /\ s.epoch = o.conf.epoch
      /\ s.password = 1
    BY <1>s, <1>1 DEF StoreRecs, Confs
<1>4. /\ o.pc = "create" /\ db' = new /\ user' = 0 /\ uids' = uid /\ End("database")
      /\ apps' = apps
    BY <1>d DEF Create, At
<1>5. /\ op'["database"] = Idle /\ op'["user"] = op["user"] /\ op' \in [Drivers -> OpRecs]
      /\ RulesReady(o) /\ ~stored["database"].known
      /\ o.conf.epoch <= hist.epoch["database"]
    BY <1>4, IdleFacts DEF Safe, Shape, To, End, Deferral, Credentials, DatabaseOp
<1>6. ASSUME stored' \in [Drivers -> StoreRecs], stored'["user"] = stored["user"],
             stored'["database"] \in {stored["database"], s},
             hist'.epoch = hist.epoch
      PROVE  Credentials'
    <2>1. StoredOK'
        BY <1>3, <1>5, <1>6 DEF Safe, Credentials, StoredOK
    <2>2. StalePasswordRotatesAgain'
        BY <1>2, <1>3, <1>4, <1>5, <1>6 DEF StalePasswordRotatesAgain, Live
    <2>3. DatabaseOp(op["database"], stored["database"], hist.epoch["database"])'
        BY <1>5, IdleDatabase
    <2>4. UserOp(op["user"], stored["user"], hist.epoch["user"])'
        BY <1>5, <1>6 DEF Safe, Credentials
    <2> QED  BY <2>1, <2>2, <2>3, <2>4 DEF Credentials
<1>7. CASE hist' = Ruled(NoConf) /\ UNCHANGED <<queue, due, stored>>
    <2>1. hist' \in HistRecs /\ hist'.conf = NoConf /\ hist'.epoch = hist.epoch
        BY <1>7, IdleFacts, RuledFacts DEF Safe
    <2>2. Shape'  BY <1>2, <1>4, <1>5, <1>7, <2>1 DEF Safe, Shape
    <2>3. Credentials'  BY <1>6, <1>7, <2>1 DEF Safe, Shape
    <2>4. Deferral'  BY <1>5, <2>1, IdleFacts, IdleDatabase DEF Deferral, Owed
    <2> QED  BY <2>2, <2>3, <2>4 DEF Safe
<1>8. CASE /\ queue' = Deferred(o, uid) /\ due' = o.deferred
           /\ hist' = [Ruled(o.conf) EXCEPT !.lost["database"] = FALSE]
           /\ \/ stored' = stored
              \/ stored' = [stored EXCEPT !["database"] = s]
    <2> PICK h : h = Ruled(o.conf)  OBVIOUS
    <2>1. /\ h \in HistRecs /\ h.conf = o.conf /\ h.epoch = hist.epoch
        BY <1>1, RuledFacts DEF Safe
    <2>2. hist' = [h EXCEPT !.lost["database"] = FALSE]  BY <1>8
    <2>3. hist' \in HistRecs /\ hist'.conf = o.conf /\ hist'.epoch = hist.epoch
        BY <2>1, <2>2 DEF HistRecs
    <2>4. /\ stored' \in [Drivers -> StoreRecs] /\ stored'["user"] = stored["user"]
          /\ stored'["database"] \in {stored["database"], s}
        BY <1>3, <1>8 DEF Safe, Shape
    <2>5. queue' \in Seq(Entries) /\ (o.deferred => Has(queue', o.conf, uid)) /\ due' \in BOOLEAN
        BY <1>8, DeferredFacts DEF Safe, OpRecs
    <2>6. Shape'  BY <1>2, <1>4, <1>5, <2>3, <2>4, <2>5 DEF Safe, Shape
    <2>7. Credentials'  BY <1>6, <2>3, <2>4
    <2>8. Deferral'
        <3>1. Owed' => Covers(db'.rules, hist'.conf.sources) \/ Has(queue', hist'.conf, db'.uid)
            BY <1>2, <1>4, <1>5, <2>3, <2>5 DEF Owed, RulesReady
        <3> QED  BY <3>1, <1>5, IdleFacts, IdleDatabase DEF Deferral, Remembered
    <2> QED  BY <2>6, <2>7, <2>8 DEF Safe
<1> QED  BY <1>7, <1>8, <1>s DEF Create

-----------------------------------------------------------------------------
(* FinalizeApply.                                                           *)

LEMMA BeginFlushSafe == ASSUME Safe, BeginFlush PROVE Safe'
<1> USE DEF Drivers
<1>n. PICK n : n = [Idle EXCEPT !.pc = "flush", !.left = queue]  OBVIOUS
<1>1. /\ n \in OpRecs /\ n.pc = "flush" /\ n.left = queue /\ n.conf = NoConf
      /\ n.rotate = FALSE
    BY <1>n, IdleFacts DEF OpRecs, Pcs, Safe, Shape
<1>2. /\ To("database", n) /\ queue # <<>> /\ op["database"].pc = "idle"
      /\ UNCHANGED <<service, queue, due, stored, hist>>
    BY <1>n DEF BeginFlush, Begin, At, local
<1>3. op'["database"] = n /\ op'["user"] = op["user"] /\ op' \in [Drivers -> OpRecs]
    BY <1>1, <1>2 DEF Safe, Shape, To
<1>4. Shape'  BY <1>2, <1>3 DEF Safe, Shape, service
<1>5. DatabaseOp(n, stored["database"], hist.epoch["database"])
    <2>1. hist.epoch["database"] \in Nat  BY DEF Safe, Shape, HistRecs
    <2> QED  BY <1>1, <2>1, IdleFacts DEF DatabaseOp, UpdatePcs
<1>6. Credentials'  BY <1>2, <1>3, <1>5, CredentialsKept DEF service
<1>7. Deferral'
    BY <1>1, <1>2, <1>3 DEF Safe, Deferral, Owed, Remembered, RulesReady, service
<1> QED  BY <1>4, <1>6, <1>7 DEF Safe

(* One entry tried: what it leaves of the entries.                          *)
LEMMA FlushKeeps ==
    ASSUME NEW o \in OpRecs, o.left # <<>>, NEW flushed \in BOOLEAN, NEW conf, NEW uid,
           Has(o.left, conf, uid) \/ Has(o.kept, conf, uid)
    PROVE  \/ flushed /\ o.left[1].conf = conf /\ o.left[1].uid = uid
           \/ Has(Tail(o.left), conf, uid)
           \/ Has(Remaining(o, flushed), conf, uid)
<1>1. o.left \in Seq(Entries) /\ o.kept \in Seq(Entries)  BY DEF OpRecs
<1>2. /\ o.left[1] \in Entries
      /\ Has(o.left, conf, uid) => \/ o.left[1].conf = conf /\ o.left[1].uid = uid
                                   \/ Has(Tail(o.left), conf, uid)
    BY <1>1, HasTail
<1>3. /\ Has(o.kept, conf, uid) => Has(Append(o.kept, o.left[1]), conf, uid)
      /\ o.left[1].conf = conf /\ o.left[1].uid = uid =>
            Has(Append(o.kept, o.left[1]), conf, uid)
    BY <1>1, <1>2, HasAppend
<1> QED  BY <1>2, <1>3 DEF Remaining

LEMMA FlushSafe == ASSUME Safe, Flush PROVE Safe'
<1> USE DEF Drivers
<1> PICK o \in OpRecs : o = op["database"]  BY DEF Safe, Shape
<1> PICK e : e = o.left[1]  OBVIOUS
<1> DEFINE able == Missing(e.conf) = {} /\ db.uid = e.uid
           rest(f) == [o EXCEPT !.left = Tail(@), !.kept = Remaining(o, f)]
           Step(f) == /\ To("database", IF Len(o.left) = 1 THEN Idle ELSE rest(f))
                      /\ queue' = IF Len(o.left) = 1 THEN rest(f).kept ELSE queue
                      /\ due' = (due /\ Len(o.left) > 1)
           written == /\ db' = [db EXCEPT !.rules = Rules(e.conf)]
                      /\ hist' = [hist EXCEPT !.overwritten = e.conf # hist.conf]
<1>1. /\ o.pc = "flush" /\ UNCHANGED <<user, uids, apps, stored>>
      /\ \/ able /\ Step(TRUE) /\ UNCHANGED faults
         \/ ~able /\ Step(FALSE) /\ UNCHANGED faults
         \/ Step(FALSE) /\ Fault
      /\ \/ able /\ written
         \/ (~able \/ faults' # faults) /\ UNCHANGED <<db, hist>>
    BY DEF Flush, At
<1> HIDE DEF able, Step, written
<1>2. PICK f \in BOOLEAN : Step(f) /\ (written \/ (~f /\ UNCHANGED <<db, hist>>))
    BY <1>1
<1>3. /\ o.left \in Seq(Entries) /\ o.left # <<>> /\ o.kept \in Seq(Entries) /\ e \in Entries
      /\ Tail(o.left) \in Seq(Entries) /\ (Len(o.left) = 1 <=> Tail(o.left) = <<>>)
    <2>1. o.left \in Seq(Entries) /\ o.left # <<>> /\ o.kept \in Seq(Entries)
        BY <1>1 DEF OpRecs, Safe, Deferral
    <2> QED  BY <2>1, HasTail
<1>4. PICK k : k = Remaining(o, f)  OBVIOUS
<1>5. k \in Seq(Entries)  BY <1>3, <1>4, HasAppend DEF Remaining
<1>6. PICK r : r = rest(f)  OBVIOUS
<1>7. /\ r \in OpRecs /\ r.pc = "flush" /\ r.left = Tail(o.left) /\ r.kept = k
      /\ r.conf = o.conf /\ r.rotate = o.rotate
    <2>1. r = [o EXCEPT !.left = Tail(o.left), !.kept = k]  BY <1>4, <1>6
    <2> HIDE DEF rest
    <2> QED  BY <1>1, <1>3, <1>5, <2>1 DEF OpRecs
<1>8. /\ To("database", IF Len(o.left) = 1 THEN Idle ELSE r)
      /\ queue' = (IF Len(o.left) = 1 THEN k ELSE queue) /\ due' \in BOOLEAN
    <2> HIDE DEF rest
    <2>1. /\ To("database", IF Len(o.left) = 1 THEN Idle ELSE rest(f))
          /\ queue' = (IF Len(o.left) = 1 THEN rest(f).kept ELSE queue) /\ due' \in BOOLEAN
        BY <1>2, Zenon DEF Step
    <2> QED  BY <2>1, <1>6, <1>7
<1> HIDE DEF rest
<1>9. /\ op'["user"] = op["user"] /\ op' \in [Drivers -> OpRecs] /\ queue' \in Seq(Entries)
      /\ op'["database"] = IF Len(o.left) = 1 THEN Idle ELSE r
    BY <1>5, <1>7, <1>8, IdleFacts DEF Safe, Shape, To
<1>10. e.conf \in Confs  BY <1>3 DEF Entries
<1>11. written => /\ db' \in DbRecs /\ db'.uid = db.uid /\ db'.password = db.password
                  /\ db'.rules = Rules(e.conf)
                  /\ hist' \in HistRecs /\ hist'.epoch = hist.epoch /\ hist'.lost = hist.lost
                  /\ hist'.conf = hist.conf /\ (~hist'.overwritten => e.conf = hist.conf)
    <2>1. Rules(e.conf) \in SUBSET RuleRecs  BY <1>10, RulesFacts DEF Safe
    <2>2. written => /\ db' \in DbRecs /\ db'.uid = db.uid /\ db'.password = db.password
                     /\ db'.rules = Rules(e.conf)
        BY <2>1 DEF written, Safe, Shape, DbRecs
    <2>3. written => /\ hist' \in HistRecs /\ hist'.epoch = hist.epoch /\ hist'.lost = hist.lost
                     /\ hist'.conf = hist.conf /\ (~hist'.overwritten => e.conf = hist.conf)
        <3> PICK b \in BOOLEAN : b <=> e.conf # hist.conf  OBVIOUS
        <3>1. written => hist' = [hist EXCEPT !.overwritten = b]  BY DEF written
        <3> QED  BY <3>1 DEF Safe, Shape, HistRecs
    <2> QED  BY <2>2, <2>3
<1>12. /\ db' \in DbRecs /\ db'.uid = db.uid /\ db'.password = db.password
       /\ hist' \in HistRecs /\ hist'.epoch = hist.epoch /\ hist'.lost = hist.lost
       /\ hist'.conf = hist.conf
    BY <1>2, <1>11 DEF Safe, Shape
<1>13. Shape'  BY <1>1, <1>8, <1>9, <1>12 DEF Safe, Shape
<1>14. Credentials'
    <2>1. DatabaseOp(r, stored["database"], hist.epoch["database"])
        BY <1>1, <1>7 DEF Safe, Credentials, DatabaseOp, UpdatePcs
    <2>2. DatabaseOp(op'["database"], stored["database"], hist.epoch["database"])
        BY <2>1, <1>9, IdleDatabase
    <2> QED  BY <2>2, <1>1, <1>9, <1>12, CredentialsKept
<1>15. Deferral'
    <2>1. RulesReady(op'["database"])
        BY <1>7, <1>9, IdleDatabase DEF RulesReady
    <2>2. op'["database"].pc = "flush" => op'["database"].left # <<>>
        BY <1>3, <1>7, <1>9, IdleFacts
    <2>3. CASE written
        <3>1. Covers(Rules(e.conf), e.conf.sources)  BY <1>10, RulesFacts DEF Safe
        <3> QED  BY <1>11, <2>1, <2>2, <2>3, <3>1 DEF Deferral, Owed
    <2>4. CASE ~f /\ UNCHANGED <<db, hist>>
        <3>1. ASSUME Has(o.left, hist.conf, db.uid) \/ Has(o.kept, hist.conf, db.uid)
              PROVE  Remembered'
            <4>1. Has(Tail(o.left), hist.conf, db.uid) \/ Has(k, hist.conf, db.uid)
                BY <1>3, <1>4, <2>4, <3>1, FlushKeeps
            <4>2. CASE Len(o.left) = 1
                BY <4>1, <4>2, <1>3, <1>8, <1>9, <2>4, NothingHeld, IdleFacts DEF Remembered
            <4>3. CASE Len(o.left) # 1
                BY <4>1, <4>3, <1>7, <1>9, <2>4 DEF Remembered
            <4> QED  BY <4>2, <4>3
        <3> QED  BY <1>1, <2>1, <2>2, <2>4, <3>1 DEF Safe, Deferral, Owed, Remembered
    <2> QED  BY <1>2, <2>3, <2>4
<1> QED  BY <1>13, <1>14, <1>15 DEF Safe

-----------------------------------------------------------------------------
(* The database-user driver.                                                *)

LEMMA BeginUserSafe ==
    ASSUME Safe, NEW epoch \in 0..MaxEpoch, NEW pc \in {"user_parent", "user_rotate"},
           BeginUser(pc, epoch),
           pc = "user_parent" => ~stored["user"].known,
           pc = "user_rotate" => stored["user"].known /\ epoch \notin {0, stored["user"].epoch}
    PROVE  Safe'
<1> USE DEF Drivers
<1>1. epoch \in Nat  BY DatabaseAssumption
<1>c. PICK c : c = [NoConf EXCEPT !.epoch = epoch]  OBVIOUS
<1>2. c \in Confs /\ c.epoch = epoch  BY <1>c, IdleFacts DEF Confs
<1>n. PICK n : n = [Idle EXCEPT !.pc = pc, !.conf = c, !.uid = db.uid]  OBVIOUS
<1>3. n \in OpRecs /\ n.pc = pc /\ n.conf = c
    BY <1>n, <1>2, IdleFacts DEF OpRecs, Pcs, Safe, Shape, DbRecs
<1>4. n = [Idle EXCEPT !.pc = pc, !.conf.epoch = epoch, !.uid = db.uid]
    BY <1>n, <1>c DEF Idle
<1>5. /\ To("user", n) /\ UNCHANGED <<service, queue, stored>> /\ due' \in BOOLEAN
      /\ epoch = 0 \/ epoch >= hist.epoch["user"]
      /\ Asked("user", epoch)
    BY <1>4, Zenon DEF BeginUser, Safe, Shape
<1>e. PICK e \in Nat : /\ e >= hist.epoch["user"] /\ e >= epoch /\ Asking("user", e)
                       /\ epoch >= hist.epoch["user"] => e = epoch
    BY <1>1, <1>5, AskingEpoch DEF Safe
<1>6. /\ hist.epoch["user"] \in Nat /\ stored["user"].epoch \in Nat
      /\ stored["user"].epoch <= hist.epoch["user"]
    BY DEF Safe, Shape, HistRecs, StoreRecs, Credentials, StoredOK
<1>7. pc = "user_rotate" => epoch > stored["user"].epoch /\ e = epoch
    BY <1>1, <1>5, <1>6, <1>e
<1>8. UserOp(n, stored["user"], e)
    BY <1>1, <1>2, <1>3, <1>7, <1>e DEF UserOp
<1> QED  BY <1>3, <1>5, <1>8, <1>e, UserMoves

LEMMA UserParentSafe == ASSUME Safe, UserParent PROVE Safe'
<1> PICK o \in OpRecs : o = op["user"]  BY DEF Safe, Shape, Drivers
<1> PICK n : n = [o EXCEPT !.pc = "user_create"]  OBVIOUS
<1>1. n \in OpRecs /\ n.pc = "user_create" /\ n.conf = o.conf  BY DEF OpRecs, Pcs
<1> PICK ok \in BOOLEAN : ok = (~Gone("user") /\ databaseTLSURI)  BY DEF databaseTLSURI, Gone
<1>2. Look("user", "user_parent", ok, n) /\ o.pc = "user_parent"
    BY DEF UserParent, Look, At
<1>3. UserOp(n, stored["user"], hist.epoch["user"])
    BY <1>1, <1>2 DEF Safe, Credentials, UserOp
<1> QED  BY <1>1, <1>2, <1>3, UserLooks

LEMMA UserReadSafe == ASSUME Safe, UserRead PROVE Safe'
<1> PICK o \in OpRecs : o = op["user"]  BY DEF Safe, Shape, Drivers
<1> PICK n : n = [o EXCEPT !.pc = "user_reset"]  OBVIOUS
<1>1. n \in OpRecs /\ n.pc = "user_reset" /\ n.conf = o.conf  BY DEF OpRecs, Pcs
<1> PICK ok \in BOOLEAN : ok = (~Gone("user") /\ databaseTLSURI /\ user # 0)
    BY DEF databaseTLSURI, Gone
<1>2. Look("user", "user_rotate", ok, n) /\ o.pc = "user_rotate"
    BY DEF UserRead, Look, At
<1>3. UserOp(n, stored["user"], hist.epoch["user"])
    BY <1>1, <1>2 DEF Safe, Credentials, UserOp
<1> QED  BY <1>1, <1>2, <1>3, UserLooks

(* A step that stores a user's credential, or deletes the user.             *)
LEMMA UserStores ==
    ASSUME Safe, op' \in [Drivers -> OpRecs], op'["database"] = op["database"],
           op'["user"].pc = "idle",
           UNCHANGED <<db, uids, apps, queue, due>>, user' \in Nat,
           stored' \in [Drivers -> StoreRecs], stored'["database"] = stored["database"],
           hist' \in HistRecs, hist'.conf = hist.conf, hist'.overwritten = hist.overwritten,
           hist'.dropped = hist.dropped, hist'.epoch = hist.epoch,
           hist'.lost["database"] = hist.lost["database"],
           stored'["user"].epoch <= hist.epoch["user"],
           \/ ~stored'["user"].known \/ user' = 0 \/ stored'["user"].password = user'
           \/ hist'.lost["user"] /\ stored'["user"].epoch < hist.epoch["user"]
    PROVE  Safe'
<1> USE DEF Drivers
<1>1. Shape'  BY DEF Safe, Shape
<1>2. Credentials'
    <2>1. StoredOK'  BY DEF Safe, Credentials, StoredOK
    <2>2. StalePasswordRotatesAgain'
        BY DEF Safe, Credentials, StalePasswordRotatesAgain, Live
    <2>3. DatabaseOp(op["database"], stored["database"], hist.epoch["database"])'
        BY DEF Safe, Credentials
    <2>4. UserOp(op["user"], stored["user"], hist.epoch["user"])'
        BY DEF UserOp
    <2> QED  BY <2>1, <2>2, <2>3, <2>4 DEF Credentials
<1>3. Deferral'
    BY DEF Safe, Deferral, Owed, Remembered
<1> QED  BY <1>1, <1>2, <1>3 DEF Safe

LEMMA UserIdle ==
    ASSUME Safe, End("user")
    PROVE  op' \in [Drivers -> OpRecs] /\ op'["database"] = op["database"] /\ op'["user"].pc = "idle"
BY IdleFacts DEF Safe, Shape, End, To, Drivers

LEMMA UserCreateSafe == ASSUME Safe, UserCreate PROVE Safe'
<1> USE DEF Drivers
<1> PICK o \in OpRecs : o = op["user"]  BY DEF Safe, Shape
<1>1. End("user") /\ o.pc = "user_create" /\ UNCHANGED <<db, uids, apps, queue, due>>
    BY DEF UserCreate, At
<1>2. CASE UNCHANGED <<user, stored, hist>>
    BY <1>1, <1>2, UserEnds DEF service, Safe, Shape
<1>3. /\ ~stored["user"].known /\ o.conf.epoch <= hist.epoch["user"]
      /\ stored["user"].epoch <= hist.epoch["user"]
    BY <1>1 DEF Safe, Credentials, UserOp, StoredOK
<1>4. CASE user' = 1 /\ UNCHANGED <<stored, hist>>
    BY <1>1, <1>3, <1>4, UserIdle, UserStores DEF Safe, Shape
<1>5. CASE /\ user' = 1 /\ hist' = hist
           /\ stored' = [stored EXCEPT !["user"] =
                  [NoState EXCEPT !.known = TRUE, !.uid = db.uid, !.password = 1,
                                  !.epoch = op["user"].conf.epoch]]
    <2>r. PICK r : r = [NoState EXCEPT !.known = TRUE, !.uid = db.uid, !.password = 1,
                                       !.epoch = o.conf.epoch]
        OBVIOUS
    <2>1. r \in StoreRecs /\ r.password = 1 /\ r.epoch = o.conf.epoch
        <3>1. o.conf.epoch \in Nat /\ db.uid \in Nat
            BY SMTT(30) DEF Safe, Shape, DbRecs, OpRecs, Confs
        <3> QED  BY <2>r, <3>1, StoreFacts DEF StoreRecs
    <2>2. stored' = [stored EXCEPT !["user"] = r]  BY <2>r, <1>5
    <2>3. /\ stored' \in [Drivers -> StoreRecs] /\ stored'["user"] = r
          /\ stored'["database"] = stored["database"]
        BY <2>1, <2>2 DEF Safe, Shape
    <2>4. user' = 1 /\ hist' = hist /\ hist' \in HistRecs  BY <1>5 DEF Safe, Shape
    <2> QED  BY <1>1, <1>3, <2>1, <2>3, <2>4, UserIdle, UserStores
<1> QED  BY <1>2, <1>4, <1>5 DEF UserCreate

LEMMA UserResetSafe == ASSUME Safe, UserReset PROVE Safe'
<1> USE DEF Drivers
<1> PICK o \in OpRecs : o = op["user"]  BY DEF Safe, Shape
<1>1. End("user") /\ o.pc = "user_reset" /\ UNCHANGED <<db, uids, apps, queue, due>>
    BY DEF UserReset, At
<1>2. CASE UNCHANGED <<user, stored, hist>>
    BY <1>1, <1>2, UserEnds DEF service, Safe, Shape
<1>3. CASE /\ user' = user + 1
           /\ StoreReset("user", user', op["user"].conf.epoch, faults' = faults)
    <2> PICK a \in BOOLEAN : a <=> (faults' = faults)  OBVIOUS
    <2>1. user' \in Nat /\ o.conf.epoch \in Nat  BY <1>3 DEF Safe, Shape, OpRecs, Confs
    <2>2. StoreReset("user", user', o.conf.epoch, a)  BY <1>3 DEF StoreReset
    <2> PICK w \in Nat : w = user'  BY <2>1
    <2>3. /\ stored' \in [Drivers -> StoreRecs] /\ hist' \in HistRecs
          /\ stored'["database"] = stored["database"]
          /\ hist'.lost["database"] = hist.lost["database"]
          /\ ~a => stored' = stored /\ hist'.lost["user"]
          /\ a => /\ stored'["user"].password = w /\ stored'["user"].epoch = o.conf.epoch
          /\ hist'.conf = hist.conf /\ hist'.overwritten = hist.overwritten
          /\ hist'.dropped = hist.dropped /\ hist'.epoch = hist.epoch
        BY <2>1, <2>2, StoreResetFacts DEF Safe
    <2>4. o.conf.epoch > stored["user"].epoch /\ hist.epoch["user"] = o.conf.epoch
          /\ stored["user"].epoch \in Nat
        BY <1>1 DEF Safe, Credentials, UserOp, Shape, StoreRecs
    <2> QED  BY <1>1, <2>1, <2>3, <2>4, UserIdle, UserStores
<1> QED  BY <1>2, <1>3 DEF UserReset

LEMMA UserDeleteSafe == ASSUME Safe, UserDelete PROVE Safe'
<1> USE DEF Drivers
<1>1. /\ op["user"].pc = "idle" /\ UNCHANGED <<db, uids, apps, queue, due, op, hist>>
      /\ user' \in {0, user} /\ stored' = [stored EXCEPT !["user"] = NoState]
    BY DEF UserDelete, Action, Begin, At
<1>2. /\ stored' \in [Drivers -> StoreRecs] /\ stored'["user"] = NoState
      /\ stored'["database"] = stored["database"] /\ user' \in Nat
    BY <1>1, StoreFacts DEF Safe, Shape
<1>3. 0 <= hist.epoch["user"]  BY DEF Safe, Shape, HistRecs
<1> QED  BY <1>1, <1>2, <1>3, StoreFacts, UserStores DEF Safe, Shape

-----------------------------------------------------------------------------
(* Everything else.                                                         *)

LEMMA AppsSafe ==
    ASSUME Safe, NEW a \in AppNames, AppCreated(a) \/ AppDeleted(a)
    PROVE  Safe'
<1>1. apps' \in [AppNames -> [uid : Nat, alive : BOOLEAN]]
    <2>1. apps[a] \in [uid : Nat, alive : BOOLEAN]  BY DEF Safe, Shape
    <2>2. CASE AppCreated(a)
        BY <2>1, <2>2 DEF AppCreated, Safe, Shape
    <2>3. CASE AppDeleted(a)
        BY <2>1, <2>3 DEF AppDeleted, Safe, Shape
    <2> QED  BY <2>2, <2>3
<1>2. UNCHANGED <<db, user, uids, op, queue, due, stored, hist>>
    BY DEF AppCreated, AppDeleted, local
<1> QED
    BY <1>1, <1>2 DEF Safe, Shape, Credentials, StoredOK, StalePasswordRotatesAgain, Live,
                      Deferral, Owed, Remembered

LEMMA OperatorDeletesSafe == ASSUME Safe, OperatorDeletes PROVE Safe'
<1>1. db' = NoDb /\ user' = 0 /\ UNCHANGED <<uids, apps, op, queue, due, stored, hist>>
    BY DEF OperatorDeletes, local
<1>2. Shape'  BY <1>1, StoreFacts DEF Safe, Shape
<1>3. StalePasswordRotatesAgain'
    <2>1. ~stored["database"].known \/ stored["database"].uid # 0
          \/ stored["database"].password = 0
        BY DEF Safe, Credentials, StoredOK
    <2> QED  BY <1>1, <2>1, StoreFacts DEF StalePasswordRotatesAgain, Live, Drivers
<1>4. Credentials'  BY <1>1, <1>3 DEF Safe, Credentials, StoredOK
<1>5. Deferral'  BY <1>1, StoreFacts DEF Safe, Deferral, Owed
<1> QED  BY <1>2, <1>4, <1>5 DEF Safe

LEMMA RestartSafe == ASSUME Safe, Restart PROVE Safe'
<1>1. /\ queue' = <<>> /\ due' = FALSE /\ hist' = [hist EXCEPT !.dropped = TRUE]
      /\ UNCHANGED <<db, user, uids, apps, op, stored>>
    BY DEF Restart, service
<1>2. /\ hist' \in HistRecs /\ hist'.dropped /\ hist'.epoch = hist.epoch
      /\ hist'.lost = hist.lost
    BY <1>1 DEF Safe, Shape, HistRecs
<1>3. Shape'
    <2>1. queue' \in Seq(Entries)  BY <1>1
    <2>2. due' \in BOOLEAN  BY <1>1, Zenon
    <2> QED  BY <1>1, <1>2, <2>1, <2>2 DEF Safe, Shape
<1>4. Credentials'
    BY <1>1, <1>2 DEF Safe, Credentials, StoredOK, StalePasswordRotatesAgain, Live
<1>5. Deferral'  BY <1>1, <1>2 DEF Safe, Deferral, Owed
<1> QED  BY <1>3, <1>4, <1>5 DEF Safe

-----------------------------------------------------------------------------
(* The results.                                                             *)

LEMMA NextSafe == ASSUME Safe, [Next]_vars PROVE Safe'
<1>1. CASE Database
    BY <1>1, BeginCreateSafe, BeginUpdateSafe, BeginScaleSafe, CreateRulesSafe, CreateSafe,
       CreateConflictSafe, resolveProviderIDSafe, PreflightSafe, UpdateRulesSafe, ResizeSafe,
       FirewallSafe, RecheckSafe, ResetSafe, ReadBackSafe, ScaleGetSafe, DeleteSafe,
       BeginFlushSafe, FlushSafe
    DEF Database
<1>2. CASE User
    <2>1. CASE \E epoch \in 0..MaxEpoch : BeginUserCreate(epoch) \/ BeginUserUpdate(epoch)
        BY <2>1, BeginUserSafe DEF BeginUserCreate, BeginUserUpdate
    <2> QED
        BY <1>2, <2>1, UserParentSafe, UserReadSafe, UserCreateSafe, UserResetSafe,
           UserDeleteSafe
        DEF User
<1>3. CASE Restart \/ OperatorDeletes  BY <1>3, RestartSafe, OperatorDeletesSafe
<1>4. CASE \E d \in Drivers : Fail(d)  BY <1>4, FailSafe
<1>5. CASE \E a \in AppNames : AppCreated(a) \/ AppDeleted(a)  BY <1>5, AppsSafe
<1>6. CASE UNCHANGED vars
    BY <1>6 DEF vars, Safe, Shape, Credentials, StoredOK, StalePasswordRotatesAgain, Live,
                Deferral, Owed, Remembered
<1> QED  BY <1>1, <1>2, <1>3, <1>4, <1>5, <1>6 DEF Next

LEMMA SafeInvariant == Spec => []Safe
<1> QED  BY InitSafe, NextSafe, PTL DEF Spec

(* A stored password is the current one, or a reset's answer was lost and   *)
(* the stored epoch is behind the epoch asked for, so the next apply        *)
(* rotates again: for the admin credential and for the user's, whatever     *)
(* fails and however the two drivers interleave.                            *)
THEOREM PasswordsCurrentOrRotated == Spec => []StalePasswordRotatesAgain
<1>1. Safe => StalePasswordRotatesAgain  BY DEF Safe, Credentials
<1> QED  BY <1>1, SafeInvariant, PTL

(* Trusted sources left out because their app did not exist are written or  *)
(* still queued for FinalizeApply, however often it fails.                  *)
THEOREM DeferredRulesKept == Spec => []DeferredNotForgotten
<1>1. Safe => DeferredNotForgotten
    <2> SUFFICES ASSUME Safe, op["database"].pc = "idle", Owed
                 PROVE  hist.conf.sources \subseteq RuleNames \/ Pending(hist.conf)
        BY DEF DeferredNotForgotten, Owed, At
    <2>1. CASE Covers(db.rules, hist.conf.sources)
        BY <2>1 DEF Covers, RuleNames
    <2>2. CASE Has(queue, hist.conf, db.uid)
        <3>1. DOMAIN queue = 1..Len(queue)  BY DEF Safe, Shape
        <3> QED  BY <2>2, <3>1 DEF Has, Pending
    <2> QED  BY <2>1, <2>2 DEF Safe, Deferral, Remembered
<1> QED  BY <1>1, SafeInvariant, PTL

(* The stored epoch moves with a new password only.                         *)
MovesWithReset(d) ==
    stored[d].known /\ stored'[d].known /\ stored'[d].epoch # stored[d].epoch
    => stored'[d].password = Live(d)' /\ Live(d)' # Live(d)

LEMMA DatabaseEpochMoves ==
    ASSUME Safe, Database, NEW d \in Drivers
    PROVE  MovesWithReset(d)
<1> USE DEF Drivers
<1>1. CASE \/ \E conf \in Configs : BeginCreate(conf) \/ BeginUpdate(conf)
           \/ \E n \in 1..2 : BeginScale(n)
           \/ CreateRules \/ CreateConflict \/ resolveProviderID \/ Preflight \/ UpdateRules
           \/ Resize \/ Firewall \/ Recheck \/ ScaleGet \/ BeginFlush \/ Flush
    <2>1. stored' = stored
        <3>1. CASE \E conf \in Configs : BeginCreate(conf) \/ BeginUpdate(conf)
            BY <3>1, Zenon DEF BeginCreate, BeginUpdate
        <3>2. CASE \E n \in 1..2 : BeginScale(n)
            BY <3>2, Zenon DEF BeginScale, local
        <3>3. CASE CreateRules \/ UpdateRules \/ resolveProviderID \/ Preflight \/ Recheck
                   \/ ScaleGet
            BY <3>3, Zenon
            DEF CreateRules, UpdateRules, resolveProviderID, Preflight, Recheck, ScaleGet, Look,
                local
        <3>4. CASE CreateConflict \/ Resize \/ Firewall \/ BeginFlush
            BY <3>4, Zenon DEF CreateConflict, Resize, Firewall, BeginFlush, local
        <3>5. CASE Flush  BY <3>5 DEF Flush
        <3> QED  BY <1>1, <3>1, <3>2, <3>3, <3>4, <3>5
    <2> QED  BY <2>1 DEF MovesWithReset
<1>2. CASE Create
    <2>1. ~stored["database"].known
        BY <1>2 DEF Create, At, Safe, Credentials, DatabaseOp
    <2>2. stored'["user"] = stored["user"]
        BY <1>2 DEF Create, Safe, Shape
    <2> QED  BY <2>1, <2>2 DEF MovesWithReset
<1>3. CASE Reset
    <2> PICK o \in OpRecs : o = op["database"]  BY DEF Safe, Shape
    <2>1. CASE db' = db  BY <1>3, <2>1 DEF Reset, MovesWithReset
    <2>2. CASE db' # db
        <3>1. db' = [db EXCEPT !.password = @ + 1]
            BY <1>3, <2>2 DEF Reset, Write
        <3>2. db'.password = db.password + 1 /\ db.password \in Nat
            BY <3>1 DEF Safe, Shape, DbRecs
        <3> PICK a \in BOOLEAN : a <=> (faults' = faults)  OBVIOUS
        <3> PICK w \in Nat : w = db'.password  BY <3>2
        <3>3. StoreReset("database", w, o.conf.epoch, a) /\ o.conf.epoch \in Nat
            <4>1. StoreReset("database", db'.password, o.conf.epoch, faults' = faults)
                BY <1>3, <2>2 DEF Reset
            <4>2. StoreReset("database", w, o.conf.epoch, a)  BY <4>1 DEF StoreReset
            <4> QED  BY <4>2 DEF OpRecs, Confs
        <3>4. /\ stored'["user"] = stored["user"]
              /\ ~a => stored' = stored
              /\ a => stored'["database"].password = w
            BY <3>3, StoreResetFacts DEF Safe
        <3> QED  BY <3>2, <3>4 DEF MovesWithReset, Live
    <2> QED  BY <2>1, <2>2
<1>4. CASE ReadBack
    <2> PICK o \in OpRecs : o = op["database"]  BY DEF Safe, Shape
    <2> PICK s \in StoreRecs : s = stored["database"]  BY DEF Safe, Shape
    <2>1. o.conf.epoch \in {0, s.epoch}
        BY <1>4 DEF ReadBack, At, Safe, Credentials, DatabaseOp, UpdatePcs
    <2>r. PICK r : r = [s EXCEPT !.known = TRUE, !.uid = o.uid, !.size = db.size,
                                 !.nodes = db.nodes,
                                 !.epoch = IF o.conf.epoch # 0 THEN o.conf.epoch ELSE s.epoch]
        OBVIOUS
    <2>2. r.epoch = s.epoch  BY <2>r, <2>1 DEF StoreRecs
    <2>3. stored' = stored \/ stored' = [stored EXCEPT !["database"] = r]
        BY <1>4, <2>r DEF ReadBack
    <2>4. stored'["database"].epoch = s.epoch /\ stored'["user"] = stored["user"]
        BY <2>2, <2>3 DEF Safe, Shape
    <2> QED  BY <2>4 DEF MovesWithReset
<1>5. CASE Delete
    <2>1. stored' = stored \/ stored' = [stored EXCEPT !["database"] = NoState]
        BY <1>5 DEF Delete
    <2> QED  BY <2>1, StoreFacts DEF MovesWithReset, Safe, Shape
<1> QED  BY <1>1, <1>2, <1>3, <1>4, <1>5 DEF Database

LEMMA UserEpochMoves ==
    ASSUME Safe, User, NEW d \in Drivers
    PROVE  MovesWithReset(d)
<1> USE DEF Drivers
<1>1. CASE \/ \E epoch \in 0..MaxEpoch : BeginUserCreate(epoch) \/ BeginUserUpdate(epoch)
           \/ UserParent \/ UserRead
    <2>1. stored' = stored
        BY <1>1, Zenon DEF BeginUserCreate, BeginUserUpdate, BeginUser, UserParent, UserRead,
                           Look, local
    <2> QED  BY <2>1 DEF MovesWithReset
<1>2. CASE UserCreate
    <2>1. ~stored["user"].known  BY <1>2 DEF UserCreate, At, Safe, Credentials, UserOp
    <2>2. stored'["database"] = stored["database"]
        BY <1>2 DEF UserCreate, Safe, Shape
    <2> QED  BY <2>1, <2>2 DEF MovesWithReset
<1>3. CASE UserReset
    <2> PICK o \in OpRecs : o = op["user"]  BY DEF Safe, Shape
    <2>1. CASE UNCHANGED <<user, stored, hist>>  BY <2>1 DEF MovesWithReset
    <2>2. CASE user' = user + 1 /\ StoreReset("user", user', o.conf.epoch, faults' = faults)
        <3>1. user' = user + 1 /\ user \in Nat  BY <2>2 DEF Safe, Shape
        <3> PICK a \in BOOLEAN : a <=> (faults' = faults)  OBVIOUS
        <3> PICK w \in Nat : w = user'  BY <3>1
        <3>2. StoreReset("user", w, o.conf.epoch, a) /\ o.conf.epoch \in Nat
            BY <2>2 DEF StoreReset, OpRecs, Confs
        <3>3. /\ stored'["database"] = stored["database"]
              /\ ~a => stored' = stored
              /\ a => stored'["user"].password = w
            BY <3>2, StoreResetFacts DEF Safe
        <3> QED  BY <3>1, <3>3 DEF MovesWithReset, Live
    <2> QED  BY <1>3, <2>1, <2>2 DEF UserReset
<1>4. CASE UserDelete
    <2>1. stored' = [stored EXCEPT !["user"] = NoState]  BY <1>4 DEF UserDelete
    <2> QED  BY <2>1, StoreFacts DEF MovesWithReset, Safe, Shape
<1> QED  BY <1>1, <1>2, <1>3, <1>4 DEF User

(* The recorded epoch of either credential never moves without a reset of   *)
(* the password it stands for, whose result is what is stored.              *)
THEOREM RecordedEpochsReset == Spec => EpochMeansReset
<1>1. ASSUME Safe, Next, NEW d \in Drivers PROVE MovesWithReset(d)
    <2>1. CASE Database  BY <1>1, <2>1, DatabaseEpochMoves
    <2>2. CASE User  BY <1>1, <2>2, UserEpochMoves
    <2>3. CASE Restart \/ OperatorDeletes \/ \E e \in Drivers : Fail(e)
        BY <2>3 DEF Restart, OperatorDeletes, Fail, local, MovesWithReset
    <2>4. CASE \E a \in AppNames : AppCreated(a) \/ AppDeleted(a)
        BY <2>4 DEF AppCreated, AppDeleted, local, MovesWithReset
    <2> QED  BY <1>1, <2>1, <2>2, <2>3, <2>4 DEF Next
<1>2. Safe /\ [Next]_vars =>
      [\A d \in Drivers :
          stored[d].known /\ stored'[d].known /\ stored'[d].epoch # stored[d].epoch
          => stored'[d].password = Live(d)' /\ Live(d)' # Live(d)]_vars
    BY <1>1 DEF MovesWithReset
<1> QED  BY <1>2, SafeInvariant, PTL DEF Spec, EpochMeansReset

=============================================================================
