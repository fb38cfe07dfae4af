------------------------------ MODULE DnsZone ------------------------------
(***************************************************************************)
(* The DNS driver of internal/drivers/dns.go (infra.dns): Create, Read,     *)
(* Update, Delete and Diff of the declared records of one zone, run by      *)
(* several workflow processes, each with a resource of its own.  Every API  *)
(* request is a step, a listing one step per page.  The zone itself is      *)
(* external, and so is the operator who edits it.                           *)
(***************************************************************************)
EXTENDS DnsRecords

CONSTANTS
    Procs,      \* workflow processes; each manages a resource of the zone
    Configs,    \* the configurations they may be given
    ZoneStart,  \* the records the zone may start with: a set of sequences
    Foreign,    \* records the operator may add
    PageSize,   \* records per page (200 in the code)
    Attempts,   \* dnsConflictRetryAttempts (5 in the code)
    MaxOps,     \* bound: operations begun
    MaxFaults,  \* bound: failed API requests and operator edits
    MaxId       \* bound: record IDs handed out

ASSUME DnsAssumption ==
    /\ PageSize \in Nat \ {0} /\ Attempts \in Nat \ {0}
    /\ MaxOps \in Nat /\ MaxFaults \in Nat /\ MaxId \in Nat
    /\ \A c \in Configs : c.records \in Seq(Range(c.records))
    /\ \A start \in ZoneStart : start \in Seq(Range(start)) /\ Len(start) <= MaxId

VARIABLES
    exists, \* whether the domain is there
    zone,   \* its records, in listing order
    nextId, \* the next record ID
    op,     \* what each process is doing
    stored, \* the record list in the resource's last output; none before
    ops,    \* operations begun so far
    faults  \* failed requests and operator edits so far

vars == <<exists, zone, nextId, op, stored, ops, faults>>

None     == "none"
NoOutput == [known |-> FALSE, records |-> <<>>]

(* kind, reqs, absent: the operation and its accepted configuration; got:   *)
(* pages listed so far; then: what the listing is for; todo: requests or    *)
(* records left, by position; attempt: of a conflict loop; steady: history, nobody else has  *)
(* written the zone since the operation began; result: its answer.          *)
Idle == [pc |-> "idle", kind |-> None, reqs |-> <<>>, absent |-> {}, got |-> <<>>,
         then |-> None, todo |-> <<>>, attempt |-> 0, steady |-> TRUE, result |-> None]

PCs == {"idle", "get", "create_domain", "get_again", "read_get", "delete_domain",
        "list", "delete", "upsert", "done"}

(* The type invariant of the zone and of the operations.                    *)
TypeOK ==
    /\ exists \in BOOLEAN
    /\ exists \/ zone = <<>>
    /\ \A i, j \in DOMAIN zone : zone[i].id = zone[j].id => i = j
    /\ nextId \in 1..MaxId + 1 /\ \A i \in DOMAIN zone : zone[i].id < nextId
    /\ \A p \in Procs :
          /\ op[p].pc \in PCs
          /\ op[p].attempt \in 0..Attempts - 1
          /\ op[p].result \in {None, "ok", "error", "quiet", "update", "replace"}
    /\ ops \in 0..MaxOps /\ faults \in 0..MaxFaults

Init ==
    /\ \E start \in ZoneStart :
          /\ zone = [i \in DOMAIN start |-> dnsDomainRecordFromRequest(i, start[i])]
          /\ nextId = Len(start) + 1
          /\ exists \in IF start = <<>> THEN BOOLEAN ELSE {TRUE}
    /\ op = [p \in Procs |-> Idle]
    /\ stored \in [Procs -> {NoOutput} \cup (IF exists THEN {dnsOutput(zone)}
                                            ELSE {})]
    /\ ops = 0
    /\ faults = 0

(***************************************************************************)
(* How a step continues an operation                                        *)
(***************************************************************************)

Unsteady(o) == [o EXCEPT !.steady = o.pc = "idle"]

(* A zone write by p: the other operations no longer have it to themselves. *)
Disturb(p, next) ==
    op' = [q \in Procs |-> IF q = p THEN next ELSE Unsteady(op[q])]

Go(p, next) == op' = [op EXCEPT ![p] = next]

Return(o, result) == [o EXCEPT !.pc = "done", !.result = result, !.then = None,
                                 !.got = <<>>, !.todo = <<>>, !.attempt = 0]

List(o, what) == [o EXCEPT !.pc = "list", !.then = what, !.got = <<>>]

(* deleteRecords lists only if records are to be absent, upsertRecords only *)
(* if records are declared; then Create lists and Update reads the domain.  *)
Finish(o) == IF o.kind = "update" THEN [o EXCEPT !.pc = "read_get"] ELSE List(o, "output")
StartUpsert(o) == IF DOMAIN o.reqs = {} THEN Finish(o) ELSE List(o, "upsert")
(* A mistake in StartDelete: an empty list of declared records ends it.     *)
StartDelete_NeedsRecords(o) ==
    IF ~validateDNSAbsentRecordsDoNotConflict(o.reqs, o.absent) THEN Return(o, "error")
    ELSE IF o.absent = {} \/ DOMAIN o.reqs = {} THEN StartUpsert(o) ELSE List(o, "delete")

StartDelete(o) ==
    IF ~validateDNSAbsentRecordsDoNotConflict(o.reqs, o.absent) THEN Return(o, "error")
    ELSE IF o.absent = {} THEN StartUpsert(o) ELSE List(o, "delete")

(***************************************************************************)
(* Beginning an operation                                                   *)
(***************************************************************************)

Accepted(c) ==
    /\ c.domain # "invalid"
    /\ DeclaredOK(c.records)
    /\ \A a \in c.absent : validateDNSAbsentRecord(a)

Begun(kind, c) == [Idle EXCEPT !.kind = kind, !.reqs = declaredDNSRecords(c.records),
                               !.absent = c.absent]

Start(p) ==
    /\ op[p].pc \in {"idle", "done"}
    /\ ops < MaxOps
    /\ ops' = ops + 1

(* Create of a resource without stored output; a configuration that names   *)
(* another zone belongs to another instance.                                *)
BeginCreate(p, c) ==
    /\ Start(p)
    /\ ~stored[p].known
    /\ c.domain # "other"
    /\ Go(p, IF Accepted(c) THEN [Begun("create", c) EXCEPT !.pc = "get"]
             ELSE Return(Idle, "error"))
    /\ UNCHANGED <<exists, zone, nextId, stored, faults>>

BeginUpdate(p, c) ==
    /\ Start(p)
    /\ stored[p].known
    /\ Go(p, IF Accepted(c) /\ c.domain # "other" THEN StartDelete(Begun("update", c))
             ELSE Return(Idle, "error"))
    /\ UNCHANGED <<exists, zone, nextId, stored, faults>>

(* Diff answers from the stored records, except that records that must be   *)
(* absent are looked for in a listing of the live zone.                     *)
DiffStored(o, s, present) ==
    Return(o, IF present \/ ~StoredMatches(o.reqs, dnsRecordsFromOutput(s)) THEN "update" ELSE "quiet")

(* A mistake in BeginDiff: absent records are looked for in the stored list.*)
BeginDiff_StoredOnly(p, c) ==
    /\ Start(p)
    /\ LET o == Begun("diff", c) IN
         Go(p, IF ~Accepted(c) THEN Return(Idle, "error")
               ELSE IF ~stored[p].known THEN Return(o, "update")
               ELSE DiffStored(o, stored[p],
                      \E a \in o.absent, i \in DOMAIN stored[p].records :
                          dnsAbsentRecordMatches(a, stored[p].records[i])))
    /\ UNCHANGED <<exists, zone, nextId, stored, faults>>

BeginDiff(p, c) ==
    /\ Start(p)
    /\ LET o == Begun("diff", c) IN
         Go(p, IF ~Accepted(c) \/ ~validateDNSAbsentRecordsDoNotConflict(o.reqs, o.absent)
               THEN Return(Idle, "error")
               ELSE IF ~stored[p].known   THEN Return(o, "update")
               ELSE IF c.domain = "other" THEN Return(o, "replace")
               ELSE IF c.absent # {}      THEN List(o, "diff")
               ELSE DiffStored(o, stored[p], FALSE))
    /\ UNCHANGED <<exists, zone, nextId, stored, faults>>

(* Read has no configuration; it refreshes the stored output.               *)
BeginRead(p) ==
    /\ Start(p)
    /\ stored[p].known
    /\ Go(p, [Idle EXCEPT !.pc = "read_get", !.kind = "read"])
    /\ UNCHANGED <<exists, zone, nextId, stored, faults>>

BeginDelete(p) ==
    /\ Start(p)
    /\ stored[p].known
    /\ Go(p, [Idle EXCEPT !.pc = "delete_domain", !.kind = "delete"])
    /\ UNCHANGED <<exists, zone, nextId, stored, faults>>

Begin(p) ==
    \/ \E c \in Configs : BeginCreate(p, c) \/ BeginUpdate(p, c) \/ BeginDiff(p, c)
    \/ BeginRead(p)
    \/ BeginDelete(p)

(***************************************************************************)
(* The domain                                                               *)
(***************************************************************************)

(* Create's Get: only "not found" leads to a Create of the domain.          *)
GetDomain(p) ==
    /\ op[p].pc = "get"
    /\ Go(p, IF exists THEN StartDelete(op[p]) ELSE [op[p] EXCEPT !.pc = "create_domain"])
    /\ UNCHANGED <<exists, zone, nextId, stored, ops, faults>>

(* The domain is created, or somebody else has created it meanwhile.        *)
CreateDomain(p) ==
    /\ op[p].pc = "create_domain"
    /\ IF exists
       THEN Go(p, [op[p] EXCEPT !.pc = "get_again"])
       ELSE Disturb(p, StartDelete(op[p]))
    /\ exists' = TRUE
    /\ UNCHANGED <<zone, nextId, stored, ops, faults>>

(* The attempt counter of a conflict loop; the last attempt gives up.       *)
Retry(o) == IF o.attempt + 1 = Attempts THEN Return(o, "error")
            ELSE [o EXCEPT !.attempt = @ + 1]

(* getDomainAfterCreateConflict.                                            *)
GetAfterConflict(p) ==
    /\ op[p].pc = "get_again"
    /\ Go(p, IF exists THEN StartDelete([op[p] EXCEPT !.attempt = 0]) ELSE Retry(op[p]))
    /\ UNCHANGED <<exists, zone, nextId, stored, ops, faults>>

ReadDomain(p) ==
    /\ op[p].pc = "read_get"
    /\ Go(p, IF exists THEN List(op[p], "output") ELSE Return(op[p], "error"))
    /\ UNCHANGED <<exists, zone, nextId, stored, ops, faults>>

DeleteDomain(p) ==
    /\ op[p].pc = "delete_domain"
    /\ IF exists
       THEN Disturb(p, Return(op[p], "ok")) /\ stored' = [stored EXCEPT ![p] = NoOutput]
       ELSE Go(p, Return(op[p], "error")) /\ UNCHANGED stored
    /\ exists' = FALSE
    /\ zone' = <<>>
    /\ UNCHANGED <<nextId, ops, faults>>

(***************************************************************************)
(* Listing                                                                  *)
(***************************************************************************)

(* A mistake in ToDelete: the record type is not compared.                  *)
ToDelete_AnyType(o, live) ==
    Restrict(live, {i \in DOMAIN live : \E a \in o.absent : a.name.id = live[i].name.id})

ToDelete(o, live) ==
    Restrict(live, {i \in DOMAIN live : \E a \in o.absent : dnsAbsentRecordMatches(a, live[i])})

(* A mistake in Remaining: a live record with the key is enough.            *)
Remaining_KeyOnly(reqs, live) ==
    Restrict(reqs, {i \in DOMAIN reqs : SameKey(reqs[i], live) = {}})

(* The requests that still need a write: one per upsert key, and only where *)
(* the first live record with that key differs.                             *)
Remaining(reqs, live) ==
    LET seen(i) == \E j \in DOMAIN reqs : j < i /\ UpsertKey(reqs[j]) = UpsertKey(reqs[i])
    IN Restrict(reqs, {i \in DOMAIN reqs : ~seen(i) /\ ~UpToDate(reqs[i], live)})

(* What is to be done first, and what is left then.                         *)
Current(todo) == todo[Min(DOMAIN todo)]

(* A mistake in Rest: what has been done is not taken off.                  *)
Rest_Kept(todo) == todo

Rest(todo) == Restrict(todo, DOMAIN todo \ {Min(DOMAIN todo)})

Upserting(o, reqs, live) ==
    LET left == Remaining(reqs, live) IN
      IF DOMAIN left = {} THEN Finish([o EXCEPT !.todo = <<>>, !.attempt = 0])
      ELSE [o EXCEPT !.pc = "upsert", !.todo = left, !.got = live, !.attempt = 0]

Deleting(o) == IF DOMAIN o.todo = {} THEN StartUpsert(o) ELSE [o EXCEPT !.pc = "delete"]

(* What each listing is for, once its last page has come; after a create    *)
(* conflict the record is looked for again and again.                       *)
Listed(o, live, s) ==
    CASE o.then = "delete" -> Deleting([o EXCEPT !.todo = ToDelete(o, live), !.got = <<>>])
      [] o.then = "upsert" ->
           IF validateDNSRecordLiveConflicts(o.reqs, live) THEN Upserting(o, o.reqs, live)
           ELSE Return(o, "error")
      [] o.then = "conflict" ->
           IF ~validateDNSRecordLiveConflicts(<<Current(o.todo)>>, live) THEN Return(o, "error")
           ELSE IF SameKey(Current(o.todo), live) # {} THEN Upserting(o, o.todo, live)
           ELSE [Retry(o) EXCEPT !.got = <<>>]
      [] o.then = "diff" ->
           DiffStored(o, s, \E i \in DOMAIN live, a \in o.absent :
                               dnsAbsentRecordMatches(a, live[i]))
      [] OTHER -> Return(o, "ok")

(* One page of a listing, of the zone as it is when the page is served; the *)
(* records of an output are kept with the resource.                         *)
ListPage(p) ==
    LET o == op[p]
        last == Len(o.got) + PageSize >= Len(zone)
        end == IF last THEN Len(zone) ELSE Len(o.got) + PageSize
        got == o.got \o SubSeq(zone, Len(o.got) + 1, end)
    IN /\ o.pc = "list"
       /\ Go(p, IF ~exists THEN Return(o, "error")
                ELSE IF last THEN Listed(o, got, stored[p]) ELSE [o EXCEPT !.got = got])
       /\ stored' = IF exists /\ last /\ o.then = "output"
                    THEN [stored EXCEPT ![p] = dnsOutput(got)] ELSE stored
       /\ UNCHANGED <<exists, zone, nextId, ops, faults>>

(***************************************************************************)
(* Writing records                                                          *)
(***************************************************************************)

(* A write whose answer is lost has its effect and fails the operation.     *)
Answer(p, lost, next) ==
    /\ lost => faults < MaxFaults
    /\ faults' = IF lost THEN faults + 1 ELSE faults
    /\ Disturb(p, IF lost THEN Return(op[p], "error") ELSE next)
    /\ UNCHANGED <<exists, stored, ops>>

(* A request the service refuses for good: the operation fails.             *)
Refused(p) ==
    /\ Go(p, Return(op[p], "error"))
    /\ UNCHANGED <<exists, zone, nextId, stored, ops, faults>>

WithId(id) == {i \in DOMAIN zone : zone[i].id = id}

DeleteRecord(p) ==
    LET o == op[p]
        at == WithId(Current(o.todo).id)
    IN /\ o.pc = "delete"
       /\ IF at = {} THEN Refused(p)
          ELSE \E lost \in BOOLEAN, i \in at :
                 /\ zone' = RemoveAt(zone, i)
                 /\ Answer(p, lost, Deleting([o EXCEPT !.todo = Rest(@)]))
                 /\ UNCHANGED nextId

(* The service refuses a CNAME beside other records of the name.            *)
Clash(req, others) == \E i \in others : CNAMEClash(req, zone[i])

EditRecord(p) ==
    LET o == op[p]
        req == Current(o.todo)
        at == WithId(Candidate(req, o.got).id)
    IN /\ o.pc = "upsert" /\ SameKey(req, o.got) # {}
       /\ IF at = {} \/ Clash(req, DOMAIN zone \ at) THEN Refused(p)
          ELSE \E lost \in BOOLEAN, i \in at :
                 /\ zone' = [zone EXCEPT ![i] = dnsDomainRecordFromRequest(@.id, req)]
                 /\ Answer(p, lost, Upserting(o, Rest(o.todo), o.got))
                 /\ UNCHANGED nextId

(* A new record; a taken key is a conflict, which lists the zone again.     *)
CreateRecord(p) ==
    LET o == op[p]
        req == Current(o.todo)
    IN /\ o.pc = "upsert" /\ SameKey(req, o.got) = {}
       /\ IF SameKey(req, zone) # {}
          THEN /\ Go(p, List(o, "conflict"))
               /\ UNCHANGED <<exists, zone, nextId, stored, ops, faults>>
          ELSE IF ~exists \/ Clash(req, DOMAIN zone) \/ nextId > MaxId THEN Refused(p)
          ELSE \E lost \in BOOLEAN :
                 /\ zone' = Append(zone, dnsDomainRecordFromRequest(nextId, req))
                 /\ nextId' = nextId + 1
                 /\ Answer(p, lost, Upserting(o, Rest(o.todo), o.got))

(***************************************************************************)
(* Failures and the operator                                                *)
(***************************************************************************)

(* A request fails without effect, or the context ends before it is sent.   *)
(* After a create conflict a transient failure is retried.                  *)
Fail(p) ==
    LET o == op[p]
        retries == o.pc = "get_again" \/ (o.pc = "list" /\ o.then = "conflict")
    IN /\ o.pc \notin {"idle", "done"}
       /\ faults < MaxFaults
       /\ faults' = faults + 1
       /\ \/ Go(p, Return(o, "error"))
          \/ retries /\ Go(p, [Retry(o) EXCEPT !.got = <<>>])
       /\ UNCHANGED <<exists, zone, nextId, stored, ops>>

OperatorAdd(r) ==
    /\ exists /\ nextId <= MaxId /\ faults < MaxFaults
    /\ faults' = faults + 1
    /\ ~Clash(r, DOMAIN zone)
    /\ zone' = Append(zone, dnsDomainRecordFromRequest(nextId, r))
    /\ nextId' = nextId + 1
    /\ op' = [p \in Procs |-> Unsteady(op[p])]
    /\ UNCHANGED <<exists, stored, ops>>

OperatorRemove(i) ==
    /\ faults < MaxFaults
    /\ faults' = faults + 1
    /\ zone' = RemoveAt(zone, i)
    /\ op' = [p \in Procs |-> Unsteady(op[p])]
    /\ UNCHANGED <<exists, nextId, stored, ops>>

Request(p) ==
    \/ GetDomain(p) \/ CreateDomain(p) \/ GetAfterConflict(p)
    \/ ReadDomain(p) \/ DeleteDomain(p) \/ ListPage(p)
    \/ DeleteRecord(p) \/ EditRecord(p) \/ CreateRecord(p)

Next ==
    \/ \E p \in Procs : Begin(p) \/ Request(p) \/ Fail(p)
    \/ \E r \in Foreign : OperatorAdd(r)
    \/ \E i \in DOMAIN zone : OperatorRemove(i)

(* The driver's calls are not suspended: a request in flight is answered.   *)
Spec == Init /\ [][Next]_vars /\ \A p \in Procs : WF_vars(Request(p))

(***************************************************************************)
(* Properties                                                               *)
(***************************************************************************)

AppliedAlone(p) ==
    op[p].kind \in {"create", "update"} /\ op[p].result = "ok" /\ op[p].steady

(* A Create or Update that succeeds has made the zone what its              *)
(* configuration asks, whatever an earlier failed or half-done run, another *)
(* process or the operator left there: every declared record is present     *)
(* with its value and no absent one is, as long as nobody wrote since.      *)
Converged ==
    \A p \in Procs : AppliedAlone(p) => exists /\ Satisfied(op[p].reqs, op[p].absent, zone)

(* After such a success the next Diff of the same configuration is quiet:   *)
(* the output stored with the resource never asks for the update again.     *)
NoPerpetualDiff ==
    \A p \in Procs : AppliedAlone(p) => StoredMatches(op[p].reqs, dnsRecordsFromOutput(stored[p]))

(* A Diff that asks for no update has seen that no absent record is live,   *)
(* however stale the stored output is.                                      *)
QuietDiffSawZone ==
    \A p \in Procs :
        op[p].result = "quiet" /\ op[p].steady =>
            \A a \in op[p].absent, i \in DOMAIN zone : ~dnsAbsentRecordMatches(a, zone[i])

Concerns(o, r) ==
    \/ o.kind = "delete"
    \/ \E i \in DOMAIN o.reqs : o.reqs[i].type = r.type /\ o.reqs[i].name.id = r.name.id
    \/ \E a \in o.absent : a.type = r.type /\ a.name.id = r.name.id

Acts(p) == op'[p] \notin {op[p], Unsteady(op[p])}

(* A process changes or removes only records of a type and name that its    *)
(* configuration declares or wants absent, although it writes by record IDs *)
(* it listed earlier; only Delete takes the others with the domain.         *)
UnmanagedKept ==
    [][\A p \in Procs, i \in DOMAIN zone :
          Acts(p) /\ ~Concerns(op[p], zone[i]) => \E j \in DOMAIN zone' : zone'[j] = zone[i]]_vars

(* Every operation ends, the conflict loops included.                       *)
OperationsEnd ==
    \A p \in Procs : op[p].pc \notin {"idle", "done"} ~> op[p].pc \in {"idle", "done"}

=============================================================================
