--------------------------- MODULE DnsZone_proofs ---------------------------
(***************************************************************************)
(* The DNS driver of internal/drivers/dns.go for any processes, records,    *)
(* configurations and page size and any number of operations, failures and  *)
(* edits by others: an apply that nobody disturbed has made the zone what   *)
(* its configuration asks, and no process writes a record that its          *)
(* configuration does not name.                                             *)
(***************************************************************************)
EXTENDS DnsZone, SequenceTheorems, WellFoundedInduction, TLAPS

-----------------------------------------------------------------------------
(* Shape.                                                                   *)

(* Lists of which some positions are left.                                  *)
Lists(T) == UNION {[S -> T] : S \in SUBSET Nat}

Requests  == {dnsRecordEditRequestFromConfig(raw) : raw \in UNION {Range(c.records) : c \in Configs}}
Absences  == UNION {c.absent : c \in Configs}
Values    == Requests \cup Foreign \cup UNION {Range(start) : start \in ZoneStart}
LiveRecs  == {dnsDomainRecordFromRequest(n, r) : n \in Nat, r \in Values}
Outputs   == [known : BOOLEAN, records : Seq(LiveRecs)]

Kinds    == {None, "create", "update", "diff", "read", "delete"}
Purposes == {None, "delete", "upsert", "conflict", "diff", "output"}
Results  == {None, "ok", "error", "quiet", "update", "replace"}
Ops == [pc : PCs, kind : Kinds, reqs : Lists(Requests), absent : SUBSET Absences,
        got : Seq(LiveRecs), then : Purposes, todo : Lists(Requests \cup LiveRecs),
        attempt : 0..Attempts - 1, steady : BOOLEAN, result : Results]

(* Records have IDs of their own, none of which is handed out again.        *)
ZoneOK(z, n) ==
    /\ z \in Seq(LiveRecs)
    /\ \A i, j \in DOMAIN z : z[i].id = z[j].id => i = j
    /\ \A i \in DOMAIN z : z[i].id < n

Shape ==
    /\ exists \in BOOLEAN /\ (~exists => zone = <<>>)
    /\ ZoneOK(zone, nextId) /\ nextId \in 1..MaxId + 1
    /\ op \in [Procs -> Ops]
    /\ stored \in [Procs -> Outputs]
    /\ ops \in 0..MaxOps /\ faults \in 0..MaxFaults

(* What an operation that applies a configuration carries: declared records *)
(* with upsert keys of their own, none of which is to be absent.            *)
ReqsOK(reqs) ==
    /\ \A i \in DOMAIN reqs : reqs[i].type \in RecordTypes
    /\ \A i, j \in DOMAIN reqs : UpsertKey(reqs[i]) = UpsertKey(reqs[j]) => i = j

PartOf(todo, reqs) == \A k \in DOMAIN todo : k \in DOMAIN reqs /\ todo[k] = reqs[k]

Applying(o) == o.kind \in {"create", "update"}
Agreed(o)   == validateDNSAbsentRecordsDoNotConflict(o.reqs, o.absent)

(* The place of an operation in the driver's code, and what it has at hand. *)
PlaceOK(o) ==
    /\ ReqsOK(o.reqs)
    /\ o.pc \in {"get", "create_domain", "get_again"} => o.kind = "create"
    /\ o.pc = "read_get" => o.kind \in {"update", "read"}
    /\ o.pc = "delete_domain" => o.kind = "delete"
    /\ o.pc = "delete" =>
          /\ Applying(o) /\ DOMAIN o.todo # {}
          /\ \A k \in DOMAIN o.todo :
                /\ o.todo[k] \in LiveRecs
                /\ \E a \in o.absent : dnsAbsentRecordMatches(a, o.todo[k])
    /\ o.pc = "upsert" => Applying(o) /\ DOMAIN o.todo # {} /\ PartOf(o.todo, o.reqs)
    /\ o.pc = "list" =>
          /\ o.then \in {"delete", "upsert", "conflict"} => Applying(o)
          /\ o.then = "conflict" => DOMAIN o.todo # {} /\ PartOf(o.todo, o.reqs)
          /\ o.then = "diff" => o.kind = "diff"
          /\ o.then = "output" => o.kind \in {"create", "update", "read"}
          /\ o.then # None
    /\ o.pc # "done" => o.result = None
    /\ Applying(o) /\ (o.result = "ok" \/ o.pc \in {"delete", "upsert", "list", "read_get"})
          => Agreed(o)

-----------------------------------------------------------------------------
(* What the listed records mean, whoever wrote the zone since: a record     *)
(* with such an ID is still of the type and name it was listed with.        *)
SameName(r, s) == r.type = s.type /\ r.name.id = s.name.id

Known(r, z, n) == r.id < n /\ \A j \in DOMAIN z : z[j].id = r.id => SameName(z[j], r)

ListedOK(o, z, n) ==
    /\ \A i \in DOMAIN o.got : Known(o.got[i], z, n)
    /\ o.pc = "delete" => \A k \in DOMAIN o.todo : Known(o.todo[k], z, n)

-----------------------------------------------------------------------------
(* What an operation has reached that had the zone to itself.               *)

Gone(o, z) == \A a \in o.absent, j \in DOMAIN z : ~dnsAbsentRecordMatches(a, z[j])

(* The records of a listing are where they were, and those that requests    *)
(* still to be made are about are as they were and the only ones.           *)
StillThere(got, todo, z) ==
    /\ Len(got) <= Len(z)
    /\ \A i \in DOMAIN got : z[i].id = got[i].id /\ UpsertKey(z[i]) = UpsertKey(got[i])
    /\ \A k \in DOMAIN todo, i \in DOMAIN z :
          UpsertKey(z[i]) = UpsertKey(todo[k]) => i \in DOMAIN got /\ z[i] = got[i]

PastDelete(o) ==
    /\ Applying(o)
    /\ \/ o.pc \in {"upsert", "read_get"} \/ o.result = "ok"
       \/ o.pc = "list" /\ o.then \in {"upsert", "conflict", "output"}

PastUpsert(o) ==
    /\ Applying(o)
    /\ o.pc = "read_get" \/ o.result = "ok" \/ (o.pc = "list" /\ o.then = "output")

Reached(o, z, e, s) ==
    o.steady =>
      /\ o.pc = "list" =>
            o.then # "conflict" /\ Len(o.got) <= Len(z) /\ \A i \in DOMAIN o.got : o.got[i] = z[i]
      /\ o.pc = "delete" =>
            \A a \in o.absent, j \in DOMAIN z :
               dnsAbsentRecordMatches(a, z[j]) => \E k \in DOMAIN o.todo : o.todo[k].id = z[j].id
      /\ PastDelete(o) => Gone(o, z)
      /\ o.pc = "upsert" => StillThere(o.got, o.todo, z)
      /\ o.pc = "upsert" => \A i \in DOMAIN o.reqs : i \in DOMAIN o.todo \/ UpToDate(o.reqs[i], z)
      /\ PastUpsert(o) => \A i \in DOMAIN o.reqs : UpToDate(o.reqs[i], z)
      /\ Applying(o) /\ o.result = "ok" => e /\ s.records = z
      /\ o.result = "quiet" => Gone(o, z)

(* The inductive invariant.                                                 *)
Good(o, z, n, e, s) == PlaceOK(o) /\ ListedOK(o, z, n) /\ Reached(o, z, e, s)

Safe == Shape /\ \A p \in Procs : Good(op[p], zone, nextId, exists, stored[p])

-----------------------------------------------------------------------------
(* Lists and their first entries.                                           *)

LEMMA Least ==
    ASSUME NEW S \in SUBSET Nat, S # {}
    PROVE  Min(S) \in S /\ \A y \in S : Min(S) <= y
<1> DEFINE R == OpToRel(<, Nat)
<1> HIDE DEF R
<1>1. \E x \in S : \A y \in S : ~(<<y, x>> \in R)
    BY WFMin, NatLessThanWellFounded, Zenon DEF R
<1>2. PICK x \in S : \A y \in S : ~(y < x)  BY <1>1 DEF OpToRel, R
<1>3. \A y \in S : x <= y  BY <1>2
<1> QED  BY <1>3 DEF Min

LEMMA LeastIs ==
    ASSUME NEW S \in SUBSET Nat, NEW x \in S, \A y \in S : x <= y
    PROVE  Min(S) = x
<1>1. S # {}  OBVIOUS
<1>2. Min(S) \in S /\ \A y \in S : Min(S) <= y  BY <1>1, Least
<1>3. Min(S) <= x /\ x <= Min(S) /\ Min(S) \in Nat /\ x \in Nat  BY <1>2
<1> QED  BY <1>3

LEMMA IsList ==
    ASSUME NEW T, NEW l \in Lists(T)
    PROVE  DOMAIN l \subseteq Nat /\ l \in [DOMAIN l -> T] /\ \A i \in DOMAIN l : l[i] \in T
<1>1. PICK S \in SUBSET Nat : l \in [S -> T]  BY DEF Lists
<1>2. DOMAIN l = S  BY <1>1
<1> QED  BY <1>1, <1>2

LEMMA NoList == ASSUME NEW T PROVE <<>> \in Lists(T) /\ DOMAIN <<>> = {}
<1>1. <<>> \in [{} -> T] /\ DOMAIN <<>> = {}  OBVIOUS
<1> QED  BY <1>1 DEF Lists

(* What Restrict leaves of a list.                                          *)
LEMMA Kept ==
    ASSUME NEW T, NEW l \in Lists(T), NEW S \in SUBSET DOMAIN l
    PROVE  /\ Restrict(l, S) \in Lists(T)
           /\ DOMAIN Restrict(l, S) = S
           /\ \A i \in S : Restrict(l, S)[i] = l[i]
<1>1. DOMAIN l \subseteq Nat /\ \A i \in DOMAIN l : l[i] \in T  BY IsList
<1>2. DOMAIN Restrict(l, S) = S /\ \A i \in S : Restrict(l, S)[i] = l[i]  BY DEF Restrict
<1>3. Restrict(l, S) \in [S -> T]  BY <1>1 DEF Restrict
<1>4. S \in SUBSET Nat  BY <1>1
<1> QED  BY <1>2, <1>3, <1>4 DEF Lists

(* Sequences are lists.                                                     *)
LEMMA SeqIsList ==
    ASSUME NEW T, NEW s \in Seq(T)
    PROVE  /\ s \in Lists(T) /\ DOMAIN s = 1..Len(s) /\ Len(s) \in Nat
           /\ \A i \in DOMAIN s : i \in Nat /\ i > 0 /\ s[i] \in T
<1>1. DOMAIN s = 1..Len(s) /\ Len(s) \in Nat /\ \A i \in DOMAIN s : s[i] \in T  OBVIOUS
<1>2. s \in [1..Len(s) -> T] /\ 1..Len(s) \in SUBSET Nat  BY <1>1
<1> QED  BY <1>1, <1>2 DEF Lists

(* The head and the rest of what is to be done.                             *)
LEMMA TodoLists ==
    ASSUME NEW T, NEW l \in Lists(T), DOMAIN l # {}
    PROVE  /\ Min(DOMAIN l) \in DOMAIN l /\ Current(l) = l[Min(DOMAIN l)]
           /\ Rest(l) \in Lists(T)
           /\ DOMAIN Rest(l) = DOMAIN l \ {Min(DOMAIN l)}
           /\ \A k \in DOMAIN Rest(l) : Rest(l)[k] = l[k]
<1>1. Min(DOMAIN l) \in DOMAIN l  BY IsList, Least
<1>2. (DOMAIN l \ {Min(DOMAIN l)}) \in SUBSET DOMAIN l  OBVIOUS
<1> QED  BY <1>1, <1>2, Kept DEF Current, Rest

-----------------------------------------------------------------------------
(* Records, requests and their keys.                                        *)

LEMMA KeyNames ==
    ASSUME NEW a, NEW b, UpsertKey(a) = UpsertKey(b)
    PROVE  SameName(a, b)
<1>1. UpsertKey(a)[1] = a.type /\ UpsertKey(a)[2] = a.name.id
    BY DEF UpsertKey, dnsRecordIdentity, dnsCanonicalRecordName
<1>2. UpsertKey(b)[1] = b.type /\ UpsertKey(b)[2] = b.name.id
    BY DEF UpsertKey, dnsRecordIdentity, dnsCanonicalRecordName
<1> QED  BY <1>1, <1>2 DEF SameName

LEMMA IdentityKey ==
    ASSUME NEW a, NEW b, dnsRecordIdentity(a) = dnsRecordIdentity(b)
    PROVE  UpsertKey(a) = UpsertKey(b) /\ SameName(a, b)
<1>1. dnsRecordIdentity(a)[1] = a.type /\ dnsRecordIdentity(a)[2] = a.name.id
    BY DEF dnsRecordIdentity, dnsCanonicalRecordName
<1>2. dnsRecordIdentity(b)[1] = b.type /\ dnsRecordIdentity(b)[2] = b.name.id
    BY DEF dnsRecordIdentity, dnsCanonicalRecordName
<1>3. SameName(a, b)  BY <1>1, <1>2 DEF SameName
<1> QED  BY <1>3 DEF SameName, UpsertKey, dnsCanonicalRecordName

LEMMA MatchIdentity ==
    ASSUME NEW r, NEW req, dnsRecordMatchesRequest(r, req)
    PROVE  dnsRecordIdentity(r) = dnsRecordIdentity(req) /\ UpsertKey(r) = UpsertKey(req)
<1>1. dnsRecordIdentity(r) = dnsRecordIdentity(req)
    BY DEF dnsRecordMatchesRequest, dnsRecordIdentity, SameData
<1> QED  BY <1>1, IdentityKey

LEMMA Written ==
    ASSUME NEW id, NEW req, NEW w, w = dnsDomainRecordFromRequest(id, req)
    PROVE  /\ w.id = id /\ SameName(w, req)
           /\ UpsertKey(w) = UpsertKey(req)
           /\ dnsRecordMatchesRequest(w, req)
           /\ \A a : dnsAbsentRecordMatches(a, w) <=> dnsAbsentRecordMatches(a, req)
<1>1. /\ w.id = id /\ w.type = req.type /\ w.name = req.name /\ w.data = req.data
      /\ w.ttl = req.ttl /\ w.fields = req.fields
    BY DEF dnsDomainRecordFromRequest
<1>2. dnsRecordMatchesRequest(w, req)  BY <1>1 DEF dnsRecordMatchesRequest, SameData
<1>3. \A a : dnsAbsentRecordMatches(a, w) <=> dnsAbsentRecordMatches(a, req)
    BY <1>1 DEF dnsAbsentRecordMatches
<1> QED  BY <1>1, <1>2, <1>3, MatchIdentity DEF SameName

(* The records a request may be written to, the first of them, and when it  *)
(* is up to date.                                                           *)
LEMMA FirstKey ==
    ASSUME NEW z \in Seq(LiveRecs), NEW req, SameKey(req, z) # {}
    PROVE  /\ Min(SameKey(req, z)) \in DOMAIN z
           /\ UpsertKey(z[Min(SameKey(req, z))]) = UpsertKey(req)
           /\ \A i \in DOMAIN z : UpsertKey(z[i]) = UpsertKey(req) => Min(SameKey(req, z)) <= i
           /\ Candidate(req, z) = z[Min(SameKey(req, z))]
<1>1. SameKey(req, z) \in SUBSET Nat  BY SeqIsList DEF SameKey
<1>2. Min(SameKey(req, z)) \in SameKey(req, z) /\ \A y \in SameKey(req, z) : Min(SameKey(req, z)) <= y
    BY <1>1, Least
<1> QED  BY <1>2 DEF SameKey, Candidate

(* An accepted list of records has an upsert key for each.                  *)
LEMMA Declared ==
    ASSUME DnsAssumption, NEW c \in Configs, Accepted(c)
    PROVE  declaredDNSRecords(c.records) \in Lists(Requests) /\ ReqsOK(declaredDNSRecords(c.records))
<1> DEFINE raws == c.records
           req(i) == dnsRecordEditRequestFromConfig(raws[i])
           repeated(i) == \E j \in DOMAIN raws :
                             j < i /\ dnsRecordIdentity(req(j)) = dnsRecordIdentity(req(i))
           S == {i \in DOMAIN raws : ~repeated(i)}
           reqs == declaredDNSRecords(raws)
<1>1. raws \in Seq(Range(raws))  BY DEF DnsAssumption
<1>2. DOMAIN raws \subseteq Nat  BY <1>1, SeqIsList
<1>3. DOMAIN reqs = S /\ \A i \in S : reqs[i] = req(i)  BY DEF declaredDNSRecords
<1>4. \A i \in DOMAIN raws : req(i) \in Requests  BY DEF Requests, Range
<1>5. reqs \in [S -> Requests] /\ S \in SUBSET Nat  BY <1>2, <1>4 DEF declaredDNSRecords
<1>6. reqs \in Lists(Requests)  BY <1>5 DEF Lists
<1>7. \A i \in S : reqs[i].type \in RecordTypes
    <2>1. \A i \in DOMAIN raws : raws[i].type \in RecordTypes  BY DEF Accepted, DeclaredOK, ValidEntry
    <2>2. \A i \in DOMAIN raws : req(i).type = raws[i].type  BY DEF dnsRecordEditRequestFromConfig
    <2> QED  BY <1>3, <2>1, <2>2
<1>8. ASSUME NEW i \in S, NEW j \in S, UpsertKey(reqs[i]) = UpsertKey(reqs[j]), i < j
      PROVE  FALSE
    <2>1. PairOK(req(i), req(j))  BY <1>8 DEF Accepted, DeclaredOK
    <2>2. dnsRecordIdentity(req(i)) # dnsRecordIdentity(req(j))  BY <1>8
    <2>3. ~CNAMEClash(req(i), req(j))  BY <2>1, <2>2 DEF PairOK
    <2>4. UpsertKey(req(i)) = UpsertKey(req(j))  BY <1>3, <1>8
    <2>5. SameName(req(i), req(j))  BY <2>4, KeyNames
    <2>6. req(i).type # "CNAME" /\ req(j).type # "CNAME"
        BY <2>3, <2>5 DEF CNAMEClash, SameName, dnsCanonicalRecordName
    <2> QED  BY <2>2, <2>4, <2>6 DEF UpsertKey
<1>9. \A i, j \in S : UpsertKey(reqs[i]) = UpsertKey(reqs[j]) => i = j
    <2> SUFFICES ASSUME NEW i \in S, NEW j \in S, UpsertKey(reqs[i]) = UpsertKey(reqs[j]) PROVE i = j
        OBVIOUS
    <2>1. i \in Nat /\ j \in Nat /\ ~(i < j) /\ ~(j < i)  BY <1>2, <1>8
    <2> QED  BY <2>1
<1> QED  BY <1>3, <1>6, <1>7, <1>9 DEF ReqsOK

-----------------------------------------------------------------------------
(* The zone and its changes.                                                *)

LEMMA LiveRec ==
    /\ \A r \in LiveRecs : r.id \in Nat
    /\ \A n \in Nat, v \in Values : dnsDomainRecordFromRequest(n, v) \in LiveRecs
<1>1. \A n \in Nat, v \in Values : dnsDomainRecordFromRequest(n, v) \in LiveRecs
    BY DEF LiveRecs
<1>2. ASSUME NEW r \in LiveRecs PROVE r.id \in Nat
    <2>1. PICK n \in Nat, v \in Values : r = dnsDomainRecordFromRequest(n, v)  BY DEF LiveRecs
    <2> QED  BY <2>1 DEF dnsDomainRecordFromRequest
<1> QED  BY <1>1, <1>2

LEMMA Removed ==
    ASSUME NEW T, NEW z \in Seq(T), NEW i \in DOMAIN z
    PROVE  /\ RemoveAt(z, i) \in Seq(T)
           /\ DOMAIN RemoveAt(z, i) = 1..(Len(z) - 1)
           /\ \A j \in 1..(Len(z) - 1) : RemoveAt(z, i)[j] = z[IF j < i THEN j ELSE j + 1]
<1> DEFINE a == SubSeq(z, 1, i - 1)
           b == SubSeq(z, i + 1, Len(z))
<1>1. i \in 1..Len(z) /\ Len(z) \in Nat /\ \A j \in 1..Len(z) : z[j] \in T  BY SeqIsList
<1>2. /\ a \in Seq(T) /\ Len(a) = i - 1 /\ \A j \in 1..(i - 1) : a[j] = z[j]
    <2>1. \A j \in 1..(i - 1) : z[j] \in T  BY <1>1
    <2>2. 1 \in Int /\ i - 1 \in Int  BY <1>1
    <2>3. /\ a \in Seq(T) /\ Len(a) = IF 1 <= i - 1 THEN (i - 1) - 1 + 1 ELSE 0
          /\ \A j \in 1..((i - 1) - 1 + 1) : a[j] = z[1 + j - 1]
        BY <2>1, <2>2, SubSeqProperties
    <2> HIDE DEF a
    <2> QED  BY <1>1, <2>3
<1>3. /\ b \in Seq(T) /\ Len(b) = Len(z) - i /\ \A j \in 1..(Len(z) - i) : b[j] = z[i + j]
    <2>1. \A j \in (i + 1)..Len(z) : z[j] \in T  BY <1>1
    <2>2. i + 1 \in Int /\ Len(z) \in Int  BY <1>1
    <2>3. /\ b \in Seq(T) /\ Len(b) = IF i + 1 <= Len(z) THEN Len(z) - (i + 1) + 1 ELSE 0
          /\ \A j \in 1..(Len(z) - (i + 1) + 1) : b[j] = z[(i + 1) + j - 1]
        BY <2>1, <2>2, SubSeqProperties
    <2> HIDE DEF b
    <2> QED  BY <1>1, <2>3
<1>4. /\ a \o b \in Seq(T) /\ Len(a \o b) = Len(a) + Len(b)
      /\ \A j \in 1..(Len(a) + Len(b)) : (a \o b)[j] = IF j <= Len(a) THEN a[j] ELSE b[j - Len(a)]
    BY <1>2, <1>3, ConcatProperties
<1>5. RemoveAt(z, i) = a \o b  BY DEF RemoveAt
<1> HIDE DEF a, b
<1>6. RemoveAt(z, i) \in Seq(T) /\ Len(RemoveAt(z, i)) = Len(z) - 1
    <2>1. Len(a) = i - 1 /\ Len(b) = Len(z) - i /\ i \in Int /\ Len(z) \in Int  BY <1>1, <1>2, <1>3
    <2>2. Len(a) + Len(b) = Len(z) - 1  BY <2>1
    <2> QED  BY <1>4, <1>5, <2>2
<1>7. ASSUME NEW j \in 1..(Len(z) - 1)
      PROVE  RemoveAt(z, i)[j] = z[IF j < i THEN j ELSE j + 1]
    <2>1. CASE j < i
        <3>1. j \in 1..(i - 1) /\ j <= Len(a) /\ j \in 1..(Len(a) + Len(b))  BY <1>1, <1>2, <1>3, <2>1
        <3> QED  BY <1>2, <1>4, <1>5, <2>1, <3>1
    <2>2. CASE ~(j < i)
        <3>0. /\ Len(a) = i - 1 /\ Len(b) = Len(z) - i /\ i \in 1..Len(z) /\ Len(z) \in Nat
              /\ j \in 1..(Len(z) - 1) /\ ~(j < i)
            BY <1>1, <1>2, <1>3, <2>2
        <3>1. /\ j - (i - 1) \in 1..(Len(z) - i) /\ ~(j <= Len(a)) /\ j \in 1..(Len(a) + Len(b))
              /\ i + (j - (i - 1)) = j + 1
            BY <3>0
        <3>2. (a \o b)[j] = b[j - (i - 1)]  BY <1>2, <1>4, <3>1
        <3>3. b[j - (i - 1)] = z[j + 1]  BY <1>3, <3>1
        <3> QED  BY <1>5, <2>2, <3>2, <3>3
    <2> QED  BY <2>1, <2>2
<1> QED  BY <1>6, <1>7

(* Removing one leaves the others, and no others.                           *)
LEMMA RemovedOthers ==
    ASSUME NEW T, NEW z \in Seq(T), NEW i \in DOMAIN z
    PROVE  /\ \A j \in DOMAIN RemoveAt(z, i) : \E k \in DOMAIN z \ {i} : RemoveAt(z, i)[j] = z[k]
           /\ \A k \in DOMAIN z \ {i} : \E j \in DOMAIN RemoveAt(z, i) : RemoveAt(z, i)[j] = z[k]
<1>1. DOMAIN z = 1..Len(z) /\ Len(z) \in Nat  BY SeqIsList
<1>2. /\ DOMAIN RemoveAt(z, i) = 1..(Len(z) - 1)
      /\ \A j \in 1..(Len(z) - 1) : RemoveAt(z, i)[j] = z[IF j < i THEN j ELSE j + 1]
    BY Removed
<1>3. ASSUME NEW j \in 1..(Len(z) - 1)
      PROVE  \E k \in DOMAIN z \ {i} : RemoveAt(z, i)[j] = z[k]
    <2>1. (IF j < i THEN j ELSE j + 1) \in DOMAIN z \ {i}  BY <1>1
    <2> QED  BY <1>2, <2>1
<1>4. ASSUME NEW k \in DOMAIN z \ {i}
      PROVE  \E j \in DOMAIN RemoveAt(z, i) : RemoveAt(z, i)[j] = z[k]
    <2>1. CASE k < i
        <3>1. k \in 1..(Len(z) - 1) /\ (IF k < i THEN k ELSE k + 1) = k  BY <1>1, <2>1
        <3>2. RemoveAt(z, i)[k] = z[k]  BY <1>2, <3>1
        <3> QED  BY <1>2, <3>1, <3>2
    <2>2. CASE ~(k < i)
        <3>1. k - 1 \in 1..(Len(z) - 1) /\ ~(k - 1 < i) /\ (k - 1) + 1 = k  BY <1>1, <2>2
        <3> QED  BY <1>2, <3>1
    <2> QED  BY <2>1, <2>2
<1> QED  BY <1>2, <1>3, <1>4

Rewritten(z, i, req) == [z EXCEPT ![i] = dnsDomainRecordFromRequest(z[i].id, req)]
Added(z, n, req)     == Append(z, dnsDomainRecordFromRequest(n, req))

LEMMA ZoneRemoved ==
    ASSUME NEW n \in Nat, NEW z, ZoneOK(z, n), NEW i \in DOMAIN z
    PROVE  ZoneOK(RemoveAt(z, i), n)
<1>1. z \in Seq(LiveRecs) /\ DOMAIN z = 1..Len(z) /\ Len(z) \in Nat  BY SeqIsList DEF ZoneOK
<1>2. /\ RemoveAt(z, i) \in Seq(LiveRecs)
      /\ DOMAIN RemoveAt(z, i) = 1..(Len(z) - 1)
      /\ \A j \in 1..(Len(z) - 1) : RemoveAt(z, i)[j] = z[IF j < i THEN j ELSE j + 1]
    BY <1>1, Removed
<1>3. \A j \in DOMAIN RemoveAt(z, i) : RemoveAt(z, i)[j].id < n
    <2>1. \A j \in DOMAIN RemoveAt(z, i) : \E k \in DOMAIN z \ {i} : RemoveAt(z, i)[j] = z[k]
        BY <1>1, RemovedOthers
    <2> QED  BY <2>1 DEF ZoneOK
<1>4. ASSUME NEW j \in 1..(Len(z) - 1), NEW k \in 1..(Len(z) - 1),
             RemoveAt(z, i)[j].id = RemoveAt(z, i)[k].id
      PROVE  j = k
    <2>1. /\ (IF j < i THEN j ELSE j + 1) \in DOMAIN z /\ (IF k < i THEN k ELSE k + 1) \in DOMAIN z
        BY <1>1
    <2>2. (IF j < i THEN j ELSE j + 1) = (IF k < i THEN k ELSE k + 1)
        BY <1>2, <1>4, <2>1 DEF ZoneOK
    <2> QED  BY <1>1, <2>2
<1> QED  BY <1>2, <1>3, <1>4 DEF ZoneOK

LEMMA ZoneEdited ==
    ASSUME NEW n \in Nat, NEW z, ZoneOK(z, n), NEW i \in DOMAIN z, NEW v \in Values
    PROVE  /\ ZoneOK(Rewritten(z, i, v), n) /\ DOMAIN Rewritten(z, i, v) = DOMAIN z
           /\ Rewritten(z, i, v)[i] = dnsDomainRecordFromRequest(z[i].id, v)
           /\ \A j \in DOMAIN z : j # i => Rewritten(z, i, v)[j] = z[j]
<1> DEFINE y == Rewritten(z, i, v)
<1>1. z \in Seq(LiveRecs) /\ z[i] \in LiveRecs
    <2>1. z \in Seq(LiveRecs)  BY DEF ZoneOK
    <2> QED  BY <2>1, SeqIsList
<1>2. dnsDomainRecordFromRequest(z[i].id, v) \in LiveRecs  BY <1>1, LiveRec
<1>3. y \in Seq(LiveRecs) /\ DOMAIN y = DOMAIN z  BY <1>1, <1>2 DEF Rewritten
<1>4. /\ y[i] = dnsDomainRecordFromRequest(z[i].id, v) /\ \A j \in DOMAIN z : j # i => y[j] = z[j]
    BY <1>1 DEF Rewritten
<1> HIDE DEF y
<1>5. \A j \in DOMAIN z : y[j].id = z[j].id  BY <1>4, Written
<1>6. ZoneOK(y, n)  BY <1>3, <1>5 DEF ZoneOK
<1> QED  BY <1>3, <1>4, <1>6 DEF y

LEMMA ZoneAdded ==
    ASSUME NEW n \in Nat, NEW z, ZoneOK(z, n), NEW v \in Values, NEW m, m = n + 1
    PROVE  /\ ZoneOK(Added(z, n, v), m) /\ Len(Added(z, n, v)) = Len(z) + 1 /\ Len(z) \in Nat
           /\ DOMAIN z = 1..Len(z) /\ DOMAIN Added(z, n, v) = 1..(Len(z) + 1)
           /\ Added(z, n, v)[Len(z) + 1] = dnsDomainRecordFromRequest(n, v)
           /\ \A j \in DOMAIN z : Added(z, n, v)[j] = z[j]
<1> DEFINE y == Added(z, n, v)
<1>1. z \in Seq(LiveRecs) /\ DOMAIN z = 1..Len(z) /\ Len(z) \in Nat /\ \A j \in DOMAIN z : z[j] \in LiveRecs
    BY SeqIsList DEF ZoneOK
<1>2. dnsDomainRecordFromRequest(n, v) \in LiveRecs  BY LiveRec
<1>3. /\ y \in Seq(LiveRecs) /\ Len(y) = Len(z) + 1 /\ \A j \in 1..Len(z) : y[j] = z[j]
      /\ y[Len(z) + 1] = dnsDomainRecordFromRequest(n, v)
    BY <1>1, <1>2, AppendProperties DEF Added
<1> HIDE DEF y
<1>4. DOMAIN y = 1..(Len(z) + 1)  BY <1>3, SeqIsList
<1>5. y[Len(z) + 1].id = n  BY <1>3, Written
<1>6. \A j \in DOMAIN z : y[j].id = z[j].id /\ z[j].id \in Nat /\ z[j].id < n
    BY <1>1, <1>3, LiveRec DEF ZoneOK
<1>7. \A j \in DOMAIN y : y[j].id < m
    <2> SUFFICES ASSUME NEW j \in DOMAIN y PROVE y[j].id < m  OBVIOUS
    <2>1. j \in DOMAIN z \/ j = Len(z) + 1  BY <1>1, <1>4
    <2> QED  BY <1>5, <1>6, <2>1
<1>8. ASSUME NEW j \in DOMAIN y, NEW k \in DOMAIN y, y[j].id = y[k].id PROVE j = k
    <2>1. (j \in DOMAIN z \/ j = Len(z) + 1) /\ (k \in DOMAIN z \/ k = Len(z) + 1)  BY <1>1, <1>4
    <2> QED  BY <1>5, <1>6, <1>8, <2>1 DEF ZoneOK
<1>9. ZoneOK(y, m)  BY <1>3, <1>7, <1>8 DEF ZoneOK
<1> QED  BY <1>1, <1>3, <1>4, <1>9 DEF y

(* A zone whose records are new ones or named as before: what a listed ID   *)
(* means stays what it was.                                                 *)
StillNamed(z, n, y, m) ==
    /\ n <= m
    /\ \A j \in DOMAIN y :
          y[j].id = n \/ \E i \in DOMAIN z : z[i].id = y[j].id /\ SameName(y[j], z[i])

LEMMA KnownStays ==
    ASSUME NEW n \in Nat, NEW m \in Nat, NEW z, NEW y, StillNamed(z, n, y, m),
           NEW r \in LiveRecs, Known(r, z, n)
    PROVE  Known(r, y, m)
<1>1. r.id \in Nat /\ r.id < n /\ n <= m  BY LiveRec DEF Known, StillNamed
<1>2. ASSUME NEW j \in DOMAIN y, y[j].id = r.id PROVE SameName(y[j], r)
    <2>1. PICK i \in DOMAIN z : z[i].id = y[j].id /\ SameName(y[j], z[i])  BY <1>1, <1>2 DEF StillNamed
    <2> QED  BY <1>2, <2>1 DEF Known, SameName
<1> QED  BY <1>1, <1>2 DEF Known

LEMMA ListedStays ==
    ASSUME NEW n \in Nat, NEW m \in Nat, NEW z, NEW y, StillNamed(z, n, y, m),
           NEW o \in Ops, PlaceOK(o), ListedOK(o, z, n)
    PROVE  ListedOK(o, y, m)
<1>1. o.got \in Seq(LiveRecs)  BY DEF Ops
<1>2. \A i \in DOMAIN o.got : o.got[i] \in LiveRecs  BY <1>1, SeqIsList
<1>3. o.pc = "delete" => \A k \in DOMAIN o.todo : o.todo[k] \in LiveRecs  BY DEF PlaceOK
<1> QED  BY <1>2, <1>3, KnownStays DEF ListedOK

LEMMA NamedRemoved ==
    ASSUME NEW n \in Nat, NEW z, ZoneOK(z, n), NEW i \in DOMAIN z
    PROVE  StillNamed(z, n, RemoveAt(z, i), n)
<1>1. z \in Seq(LiveRecs)  BY DEF ZoneOK
<1>2. \A j \in DOMAIN RemoveAt(z, i) : \E k \in DOMAIN z : RemoveAt(z, i)[j] = z[k]
    BY <1>1, RemovedOthers
<1> QED  BY <1>2 DEF StillNamed, SameName

LEMMA NamedEdited ==
    ASSUME NEW n \in Nat, NEW z, ZoneOK(z, n), NEW i \in DOMAIN z, NEW v \in Values, SameName(v, z[i])
    PROVE  StillNamed(z, n, Rewritten(z, i, v), n)
<1> DEFINE y == Rewritten(z, i, v)
<1>1. /\ DOMAIN y = DOMAIN z /\ y[i] = dnsDomainRecordFromRequest(z[i].id, v)
      /\ \A j \in DOMAIN z : j # i => y[j] = z[j]
    BY ZoneEdited
<1> HIDE DEF y
<1>2. y[i].id = z[i].id /\ SameName(y[i], z[i])  BY <1>1, Written DEF SameName
<1> QED  BY <1>1, <1>2 DEF StillNamed, SameName, y

LEMMA NamedAdded ==
    ASSUME NEW n \in Nat, NEW z, ZoneOK(z, n), NEW v \in Values, NEW m, m = n + 1
    PROVE  StillNamed(z, n, Added(z, n, v), m)
<1> DEFINE y == Added(z, n, v)
<1>1. /\ DOMAIN z = 1..Len(z) /\ Len(z) \in Nat /\ DOMAIN y = 1..(Len(z) + 1)
      /\ y[Len(z) + 1] = dnsDomainRecordFromRequest(n, v) /\ \A j \in DOMAIN z : y[j] = z[j]
    BY ZoneAdded
<1> HIDE DEF y
<1>2. y[Len(z) + 1].id = n  BY <1>1, Written
<1>3. ASSUME NEW j \in DOMAIN y
      PROVE  y[j].id = n \/ \E i \in DOMAIN z : z[i].id = y[j].id /\ SameName(y[j], z[i])
    <2>1. j \in DOMAIN z \/ j = Len(z) + 1  BY <1>1
    <2> QED  BY <1>1, <1>2, <2>1 DEF SameName
<1> QED  BY <1>3 DEF StillNamed, y

-----------------------------------------------------------------------------
(* How a step continues an operation.                                       *)

(* What every continuation of an operation under way starts from.           *)
Going(o, z, n) ==
    /\ o \in Ops /\ ReqsOK(o.reqs) /\ o.result = None
    /\ \A i \in DOMAIN o.got : Known(o.got[i], z, n)

Met(o, z) == Gone(o, z) /\ \A i \in DOMAIN o.reqs : UpToDate(o.reqs[i], z)

LEMMA Returned ==
    ASSUME DnsAssumption, NEW z, NEW n, NEW e, NEW s, NEW o \in Ops, ReqsOK(o.reqs),
           NEW r \in Results,
           r = "ok" /\ Applying(o) => Agreed(o) /\ (o.steady => Met(o, z) /\ e /\ s.records = z),
           r = "quiet" /\ o.steady => Gone(o, z)
    PROVE  Return(o, r) \in Ops /\ Good(Return(o, r), z, n, e, s)
<1> DEFINE q == Return(o, r)
<1>1. <<>> \in Seq(LiveRecs) /\ <<>> \in Lists(Requests \cup LiveRecs) /\ DOMAIN <<>> = {}  BY NoList
<1>2. 0 \in 0..Attempts - 1  BY DEF DnsAssumption
<1>3. /\ q.pc = "done" /\ q.result = r /\ q.got = <<>> /\ q.kind = o.kind /\ q.reqs = o.reqs
      /\ q.absent = o.absent /\ q.steady = o.steady
    BY DEF Return, Ops
<1>4. q \in Ops  BY <1>1, <1>2 DEF Return, Ops, PCs, Purposes, None
<1> HIDE DEF q
<1>5. PlaceOK(q)  BY <1>3 DEF PlaceOK, Applying, Agreed
<1>6. ListedOK(q, z, n)  BY <1>1, <1>3 DEF ListedOK
<1>7. Reached(q, z, e, s)
    BY <1>3 DEF Reached, PastDelete, PastUpsert, Applying, Agreed, Gone, Met
<1> QED  BY <1>4, <1>5, <1>6, <1>7 DEF Good, q

LEMMA Listing ==
    ASSUME NEW z \in Seq(LiveRecs), NEW n, NEW e, NEW s, NEW o, Going(o, z, n),
           NEW w \in {"delete", "upsert", "diff", "output"},
           w \in {"delete", "upsert"} => Applying(o),
           w = "diff" => o.kind = "diff",
           w = "output" => o.kind \in {"create", "update", "read"},
           Applying(o) => Agreed(o),
           o.steady /\ Applying(o) => (w = "upsert" => Gone(o, z)) /\ (w = "output" => Met(o, z))
    PROVE  List(o, w) \in Ops /\ Good(List(o, w), z, n, e, s)
<1> DEFINE q == List(o, w)
<1>1. <<>> \in Seq(LiveRecs) /\ DOMAIN <<>> = {} /\ Len(<<>>) = 0  OBVIOUS
<1>2. /\ q.pc = "list" /\ q.then = w /\ q.result = None /\ q.got = <<>> /\ q.kind = o.kind
      /\ q.reqs = o.reqs /\ q.absent = o.absent /\ q.steady = o.steady
    BY DEF List, Ops, Going
<1>3. q \in Ops  BY <1>1 DEF List, Ops, PCs, Purposes, Going
<1> HIDE DEF q
<1>4. PlaceOK(q)  BY <1>2 DEF PlaceOK, Applying, Agreed, Going, None
<1>5. ListedOK(q, z, n)  BY <1>1, <1>2 DEF ListedOK
<1>6. Len(q.got) <= Len(z)  BY <1>1, <1>2
<1>7. Reached(q, z, e, s)
    BY <1>1, <1>2, <1>6 DEF Reached, PastDelete, PastUpsert, Applying, Gone, Met, None
<1> QED  BY <1>3, <1>4, <1>5, <1>7 DEF Good, q

LEMMA Finished ==
    ASSUME NEW z \in Seq(LiveRecs), NEW n, NEW e, NEW s, NEW o, Going(o, z, n),
           Applying(o), Agreed(o), o.steady => Met(o, z)
    PROVE  Finish(o) \in Ops /\ Good(Finish(o), z, n, e, s)
<1>1. CASE o.kind # "update"
    <2>1. Finish(o) = List(o, "output") /\ o.kind \in {"create", "update", "read"}
        BY <1>1 DEF Finish, Applying
    <2> QED  BY <2>1, Listing
<1>2. CASE o.kind = "update"
    <2> DEFINE q == Finish(o)
    <2>1. /\ q.pc = "read_get" /\ q.result = None /\ q.got = o.got /\ q.kind = o.kind
          /\ q.reqs = o.reqs /\ q.absent = o.absent /\ q.steady = o.steady
        BY <1>2 DEF Finish, Ops, Going
    <2>2. q \in Ops  BY <1>2 DEF Finish, Ops, PCs, Going
    <2> HIDE DEF q
    <2>3. PlaceOK(q)  BY <1>2, <2>1 DEF PlaceOK, Applying, Agreed, Going, None
    <2>4. ListedOK(q, z, n)  BY <2>1 DEF ListedOK, Going
    <2>5. Reached(q, z, e, s)
        BY <2>1 DEF Reached, PastDelete, PastUpsert, Applying, Gone, Met, None
    <2> QED  BY <2>2, <2>3, <2>4, <2>5 DEF Good, q
<1> QED  BY <1>1, <1>2

LEMMA UpsertStarts ==
    ASSUME NEW z \in Seq(LiveRecs), NEW n, NEW e, NEW s, NEW o, Going(o, z, n),
           Applying(o), Agreed(o), o.steady => Gone(o, z)
    PROVE  StartUpsert(o) \in Ops /\ Good(StartUpsert(o), z, n, e, s)
<1>1. CASE DOMAIN o.reqs = {}
    <2>1. StartUpsert(o) = Finish(o) /\ (o.steady => Met(o, z))  BY <1>1 DEF StartUpsert, Met
    <2> QED  BY <2>1, Finished
<1>2. CASE DOMAIN o.reqs # {}
    <2>1. StartUpsert(o) = List(o, "upsert")  BY <1>2 DEF StartUpsert
    <2> QED  BY <2>1, Listing
<1> QED  BY <1>1, <1>2

LEMMA DeleteStarts ==
    ASSUME DnsAssumption, NEW z \in Seq(LiveRecs), NEW n, NEW e, NEW s, NEW o, Going(o, z, n), Applying(o)
    PROVE  StartDelete(o) \in Ops /\ Good(StartDelete(o), z, n, e, s)
<1>1. CASE ~Agreed(o)
    <2>1. StartDelete(o) = Return(o, "error")  BY <1>1 DEF StartDelete, Agreed
    <2>2. "error" \in Results  BY DEF Results
    <2> QED  BY <2>1, <2>2, Returned DEF Going
<1>2. CASE Agreed(o) /\ o.absent = {}
    <2>1. StartDelete(o) = StartUpsert(o) /\ Gone(o, z)  BY <1>2 DEF StartDelete, Agreed, Gone
    <2> QED  BY <1>2, <2>1, UpsertStarts
<1>3. CASE Agreed(o) /\ o.absent # {}
    <2>1. StartDelete(o) = List(o, "delete")  BY <1>3 DEF StartDelete, Agreed
    <2> QED  BY <1>3, <2>1, Listing
<1> QED  BY <1>1, <1>2, <1>3

LEMMA Deletes ==
    ASSUME NEW z \in Seq(LiveRecs), NEW n, NEW e, NEW s, NEW o, Going(o, z, n),
           Applying(o), Agreed(o),
           \A k \in DOMAIN o.todo :
              /\ o.todo[k] \in LiveRecs /\ Known(o.todo[k], z, n)
              /\ \E a \in o.absent : dnsAbsentRecordMatches(a, o.todo[k]),
           o.steady => \A a \in o.absent, j \in DOMAIN z :
              dnsAbsentRecordMatches(a, z[j]) => \E k \in DOMAIN o.todo : o.todo[k].id = z[j].id
    PROVE  Deleting(o) \in Ops /\ Good(Deleting(o), z, n, e, s)
<1>1. CASE DOMAIN o.todo = {}
    <2>1. Deleting(o) = StartUpsert(o) /\ (o.steady => Gone(o, z))  BY <1>1 DEF Deleting, Gone
    <2> QED  BY <2>1, UpsertStarts
<1>2. CASE DOMAIN o.todo # {}
    <2> DEFINE q == Deleting(o)
    <2>1. /\ q.pc = "delete" /\ q.result = None /\ q.got = o.got /\ q.kind = o.kind /\ q.todo = o.todo
          /\ q.reqs = o.reqs /\ q.absent = o.absent /\ q.steady = o.steady
        BY <1>2 DEF Deleting, Ops, Going
    <2>2. q \in Ops  BY <1>2 DEF Deleting, Ops, PCs, Going
    <2> HIDE DEF q
    <2>3. PlaceOK(q)  BY <1>2, <2>1 DEF PlaceOK, Applying, Agreed, Going, None
    <2>4. ListedOK(q, z, n)  BY <2>1 DEF ListedOK, Going
    <2>5. Reached(q, z, e, s)
        BY <2>1 DEF Reached, PastDelete, PastUpsert, Applying, None
    <2> QED  BY <2>2, <2>3, <2>4, <2>5 DEF Good, q
<1> QED  BY <1>1, <1>2

(* A listing in which nothing has changed for a request shows it what the   *)
(* zone has for it.                                                         *)
LEMMA SameCandidate ==
    ASSUME NEW z \in Seq(LiveRecs), NEW live \in Seq(LiveRecs), NEW todo, StillThere(live, todo, z),
           NEW k \in DOMAIN todo
    PROVE  /\ SameKey(todo[k], z) = SameKey(todo[k], live)
           /\ UpToDate(todo[k], live) => UpToDate(todo[k], z)
<1>1. DOMAIN live \subseteq DOMAIN z
    <2>1. DOMAIN live = 1..Len(live) /\ DOMAIN z = 1..Len(z) /\ Len(live) \in Nat /\ Len(z) \in Nat
        BY SeqIsList
    <2> QED  BY <2>1 DEF StillThere
<1>2. SameKey(todo[k], z) = SameKey(todo[k], live)
    <2>1. \A i \in SameKey(todo[k], z) : i \in SameKey(todo[k], live)  BY DEF SameKey, StillThere
    <2>2. \A i \in SameKey(todo[k], live) : i \in SameKey(todo[k], z)  BY <1>1 DEF SameKey, StillThere
    <2> QED  BY <2>1, <2>2
<1>3. ASSUME UpToDate(todo[k], live) PROVE UpToDate(todo[k], z)
    <2> DEFINE m == Min(SameKey(todo[k], z))
    <2>1. SameKey(todo[k], z) # {}  BY <1>2, <1>3 DEF UpToDate
    <2>2. m \in DOMAIN z /\ UpsertKey(z[m]) = UpsertKey(todo[k]) /\ Candidate(todo[k], z) = z[m]
        BY <2>1, FirstKey
    <2>3. z[m] = live[m]  BY <2>2 DEF StillThere
    <2>4. Candidate(todo[k], live) = live[m]  BY <1>2 DEF Candidate
    <2> QED  BY <1>3, <2>1, <2>2, <2>3, <2>4 DEF UpToDate
<1> QED  BY <1>2, <1>3

LEMMA Upserts ==
    ASSUME DnsAssumption, NEW z \in Seq(LiveRecs), NEW n, NEW e, NEW s, NEW o, Going(o, z, n),
           Applying(o), Agreed(o),
           NEW live \in Seq(LiveRecs), \A i \in DOMAIN live : Known(live[i], z, n),
           NEW reqs \in Lists(Requests \cup LiveRecs), PartOf(reqs, o.reqs),
           o.steady => /\ Gone(o, z) /\ StillThere(live, reqs, z)
                       /\ \A i \in DOMAIN o.reqs : i \in DOMAIN reqs \/ UpToDate(o.reqs[i], z)
    PROVE  Upserting(o, reqs, live) \in Ops /\ Good(Upserting(o, reqs, live), z, n, e, s)
<1> DEFINE left == Remaining(reqs, live)
           seen(i) == \E j \in DOMAIN reqs : j < i /\ UpsertKey(reqs[j]) = UpsertKey(reqs[i])
           S == {i \in DOMAIN reqs : ~seen(i) /\ ~UpToDate(reqs[i], live)}
<1>1. \A i \in DOMAIN reqs : ~seen(i)
    <2>1. DOMAIN reqs \subseteq Nat  BY IsList
    <2> SUFFICES ASSUME NEW i \in DOMAIN reqs, NEW j \in DOMAIN reqs, j < i,
                        UpsertKey(reqs[j]) = UpsertKey(reqs[i])
                 PROVE  FALSE
        OBVIOUS
    <2>2. i = j  BY DEF Going, ReqsOK, PartOf
    <2> QED  BY <2>1, <2>2
<1>2. /\ left \in Lists(Requests \cup LiveRecs) /\ DOMAIN left = S
      /\ \A k \in S : left[k] = reqs[k]
    <2>1. S \in SUBSET DOMAIN reqs /\ left = Restrict(reqs, S)  BY DEF Remaining
    <2> HIDE DEF S, left
    <2> QED  BY <2>1, Kept
<1>3. PartOf(left, o.reqs)  BY <1>2 DEF PartOf
<1>4. 0 \in 0..Attempts - 1 /\ <<>> \in Lists(Requests \cup LiveRecs)  BY NoList DEF DnsAssumption
<1>5. o.steady => /\ StillThere(live, left, z)
                  /\ \A i \in DOMAIN o.reqs : i \in DOMAIN left \/ UpToDate(o.reqs[i], z)
    <2> SUFFICES ASSUME o.steady
                 PROVE  /\ StillThere(live, left, z)
                        /\ \A i \in DOMAIN o.reqs : i \in DOMAIN left \/ UpToDate(o.reqs[i], z)
        OBVIOUS
    <2>1. StillThere(live, reqs, z)  OBVIOUS
    <2>2. StillThere(live, left, z)  BY <1>2, <2>1 DEF StillThere
    <2>3. ASSUME NEW i \in DOMAIN o.reqs, i \notin DOMAIN left PROVE UpToDate(o.reqs[i], z)
        <3>1. CASE i \notin DOMAIN reqs  BY <3>1
        <3>2. CASE i \in DOMAIN reqs
            <4>1. UpToDate(reqs[i], live)  BY <1>1, <1>2, <2>3, <3>2
            <4>2. UpToDate(reqs[i], z)  BY <2>1, <3>2, <4>1, SameCandidate
            <4> QED  BY <3>2, <4>2 DEF PartOf
        <3> QED  BY <3>1, <3>2
    <2> QED  BY <2>2, <2>3
<1> HIDE DEF S, left
<1>6. CASE DOMAIN left = {}
    <2> DEFINE q == [o EXCEPT !.todo = <<>>, !.attempt = 0]
    <2>1. Upserting(o, reqs, live) = Finish(q)  BY <1>6 DEF Upserting, left
    <2>2. /\ q \in Ops /\ q.reqs = o.reqs /\ q.absent = o.absent /\ q.kind = o.kind /\ q.steady = o.steady
          /\ q.got = o.got /\ q.result = o.result
        BY <1>4 DEF Ops, Going
    <2> HIDE DEF q
    <2>3. Going(q, z, n) /\ Applying(q) /\ Agreed(q)  BY <2>2 DEF Going, Applying, Agreed
    <2>4. q.steady => Met(q, z)  BY <1>5, <1>6, <2>2 DEF Met, Gone
    <2> QED  BY <2>1, <2>3, <2>4, Finished
<1>7. CASE DOMAIN left # {}
    <2> DEFINE q == [o EXCEPT !.pc = "upsert", !.todo = left, !.got = live, !.attempt = 0]
    <2>1. Upserting(o, reqs, live) = q  BY <1>7 DEF Upserting, left
    <2>2. /\ q.reqs = o.reqs /\ q.absent = o.absent /\ q.kind = o.kind /\ q.steady = o.steady
          /\ q.got = live /\ q.result = None /\ q.pc = "upsert" /\ q.todo = left
        BY DEF Ops, Going
    <2>3. q \in Ops  BY <1>2, <1>4 DEF Ops, PCs, Going
    <2> HIDE DEF q
    <2>4. PlaceOK(q)  BY <1>3, <1>7, <2>2 DEF PlaceOK, Applying, Agreed, Going, None
    <2>5. ListedOK(q, z, n)  BY <2>2 DEF ListedOK
    <2>6. Reached(q, z, e, s)
        BY <1>5, <2>2 DEF Reached, PastDelete, PastUpsert, Applying, Gone, None
    <2> QED  BY <2>1, <2>3, <2>4, <2>5, <2>6 DEF Good
<1> QED  BY <1>6, <1>7

(* Another attempt of a conflict loop, with the listing begun anew or not.  *)
LEMMA Retries ==
    ASSUME DnsAssumption, NEW z \in Seq(LiveRecs), NEW n, NEW e, NEW s, NEW o \in Ops,
           Good(o, z, n, e, s),
           o.pc = "get_again" \/ (o.pc = "list" /\ o.then = "conflict"),
           NEW q, q = Retry(o) \/ q = [Retry(o) EXCEPT !.got = <<>>]
    PROVE  q \in Ops /\ Good(q, z, n, e, s)
<1>1. ReqsOK(o.reqs) /\ "error" \in Results  BY DEF Good, PlaceOK, Results
<1>2. Return(o, "error") \in Ops /\ Good(Return(o, "error"), z, n, e, s)  BY <1>1, Returned
<1>3. CASE o.attempt + 1 = Attempts
    <2>1. Return(o, "error").got = <<>>  BY DEF Return, Ops
    <2>2. [Return(o, "error") EXCEPT !.got = <<>>] = Return(o, "error")  BY <1>2, <2>1 DEF Ops
    <2> QED  BY <1>2, <1>3, <2>2 DEF Retry
<1>4. CASE o.attempt + 1 # Attempts
    <2>1. o.attempt + 1 \in 0..Attempts - 1  BY <1>4 DEF Ops, DnsAssumption
    <2>2. \/ q = [o EXCEPT !.attempt = @ + 1]
          \/ q = [[o EXCEPT !.attempt = @ + 1] EXCEPT !.got = <<>>]
        BY <1>4 DEF Retry
    <2>3. /\ q.reqs = o.reqs /\ q.absent = o.absent /\ q.kind = o.kind /\ q.steady = o.steady
          /\ q.result = o.result /\ q.pc = o.pc /\ q.todo = o.todo /\ q.then = o.then
          /\ q.got = o.got \/ q.got = <<>>
        BY <2>2 DEF Ops
    <2>4. q \in Ops
        <3> DEFINE r == [o EXCEPT !.attempt = @ + 1]
        <3>1. r \in Ops  BY <2>1 DEF Ops
        <3>2. <<>> \in Seq(LiveRecs)  OBVIOUS
        <3> HIDE DEF r
        <3>3. [r EXCEPT !.got = <<>>] \in Ops  BY <3>1, <3>2 DEF Ops
        <3> QED  BY <2>2, <3>1, <3>3 DEF r
    <2>5. PlaceOK(q)  BY <2>3 DEF Good, PlaceOK, Applying, Agreed
    <2>6. ListedOK(q, z, n)
        <3>1. DOMAIN <<>> = {}  OBVIOUS
        <3> QED  BY <2>3, <3>1 DEF Good, ListedOK
    <2>7. Reached(q, z, e, s)
        BY <2>3 DEF Good, PlaceOK, Reached, PastDelete, PastUpsert, Applying, Gone, None
    <2> QED  BY <2>4, <2>5, <2>6, <2>7 DEF Good
<1> QED  BY <1>3, <1>4

(* The driver's answer from the stored list, for whatever was found live.   *)
LEMMA Compared ==
    ASSUME DnsAssumption, NEW z, NEW n, NEW e, NEW s, NEW t, NEW o \in Ops, ReqsOK(o.reqs),
           NEW present \in BOOLEAN, ~present /\ o.steady => Gone(o, z)
    PROVE  DiffStored(o, t, present) \in Ops /\ Good(DiffStored(o, t, present), z, n, e, s)
<1>1. "update" \in Results /\ "quiet" \in Results  BY DEF Results
<1>2. CASE DiffStored(o, t, present) = Return(o, "update")  BY <1>1, <1>2, Returned
<1>3. CASE DiffStored(o, t, present) = Return(o, "quiet") /\ ~present  BY <1>1, <1>3, Returned
<1> QED  BY <1>2, <1>3 DEF DiffStored

(* The last page of a listing, by what the listing is for; only the record  *)
(* list of an output reaches the resource, which is done by the caller.     *)
LEMMA ListingEnds ==
    ASSUME DnsAssumption, NEW z \in Seq(LiveRecs), NEW n, NEW s, NEW t, NEW o \in Ops, o.pc = "list",
           Good(o, z, n, TRUE, t), Going(o, z, n),
           NEW live \in Seq(LiveRecs), \A i \in DOMAIN live : Known(live[i], z, n),
           o.steady => live = z,
           o.then = "output" => s.records = live
    PROVE  Listed(o, live, t) \in Ops /\ Good(Listed(o, live, t), z, n, TRUE, s)
<1> DEFINE q == Listed(o, live, t)
<1>1. /\ ReqsOK(o.reqs) /\ "error" \in Results /\ "ok" \in Results /\ (Applying(o) => Agreed(o))
    BY DEF Good, PlaceOK, Results
<1>2. Return(o, "error") \in Ops /\ Good(Return(o, "error"), z, n, TRUE, s)  BY <1>1, Returned
<1>3. o.steady => StillThere(live, o.reqs, z)  BY DEF StillThere
<1>4. CASE o.then = "delete"
    <2> DEFINE d == ToDelete(o, live)
               r == [o EXCEPT !.todo = d, !.got = <<>>]
               S == {i \in DOMAIN live : \E a \in o.absent : dnsAbsentRecordMatches(a, live[i])}
    <2>1. Applying(o) /\ q = Deleting(r)  BY <1>4 DEF Good, PlaceOK, Listed
    <2>2. live \in Lists(LiveRecs) /\ live \in Lists(Requests \cup LiveRecs)
        <3>1. live \in Seq(Requests \cup LiveRecs)
            <4>1. DOMAIN live = 1..Len(live) /\ \A i \in 1..Len(live) : live[i] \in LiveRecs  BY SeqIsList
            <4> QED  BY <4>1
        <3> QED  BY <3>1, SeqIsList
    <2>3. /\ d \in Lists(Requests \cup LiveRecs) /\ DOMAIN d = S /\ \A k \in S : d[k] = live[k]
        <3>1. S \in SUBSET DOMAIN live /\ d = Restrict(live, S)  BY DEF ToDelete
        <3> HIDE DEF S, d
        <3> QED  BY <2>2, <3>1, Kept
    <2>4. \A k \in DOMAIN d : /\ d[k] \in LiveRecs /\ Known(d[k], z, n)
                             /\ \E a \in o.absent : dnsAbsentRecordMatches(a, d[k])
        BY <2>3, SeqIsList
    <2>5. o.steady => \A a \in o.absent, j \in DOMAIN z :
              dnsAbsentRecordMatches(a, z[j]) => \E k \in DOMAIN d : d[k].id = z[j].id
        BY <2>3
    <2> HIDE DEF d, S
    <2>6. /\ r \in Ops /\ r.reqs = o.reqs /\ r.absent = o.absent /\ r.kind = o.kind /\ r.steady = o.steady
          /\ r.todo = d /\ r.result = o.result /\ r.got = <<>> /\ DOMAIN <<>> = {}
        <3>1. <<>> \in Seq(LiveRecs) /\ DOMAIN <<>> = {}  OBVIOUS
        <3>2. d \in Lists(Requests \cup LiveRecs)  BY <2>3
        <3> QED  BY <3>1, <3>2 DEF Ops
    <2> HIDE DEF r
    <2>7. Going(r, z, n) /\ Applying(r) /\ Agreed(r)  BY <1>1, <2>1, <2>6 DEF Going, Applying, Agreed
    <2>8. Deleting(r) \in Ops /\ Good(Deleting(r), z, n, TRUE, s)
        BY <2>4, <2>5, <2>6, <2>7, Deletes
    <2> QED  BY <2>1, <2>8
<1>5. CASE o.then = "upsert"
    <2>1. Applying(o) /\ (o.steady => Gone(o, z))
        BY <1>5 DEF Good, PlaceOK, Reached, PastDelete
    <2>2. CASE q = Return(o, "error")  BY <1>2, <2>2
    <2>3. CASE q = Upserting(o, o.reqs, live)
        <3>1. o.reqs \in Lists(Requests \cup LiveRecs)
            <4>1. o.reqs \in Lists(Requests)  BY DEF Ops
            <4>2. PICK S \in SUBSET Nat : o.reqs \in [S -> Requests]  BY <4>1 DEF Lists
            <4>3. o.reqs \in [S -> Requests \cup LiveRecs]  BY <4>2
            <4> QED  BY <4>3 DEF Lists
        <3>2. PartOf(o.reqs, o.reqs)  BY DEF PartOf
        <3>3. Upserting(o, o.reqs, live) \in Ops /\ Good(Upserting(o, o.reqs, live), z, n, TRUE, s)
            BY <1>1, <1>3, <2>1, <3>1, <3>2, Upserts
        <3> QED  BY <2>3, <3>3
    <2> QED  BY <1>5, <2>2, <2>3 DEF Listed
<1>6. CASE o.then = "conflict"
    <2>1. Applying(o) /\ ~o.steady /\ PartOf(o.todo, o.reqs)
        BY <1>6 DEF Good, PlaceOK, Reached
    <2>2. CASE q = Return(o, "error")  BY <1>2, <2>2
    <2>3. CASE q = Upserting(o, o.todo, live)
        <3>1. o.todo \in Lists(Requests \cup LiveRecs)  BY DEF Ops
        <3>2. Upserting(o, o.todo, live) \in Ops /\ Good(Upserting(o, o.todo, live), z, n, TRUE, s)
            BY <1>1, <2>1, <3>1, Upserts
        <3> QED  BY <2>3, <3>2
    <2>4. CASE q = [Retry(o) EXCEPT !.got = <<>>]
        <3>1. Good(o, z, n, TRUE, s)
            BY <2>1, <1>6 DEF Good, Reached
        <3> DEFINE r == [Retry(o) EXCEPT !.got = <<>>]
        <3>2. r \in Ops /\ Good(r, z, n, TRUE, s)  BY <1>6, <3>1, Retries
        <3> QED  BY <2>4, <3>2
    <2> QED  BY <1>6, <2>2, <2>3, <2>4 DEF Listed
<1>7. CASE o.then = "diff"
    <2> DEFINE present == \E i \in DOMAIN live, a \in o.absent : dnsAbsentRecordMatches(a, live[i])
    <2>1. q = DiffStored(o, t, present)  BY <1>7 DEF Listed
    <2>2. ~present /\ o.steady => Gone(o, z)  BY DEF Gone
    <2>3. present \in BOOLEAN  OBVIOUS
    <2> HIDE DEF present
    <2>4. DiffStored(o, t, present) \in Ops /\ Good(DiffStored(o, t, present), z, n, TRUE, s)
        BY <1>1, <2>2, <2>3, Compared
    <2> QED  BY <2>1, <2>4
<1>8. CASE o.then = "output"
    <2>1. q = Return(o, "ok")  BY <1>8 DEF Listed
    <2>2. Applying(o) /\ o.steady => Met(o, z)
        BY <1>8 DEF Good, Reached, PastDelete, PastUpsert, Met
    <2>3. o.steady => s.records = z  BY <1>8
    <2>4. Return(o, "ok") \in Ops /\ Good(Return(o, "ok"), z, n, TRUE, s)
        BY <1>1, <2>2, <2>3, Returned
    <2> QED  BY <2>1, <2>4
<1>9. o.then \in Purposes /\ o.then # None  BY DEF Good, PlaceOK, Ops
<1> QED  BY <1>4, <1>5, <1>6, <1>7, <1>8, <1>9 DEF Purposes

(* One page more of a listing.                                              *)
LEMMA Slice ==
    ASSUME NEW z \in Seq(LiveRecs), NEW from \in Nat \ {0}, NEW end \in Nat, end <= Len(z)
    PROVE  /\ SubSeq(z, from, end) \in Seq(LiveRecs) /\ Len(SubSeq(z, from, end)) \in Nat
           /\ from <= end => Len(SubSeq(z, from, end)) = end - from + 1
           /\ ~(from <= end) => Len(SubSeq(z, from, end)) = 0
           /\ \A i \in 1..Len(SubSeq(z, from, end)) :
                 from + i - 1 \in DOMAIN z /\ SubSeq(z, from, end)[i] = z[from + i - 1]
<1> DEFINE rest == SubSeq(z, from, end)
<1>1. DOMAIN z = 1..Len(z) /\ Len(z) \in Nat /\ \A i \in 1..Len(z) : z[i] \in LiveRecs  BY SeqIsList
<1>2. \A i \in from..end : i \in DOMAIN z /\ z[i] \in LiveRecs  BY <1>1
<1>3. from \in Int /\ end \in Int  OBVIOUS
<1>4. /\ rest \in Seq(LiveRecs)
      /\ Len(rest) = IF from <= end THEN end - from + 1 ELSE 0
      /\ \A i \in 1..(end - from + 1) : rest[i] = z[from + i - 1]
    BY <1>2, <1>3, SubSeqProperties
<1> HIDE DEF rest
<1>5. CASE from <= end
    <2>1. Len(rest) = end - from + 1  BY <1>4, <1>5
    <2>2. \A i \in 1..(end - from + 1) : from + i - 1 \in from..end  OBVIOUS
    <2> QED  BY <1>2, <1>4, <1>5, <2>1, <2>2 DEF rest
<1>6. CASE ~(from <= end)
    <2>1. Len(rest) = 0  BY <1>4, <1>6
    <2> QED  BY <1>4, <1>6, <2>1 DEF rest
<1> QED  BY <1>5, <1>6

NextPage(got, z, end) == got \o SubSeq(z, Len(got) + 1, end)

LEMMA Page ==
    ASSUME NEW z \in Seq(LiveRecs), NEW got \in Seq(LiveRecs), NEW end \in Nat, end <= Len(z)
    PROVE  /\ NextPage(got, z, end) \in Seq(LiveRecs)
           /\ \A i \in DOMAIN NextPage(got, z, end) :
                 \/ i \in DOMAIN got /\ NextPage(got, z, end)[i] = got[i]
                 \/ i \in DOMAIN z /\ NextPage(got, z, end)[i] = z[i]
           /\ Len(got) <= end => Len(NextPage(got, z, end)) = end
<1>1. PICK from \in Nat \ {0} : from = Len(got) + 1
    <2>1. Len(got) + 1 \in Nat \ {0}  BY SeqIsList
    <2> QED  BY <2>1
<1> DEFINE rest == SubSeq(z, from, end)
           more == NextPage(got, z, end)
<1>2. /\ rest \in Seq(LiveRecs)
      /\ from <= end => Len(rest) = end - from + 1
      /\ ~(from <= end) => Len(rest) = 0
      /\ \A i \in 1..Len(rest) : from + i - 1 \in DOMAIN z /\ rest[i] = z[from + i - 1]
    BY Slice
<1>3. more = got \o rest  BY <1>1 DEF NextPage
<1> HIDE DEF rest, more
<1>4. /\ more \in Seq(LiveRecs) /\ Len(more) = Len(got) + Len(rest)
      /\ \A i \in 1..(Len(got) + Len(rest)) : more[i] = IF i <= Len(got) THEN got[i] ELSE rest[i - Len(got)]
    BY <1>2, <1>3, ConcatProperties
<1>5. /\ Len(rest) \in Nat /\ DOMAIN got = 1..Len(got) /\ Len(got) \in Nat
      /\ DOMAIN more = 1..(Len(got) + Len(rest))
    BY <1>2, <1>4, SeqIsList
<1>6. Len(got) <= end => Len(more) = end  BY <1>1, <1>2, <1>4, <1>5
<1>7. ASSUME NEW i \in 1..(Len(got) + Len(rest)), ~(i <= Len(got))
      PROVE  i \in DOMAIN z /\ more[i] = z[i]
    <2>1. i - Len(got) \in 1..Len(rest) /\ from + (i - Len(got)) - 1 = i  BY <1>1, <1>5, <1>7
    <2>2. more[i] = rest[i - Len(got)]  BY <1>4, <1>7
    <2> QED  BY <1>2, <2>1, <2>2
<1>8. \A i \in 1..(Len(got) + Len(rest)) : i <= Len(got) => i \in DOMAIN got /\ more[i] = got[i]
    BY <1>4, <1>5
<1> QED  BY <1>4, <1>5, <1>6, <1>7, <1>8 DEF more

-----------------------------------------------------------------------------
(* What a write does to the requests of the operation that makes it.        *)

LEMMA EditReached ==
    ASSUME NEW n \in Nat, NEW z, ZoneOK(z, n), NEW got \in Seq(LiveRecs),
           NEW reqs, ReqsOK(reqs), NEW todo, PartOf(todo, reqs), StillThere(got, todo, z),
           NEW k \in DOMAIN todo, SameKey(todo[k], got) # {}, todo[k] \in Values,
           NEW i \in DOMAIN z, z[i].id = Candidate(todo[k], got).id
    PROVE  /\ \A j \in DOMAIN z : UpsertKey(Rewritten(z, i, todo[k])[j]) = UpsertKey(z[j])
           /\ \A x \in DOMAIN todo, j \in DOMAIN z :
                 x # k /\ UpsertKey(z[j]) = UpsertKey(todo[x]) => Rewritten(z, i, todo[k])[j] = z[j]
           /\ \A x \in DOMAIN reqs :
                 x = k \/ UpToDate(reqs[x], z) => UpToDate(reqs[x], Rewritten(z, i, todo[k]))
<1> DEFINE m == Min(SameKey(todo[k], got))
           y == Rewritten(z, i, todo[k])
<1>1. z \in Seq(LiveRecs) /\ DOMAIN z = 1..Len(z) /\ DOMAIN got = 1..Len(got)
      /\ Len(z) \in Nat /\ Len(got) \in Nat
    BY SeqIsList DEF ZoneOK
<1>2. /\ m \in DOMAIN got /\ UpsertKey(got[m]) = UpsertKey(todo[k])
      /\ Candidate(todo[k], got) = got[m]
    BY FirstKey
<1>3. m \in DOMAIN z /\ z[m].id = got[m].id /\ UpsertKey(z[m]) = UpsertKey(todo[k])
    BY <1>1, <1>2 DEF StillThere
<1>4. i = m  BY <1>2, <1>3 DEF ZoneOK
<1>5. /\ ZoneOK(y, n) /\ DOMAIN y = DOMAIN z /\ y[i] = dnsDomainRecordFromRequest(z[i].id, todo[k])
      /\ \A j \in DOMAIN z : j # i => y[j] = z[j]
    BY ZoneEdited
<1> HIDE DEF y
<1>6. UpsertKey(y[i]) = UpsertKey(todo[k]) /\ dnsRecordMatchesRequest(y[i], todo[k])  BY <1>5, Written
<1>7. \A j \in DOMAIN y : UpsertKey(y[j]) = UpsertKey(z[j])  BY <1>3, <1>4, <1>5, <1>6
<1>8. \A req : SameKey(req, y) = SameKey(req, z)  BY <1>5, <1>7 DEF SameKey
<1>9. \A x \in DOMAIN reqs : x # k => UpsertKey(reqs[x]) # UpsertKey(todo[k])
    BY DEF ReqsOK, PartOf
<1>10. \A x \in DOMAIN todo, j \in DOMAIN z :
          x # k /\ UpsertKey(z[j]) = UpsertKey(todo[x]) => y[j] = z[j]
    BY <1>3, <1>4, <1>5, <1>9 DEF PartOf
<1>11. UpToDate(todo[k], y)
    <2>1. SameKey(todo[k], z) = SameKey(todo[k], got)  BY <1>1, SameCandidate
    <2>2. SameKey(todo[k], y) = SameKey(todo[k], got)  BY <1>8, <2>1
    <2> QED  BY <1>4, <1>6, <2>2 DEF UpToDate, Candidate
<1>12. ASSUME NEW x \in DOMAIN reqs, x # k, UpToDate(reqs[x], z) PROVE UpToDate(reqs[x], y)
    <2> DEFINE c == Min(SameKey(reqs[x], z))
    <2>1. SameKey(reqs[x], z) # {}  BY <1>12 DEF UpToDate
    <2>2. c \in DOMAIN z /\ UpsertKey(z[c]) = UpsertKey(reqs[x]) /\ Candidate(reqs[x], z) = z[c]
        BY <1>1, <2>1, FirstKey
    <2>3. c # i  BY <1>3, <1>4, <1>9, <1>12, <2>2
    <2>4. Candidate(reqs[x], y) = z[c]  BY <1>5, <1>8, <2>2, <2>3 DEF Candidate
    <2> QED  BY <1>8, <1>12, <2>2, <2>4 DEF UpToDate
<1>13. reqs[k] = todo[k]  BY DEF PartOf
<1> QED  BY <1>5, <1>7, <1>10, <1>11, <1>12, <1>13 DEF y

LEMMA AddReached ==
    ASSUME NEW n \in Nat, NEW z, ZoneOK(z, n), NEW reqs, ReqsOK(reqs), NEW k \in DOMAIN reqs,
           reqs[k] \in Values, SameKey(reqs[k], z) = {}
    PROVE  /\ \A x \in DOMAIN reqs, j \in DOMAIN Added(z, n, reqs[k]) :
                 x # k /\ UpsertKey(Added(z, n, reqs[k])[j]) = UpsertKey(reqs[x])
                    => j \in DOMAIN z /\ Added(z, n, reqs[k])[j] = z[j]
           /\ \A x \in DOMAIN reqs :
                 x = k \/ UpToDate(reqs[x], z) => UpToDate(reqs[x], Added(z, n, reqs[k]))
<1> DEFINE y == Added(z, n, reqs[k])
<1>1. /\ Len(z) \in Nat /\ DOMAIN z = 1..Len(z) /\ DOMAIN y = 1..(Len(z) + 1)
      /\ y[Len(z) + 1] = dnsDomainRecordFromRequest(n, reqs[k]) /\ \A j \in DOMAIN z : y[j] = z[j]
    <2>1. PICK m : m = n + 1  OBVIOUS
    <2> QED  BY <2>1, ZoneAdded
<1> HIDE DEF y
<1>2. DOMAIN y = DOMAIN z \cup {Len(z) + 1} /\ Len(z) + 1 \notin DOMAIN z  BY <1>1
<1>3. /\ UpsertKey(y[Len(z) + 1]) = UpsertKey(reqs[k])
      /\ dnsRecordMatchesRequest(y[Len(z) + 1], reqs[k])
    BY <1>1, Written
<1>4. \A x \in DOMAIN reqs : x # k => UpsertKey(reqs[x]) # UpsertKey(reqs[k])  BY DEF ReqsOK
<1>5. \A x \in DOMAIN reqs, j \in DOMAIN y :
          x # k /\ UpsertKey(y[j]) = UpsertKey(reqs[x]) => j \in DOMAIN z /\ y[j] = z[j]
    BY <1>1, <1>2, <1>3, <1>4
<1>6. UpToDate(reqs[k], y)
    <2>1. SameKey(reqs[k], y) = {Len(z) + 1}
        <3>1. \A j \in DOMAIN z : UpsertKey(y[j]) # UpsertKey(reqs[k])  BY <1>1 DEF SameKey
        <3> QED  BY <1>2, <1>3, <3>1 DEF SameKey
    <2>2. Min(SameKey(reqs[k], y)) = Len(z) + 1
        <3>1. {Len(z) + 1} \in SUBSET Nat /\ Len(z) + 1 \in {Len(z) + 1}
              /\ \A j \in {Len(z) + 1} : Len(z) + 1 <= j
            BY <1>1
        <3> QED  BY <2>1, <3>1, LeastIs
    <2> QED  BY <1>3, <2>1, <2>2 DEF UpToDate, Candidate
<1>7. ASSUME NEW x \in DOMAIN reqs, x # k, UpToDate(reqs[x], z) PROVE UpToDate(reqs[x], y)
    <2> DEFINE c == Min(SameKey(reqs[x], z))
    <2>1. SameKey(reqs[x], y) = SameKey(reqs[x], z)
        <3>1. \A j \in SameKey(reqs[x], y) : j \in SameKey(reqs[x], z)  BY <1>5, <1>7 DEF SameKey
        <3>2. \A j \in SameKey(reqs[x], z) : j \in SameKey(reqs[x], y)  BY <1>1, <1>2 DEF SameKey
        <3> QED  BY <3>1, <3>2
    <2>2. SameKey(reqs[x], z) # {} /\ z \in Seq(LiveRecs)  BY <1>7 DEF UpToDate, ZoneOK
    <2>3. c \in DOMAIN z /\ Candidate(reqs[x], z) = z[c]  BY <2>2, FirstKey
    <2>4. Candidate(reqs[x], y) = z[c]  BY <1>1, <2>1, <2>3 DEF Candidate
    <2> QED  BY <1>7, <2>1, <2>2, <2>3, <2>4 DEF UpToDate
<1> QED  BY <1>5, <1>6, <1>7 DEF y

-----------------------------------------------------------------------------
(* The frame of a step.                                                     *)

LEMMA AtHand ==
    ASSUME NEW z, NEW n, NEW e, NEW s, NEW o \in Ops, Good(o, z, n, e, s), o.pc # "done"
    PROVE  Going(o, z, n)
BY DEF Good, PlaceOK, ListedOK, Going

LEMMA UnsteadyOps == ASSUME NEW o \in Ops PROVE Unsteady(o) \in Ops
<1>1. (o.pc = "idle") \in BOOLEAN  OBVIOUS
<1> QED  BY <1>1 DEF Unsteady, Ops

LEMMA Unsteadied ==
    ASSUME NEW z, NEW n, NEW e, NEW s, NEW y, NEW m, NEW f, NEW t, NEW o \in Ops,
           Good(o, z, n, e, s), ListedOK(o, y, m)
    PROVE  Unsteady(o) \in Ops /\ Good(Unsteady(o), y, m, f, t)
<1> DEFINE q == Unsteady(o)
<1>1. /\ q.pc = o.pc /\ q.kind = o.kind /\ q.reqs = o.reqs /\ q.absent = o.absent /\ q.got = o.got
      /\ q.then = o.then /\ q.todo = o.todo /\ q.result = o.result /\ q.steady = (o.pc = "idle")
    BY DEF Unsteady, Ops
<1>2. q \in Ops  BY UnsteadyOps
<1> HIDE DEF q
<1>3. PlaceOK(q)  BY <1>1 DEF Good, PlaceOK, Applying, Agreed
<1>4. ListedOK(q, y, m)  BY <1>1 DEF ListedOK
<1>5. Reached(q, y, f, t)
    BY <1>1 DEF Good, PlaceOK, Reached, PastDelete, PastUpsert, None
<1> QED  BY <1>2, <1>3, <1>4, <1>5 DEF Good, q

LEMMA Stays ==
    ASSUME Safe, NEW p \in Procs, NEW next \in Ops, Go(p, next),
           UNCHANGED <<exists, zone, nextId>>,
           stored' \in [Procs -> Outputs], \A q \in Procs : q # p => stored'[q] = stored[q],
           Good(next, zone, nextId, exists, stored'[p]),
           ops' \in 0..MaxOps, faults' \in 0..MaxFaults
    PROVE  Safe'
<1>1. op \in [Procs -> Ops]  BY DEF Safe, Shape
<1>2. op' \in [Procs -> Ops] /\ op'[p] = next /\ \A q \in Procs : q # p => op'[q] = op[q]
    BY <1>1 DEF Go
<1>3. Shape'  BY <1>2 DEF Safe, Shape
<1>4. ASSUME NEW q \in Procs PROVE Good(op'[q], zone', nextId', exists', stored'[q])
    <2>1. CASE q = p  BY <1>2, <2>1
    <2>2. CASE q # p  BY <1>2, <2>2 DEF Safe
    <2> QED  BY <2>1, <2>2
<1> QED  BY <1>3, <1>4 DEF Safe

(* A change of the zone, by an operation (who) or by the operator.          *)
LEMMA Changes ==
    ASSUME Safe, NEW who \in SUBSET Procs,
           op' \in [Procs -> Ops], \A q \in Procs \ who : op'[q] = Unsteady(op[q]),
           \A p \in who : Good(op'[p], zone', nextId', exists', stored'[p]),
           exists' \in BOOLEAN, ~exists' => zone' = <<>>,
           ZoneOK(zone', nextId'), nextId' \in 1..MaxId + 1,
           StillNamed(zone, nextId, zone', nextId'),
           stored' \in [Procs -> Outputs], ops' \in 0..MaxOps, faults' \in 0..MaxFaults
    PROVE  Safe'
<1>1. Shape'  BY DEF Shape
<1>2. ASSUME NEW q \in Procs, q \notin who PROVE Good(op'[q], zone', nextId', exists', stored'[q])
    <2>1. op[q] \in Ops /\ Good(op[q], zone, nextId, exists, stored[q]) /\ nextId \in Nat /\ nextId' \in Nat
        BY DEF Safe, Shape
    <2>2. ListedOK(op[q], zone', nextId')  BY <2>1, ListedStays DEF Good
    <2>3. Good(Unsteady(op[q]), zone', nextId', exists', stored'[q])  BY <2>1, <2>2, Unsteadied
    <2> QED  BY <1>2, <2>3
<1> QED  BY <1>1, <1>2 DEF Safe

(* The step frame's parts that most steps need.                             *)
LEMMA Here ==
    ASSUME Safe, NEW p \in Procs
    PROVE  /\ op[p] \in Ops /\ Good(op[p], zone, nextId, exists, stored[p])
           /\ zone \in Seq(LiveRecs) /\ ZoneOK(zone, nextId) /\ nextId \in Nat
           /\ op \in [Procs -> Ops] /\ stored \in [Procs -> Outputs]
           /\ exists \in BOOLEAN /\ (~exists => zone = <<>>)
           /\ ops \in 0..MaxOps /\ faults \in 0..MaxFaults /\ nextId \in 1..MaxId + 1
BY DEF Safe, Shape, ZoneOK

(* A step of p that leaves everything but its operation.                    *)
LEMMA OnlyOp ==
    ASSUME Safe, NEW p \in Procs, NEW next \in Ops, Go(p, next),
           UNCHANGED <<exists, zone, nextId, stored>>,
           Good(next, zone, nextId, exists, stored[p]),
           ops' \in 0..MaxOps, faults' \in 0..MaxFaults
    PROVE  Safe'
<1>1. stored' \in [Procs -> Outputs] /\ \A q \in Procs : q # p => stored'[q] = stored[q]
    BY Here
<1>2. Good(next, zone, nextId, exists, stored'[p])  OBVIOUS
<1> QED  BY <1>1, <1>2, Stays

(* A step of p that writes the zone.                                        *)
LEMMA Disturbs ==
    ASSUME Safe, NEW p \in Procs, NEW next \in Ops, Disturb(p, next),
           Good(next, zone', nextId', exists', stored'[p]),
           exists' \in BOOLEAN, ~exists' => zone' = <<>>,
           ZoneOK(zone', nextId'), nextId' \in 1..MaxId + 1,
           StillNamed(zone, nextId, zone', nextId'),
           stored' \in [Procs -> Outputs],
           ops' \in 0..MaxOps, faults' \in 0..MaxFaults
    PROVE  Safe'
<1>1. op'[p] = next /\ \A q \in Procs \ {p} : op'[q] = Unsteady(op[q])  BY DEF Disturb
<1>2. op' \in [Procs -> Ops]
    <2>1. \A q \in Procs : op[q] \in Ops  BY Here
    <2>2. \A q \in Procs : Unsteady(op[q]) \in Ops  BY <2>1, UnsteadyOps
    <2> QED  BY <2>2 DEF Disturb
<1>3. \A q \in {p} : Good(op'[q], zone', nextId', exists', stored'[q])  BY <1>1
<1>4. {p} \in SUBSET Procs  OBVIOUS
<1> QED  BY <1>1, <1>2, <1>3, <1>4, Changes

LEMMA Fails ==
    ASSUME DnsAssumption, Safe, NEW p \in Procs, NEW z, NEW n, NEW e, NEW s
    PROVE  Return(op[p], "error") \in Ops /\ Good(Return(op[p], "error"), z, n, e, s)
<1>1. op[p] \in Ops /\ ReqsOK(op[p].reqs)  BY Here DEF Good, PlaceOK
<1>2. "error" \in Results  BY DEF Results
<1> QED  BY <1>1, <1>2, Returned

LEMMA RefusedSafe == ASSUME DnsAssumption, Safe, NEW p \in Procs, Refused(p) PROVE Safe'
<1>1. /\ Go(p, Return(op[p], "error")) /\ UNCHANGED <<exists, zone, nextId, stored, ops, faults>>
    BY DEF Refused
<1>2. ops' \in 0..MaxOps /\ faults' \in 0..MaxFaults  BY <1>1, Here
<1>3. Return(op[p], "error") \in Ops /\ Good(Return(op[p], "error"), zone, nextId, exists, stored[p])
    BY Fails
<1> QED  BY <1>1, <1>2, <1>3, OnlyOp

-----------------------------------------------------------------------------
(* Beginning an operation.                                                  *)

LEMMA IdleGood ==
    ASSUME DnsAssumption, NEW z \in Seq(LiveRecs), NEW n, NEW e, NEW s
    PROVE  /\ Idle \in Ops /\ ReqsOK(Idle.reqs) /\ Good(Idle, z, n, e, s)
           /\ Return(Idle, "error") \in Ops /\ Good(Return(Idle, "error"), z, n, e, s)
<1>1. /\ <<>> \in Seq(LiveRecs) /\ <<>> \in Lists(Requests) /\ <<>> \in Lists(Requests \cup LiveRecs)
      /\ DOMAIN <<>> = {} /\ 0 \in 0..Attempts - 1
    BY NoList DEF DnsAssumption
<1>2. Idle \in Ops  BY <1>1 DEF Idle, Ops, PCs, Purposes, Kinds, Results
<1>3. ReqsOK(Idle.reqs)  BY <1>1 DEF Idle, ReqsOK
<1>4. PlaceOK(Idle)  BY <1>3 DEF Idle, PlaceOK, Applying, None
<1>5. ListedOK(Idle, z, n)  BY <1>1 DEF Idle, ListedOK
<1>6. Reached(Idle, z, e, s)  BY DEF Idle, Reached, PastDelete, PastUpsert, Applying, None
<1>7. "error" \in Results  BY DEF Results
<1>8. Return(Idle, "error") \in Ops /\ Good(Return(Idle, "error"), z, n, e, s)
    BY <1>2, <1>3, <1>7, Returned
<1> QED  BY <1>2, <1>3, <1>4, <1>5, <1>6, <1>8 DEF Good

LEMMA BegunGoing ==
    ASSUME DnsAssumption, NEW z \in Seq(LiveRecs), NEW n, NEW c \in Configs, Accepted(c),
           NEW k \in {"create", "update", "diff"}
    PROVE  /\ Begun(k, c) \in Ops /\ Going(Begun(k, c), z, n)
           /\ Begun(k, c).kind = k /\ Begun(k, c).absent = c.absent
           /\ Begun(k, c).reqs = declaredDNSRecords(c.records)
           /\ Begun(k, c).pc = "idle" /\ Begun(k, c).got = <<>> /\ Begun(k, c).result = None
<1> DEFINE b == Begun(k, c)
           reqs == declaredDNSRecords(c.records)
<1>1. reqs \in Lists(Requests) /\ ReqsOK(reqs)  BY Declared
<1> HIDE DEF reqs
<1>2. Idle \in Ops  BY IdleGood
<1>3. /\ b.kind = k /\ b.absent = c.absent /\ b.reqs = reqs /\ b.pc = "idle" /\ b.got = <<>>
      /\ b.result = None
    BY DEF Begun, Idle, reqs
<1>4. c.absent \in SUBSET Absences /\ k \in Kinds  BY DEF Absences, Kinds
<1>5. b \in Ops
    <2>1. b = [Idle EXCEPT !.kind = k, !.reqs = reqs, !.absent = c.absent]  BY DEF Begun, reqs
    <2> QED  BY <1>1, <1>2, <1>4, <2>1 DEF Ops
<1>6. DOMAIN <<>> = {}  OBVIOUS
<1> HIDE DEF b
<1>7. Going(b, z, n)  BY <1>1, <1>3, <1>5, <1>6 DEF Going
<1> QED  BY <1>3, <1>5, <1>7 DEF b, reqs

LEMMA StartOps == ASSUME Safe, DnsAssumption, NEW p \in Procs, Start(p) PROVE ops' \in 0..MaxOps
<1>1. ops \in 0..MaxOps /\ MaxOps \in Nat /\ ops < MaxOps /\ ops' = ops + 1
    BY Here DEF Start, DnsAssumption
<1> QED  BY <1>1

LEMMA BeginCreateSafe ==
    ASSUME DnsAssumption, Safe, NEW p \in Procs, NEW c \in Configs, BeginCreate(p, c) PROVE Safe'
<1> DEFINE b == Begun("create", c)
           q == [b EXCEPT !.pc = "get"]
<1>1. /\ UNCHANGED <<exists, zone, nextId, stored, faults>> /\ ops' \in 0..MaxOps /\ faults' \in 0..MaxFaults
    BY StartOps, Here DEF BeginCreate
<1>2. CASE ~Accepted(c)
    <2>1. Go(p, Return(Idle, "error"))  BY <1>2 DEF BeginCreate
    <2>2. Return(Idle, "error") \in Ops /\ Good(Return(Idle, "error"), zone, nextId, exists, stored[p])
        BY Here, IdleGood
    <2> QED  BY <1>1, <2>1, <2>2, OnlyOp
<1>3. CASE Accepted(c)
    <2>1. Go(p, q)  BY <1>3 DEF BeginCreate
    <2>2. Going(b, zone, nextId) /\ b.kind = "create"  BY <1>3, Here, BegunGoing
    <2> HIDE DEF b
    <2>3. /\ q \in Ops /\ q.pc = "get" /\ q.kind = "create" /\ q.reqs = b.reqs /\ q.got = b.got
          /\ q.result = None
        BY <2>2 DEF Going, Ops, PCs
    <2> HIDE DEF q
    <2>4. PlaceOK(q)  BY <2>2, <2>3 DEF PlaceOK, Going, Applying, None
    <2>5. ListedOK(q, zone, nextId)  BY <2>2, <2>3 DEF ListedOK, Going
    <2>6. Reached(q, zone, exists, stored[p])  BY <2>3 DEF Reached, PastDelete, PastUpsert, None
    <2>7. Good(q, zone, nextId, exists, stored[p])  BY <2>4, <2>5, <2>6 DEF Good
    <2> QED  BY <1>1, <2>1, <2>3, <2>7, OnlyOp
<1> QED  BY <1>2, <1>3

LEMMA BeginUpdateSafe ==
    ASSUME DnsAssumption, Safe, NEW p \in Procs, NEW c \in Configs, BeginUpdate(p, c) PROVE Safe'
<1> DEFINE b == Begun("update", c)
<1>1. /\ UNCHANGED <<exists, zone, nextId, stored, faults>> /\ ops' \in 0..MaxOps /\ faults' \in 0..MaxFaults
    BY StartOps, Here DEF BeginUpdate
<1>2. CASE ~(Accepted(c) /\ c.domain # "other")
    <2>1. Go(p, Return(Idle, "error"))  BY <1>2 DEF BeginUpdate
    <2>2. Return(Idle, "error") \in Ops /\ Good(Return(Idle, "error"), zone, nextId, exists, stored[p])
        BY Here, IdleGood
    <2> QED  BY <1>1, <2>1, <2>2, OnlyOp
<1>3. CASE Accepted(c) /\ c.domain # "other"
    <2>1. Go(p, StartDelete(b))  BY <1>3 DEF BeginUpdate
    <2>2. Going(b, zone, nextId) /\ b.kind = "update"  BY <1>3, Here, BegunGoing
    <2> HIDE DEF b
    <2>3. Applying(b)  BY <2>2 DEF Applying
    <2>4. StartDelete(b) \in Ops /\ Good(StartDelete(b), zone, nextId, exists, stored[p])
        BY <2>2, <2>3, Here, DeleteStarts
    <2> QED  BY <1>1, <2>1, <2>4, OnlyOp
<1> QED  BY <1>2, <1>3

LEMMA BeginDiffSafe ==
    ASSUME DnsAssumption, Safe, NEW p \in Procs, NEW c \in Configs, BeginDiff(p, c) PROVE Safe'
<1> DEFINE b == Begun("diff", c)
           Fits(next) == next \in Ops /\ Good(next, zone, nextId, exists, stored[p])
<1>1. /\ UNCHANGED <<exists, zone, nextId, stored, faults>> /\ ops' \in 0..MaxOps /\ faults' \in 0..MaxFaults
    BY StartOps, Here DEF BeginDiff
<1>2. ASSUME NEW next, Go(p, next), Fits(next) PROVE Safe'
    BY <1>1, <1>2, OnlyOp
<1>3. Fits(Return(Idle, "error"))  BY Here, IdleGood
<1>4. CASE ~Accepted(c) \/ ~validateDNSAbsentRecordsDoNotConflict(b.reqs, b.absent)
    <2>1. Go(p, Return(Idle, "error"))  BY <1>4 DEF BeginDiff
    <2> QED  BY <1>2, <1>3, <2>1
<1>5. CASE Accepted(c) /\ validateDNSAbsentRecordsDoNotConflict(b.reqs, b.absent)
    <2>1. /\ Going(b, zone, nextId) /\ b.kind = "diff" /\ b.absent = c.absent /\ b \in Ops /\ ReqsOK(b.reqs)
          /\ ~Applying(b)
        BY <1>5, Here, BegunGoing DEF Going, Applying
    <2>2. \/ Go(p, Return(b, "update")) \/ Go(p, Return(b, "replace"))
          \/ Go(p, List(b, "diff"))
          \/ c.absent = {} /\ Go(p, DiffStored(b, stored[p], FALSE))
        BY <1>5 DEF BeginDiff
    <2> HIDE DEF b
    <2>3. CASE Go(p, Return(b, "update"))
        <3>1. "update" \in Results  BY DEF Results
        <3>2. Fits(Return(b, "update"))  BY <2>1, <3>1, Returned
        <3> QED  BY <1>2, <2>3, <3>2
    <2>4. CASE Go(p, Return(b, "replace"))
        <3>1. "replace" \in Results  BY DEF Results
        <3>2. Fits(Return(b, "replace"))  BY <2>1, <3>1, Returned
        <3> QED  BY <1>2, <2>4, <3>2
    <2>5. CASE Go(p, List(b, "diff"))
        <3>1. Fits(List(b, "diff"))  BY <2>1, Here, Listing
        <3> QED  BY <1>2, <2>5, <3>1
    <2>6. CASE c.absent = {} /\ Go(p, DiffStored(b, stored[p], FALSE))
        <3>1. Gone(b, zone)  BY <2>1, <2>6 DEF Gone
        <3>2. Fits(DiffStored(b, stored[p], FALSE))  BY <2>1, <3>1, Compared
        <3> QED  BY <1>2, <2>6, <3>2
    <2> QED  BY <2>2, <2>3, <2>4, <2>5, <2>6
<1> QED  BY <1>4, <1>5

LEMMA BeginOtherSafe ==
    ASSUME DnsAssumption, Safe, NEW p \in Procs, BeginRead(p) \/ BeginDelete(p) PROVE Safe'
<1>1. /\ UNCHANGED <<exists, zone, nextId, stored, faults>> /\ ops' \in 0..MaxOps /\ faults' \in 0..MaxFaults
    BY StartOps, Here DEF BeginRead, BeginDelete
<1>2. PICK q \in {[Idle EXCEPT !.pc = "read_get", !.kind = "read"],
                   [Idle EXCEPT !.pc = "delete_domain", !.kind = "delete"]} : Go(p, q)
    BY DEF BeginRead, BeginDelete
<1>3. /\ Idle \in Ops /\ ReqsOK(Idle.reqs) /\ Idle.got = <<>> /\ DOMAIN <<>> = {} /\ Idle.result = None
    <2>1. Idle \in Ops /\ ReqsOK(Idle.reqs)  BY Here, IdleGood
    <2>2. Idle.got = <<>> /\ Idle.result = None  BY DEF Idle
    <2>3. DOMAIN <<>> = {}  OBVIOUS
    <2> QED  BY <2>1, <2>2, <2>3
<1>4. /\ q \in Ops /\ q.reqs = Idle.reqs /\ q.got = <<>> /\ q.result = None
      /\ \/ q.pc = "read_get" /\ q.kind = "read"
         \/ q.pc = "delete_domain" /\ q.kind = "delete"
    <2>1. CASE q = [Idle EXCEPT !.pc = "read_get", !.kind = "read"]
        BY <1>3, <2>1 DEF Ops, PCs, Kinds
    <2>2. CASE q = [Idle EXCEPT !.pc = "delete_domain", !.kind = "delete"]
        BY <1>3, <2>2 DEF Ops, PCs, Kinds
    <2> QED  BY <2>1, <2>2
<1>5. PlaceOK(q)  BY <1>3, <1>4 DEF PlaceOK, Applying, None
<1>6. ListedOK(q, zone, nextId)  BY <1>3, <1>4 DEF ListedOK
<1>7. Reached(q, zone, exists, stored[p])
    BY <1>4 DEF Reached, PastDelete, PastUpsert, Applying, None
<1>8. Good(q, zone, nextId, exists, stored[p])  BY <1>5, <1>6, <1>7 DEF Good
<1> QED  BY <1>1, <1>2, <1>4, <1>8, OnlyOp

-----------------------------------------------------------------------------
(* The domain.                                                              *)

LEMMA GetDomainSafe ==
    ASSUME DnsAssumption, Safe, NEW p \in Procs, GetDomain(p) PROVE Safe'
<1> DEFINE o == op[p]
           q == [o EXCEPT !.pc = "create_domain"]
<1>1. /\ UNCHANGED <<exists, zone, nextId, stored, ops, faults>> /\ o.pc = "get"
      /\ ops' \in 0..MaxOps /\ faults' \in 0..MaxFaults
    BY Here DEF GetDomain
<1>2. o \in Ops /\ Good(o, zone, nextId, exists, stored[p])  BY Here
<1>3. Going(o, zone, nextId) /\ o.kind = "create" /\ Applying(o)
    BY <1>1, <1>2, AtHand DEF Good, PlaceOK, Applying
<1>4. CASE exists
    <2>1. Go(p, StartDelete(o))  BY <1>4 DEF GetDomain
    <2> HIDE DEF o
    <2>2. StartDelete(o) \in Ops /\ Good(StartDelete(o), zone, nextId, exists, stored[p])
        BY <1>3, Here, DeleteStarts
    <2> QED  BY <1>1, <2>1, <2>2, OnlyOp
<1>5. CASE ~exists
    <2>1. Go(p, q)  BY <1>5 DEF GetDomain
    <2> HIDE DEF o
    <2>2. /\ q \in Ops /\ q.pc = "create_domain" /\ q.kind = o.kind /\ q.reqs = o.reqs /\ q.got = o.got
          /\ q.result = None
        BY <1>3 DEF Ops, PCs, Going
    <2> HIDE DEF q
    <2>3. PlaceOK(q)  BY <1>3, <2>2 DEF PlaceOK, Going, Applying, None
    <2>4. ListedOK(q, zone, nextId)  BY <1>3, <2>2 DEF ListedOK, Going
    <2>5. Reached(q, zone, exists, stored[p])  BY <2>2 DEF Reached, PastDelete, PastUpsert, None
    <2>6. Good(q, zone, nextId, exists, stored[p])  BY <2>3, <2>4, <2>5 DEF Good
    <2> QED  BY <1>1, <2>1, <2>2, <2>6, OnlyOp
<1> QED  BY <1>4, <1>5

LEMMA CreateDomainSafe ==
    ASSUME DnsAssumption, Safe, NEW p \in Procs, CreateDomain(p) PROVE Safe'
<1> DEFINE o == op[p]
           q == [o EXCEPT !.pc = "get_again"]
<1>1. /\ UNCHANGED <<zone, nextId, stored, ops, faults>> /\ o.pc = "create_domain" /\ exists'
      /\ exists' \in BOOLEAN /\ ops' \in 0..MaxOps /\ faults' \in 0..MaxFaults
    BY Here DEF CreateDomain
<1>2. o \in Ops /\ Good(o, zone, nextId, exists, stored[p])  BY Here
<1>3. Going(o, zone, nextId) /\ o.kind = "create" /\ Applying(o)
    BY <1>1, <1>2, AtHand DEF Good, PlaceOK, Applying
<1>4. CASE exists
    <2>1. Go(p, q) /\ UNCHANGED exists  BY <1>1, <1>4, Here DEF CreateDomain
    <2> HIDE DEF o
    <2>2. /\ q \in Ops /\ q.pc = "get_again" /\ q.kind = o.kind /\ q.reqs = o.reqs /\ q.got = o.got
          /\ q.result = None
        BY <1>3 DEF Ops, PCs, Going
    <2> HIDE DEF q
    <2>3. PlaceOK(q)  BY <1>3, <2>2 DEF PlaceOK, Going, Applying, None
    <2>4. ListedOK(q, zone, nextId)  BY <1>3, <2>2 DEF ListedOK, Going
    <2>5. Reached(q, zone, exists, stored[p])  BY <2>2 DEF Reached, PastDelete, PastUpsert, None
    <2>6. Good(q, zone, nextId, exists, stored[p])  BY <2>3, <2>4, <2>5 DEF Good
    <2> QED  BY <1>1, <2>1, <2>2, <2>6, OnlyOp
<1>5. CASE ~exists
    <2>1. Disturb(p, StartDelete(o))  BY <1>5 DEF CreateDomain
    <2> HIDE DEF o
    <2>2. StartDelete(o) \in Ops /\ Good(StartDelete(o), zone, nextId, exists', stored[p])
        BY <1>3, Here, DeleteStarts
    <2>3. StillNamed(zone, nextId, zone, nextId)  BY Here DEF StillNamed, SameName
    <2>4. /\ ZoneOK(zone', nextId') /\ nextId' \in 1..MaxId + 1 /\ stored' \in [Procs -> Outputs]
          /\ StillNamed(zone, nextId, zone', nextId')
          /\ Good(StartDelete(o), zone', nextId', exists', stored'[p])
        BY <1>1, <2>2, <2>3, Here
    <2>5. ~exists' => zone' = <<>>  BY <1>1
    <2> QED  BY <1>1, <2>1, <2>2, <2>4, <2>5, Disturbs
<1> QED  BY <1>4, <1>5

LEMMA GetAfterConflictSafe ==
    ASSUME DnsAssumption, Safe, NEW p \in Procs, GetAfterConflict(p) PROVE Safe'
<1> DEFINE o == op[p]
           q == [o EXCEPT !.attempt = 0]
<1>1. /\ UNCHANGED <<exists, zone, nextId, stored, ops, faults>> /\ o.pc = "get_again"
      /\ ops' \in 0..MaxOps /\ faults' \in 0..MaxFaults
    BY Here DEF GetAfterConflict
<1>2. o \in Ops /\ Good(o, zone, nextId, exists, stored[p])  BY Here
<1>3. Going(o, zone, nextId) /\ Applying(o)
    BY <1>1, <1>2, AtHand DEF Good, PlaceOK, Applying
<1>4. CASE exists
    <2>1. Go(p, StartDelete(q))  BY <1>4 DEF GetAfterConflict
    <2> HIDE DEF o
    <2>2. 0 \in 0..Attempts - 1  BY DEF DnsAssumption
    <2>3. /\ q \in Ops /\ q.kind = o.kind /\ q.reqs = o.reqs /\ q.got = o.got /\ q.result = o.result
        BY <1>3, <2>2 DEF Ops, Going
    <2> HIDE DEF q
    <2>4. Going(q, zone, nextId) /\ Applying(q)  BY <1>3, <2>3 DEF Going, Applying
    <2>5. StartDelete(q) \in Ops /\ Good(StartDelete(q), zone, nextId, exists, stored[p])
        BY <2>4, Here, DeleteStarts
    <2> QED  BY <1>1, <2>1, <2>5, OnlyOp
<1>5. CASE ~exists
    <2>1. Go(p, Retry(o))  BY <1>5 DEF GetAfterConflict
    <2> HIDE DEF o
    <2>2. Retry(o) \in Ops /\ Good(Retry(o), zone, nextId, exists, stored[p])
        BY <1>1, <1>2, Here, Retries
    <2> QED  BY <1>1, <2>1, <2>2, OnlyOp
<1> QED  BY <1>4, <1>5

LEMMA ReadDomainSafe ==
    ASSUME DnsAssumption, Safe, NEW p \in Procs, ReadDomain(p) PROVE Safe'
<1> DEFINE o == op[p]
<1>1. /\ UNCHANGED <<exists, zone, nextId, stored, ops, faults>> /\ o.pc = "read_get"
      /\ ops' \in 0..MaxOps /\ faults' \in 0..MaxFaults
    BY Here DEF ReadDomain
<1>2. o \in Ops /\ Good(o, zone, nextId, exists, stored[p])  BY Here
<1>3. Going(o, zone, nextId) /\ o.kind \in {"create", "update", "read"} /\ (Applying(o) => Agreed(o))
    BY <1>1, <1>2, AtHand DEF Good, PlaceOK
<1>4. o.steady /\ Applying(o) => Met(o, zone)
    BY <1>1, <1>2 DEF Good, Reached, PastDelete, PastUpsert, Met
<1>5. CASE exists
    <2>1. Go(p, List(o, "output"))  BY <1>5 DEF ReadDomain
    <2> HIDE DEF o
    <2>2. List(o, "output") \in Ops /\ Good(List(o, "output"), zone, nextId, exists, stored[p])
        BY <1>3, <1>4, Here, Listing
    <2> QED  BY <1>1, <2>1, <2>2, OnlyOp
<1>6. CASE ~exists
    <2>1. Go(p, Return(o, "error"))  BY <1>6 DEF ReadDomain
    <2>2. Return(o, "error") \in Ops /\ Good(Return(o, "error"), zone, nextId, exists, stored[p])
        BY Fails
    <2> QED  BY <1>1, <2>1, <2>2, OnlyOp
<1> QED  BY <1>5, <1>6

LEMMA DeleteDomainSafe ==
    ASSUME DnsAssumption, Safe, NEW p \in Procs, DeleteDomain(p) PROVE Safe'
<1> DEFINE o == op[p]
<1>1. /\ UNCHANGED <<nextId, ops, faults>> /\ o.pc = "delete_domain" /\ exists' = FALSE /\ zone' = <<>>
      /\ ops' \in 0..MaxOps /\ faults' \in 0..MaxFaults
    BY Here DEF DeleteDomain
<1>2. o \in Ops /\ ReqsOK(o.reqs) /\ ~Applying(o)  BY <1>1, Here DEF Good, PlaceOK, Applying
<1>3. CASE exists
    <2>1. Disturb(p, Return(o, "ok")) /\ stored' = [stored EXCEPT ![p] = NoOutput]
        BY <1>3 DEF DeleteDomain
    <2>2. "ok" \in Results  BY DEF Results
    <2>3. Return(o, "ok") \in Ops /\ Good(Return(o, "ok"), zone', nextId', exists', stored'[p])
        BY <1>2, <2>2, Returned
    <2>4. stored' \in [Procs -> Outputs] /\ \A q \in Procs : q # p => stored'[q] = stored[q]
        <3>1. <<>> \in Seq(LiveRecs)  OBVIOUS
        <3>2. NoOutput \in Outputs  BY <3>1 DEF NoOutput, Outputs
        <3> QED  BY <2>1, <3>2, Here
    <2>5. DOMAIN <<>> = {} /\ <<>> \in Seq(LiveRecs)  OBVIOUS
    <2>6. ZoneOK(zone', nextId') /\ nextId' \in 1..MaxId + 1  BY <1>1, <2>5, Here DEF ZoneOK
    <2>7. StillNamed(zone, nextId, zone', nextId')  BY <1>1, <2>5, Here DEF StillNamed
    <2> QED  BY <1>1, <2>1, <2>3, <2>4, <2>6, <2>7, Disturbs
<1>4. CASE ~exists
    <2>1. Go(p, Return(o, "error")) /\ UNCHANGED <<exists, zone, nextId, stored>>
        BY <1>1, <1>4, Here DEF DeleteDomain
    <2>2. Return(o, "error") \in Ops /\ Good(Return(o, "error"), zone, nextId, exists, stored[p])
        BY Fails
    <2> QED  BY <1>1, <2>1, <2>2, OnlyOp
<1> QED  BY <1>3, <1>4

-----------------------------------------------------------------------------
(* Listing.                                                                 *)

LEMMA Itself == ASSUME NEW n, NEW z, ZoneOK(z, n), NEW i \in DOMAIN z PROVE Known(z[i], z, n)
BY DEF ZoneOK, Known, SameName

LEMMA ListPageSafe == ASSUME DnsAssumption, Safe, NEW p \in Procs, ListPage(p) PROVE Safe'
<1> DEFINE o    == op[p]
           last == Len(o.got) + PageSize >= Len(zone)
           end  == IF last THEN Len(zone) ELSE Len(o.got) + PageSize
           more == o.got \o SubSeq(zone, Len(o.got) + 1, end)
<1>1. /\ o.pc = "list"
      /\ Go(p, IF ~exists THEN Return(o, "error")
               ELSE IF last THEN Listed(o, more, stored[p]) ELSE [o EXCEPT !.got = more])
      /\ stored' = IF exists /\ last /\ o.then = "output"
                   THEN [stored EXCEPT ![p] = dnsOutput(more)] ELSE stored
      /\ UNCHANGED <<exists, zone, nextId, ops, faults>>
    BY DEF ListPage
<1>2. /\ ops' \in 0..MaxOps /\ faults' \in 0..MaxFaults /\ o \in Ops
      /\ Good(o, zone, nextId, exists, stored[p]) /\ zone \in Seq(LiveRecs)
      /\ stored \in [Procs -> Outputs] /\ exists \in BOOLEAN
    BY <1>1, Here
<1>3. Going(o, zone, nextId)  BY <1>1, <1>2, AtHand
<1>4. Len(zone) \in Nat /\ Len(o.got) \in Nat /\ PageSize \in Nat \ {0} /\ o.got \in Seq(LiveRecs)
    BY <1>2 DEF Ops, DnsAssumption
<1>5. end \in Nat /\ end <= Len(zone)  BY <1>4
<1>6. /\ more \in Seq(LiveRecs) /\ \A i \in DOMAIN more : Known(more[i], zone, nextId)
      /\ o.steady => \A i \in DOMAIN more : more[i] = zone[i]
      /\ Len(o.got) <= end => Len(more) = end
    <2>1. more = NextPage(o.got, zone, end)  BY DEF NextPage
    <2> HIDE DEF o, end, more
    <2>2. /\ more \in Seq(LiveRecs)
          /\ \A i \in DOMAIN more : (i \in DOMAIN o.got /\ more[i] = o.got[i])
                                   \/ (i \in DOMAIN zone /\ more[i] = zone[i])
          /\ Len(o.got) <= end => Len(more) = end
        <3>1. PICK g \in Seq(LiveRecs), z \in Seq(LiveRecs), e \in Nat :
                 g = o.got /\ z = zone /\ e = end
            BY <1>2, <1>4, <1>5
        <3>2. e <= Len(z)  BY <1>5, <3>1
        <3>3. /\ NextPage(g, z, e) \in Seq(LiveRecs)
              /\ \A i \in DOMAIN NextPage(g, z, e) :
                    \/ i \in DOMAIN g /\ NextPage(g, z, e)[i] = g[i]
                    \/ i \in DOMAIN z /\ NextPage(g, z, e)[i] = z[i]
              /\ Len(g) <= e => Len(NextPage(g, z, e)) = e
            BY <3>2, Page
        <3> QED  BY <2>1, <3>1, <3>3
    <2>3. \A i \in DOMAIN o.got : Known(o.got[i], zone, nextId)  BY <1>2 DEF Good, ListedOK
    <2>4. o.steady => \A i \in DOMAIN o.got : o.got[i] = zone[i]  BY <1>1, <1>2 DEF Good, Reached
    <2>5. \A i \in DOMAIN zone : Known(zone[i], zone, nextId)  BY Here, Itself
    <2> QED  BY <2>2, <2>3, <2>4, <2>5
<1>7. CASE ~exists
    <2>1. Go(p, Return(o, "error")) /\ UNCHANGED stored  BY <1>1, <1>7
    <2>2. Return(o, "error") \in Ops /\ Good(Return(o, "error"), zone, nextId, exists, stored[p])
        BY Fails
    <2> QED  BY <1>1, <1>2, <2>1, <2>2, OnlyOp
<1>8. CASE exists /\ ~last
    <2> DEFINE q == [o EXCEPT !.got = more]
    <2>1. Go(p, q) /\ UNCHANGED stored  BY <1>1, <1>8
    <2>2. o.steady => Len(more) <= Len(zone)
        <3>1. Len(o.got) <= end  BY <1>4, <1>8
        <3> QED  BY <1>5, <1>6, <3>1
    <2> HIDE DEF o, last, end, more
    <2>3. /\ q \in Ops /\ q.pc = o.pc /\ q.kind = o.kind /\ q.reqs = o.reqs /\ q.absent = o.absent
          /\ q.got = more /\ q.then = o.then /\ q.todo = o.todo /\ q.steady = o.steady
          /\ q.result = o.result
        BY <1>2, <1>6 DEF Ops
    <2> HIDE DEF q
    <2>4. PlaceOK(q)  BY <1>2, <2>3 DEF Good, PlaceOK, Applying, Agreed
    <2>5. ListedOK(q, zone, nextId)  BY <1>1, <1>6, <2>3 DEF ListedOK, o
    <2>6. Reached(q, zone, exists, stored[p])
        <3>1. q.steady => /\ q.then # "conflict" /\ Len(q.got) <= Len(zone)
                          /\ \A i \in DOMAIN q.got : q.got[i] = zone[i]
            BY <1>1, <1>2, <1>6, <2>2, <2>3 DEF Good, Reached, o
        <3>2. q.result = None /\ q.pc = "list"  BY <1>1, <1>3, <2>3 DEF Going, o
        <3>3. q.steady => (PastDelete(q) => Gone(q, zone))
                          /\ (PastUpsert(q) => \A i \in DOMAIN q.reqs : UpToDate(q.reqs[i], zone))
            BY <1>2, <2>3 DEF Good, Reached, PastDelete, PastUpsert, Applying, Gone
        <3> QED  BY <3>1, <3>2, <3>3 DEF Reached, None
    <2>7. Good(q, zone, nextId, exists, stored[p])  BY <2>4, <2>5, <2>6 DEF Good
    <2> QED  BY <1>1, <1>2, <2>1, <2>3, <2>7, OnlyOp
<1>9. CASE exists /\ last
    <2> DEFINE q == Listed(o, more, stored[p])
    <2>1. Go(p, q) /\ exists = TRUE  BY <1>1, <1>2, <1>9
    <2>2. o.steady => more = zone
        <3> SUFFICES ASSUME o.steady PROVE more = zone  OBVIOUS
        <3>1. end = Len(zone) /\ Len(o.got) <= Len(zone)  BY <1>1, <1>2, <1>9 DEF Good, Reached
        <3>2. Len(more) = Len(zone)  BY <1>6, <3>1
        <3>3. \A i \in 1..Len(more) : more[i] = zone[i]  BY <1>6, SeqIsList
        <3> HIDE DEF more
        <3> QED  BY <1>2, <1>6, <3>2, <3>3, SeqEqual
    <2>3. /\ stored' \in [Procs -> Outputs] /\ \A r \in Procs : r # p => stored'[r] = stored[r]
          /\ o.then = "output" => stored'[p].records = more
        <3>1. dnsOutput(more) \in Outputs /\ dnsOutput(more).records = more
            BY <1>6 DEF dnsOutput, Outputs
        <3> HIDE DEF more
        <3> QED  BY <1>1, <1>2, <1>9, <3>1
    <2> HIDE DEF last, end, more
    <2>4. Good(o, zone, nextId, TRUE, stored[p])  BY <1>2, <2>1
    <2> DEFINE s == stored'[p]
    <2> HIDE DEF s
    <2>5. o.then = "output" => s.records = more  BY <2>3 DEF s
    <2> HIDE DEF o
    <2>6. q \in Ops /\ Good(q, zone, nextId, TRUE, s)
        BY <1>1, <1>2, <1>3, <1>6, <2>2, <2>4, <2>5, ListingEnds DEF o
    <2> HIDE DEF q
    <2>7. Good(q, zone, nextId, exists, stored'[p])  BY <2>1, <2>6 DEF s
    <2> QED  BY <1>1, <1>2, <2>1, <2>3, <2>6, <2>7, Stays
<1> QED  BY <1>2, <1>7, <1>8, <1>9

-----------------------------------------------------------------------------
(* Writing records.                                                         *)

LEMMA AnswerSafe ==
    ASSUME DnsAssumption, Safe, NEW p \in Procs, NEW lost \in BOOLEAN, NEW next \in Ops,
           Answer(p, lost, next), exists,
           Good(next, zone', nextId', exists, stored[p]),
           ZoneOK(zone', nextId'), nextId' \in 1..MaxId + 1, StillNamed(zone, nextId, zone', nextId')
    PROVE  Safe'
<1>1. /\ UNCHANGED <<exists, stored, ops>> /\ ops' \in 0..MaxOps /\ stored' \in [Procs -> Outputs]
      /\ exists' \in BOOLEAN /\ (~exists' => zone' = <<>>)
    BY Here DEF Answer
<1>2. faults' \in 0..MaxFaults
    <2>1. faults \in 0..MaxFaults /\ MaxFaults \in Nat  BY Here DEF DnsAssumption
    <2>2. faults' = faults \/ (faults < MaxFaults /\ faults' = faults + 1)  BY DEF Answer
    <2> QED  BY <2>1, <2>2
<1>3. CASE lost
    <2>1. Disturb(p, Return(op[p], "error"))  BY <1>3 DEF Answer
    <2>2. /\ Return(op[p], "error") \in Ops
          /\ Good(Return(op[p], "error"), zone', nextId', exists', stored'[p])
        BY Fails
    <2> QED  BY <1>1, <1>2, <2>1, <2>2, Disturbs
<1>4. CASE ~lost
    <2>1. Disturb(p, next)  BY <1>4 DEF Answer
    <2>2. Good(next, zone', nextId', exists', stored'[p])  BY <1>1
    <2> QED  BY <1>1, <1>2, <2>1, <2>2, Disturbs
<1> QED  BY <1>3, <1>4

(* The operation after a record that was to be absent is gone.              *)
LEMMA DeleteGoesOn ==
    ASSUME NEW n \in Nat, NEW z, ZoneOK(z, n), NEW e, NEW s, NEW o \in Ops, Good(o, z, n, e, s),
           o.pc = "delete", NEW i \in DOMAIN z, z[i].id = Current(o.todo).id,
           NEW q, q = [o EXCEPT !.todo = Rest(@)]
    PROVE  Deleting(q) \in Ops /\ Good(Deleting(q), RemoveAt(z, i), n, e, s)
<1> DEFINE y == RemoveAt(z, i)
           m == Min(DOMAIN o.todo)
<1>1. /\ o.todo \in Lists(Requests \cup LiveRecs) /\ DOMAIN o.todo # {} /\ Applying(o) /\ Agreed(o)
      /\ ReqsOK(o.reqs) /\ o.result = None /\ ListedOK(o, z, n) /\ PlaceOK(o)
    BY DEF Good, PlaceOK, Ops
<1>2. /\ m \in DOMAIN o.todo /\ Current(o.todo) = o.todo[m]
      /\ Rest(o.todo) \in Lists(Requests \cup LiveRecs)
      /\ DOMAIN Rest(o.todo) = DOMAIN o.todo \ {m}
      /\ \A k \in DOMAIN Rest(o.todo) : Rest(o.todo)[k] = o.todo[k]
    BY <1>1, TodoLists
<1> HIDE DEF m
<1>3. /\ q \in Ops /\ q.todo = Rest(o.todo) /\ q.reqs = o.reqs /\ q.absent = o.absent /\ q.kind = o.kind
      /\ q.steady = o.steady /\ q.got = o.got /\ q.result = o.result
    BY <1>2 DEF Ops
<1>4. ListedOK(o, y, n)
    <2>1. StillNamed(z, n, y, n)  BY NamedRemoved
    <2> QED  BY <1>1, <2>1, ListedStays
<1>5. Going(q, y, n) /\ Applying(q) /\ Agreed(q)
    BY <1>1, <1>3, <1>4 DEF Going, Applying, Agreed, ListedOK
<1>6. \A k \in DOMAIN q.todo : /\ q.todo[k] \in LiveRecs /\ Known(q.todo[k], y, n)
                              /\ \E a \in q.absent : dnsAbsentRecordMatches(a, q.todo[k])
    <2>1. \A k \in DOMAIN q.todo : k \in DOMAIN o.todo /\ q.todo[k] = o.todo[k]  BY <1>2, <1>3
    <2>2. \A k \in DOMAIN o.todo : /\ o.todo[k] \in LiveRecs
                                  /\ \E a \in o.absent : dnsAbsentRecordMatches(a, o.todo[k])
        BY <1>1 DEF PlaceOK
    <2>3. \A k \in DOMAIN o.todo : Known(o.todo[k], y, n)  BY <1>4 DEF ListedOK
    <2> QED  BY <1>3, <2>1, <2>2, <2>3
<1>7. q.steady => \A a \in q.absent, j \in DOMAIN y :
          dnsAbsentRecordMatches(a, y[j]) => \E k \in DOMAIN q.todo : q.todo[k].id = y[j].id
    <2> SUFFICES ASSUME q.steady, NEW a \in q.absent, NEW j \in DOMAIN y, dnsAbsentRecordMatches(a, y[j])
                 PROVE  \E k \in DOMAIN q.todo : q.todo[k].id = y[j].id
        OBVIOUS
    <2>1. z \in Seq(LiveRecs)  BY DEF ZoneOK
    <2>2. PICK x \in DOMAIN z \ {i} : y[j] = z[x]  BY <2>1, RemovedOthers
    <2>3. PICK k \in DOMAIN o.todo : o.todo[k].id = z[x].id
        BY <1>3, <2>2 DEF Good, Reached
    <2>4. z[x].id # z[i].id  BY <2>2 DEF ZoneOK
    <2>5. k # m  BY <1>2, <2>3, <2>4
    <2> QED  BY <1>2, <1>3, <2>2, <2>3, <2>5
<1>8. y \in Seq(LiveRecs)
    <2>1. ZoneOK(y, n)  BY ZoneRemoved
    <2> QED  BY <2>1 DEF ZoneOK
<1> HIDE DEF y
<1>9. Deleting(q) \in Ops /\ Good(Deleting(q), y, n, e, s)
    BY <1>5, <1>6, <1>7, <1>8, Deletes
<1> QED  BY <1>9 DEF y

LEMMA DeleteRecordSafe == ASSUME DnsAssumption, Safe, NEW p \in Procs, DeleteRecord(p) PROVE Safe'
<1> DEFINE o == op[p]
           at == WithId(Current(o.todo).id)
           q == [o EXCEPT !.todo = Rest(@)]
<1>1. CASE at = {}
    <2>1. Refused(p)  BY <1>1 DEF DeleteRecord
    <2> QED  BY <2>1, RefusedSafe
<1>2. CASE at # {}
    <2>1. PICK lost \in BOOLEAN, i \in at :
             zone' = RemoveAt(zone, i) /\ Answer(p, lost, Deleting(q)) /\ nextId' = nextId
        BY <1>2 DEF DeleteRecord
    <2>2. i \in DOMAIN zone /\ zone[i].id = Current(o.todo).id /\ o.pc = "delete"
        BY DEF WithId, DeleteRecord
    <2>3. o \in Ops /\ Good(o, zone, nextId, exists, stored[p]) /\ ZoneOK(zone, nextId) /\ nextId \in Nat
        BY Here
    <2>4. exists
        <3>1. DOMAIN <<>> = {}  OBVIOUS
        <3> QED  BY <2>2, <3>1, Here
    <2> HIDE DEF o, at
    <2>5. /\ Deleting(q) \in Ops
          /\ Good(Deleting(q), RemoveAt(zone, i), nextId, exists, stored[p])
        BY <2>2, <2>3, DeleteGoesOn
    <2> HIDE DEF q
    <2>6. StillNamed(zone, nextId, RemoveAt(zone, i), nextId)  BY <2>2, <2>3, NamedRemoved
    <2>7. ZoneOK(RemoveAt(zone, i), nextId)  BY <2>2, <2>3, ZoneRemoved
    <2>8. /\ Good(Deleting(q), zone', nextId', exists, stored[p])
          /\ ZoneOK(zone', nextId') /\ nextId' \in 1..MaxId + 1
          /\ StillNamed(zone, nextId, zone', nextId')
        BY <2>1, <2>5, <2>6, <2>7, Here
    <2> QED  BY <2>1, <2>4, <2>5, <2>8, AnswerSafe
<1> QED  BY <1>1, <1>2

(* What an operation that writes its records has at hand.                   *)
HeadTodo(o, m) ==
    /\ Current(o.todo) = o.todo[m] /\ m \in DOMAIN o.reqs /\ o.todo[m] = o.reqs[m]
    /\ o.todo[m] \in Values
    /\ Rest(o.todo) \in Lists(Requests \cup LiveRecs)
    /\ DOMAIN Rest(o.todo) = DOMAIN o.todo \ {m}
    /\ \A k \in DOMAIN Rest(o.todo) : Rest(o.todo)[k] = o.todo[k]

LEMMA UpsertAtHand ==
    ASSUME NEW n \in Nat, NEW z, NEW e, NEW s, NEW o \in Ops, Good(o, z, n, e, s), o.pc = "upsert"
    PROVE  \E m \in DOMAIN o.todo : HeadTodo(o, m)
<1>1. /\ o.todo \in Lists(Requests \cup LiveRecs) /\ DOMAIN o.todo # {}
      /\ PartOf(o.todo, o.reqs) /\ o.reqs \in Lists(Requests)
    BY DEF Good, PlaceOK, Ops
<1> DEFINE m == Min(DOMAIN o.todo)
<1>2. /\ m \in DOMAIN o.todo /\ Current(o.todo) = o.todo[m]
      /\ Rest(o.todo) \in Lists(Requests \cup LiveRecs)
      /\ DOMAIN Rest(o.todo) = DOMAIN o.todo \ {m}
      /\ \A k \in DOMAIN Rest(o.todo) : Rest(o.todo)[k] = o.todo[k]
    BY <1>1, TodoLists
<1> HIDE DEF m
<1>3. m \in DOMAIN o.reqs /\ o.todo[m] = o.reqs[m]  BY <1>1, <1>2 DEF PartOf
<1>4. o.todo[m] \in Requests
    <2>1. \A i \in DOMAIN o.reqs : o.reqs[i] \in Requests  BY <1>1, IsList
    <2> QED  BY <1>3, <2>1
<1> QED  BY <1>2, <1>3, <1>4 DEF Values, HeadTodo

(* What a write of the record m of o.todo has done to the zone z.           *)
Wrote(o, m, rest, z, n, y, l) ==
    /\ ZoneOK(y, l) /\ StillNamed(z, n, y, l)
    /\ \A j \in DOMAIN y : \/ j \in DOMAIN z /\ y[j] = z[j]
                          \/ \E id : y[j] = dnsDomainRecordFromRequest(id, o.reqs[m])
    /\ o.steady =>
          /\ \A x \in DOMAIN o.reqs : x = m \/ UpToDate(o.reqs[x], z) => UpToDate(o.reqs[x], y)
          /\ StillThere(o.got, rest, y)

(* The operation after one of its records has been written.                 *)
LEMMA UpsertGoesOn ==
    ASSUME DnsAssumption, NEW n \in Nat, NEW z, ZoneOK(z, n), NEW e, NEW s, NEW o \in Ops,
           Good(o, z, n, e, s), o.pc = "upsert",
           NEW m \in DOMAIN o.todo,
           m \in DOMAIN o.reqs, o.todo[m] = o.reqs[m],
           Rest(o.todo) \in Lists(Requests \cup LiveRecs),
           DOMAIN Rest(o.todo) = DOMAIN o.todo \ {m},
           \A k \in DOMAIN Rest(o.todo) : Rest(o.todo)[k] = o.todo[k],
           NEW l \in Nat, NEW y, Wrote(o, m, Rest(o.todo), z, n, y, l)
    PROVE  /\ Upserting(o, Rest(o.todo), o.got) \in Ops
           /\ Good(Upserting(o, Rest(o.todo), o.got), y, l, e, s)
<1>1. /\ Applying(o) /\ Agreed(o) /\ ReqsOK(o.reqs) /\ o.result = None /\ ListedOK(o, z, n) /\ PlaceOK(o)
      /\ PartOf(o.todo, o.reqs) /\ o.got \in Seq(LiveRecs) /\ y \in Seq(LiveRecs)
    BY DEF Good, PlaceOK, Ops, Applying, ZoneOK, Wrote
<1>2. ListedOK(o, y, l)  BY <1>1, ListedStays DEF Wrote
<1>3. Going(o, y, l) /\ \A i \in DOMAIN o.got : Known(o.got[i], y, l)
    BY <1>1, <1>2 DEF Going, ListedOK
<1>4. PartOf(Rest(o.todo), o.reqs)  BY <1>1 DEF PartOf
<1>5. o.steady => Gone(o, y)
    <2> SUFFICES ASSUME o.steady, NEW a \in o.absent, NEW j \in DOMAIN y PROVE ~dnsAbsentRecordMatches(a, y[j])
        BY DEF Gone
    <2>0. (j \in DOMAIN z /\ y[j] = z[j]) \/ \E id : y[j] = dnsDomainRecordFromRequest(id, o.reqs[m])
        BY DEF Wrote
    <2>1. CASE j \in DOMAIN z /\ y[j] = z[j]
        <3>1. Gone(o, z)  BY <1>1 DEF Good, Reached, PastDelete
        <3> QED  BY <2>1, <3>1 DEF Gone
    <2>2. CASE \E id : y[j] = dnsDomainRecordFromRequest(id, o.reqs[m])
        <3>1. PICK id : y[j] = dnsDomainRecordFromRequest(id, o.reqs[m])  BY <2>2
        <3>2. dnsAbsentRecordMatches(a, y[j]) <=> dnsAbsentRecordMatches(a, o.reqs[m])
            BY <3>1, Written
        <3> QED  BY <1>1, <3>2 DEF Agreed, validateDNSAbsentRecordsDoNotConflict
    <2> QED  BY <2>0, <2>1, <2>2
<1>6. o.steady => \A i \in DOMAIN o.reqs : i \in DOMAIN Rest(o.todo) \/ UpToDate(o.reqs[i], y)
    <2> SUFFICES ASSUME o.steady, NEW i \in DOMAIN o.reqs
                 PROVE  i \in DOMAIN Rest(o.todo) \/ UpToDate(o.reqs[i], y)
        OBVIOUS
    <2>1. i \in DOMAIN o.todo \/ UpToDate(o.reqs[i], z)  BY DEF Good, Reached
    <2> QED  BY <2>1 DEF Wrote
<1>7. o.steady => StillThere(o.got, Rest(o.todo), y)  BY DEF Wrote
<1> QED  BY <1>1, <1>3, <1>4, <1>5, <1>6, <1>7, Upserts

(* The record that is about to be rewritten has the request's type and name.*)
LEMMA CandidateName ==
    ASSUME NEW n, NEW z, NEW e, NEW s, NEW o \in Ops, Good(o, z, n, e, s),
           NEW req, SameKey(req, o.got) # {},
           NEW i \in DOMAIN z, z[i].id = Candidate(req, o.got).id
    PROVE  SameName(req, z[i])
<1>1. o.got \in Seq(LiveRecs)  BY DEF Ops
<1>2. PICK c \in DOMAIN o.got : /\ UpsertKey(o.got[c]) = UpsertKey(req)
                               /\ Candidate(req, o.got) = o.got[c]
    BY <1>1, FirstKey
<1>3. SameName(o.got[c], req)  BY <1>2, KeyNames
<1>4. SameName(z[i], o.got[c])  BY <1>2 DEF Good, ListedOK, Known
<1> QED  BY <1>3, <1>4 DEF SameName

LEMMA EditWrites ==
    ASSUME NEW n \in Nat, NEW z, ZoneOK(z, n), NEW e, NEW s, NEW o \in Ops,
           Good(o, z, n, e, s), o.pc = "upsert",
           NEW m \in DOMAIN o.todo, m \in DOMAIN o.reqs, o.todo[m] = o.reqs[m], o.todo[m] \in Values,
           NEW rest, DOMAIN rest = DOMAIN o.todo \ {m}, \A k \in DOMAIN rest : rest[k] = o.todo[k],
           SameKey(o.todo[m], o.got) # {},
           NEW i \in DOMAIN z, z[i].id = Candidate(o.todo[m], o.got).id
    PROVE  Wrote(o, m, rest, z, n, Rewritten(z, i, o.todo[m]), n)
<1> DEFINE y == Rewritten(z, i, o.todo[m])
<1>1. o.got \in Seq(LiveRecs) /\ PartOf(o.todo, o.reqs) /\ ReqsOK(o.reqs)
    BY DEF Ops, Good, PlaceOK
<1>2. SameName(o.todo[m], z[i])  BY CandidateName
<1>3. /\ ZoneOK(y, n) /\ DOMAIN y = DOMAIN z /\ y[i] = dnsDomainRecordFromRequest(z[i].id, o.todo[m])
      /\ \A j \in DOMAIN z : j # i => y[j] = z[j]
    BY ZoneEdited
<1> HIDE DEF y
<1>4. StillNamed(z, n, y, n)  BY <1>2, NamedEdited DEF y
<1>5. \A j \in DOMAIN y : (j \in DOMAIN z /\ y[j] = z[j])
                          \/ \E id : y[j] = dnsDomainRecordFromRequest(id, o.reqs[m])
    BY <1>3
<1>6. ASSUME o.steady
      PROVE  /\ \A x \in DOMAIN o.reqs : x = m \/ UpToDate(o.reqs[x], z) => UpToDate(o.reqs[x], y)
             /\ StillThere(o.got, rest, y)
    <2>1. StillThere(o.got, o.todo, z)  BY <1>6 DEF Good, Reached
    <2>2. /\ \A j \in DOMAIN z : UpsertKey(y[j]) = UpsertKey(z[j])
          /\ \A x \in DOMAIN o.todo, j \in DOMAIN z :
                x # m /\ UpsertKey(z[j]) = UpsertKey(o.todo[x]) => y[j] = z[j]
          /\ \A x \in DOMAIN o.reqs : x = m \/ UpToDate(o.reqs[x], z) => UpToDate(o.reqs[x], y)
        BY <1>1, <2>1, EditReached DEF y
    <2>3. Len(y) = Len(z) /\ DOMAIN o.got \subseteq DOMAIN z
        <3>1. /\ z \in Seq(LiveRecs) /\ y \in Seq(LiveRecs) /\ DOMAIN z = 1..Len(z) /\ DOMAIN y = 1..Len(y)
              /\ Len(z) \in Nat /\ Len(y) \in Nat /\ DOMAIN o.got = 1..Len(o.got) /\ Len(o.got) \in Nat
            BY <1>1, <1>3, SeqIsList DEF ZoneOK
        <3> QED  BY <1>3, <2>1, <3>1 DEF StillThere
    <2>4. \A j \in DOMAIN z : y[j].id = z[j].id  BY <1>3, Written
    <2>5. \A j \in DOMAIN o.got : y[j].id = o.got[j].id /\ UpsertKey(y[j]) = UpsertKey(o.got[j])
        BY <1>3, <2>1, <2>2, <2>3, <2>4 DEF StillThere
    <2>6. ASSUME NEW k \in DOMAIN rest, NEW j \in DOMAIN y, UpsertKey(y[j]) = UpsertKey(rest[k])
          PROVE  j \in DOMAIN o.got /\ y[j] = o.got[j]
        <3>1. k \in DOMAIN o.todo /\ k # m /\ rest[k] = o.todo[k] /\ j \in DOMAIN z  BY <1>3
        <3>2. y[j] = z[j]  BY <2>2, <2>6, <3>1
        <3> QED  BY <2>1, <2>6, <3>1, <3>2 DEF StillThere
    <2>7. Len(o.got) <= Len(y)  BY <2>1, <2>3 DEF StillThere
    <2> QED  BY <2>2, <2>5, <2>6, <2>7 DEF StillThere
<1> QED  BY <1>3, <1>4, <1>5, <1>6 DEF Wrote, y

LEMMA EditGoesOn ==
    ASSUME DnsAssumption, NEW n \in Nat, NEW z, ZoneOK(z, n), NEW e, NEW s, NEW o \in Ops,
           Good(o, z, n, e, s), o.pc = "upsert", SameKey(Current(o.todo), o.got) # {},
           NEW i \in DOMAIN z, z[i].id = Candidate(Current(o.todo), o.got).id
    PROVE  /\ Upserting(o, Rest(o.todo), o.got) \in Ops
           /\ Good(Upserting(o, Rest(o.todo), o.got), Rewritten(z, i, Current(o.todo)), n, e, s)
           /\ ZoneOK(Rewritten(z, i, Current(o.todo)), n)
           /\ StillNamed(z, n, Rewritten(z, i, Current(o.todo)), n)
<1>1. PICK m \in DOMAIN o.todo : HeadTodo(o, m)  BY UpsertAtHand
<1>2. Wrote(o, m, Rest(o.todo), z, n, Rewritten(z, i, o.todo[m]), n)
    BY <1>1, EditWrites DEF HeadTodo
<1>3. /\ Upserting(o, Rest(o.todo), o.got) \in Ops
      /\ Good(Upserting(o, Rest(o.todo), o.got), Rewritten(z, i, o.todo[m]), n, e, s)
    BY <1>1, <1>2, UpsertGoesOn DEF HeadTodo
<1> QED  BY <1>1, <1>2, <1>3 DEF Wrote, HeadTodo

LEMMA EditRecordSafe == ASSUME DnsAssumption, Safe, NEW p \in Procs, EditRecord(p) PROVE Safe'
<1> DEFINE o == op[p]
           req == Current(o.todo)
           at == WithId(Candidate(req, o.got).id)
           next == Upserting(o, Rest(o.todo), o.got)
<1>1. CASE at = {} \/ Clash(req, DOMAIN zone \ at)
    <2>1. Refused(p)  BY <1>1 DEF EditRecord
    <2> QED  BY <2>1, RefusedSafe
<1>2. CASE ~(at = {} \/ Clash(req, DOMAIN zone \ at))
    <2>1. PICK lost \in BOOLEAN, i \in at :
             /\ zone' = [zone EXCEPT ![i] = dnsDomainRecordFromRequest(zone[i].id, req)]
             /\ Answer(p, lost, next) /\ nextId' = nextId
        BY <1>2 DEF EditRecord
    <2>2. /\ i \in DOMAIN zone /\ zone[i].id = Candidate(req, o.got).id /\ o.pc = "upsert"
          /\ SameKey(req, o.got) # {}
        BY DEF WithId, EditRecord
    <2>3. o \in Ops /\ Good(o, zone, nextId, exists, stored[p]) /\ ZoneOK(zone, nextId) /\ nextId \in Nat
        BY Here
    <2>4. exists
        <3>1. DOMAIN <<>> = {}  OBVIOUS
        <3> QED  BY <2>2, <3>1, Here
    <2> HIDE DEF o, at
    <2>5. PICK y : y = Rewritten(zone, i, req)  OBVIOUS
    <2>6. /\ next \in Ops /\ Good(next, y, nextId, exists, stored[p])
          /\ ZoneOK(y, nextId) /\ StillNamed(zone, nextId, y, nextId)
        BY <2>2, <2>3, <2>5, EditGoesOn
    <2> HIDE DEF next
    <2>7. /\ Good(next, zone', nextId', exists, stored[p])
          /\ ZoneOK(zone', nextId') /\ nextId' \in 1..MaxId + 1
          /\ StillNamed(zone, nextId, zone', nextId')
        BY <2>1, <2>5, <2>6, Here DEF Rewritten
    <2> QED  BY <2>1, <2>4, <2>6, <2>7, AnswerSafe
<1> QED  BY <1>1, <1>2

LEMMA AddWrites ==
    ASSUME NEW n \in Nat, NEW z, ZoneOK(z, n), NEW e, NEW s, NEW o \in Ops,
           Good(o, z, n, e, s), o.pc = "upsert",
           NEW m \in DOMAIN o.todo, m \in DOMAIN o.reqs, o.todo[m] = o.reqs[m], o.todo[m] \in Values,
           NEW rest, DOMAIN rest = DOMAIN o.todo \ {m}, \A k \in DOMAIN rest : rest[k] = o.todo[k],
           SameKey(o.todo[m], z) = {}, NEW l, l = n + 1
    PROVE  Wrote(o, m, rest, z, n, Added(z, n, o.todo[m]), l)
<1> DEFINE y == Added(z, n, o.todo[m])
<1>1. o.got \in Seq(LiveRecs) /\ PartOf(o.todo, o.reqs) /\ ReqsOK(o.reqs) /\ z \in Seq(LiveRecs)
    BY DEF Ops, Good, PlaceOK, ZoneOK
<1>2. /\ ZoneOK(y, l) /\ Len(y) = Len(z) + 1 /\ Len(z) \in Nat
      /\ DOMAIN z = 1..Len(z) /\ DOMAIN y = 1..(Len(z) + 1)
      /\ y[Len(z) + 1] = dnsDomainRecordFromRequest(n, o.todo[m])
      /\ \A j \in DOMAIN z : y[j] = z[j]
    BY ZoneAdded
<1>3. StillNamed(z, n, y, l)  BY NamedAdded
<1>4. /\ \A x \in DOMAIN o.reqs, j \in DOMAIN y :
            x # m /\ UpsertKey(y[j]) = UpsertKey(o.reqs[x]) => j \in DOMAIN z /\ y[j] = z[j]
      /\ \A x \in DOMAIN o.reqs : x = m \/ UpToDate(o.reqs[x], z) => UpToDate(o.reqs[x], y)
    BY <1>1, AddReached
<1> HIDE DEF y
<1>5. ASSUME NEW j \in DOMAIN y
      PROVE  \/ j \in DOMAIN z /\ y[j] = z[j]
             \/ \E id : y[j] = dnsDomainRecordFromRequest(id, o.reqs[m])
    <2>1. j \in DOMAIN z \/ j = Len(z) + 1  BY <1>2
    <2> QED  BY <1>2, <2>1
<1>6. ASSUME o.steady PROVE StillThere(o.got, rest, y)
    <2>1. StillThere(o.got, o.todo, z)  BY <1>6 DEF Good, Reached
    <2>2. Len(o.got) \in Nat /\ DOMAIN o.got = 1..Len(o.got)  BY <1>1, SeqIsList
    <2>3. Len(o.got) <= Len(z)  BY <2>1 DEF StillThere
    <2>4. Len(o.got) <= Len(y) /\ DOMAIN o.got \subseteq DOMAIN z  BY <1>2, <2>2, <2>3
    <2>5. \A j \in DOMAIN o.got : y[j].id = o.got[j].id /\ UpsertKey(y[j]) = UpsertKey(o.got[j])
        BY <1>2, <2>1, <2>4 DEF StillThere
    <2>6. ASSUME NEW k \in DOMAIN rest, NEW j \in DOMAIN y, UpsertKey(y[j]) = UpsertKey(rest[k])
          PROVE  j \in DOMAIN o.got /\ y[j] = o.got[j]
        <3>1. k \in DOMAIN o.todo /\ k # m /\ rest[k] = o.todo[k] /\ k \in DOMAIN o.reqs /\ o.todo[k] = o.reqs[k]
            BY <1>1 DEF PartOf
        <3>2. j \in DOMAIN z /\ y[j] = z[j]  BY <1>4, <2>6, <3>1
        <3> QED  BY <2>1, <2>6, <3>1, <3>2 DEF StillThere
    <2> QED  BY <2>4, <2>5, <2>6 DEF StillThere
<1> QED  BY <1>2, <1>3, <1>4, <1>5, <1>6 DEF Wrote, y

LEMMA AddGoesOn ==
    ASSUME DnsAssumption, NEW n \in Nat, NEW z, ZoneOK(z, n), NEW e, NEW s, NEW o \in Ops,
           Good(o, z, n, e, s), o.pc = "upsert", SameKey(Current(o.todo), z) = {},
           NEW l \in Nat, l = n + 1
    PROVE  /\ Upserting(o, Rest(o.todo), o.got) \in Ops
           /\ Good(Upserting(o, Rest(o.todo), o.got), Added(z, n, Current(o.todo)), l, e, s)
           /\ ZoneOK(Added(z, n, Current(o.todo)), l)
           /\ StillNamed(z, n, Added(z, n, Current(o.todo)), l)
<1>1. PICK m \in DOMAIN o.todo : HeadTodo(o, m)  BY UpsertAtHand
<1>2. Wrote(o, m, Rest(o.todo), z, n, Added(z, n, o.todo[m]), l)
    BY <1>1, AddWrites DEF HeadTodo
<1>3. /\ Upserting(o, Rest(o.todo), o.got) \in Ops
      /\ Good(Upserting(o, Rest(o.todo), o.got), Added(z, n, o.todo[m]), l, e, s)
    BY <1>1, <1>2, UpsertGoesOn DEF HeadTodo
<1> QED  BY <1>1, <1>2, <1>3 DEF Wrote, HeadTodo

(* The service knows the record to be created, which the listing did not    *)
(* have: somebody else has written it since.                                *)
LEMMA Conflicts ==
    ASSUME NEW n \in Nat, NEW z, ZoneOK(z, n), NEW e, NEW s, NEW o \in Ops,
           Good(o, z, n, e, s), o.pc = "upsert", SameKey(Current(o.todo), o.got) = {},
           SameKey(Current(o.todo), z) # {}
    PROVE  List(o, "conflict") \in Ops /\ Good(List(o, "conflict"), z, n, e, s)
<1> DEFINE q == List(o, "conflict")
<1>1. ~o.steady
    <2> SUFFICES ASSUME o.steady PROVE FALSE  OBVIOUS
    <2>0. PICK m \in DOMAIN o.todo : HeadTodo(o, m)  BY UpsertAtHand
    <2>1. Current(o.todo) = o.todo[m]  BY <2>0 DEF HeadTodo
    <2>2. /\ StillThere(o.got, o.todo, z) /\ z \in Seq(LiveRecs) /\ o.got \in Seq(LiveRecs)
        BY DEF Good, Reached, Ops, ZoneOK
    <2>3. SameKey(o.todo[m], z) = SameKey(o.todo[m], o.got)  BY <2>2, SameCandidate
    <2> QED  BY <2>1, <2>3
<1>2. <<>> \in Seq(LiveRecs) /\ DOMAIN <<>> = {}  OBVIOUS
<1>3. /\ q.pc = "list" /\ q.then = "conflict" /\ q.result = o.result /\ q.got = <<>> /\ q.kind = o.kind
      /\ q.reqs = o.reqs /\ q.absent = o.absent /\ q.steady = o.steady /\ q.todo = o.todo
    BY DEF List, Ops
<1>4. q \in Ops  BY <1>2 DEF List, Ops, PCs, Purposes
<1> HIDE DEF q
<1>5. PlaceOK(q)  BY <1>3 DEF Good, PlaceOK, Applying, Agreed, None
<1>6. ListedOK(q, z, n)  BY <1>2, <1>3 DEF ListedOK
<1>7. Reached(q, z, e, s)  BY <1>1, <1>3 DEF Reached
<1> QED  BY <1>4, <1>5, <1>6, <1>7 DEF Good, q

LEMMA CreateRecordSafe == ASSUME DnsAssumption, Safe, NEW p \in Procs, CreateRecord(p) PROVE Safe'
<1> DEFINE o == op[p]
           req == Current(o.todo)
           next == Upserting(o, Rest(o.todo), o.got)
<1>1. o \in Ops /\ Good(o, zone, nextId, exists, stored[p]) /\ ZoneOK(zone, nextId) /\ nextId \in Nat
    BY Here
<1>2. o.pc = "upsert" /\ SameKey(req, o.got) = {}  BY DEF CreateRecord
<1>3. CASE SameKey(req, zone) # {}
    <2>1. Go(p, List(o, "conflict")) /\ UNCHANGED <<exists, zone, nextId, stored, ops, faults>>
        BY <1>3 DEF CreateRecord
    <2> HIDE DEF o
    <2>2. List(o, "conflict") \in Ops /\ Good(List(o, "conflict"), zone, nextId, exists, stored[p])
        BY <1>1, <1>2, <1>3, Conflicts
    <2>3. ops' \in 0..MaxOps /\ faults' \in 0..MaxFaults  BY <2>1, Here
    <2> QED  BY <2>1, <2>2, <2>3, OnlyOp
<1>4. CASE SameKey(req, zone) = {} /\ (~exists \/ Clash(req, DOMAIN zone) \/ nextId > MaxId)
    <2>1. Refused(p)  BY <1>4 DEF CreateRecord
    <2> QED  BY <2>1, RefusedSafe
<1>5. CASE SameKey(req, zone) = {} /\ ~(~exists \/ Clash(req, DOMAIN zone) \/ nextId > MaxId)
    <2>1. PICK lost \in BOOLEAN :
             /\ zone' = Append(zone, dnsDomainRecordFromRequest(nextId, req))
             /\ nextId' = nextId + 1
             /\ Answer(p, lost, next)
        BY <1>5 DEF CreateRecord
    <2>2. exists /\ nextId' \in 1..MaxId + 1
        <3>1. nextId \in 1..MaxId + 1 /\ MaxId \in Nat /\ ~(nextId > MaxId) /\ exists
            BY <1>5, Here DEF DnsAssumption
        <3> QED  BY <2>1, <3>1
    <2> HIDE DEF o
    <2>3. PICK l \in Nat : l = nextId + 1  BY <1>1
    <2>4. /\ next \in Ops /\ Good(next, Added(zone, nextId, req), l, exists, stored[p])
          /\ ZoneOK(Added(zone, nextId, req), l) /\ StillNamed(zone, nextId, Added(zone, nextId, req), l)
        BY <1>1, <1>2, <1>5, <2>3, AddGoesOn
    <2>5. zone' = Added(zone, nextId, req) /\ nextId' = l  BY <2>1, <2>3 DEF Added
    <2> HIDE DEF next, req
    <2>6. /\ Good(next, zone', nextId', exists, stored[p]) /\ ZoneOK(zone', nextId')
          /\ StillNamed(zone, nextId, zone', nextId')
        BY <2>4, <2>5
    <2> QED  BY <2>1, <2>2, <2>4, <2>6, AnswerSafe
<1> QED  BY <1>3, <1>4, <1>5

-----------------------------------------------------------------------------
(* Failures and the operator.                                               *)

LEMMA FailSafe == ASSUME DnsAssumption, Safe, NEW p \in Procs, Fail(p) PROVE Safe'
<1> DEFINE o == op[p]
<1>1. UNCHANGED <<exists, zone, nextId, stored, ops>> /\ ops' \in 0..MaxOps  BY Here DEF Fail
<1>2. faults' \in 0..MaxFaults
    <2>1. faults \in 0..MaxFaults /\ MaxFaults \in Nat /\ faults < MaxFaults /\ faults' = faults + 1
        BY Here DEF Fail, DnsAssumption
    <2> QED  BY <2>1
<1>3. CASE Go(p, Return(o, "error"))
    <2>1. Return(o, "error") \in Ops /\ Good(Return(o, "error"), zone, nextId, exists, stored[p])
        BY Fails
    <2> QED  BY <1>1, <1>2, <1>3, <2>1, OnlyOp
<1>4. CASE (o.pc = "get_again" \/ (o.pc = "list" /\ o.then = "conflict"))
            /\ Go(p, [Retry(o) EXCEPT !.got = <<>>])
    <2>1. o \in Ops /\ Good(o, zone, nextId, exists, stored[p]) /\ zone \in Seq(LiveRecs)  BY Here
    <2> HIDE DEF o
    <2>2. PICK q : q = [Retry(o) EXCEPT !.got = <<>>]  OBVIOUS
    <2>3. q \in Ops /\ Good(q, zone, nextId, exists, stored[p])  BY <1>4, <2>1, <2>2, Retries
    <2>4. Go(p, q)  BY <1>4, <2>2
    <2> QED  BY <1>1, <1>2, <2>3, <2>4, OnlyOp
<1> QED  BY <1>3, <1>4 DEF Fail

LEMMA OperatorAddSafe == ASSUME DnsAssumption, Safe, NEW r \in Foreign, OperatorAdd(r) PROVE Safe'
<1>1. /\ exists /\ zone' = Added(zone, nextId, r) /\ nextId' = nextId + 1
      /\ op' = [p \in Procs |-> Unsteady(op[p])] /\ UNCHANGED <<exists, stored, ops>>
    BY DEF OperatorAdd, Added
<1>2. /\ ZoneOK(zone, nextId) /\ op \in [Procs -> Ops] /\ stored \in [Procs -> Outputs]
      /\ nextId \in 1..MaxId + 1 /\ nextId \in Nat /\ MaxId \in Nat /\ ops \in 0..MaxOps
      /\ faults \in 0..MaxFaults /\ MaxFaults \in Nat
    BY DEF Safe, Shape, DnsAssumption
<1>3. nextId' \in 1..MaxId + 1 /\ faults' \in 0..MaxFaults
    <2>1. nextId <= MaxId /\ faults < MaxFaults /\ faults' = faults + 1  BY DEF OperatorAdd
    <2> QED  BY <1>1, <1>2, <2>1
<1>4. r \in Values  BY DEF Values
<1>5. PICK m : m = nextId + 1  OBVIOUS
<1>6. ZoneOK(Added(zone, nextId, r), m) /\ StillNamed(zone, nextId, Added(zone, nextId, r), m)
    BY <1>2, <1>4, <1>5, ZoneAdded, NamedAdded
<1>7. ZoneOK(zone', nextId') /\ StillNamed(zone, nextId, zone', nextId')  BY <1>1, <1>5, <1>6
<1>8. op' \in [Procs -> Ops]
    <2>1. \A q \in Procs : Unsteady(op[q]) \in Ops  BY <1>2, UnsteadyOps
    <2> QED  BY <1>1, <2>1
<1>9. {} \in SUBSET Procs /\ \A q \in Procs \ {} : op'[q] = Unsteady(op[q])  BY <1>1
<1>10. \A p \in {} : Good(op'[p], zone', nextId', exists', stored'[p])  OBVIOUS
<1>11. exists' \in BOOLEAN /\ (~exists' => zone' = <<>>) /\ ops' \in 0..MaxOps /\ stored' \in [Procs -> Outputs]
    BY <1>1, <1>2 DEF Safe, Shape
<1> QED  BY <1>3, <1>7, <1>8, <1>9, <1>10, <1>11, Changes

LEMMA OperatorRemoveSafe ==
    ASSUME DnsAssumption, Safe, NEW i \in DOMAIN zone, OperatorRemove(i) PROVE Safe'
<1>1. /\ zone' = RemoveAt(zone, i)
      /\ op' = [p \in Procs |-> Unsteady(op[p])] /\ UNCHANGED <<exists, nextId, stored, ops>>
    BY DEF OperatorRemove
<1>2. /\ ZoneOK(zone, nextId) /\ op \in [Procs -> Ops] /\ stored \in [Procs -> Outputs]
      /\ nextId \in 1..MaxId + 1 /\ nextId \in Nat /\ ops \in 0..MaxOps
      /\ faults \in 0..MaxFaults /\ MaxFaults \in Nat /\ exists \in BOOLEAN
    BY DEF Safe, Shape, DnsAssumption
<1>3. faults' \in 0..MaxFaults
    <2>1. faults < MaxFaults /\ faults' = faults + 1  BY DEF OperatorRemove
    <2> QED  BY <1>2, <2>1
<1>4. exists
    <2>1. DOMAIN <<>> = {}  OBVIOUS
    <2> QED  BY <2>1 DEF Safe, Shape
<1>5. ZoneOK(RemoveAt(zone, i), nextId) /\ StillNamed(zone, nextId, RemoveAt(zone, i), nextId)
    BY <1>2, ZoneRemoved, NamedRemoved
<1>6. ZoneOK(zone', nextId') /\ StillNamed(zone, nextId, zone', nextId') /\ nextId' \in 1..MaxId + 1
    BY <1>1, <1>2, <1>5
<1>7. op' \in [Procs -> Ops]
    <2>1. \A q \in Procs : Unsteady(op[q]) \in Ops  BY <1>2, UnsteadyOps
    <2> QED  BY <1>1, <2>1
<1>8. {} \in SUBSET Procs /\ \A q \in Procs \ {} : op'[q] = Unsteady(op[q])  BY <1>1
<1>9. \A p \in {} : Good(op'[p], zone', nextId', exists', stored'[p])  OBVIOUS
<1>10. exists' \in BOOLEAN /\ (~exists' => zone' = <<>>) /\ ops' \in 0..MaxOps /\ stored' \in [Procs -> Outputs]
    BY <1>1, <1>2, <1>4
<1> QED  BY <1>3, <1>6, <1>7, <1>8, <1>9, <1>10, Changes

-----------------------------------------------------------------------------
(* The invariant.                                                           *)

LEMMA InitSafe == ASSUME DnsAssumption, Init PROVE Safe
<1>1. PICK start \in ZoneStart :
          /\ zone = [i \in DOMAIN start |-> dnsDomainRecordFromRequest(i, start[i])]
          /\ nextId = Len(start) + 1
          /\ exists \in IF start = <<>> THEN BOOLEAN ELSE {TRUE}
    BY DEF Init
<1>2. start \in Seq(Range(start)) /\ Len(start) <= MaxId /\ MaxId \in Nat  BY DEF DnsAssumption
<1>3. /\ DOMAIN start = 1..Len(start) /\ Len(start) \in Nat /\ DOMAIN zone = 1..Len(start)
      /\ \A i \in 1..Len(start) : i \in Nat /\ start[i] \in Values
    BY <1>1, <1>2, SeqIsList DEF Values
<1>4. \A i \in 1..Len(start) : zone[i] = dnsDomainRecordFromRequest(i, start[i]) /\ zone[i].id = i
    BY <1>1, <1>3, Written
<1>5. ZoneOK(zone, nextId)
    <2>1. \A i \in 1..Len(start) : zone[i] \in LiveRecs  BY <1>3, <1>4, LiveRec
    <2>2. zone = [i \in 1..Len(start) |-> zone[i]]  BY <1>1, <1>3
    <2>3. zone \in [1..Len(start) -> LiveRecs]  BY <2>1, <2>2
    <2>4. zone \in Seq(LiveRecs)  BY <1>3, <2>3
    <2>5. \A i, j \in DOMAIN zone : zone[i].id = zone[j].id => i = j  BY <1>3, <1>4
    <2>6. \A i \in DOMAIN zone : zone[i].id < nextId
        <3>1. \A i \in DOMAIN zone : zone[i].id = i /\ i < Len(start) + 1  BY <1>3, <1>4
        <3> QED  BY <1>1, <3>1
    <2> QED  BY <2>4, <2>5, <2>6 DEF ZoneOK
<1>6. nextId \in 1..MaxId + 1 /\ nextId \in Nat  BY <1>1, <1>2, <1>3
<1>7. exists \in BOOLEAN /\ (~exists => zone = <<>>)
    <2>1. CASE start = <<>>
        <3>1. Len(zone) = 0
            <4>1. Len(start) = 0  BY <2>1
            <4> QED  BY <1>3, <1>5, <4>1 DEF ZoneOK
        <3>2. zone = <<>>  BY <1>5, <3>1 DEF ZoneOK
        <3> QED  BY <1>1, <2>1, <3>2
    <2>2. CASE start # <<>>  BY <1>1, <2>2
    <2> QED  BY <2>1, <2>2
<1>8. zone \in Seq(LiveRecs)  BY <1>5 DEF ZoneOK
<1>9. stored \in [Procs -> Outputs]
    <2>1. <<>> \in Seq(LiveRecs)  OBVIOUS
    <2>2. NoOutput \in Outputs /\ dnsOutput(zone) \in Outputs
        BY <1>8, <2>1 DEF NoOutput, dnsOutput, Outputs
    <2>3. stored \in [Procs -> {NoOutput} \cup (IF exists THEN {dnsOutput(zone)} ELSE {})]  BY DEF Init
    <2> QED  BY <2>2, <2>3
<1>10. /\ Idle \in Ops /\ op = [p \in Procs |-> Idle]
       /\ \A p \in Procs : Good(Idle, zone, nextId, exists, stored[p])
    BY <1>8, IdleGood DEF Init
<1>11. ops = 0 /\ faults = 0 /\ 0 \in 0..MaxOps /\ 0 \in 0..MaxFaults  BY DEF Init, DnsAssumption
<1>12. op \in [Procs -> Ops] /\ \A p \in Procs : op[p] = Idle  BY <1>10
<1>13. Shape  BY <1>5, <1>6, <1>7, <1>9, <1>11, <1>12 DEF Shape
<1> QED  BY <1>10, <1>12, <1>13 DEF Safe

LEMMA NextSafe == ASSUME DnsAssumption, Safe, Next PROVE Safe'
<1>1. ASSUME NEW p \in Procs, Begin(p) PROVE Safe'
    <2>1. ASSUME NEW c \in Configs, BeginCreate(p, c) PROVE Safe'  BY <2>1, BeginCreateSafe
    <2>2. ASSUME NEW c \in Configs, BeginUpdate(p, c) PROVE Safe'  BY <2>2, BeginUpdateSafe
    <2>3. ASSUME NEW c \in Configs, BeginDiff(p, c) PROVE Safe'  BY <2>3, BeginDiffSafe
    <2>4. CASE BeginRead(p) \/ BeginDelete(p)  BY <2>4, BeginOtherSafe
    <2> QED  BY <1>1, <2>1, <2>2, <2>3, <2>4 DEF Begin
<1>2. ASSUME NEW p \in Procs, Request(p) PROVE Safe'
    <2>1. CASE GetDomain(p)  BY <2>1, GetDomainSafe
    <2>2. CASE CreateDomain(p)  BY <2>2, CreateDomainSafe
    <2>3. CASE GetAfterConflict(p)  BY <2>3, GetAfterConflictSafe
    <2>4. CASE ReadDomain(p)  BY <2>4, ReadDomainSafe
    <2>5. CASE DeleteDomain(p)  BY <2>5, DeleteDomainSafe
    <2>6. CASE ListPage(p)  BY <2>6, ListPageSafe
    <2>7. CASE DeleteRecord(p)  BY <2>7, DeleteRecordSafe
    <2>8. CASE EditRecord(p)  BY <2>8, EditRecordSafe
    <2>9. CASE CreateRecord(p)  BY <2>9, CreateRecordSafe
    <2> QED  BY <1>2, <2>1, <2>2, <2>3, <2>4, <2>5, <2>6, <2>7, <2>8, <2>9 DEF Request
<1>3. ASSUME NEW p \in Procs, Fail(p) PROVE Safe'  BY <1>3, FailSafe
<1>4. ASSUME NEW r \in Foreign, OperatorAdd(r) PROVE Safe'  BY <1>4, OperatorAddSafe
<1>5. ASSUME NEW i \in DOMAIN zone, OperatorRemove(i) PROVE Safe'  BY <1>5, OperatorRemoveSafe
<1> QED  BY <1>1, <1>2, <1>3, <1>4, <1>5 DEF Next

LEMMA StaysSafe == ASSUME Safe, UNCHANGED vars PROVE Safe'
BY DEF vars, Safe, Shape

LEMMA SafeAlways == ASSUME DnsAssumption PROVE Spec => []Safe
<1>1. Init => Safe  BY InitSafe
<1>2. Safe /\ [Next]_vars => Safe'  BY NextSafe, StaysSafe
<1> QED  BY <1>1, <1>2, PTL DEF Spec

-----------------------------------------------------------------------------
(* What it means.                                                           *)

(* The zone and the operations keep their shape through every operation of  *)
(* the driver, and no record ID is used twice.                              *)
THEOREM DnsTypes == Spec => []TypeOK
<1>1. Safe => TypeOK
    <2> SUFFICES ASSUME Safe PROVE TypeOK  OBVIOUS
    <2>1. Shape  BY DEF Safe
    <2>2. \A p \in Procs : op[p] \in Ops  BY <2>1 DEF Shape
    <2>3. \A p \in Procs :
             /\ op[p].pc \in PCs /\ op[p].attempt \in 0..Attempts - 1
             /\ op[p].result \in {None, "ok", "error", "quiet", "update", "replace"}
        BY <2>2 DEF Ops, Results
    <2> QED  BY <2>1, <2>3 DEF Shape, ZoneOK, TypeOK
<1> QED  BY <1>1, SafeAlways, DnsAssumption, PTL

(* A Create or Update that succeeds has made the zone what its              *)
(* configuration asks, whatever was there before and whatever failed: every *)
(* declared record is present with its value and no absent one is, as long  *)
(* as nobody else wrote the zone since it began.                            *)
THEOREM ZoneConverges == Spec => []Converged
<1>1. Safe => Converged
    <2> SUFFICES ASSUME Safe, NEW p \in Procs, AppliedAlone(p)
                 PROVE  exists /\ Satisfied(op[p].reqs, op[p].absent, zone)
        BY DEF Converged
    <2>1. Good(op[p], zone, nextId, exists, stored[p]) /\ zone \in Seq(LiveRecs)  BY Here
    <2>2. exists /\ Gone(op[p], zone) /\ \A i \in DOMAIN op[p].reqs : UpToDate(op[p].reqs[i], zone)
        BY <2>1 DEF AppliedAlone, Good, Reached, Applying, PastDelete, PastUpsert
    <2>3. \A i \in DOMAIN op[p].reqs : \E j \in DOMAIN zone : dnsRecordMatchesRequest(zone[j], op[p].reqs[i])
        <3> SUFFICES ASSUME NEW i \in DOMAIN op[p].reqs
                     PROVE  \E j \in DOMAIN zone : dnsRecordMatchesRequest(zone[j], op[p].reqs[i])
            OBVIOUS
        <3>1. PICK req : req = op[p].reqs[i]  OBVIOUS
        <3>2. SameKey(req, zone) # {} /\ dnsRecordMatchesRequest(Candidate(req, zone), req)
            BY <2>2, <3>1 DEF UpToDate
        <3>3. Min(SameKey(req, zone)) \in DOMAIN zone /\ Candidate(req, zone) = zone[Min(SameKey(req, zone))]
            BY <2>1, <3>2, FirstKey
        <3> QED  BY <3>1, <3>2, <3>3
    <2> QED  BY <2>2, <2>3 DEF Satisfied, Gone
<1> QED  BY <1>1, SafeAlways, DnsAssumption, PTL

(* A Diff that asks for no update has seen that no absent record is live,   *)
(* however stale the stored output is.                                      *)
THEOREM QuietDiffs == Spec => []QuietDiffSawZone
<1>1. Safe => QuietDiffSawZone
    <2> SUFFICES ASSUME Safe, NEW p \in Procs, op[p].result = "quiet", op[p].steady,
                        NEW a \in op[p].absent, NEW i \in DOMAIN zone
                 PROVE  ~dnsAbsentRecordMatches(a, zone[i])
        BY DEF QuietDiffSawZone
    <2>1. Good(op[p], zone, nextId, exists, stored[p])  BY Here
    <2> QED  BY <2>1 DEF Good, Reached, Gone
<1> QED  BY <1>1, SafeAlways, DnsAssumption, PTL

(* After such a success the next Diff of the same configuration is quiet:   *)
(* the first record of a declared identity in the stored output is the one  *)
(* the apply has left up to date.                                           *)
THEOREM DiffSettles == Spec => []NoPerpetualDiff
<1>1. Safe => NoPerpetualDiff
    <2> SUFFICES ASSUME Safe, NEW p \in Procs, AppliedAlone(p)
                 PROVE  StoredMatches(op[p].reqs, dnsRecordsFromOutput(stored[p]))
        BY DEF NoPerpetualDiff
    <2> DEFINE out == dnsRecordsFromOutput(stored[p])
    <2>1. Good(op[p], zone, nextId, exists, stored[p]) /\ zone \in Seq(LiveRecs)  BY Here
    <2>2. /\ stored[p].records = zone /\ \A i \in DOMAIN op[p].reqs : UpToDate(op[p].reqs[i], zone)
          /\ ReqsOK(op[p].reqs)
        BY <2>1 DEF AppliedAlone, Good, Reached, Applying, PastUpsert, PlaceOK
    <2>3. zone \in Lists(LiveRecs) /\ DOMAIN zone \subseteq Nat  BY <2>1, SeqIsList
    <2>4. /\ DOMAIN out = {k \in DOMAIN zone : zone[k].type \in RecordTypes}
          /\ \A k \in DOMAIN out : out[k] = zone[k]
        <3> DEFINE S == {k \in DOMAIN zone : zone[k].type \in RecordTypes}
        <3>1. out = Restrict(zone, S) /\ S \in SUBSET DOMAIN zone  BY <2>2 DEF dnsRecordsFromOutput
        <3> HIDE DEF S, out
        <3>2. DOMAIN out = S /\ \A k \in S : out[k] = zone[k]  BY <2>3, <3>1, Kept
        <3> QED  BY <3>2 DEF S
    <2> HIDE DEF out
    <2>5. ASSUME NEW i \in DOMAIN op[p].reqs, NEW req, req = op[p].reqs[i],
                 NEW same, same = {k \in DOMAIN out : dnsRecordIdentity(out[k]) = dnsRecordIdentity(req)}
          PROVE  same # {} /\ dnsRecordMatchesRequest(out[Min(same)], req)
        <3>1. SameKey(req, zone) # {} /\ dnsRecordMatchesRequest(Candidate(req, zone), req)
            BY <2>2, <2>5 DEF UpToDate
        <3>2. PICK c \in DOMAIN zone :
                 /\ Candidate(req, zone) = zone[c]
                 /\ \A k \in DOMAIN zone : UpsertKey(zone[k]) = UpsertKey(req) => c <= k
            BY <2>1, <3>1, FirstKey
        <3>3. dnsRecordIdentity(zone[c]) = dnsRecordIdentity(req)  BY <3>1, <3>2, MatchIdentity
        <3>4. zone[c].type \in RecordTypes
            BY <2>2, <2>5, <3>1, <3>2 DEF dnsRecordMatchesRequest, ReqsOK
        <3>5. c \in same /\ out[c] = zone[c]  BY <2>4, <2>5, <3>3, <3>4
        <3>6. \A k \in same : k \in DOMAIN zone /\ UpsertKey(zone[k]) = UpsertKey(req)
            BY <2>4, <2>5, IdentityKey
        <3>7. same \in SUBSET Nat /\ \A k \in same : c <= k  BY <2>3, <3>2, <3>6
        <3>8. Min(same) = c  BY <3>5, <3>7, LeastIs
        <3> QED  BY <3>1, <3>2, <3>5, <3>8
    <2>6. StoredMatches(op[p].reqs, out)
        <3> SUFFICES ASSUME NEW i \in DOMAIN op[p].reqs
                     PROVE  LET same == {k \in DOMAIN out : dnsRecordIdentity(out[k])
                                                             = dnsRecordIdentity(op[p].reqs[i])}
                            IN same # {} /\ dnsRecordMatchesRequest(out[Min(same)], op[p].reqs[i])
            BY DEF StoredMatches
        <3> QED  BY <2>5
    <2> QED  BY <2>6 DEF out
<1> QED  BY <1>1, SafeAlways, DnsAssumption, PTL

LEMMA RecordStays ==
    ASSUME Safe, Next, NEW p \in Procs, NEW i \in DOMAIN zone, Acts(p), ~Concerns(op[p], zone[i])
    PROVE  \E j \in DOMAIN zone' : zone'[j] = zone[i]
<1> DEFINE o == op[p]
<1>1. o \in Ops /\ Good(o, zone, nextId, exists, stored[p]) /\ ZoneOK(zone, nextId) /\ zone \in Seq(LiveRecs)
    BY Here
<1>2. ASSUME zone' = zone PROVE \E j \in DOMAIN zone' : zone'[j] = zone[i]  BY <1>2
<1>3. ASSUME NEW q \in Procs, q # p, NEW next, Go(q, next) \/ Disturb(q, next) PROVE FALSE
    <2>1. op'[p] = o \/ op'[p] = Unsteady(o)  BY <1>3, Here DEF Go, Disturb
    <2> QED  BY <2>1 DEF Acts
<1>4. ASSUME op' = [q \in Procs |-> Unsteady(op[q])] PROVE FALSE  BY <1>4 DEF Acts
<1>5. ASSUME NEW x \in DOMAIN zone, zone' = RemoveAt(zone, x), x # i
      PROVE  \E j \in DOMAIN zone' : zone'[j] = zone[i]
    <2>1. i \in DOMAIN zone \ {x}  BY <1>5
    <2> QED  BY <1>1, <1>5, <2>1, RemovedOthers
<1>6. CASE DeleteRecord(p)
    <2>1. CASE zone' = zone  BY <1>2, <2>1
    <2>2. CASE \E x \in WithId(Current(o.todo).id) : zone' = RemoveAt(zone, x)
        <3>1. PICK x \in DOMAIN zone : zone[x].id = Current(o.todo).id /\ zone' = RemoveAt(zone, x)
            BY <2>2 DEF WithId
        <3>2. /\ o.pc = "delete" /\ DOMAIN o.todo # {} /\ o.todo \in Lists(Requests \cup LiveRecs)
              /\ PlaceOK(o) /\ ListedOK(o, zone, nextId)
            BY <1>1, <1>6 DEF DeleteRecord, Good, PlaceOK, Ops
        <3>3. PICK m \in DOMAIN o.todo : Current(o.todo) = o.todo[m]  BY <3>2, TodoLists
        <3>4. SameName(zone[x], o.todo[m])  BY <3>1, <3>2, <3>3 DEF ListedOK, Known
        <3>5. PICK a \in o.absent : dnsAbsentRecordMatches(a, o.todo[m])  BY <3>2 DEF PlaceOK
        <3>6. Concerns(o, zone[x])
            BY <3>4, <3>5 DEF Concerns, SameName, dnsAbsentRecordMatches, dnsCanonicalRecordName
        <3> QED  BY <1>5, <3>1, <3>6
    <2> QED  BY <1>6, <2>1, <2>2 DEF DeleteRecord, Refused
<1>7. CASE EditRecord(p)
    <2>1. CASE zone' = zone  BY <1>2, <2>1
    <2>2. CASE \E x \in WithId(Candidate(Current(o.todo), o.got).id) :
                  zone' = Rewritten(zone, x, Current(o.todo))
        <3>1. PICK x \in DOMAIN zone : /\ zone[x].id = Candidate(Current(o.todo), o.got).id
                                      /\ zone' = Rewritten(zone, x, Current(o.todo))
            BY <2>2 DEF WithId
        <3>2. o.pc = "upsert" /\ SameKey(Current(o.todo), o.got) # {}  BY <1>7 DEF EditRecord
        <3>3. SameName(Current(o.todo), zone[x])  BY <1>1, <3>1, <3>2, CandidateName
        <3>4. PICK m \in DOMAIN o.reqs : Current(o.todo) = o.reqs[m]
            <4>1. nextId \in Nat  BY Here
            <4>2. PICK m \in DOMAIN o.todo : HeadTodo(o, m)  BY <1>1, <3>2, <4>1, UpsertAtHand
            <4> QED  BY <4>2 DEF HeadTodo
        <3>5. Concerns(o, zone[x])  BY <3>3, <3>4 DEF Concerns, SameName
        <3>6. i # x  BY <3>5
        <3>7. i \in DOMAIN zone' /\ zone'[i] = zone[i]  BY <3>1, <3>6 DEF Rewritten
        <3> QED  BY <3>7
    <2> QED  BY <1>7, <2>1, <2>2 DEF EditRecord, Refused, Rewritten
<1>8. CASE CreateRecord(p)
    <2>1. CASE zone' = zone  BY <1>2, <2>1
    <2>2. CASE \E r : zone' = Append(zone, r)
        <3>1. PICK r : zone' = Append(zone, r)  BY <2>2
        <3>2. DOMAIN zone = 1..Len(zone) /\ Len(zone) \in Nat  BY <1>1, SeqIsList
        <3>3. i \in DOMAIN zone' /\ zone'[i] = zone[i]  BY <1>1, <3>1, <3>2
        <3> QED  BY <3>3
    <2> QED  BY <1>8, <2>1, <2>2 DEF CreateRecord, Refused
<1>9. CASE DeleteDomain(p)
    <2>1. Concerns(o, zone[i])  BY <1>1, <1>9 DEF DeleteDomain, Good, PlaceOK, Concerns
    <2> QED  BY <2>1
<1>10. CASE \E q \in Procs : Begin(q) \/ Fail(q) \/ GetDomain(q) \/ CreateDomain(q) \/ GetAfterConflict(q)
                             \/ ReadDomain(q) \/ ListPage(q)
    <2>1. zone' = zone
        BY <1>10 DEF Begin, BeginCreate, BeginUpdate, BeginDiff, BeginRead, BeginDelete, Fail, GetDomain,
                     CreateDomain, GetAfterConflict, ReadDomain, ListPage
    <2> QED  BY <1>2, <2>1
<1>11. CASE \E q \in Procs : q # p /\ (DeleteRecord(q) \/ EditRecord(q) \/ CreateRecord(q) \/ DeleteDomain(q))
    <2>1. PICK q \in Procs : q # p /\ (DeleteRecord(q) \/ EditRecord(q) \/ CreateRecord(q) \/ DeleteDomain(q))
        BY <1>11
    <2>2. \E next : Go(q, next) \/ Disturb(q, next)
        BY <2>1 DEF DeleteRecord, EditRecord, CreateRecord, DeleteDomain, Answer, Refused
    <2> QED  BY <1>3, <2>1, <2>2
<1>12. CASE (\E r \in Foreign : OperatorAdd(r)) \/ (\E x \in DOMAIN zone : OperatorRemove(x))
    BY <1>4, <1>12 DEF OperatorAdd, OperatorRemove
<1> QED  BY <1>6, <1>7, <1>8, <1>9, <1>10, <1>11, <1>12 DEF Next, Request

(* A process changes or removes only records of a type and name that its    *)
(* configuration declares or wants absent, although it writes by record IDs *)
(* it listed earlier and others write the zone meanwhile.                   *)
THEOREM OthersRecordsKept == Spec => UnmanagedKept
<1>1. Safe /\ [Next]_vars =>
        [\A p \in Procs, i \in DOMAIN zone :
            Acts(p) /\ ~Concerns(op[p], zone[i]) => \E j \in DOMAIN zone' : zone'[j] = zone[i]]_vars
    BY RecordStays
<1> QED  BY <1>1, SafeAlways, DnsAssumption, PTL DEF Spec, UnmanagedKept

=============================================================================
