---------------------------- MODULE DnsRecords -----------------------------
(***************************************************************************)
(* The pure half of internal/drivers/dns.go: how a configuration becomes    *)
(* records, when two records are the same one, and which sets of records    *)
(* are refused.  A name or a value is what its characters are used for: an  *)
(* identity (id) and a spelling, "plain", "upper" (case) or "dotted"        *)
(* (trailing dot); a value also has the kind its syntax gives it.           *)
(***************************************************************************)
EXTENDS Integers, Sequences, FiniteSets, SequencesExt

Spellings   == {"plain", "upper", "dotted"}
RecordTypes == {"A", "AAAA", "CAA", "CNAME", "MX", "NS", "SRV", "TXT"}
HostTypes   == {"CNAME", "MX", "NS", "SRV"}
Fields      == {"priority", "port", "weight", "flags", "tag"}

(* The fields that belong to a type (all others are rejected), the required *)
(* ones, and their ranges.  A tag is 0 (empty), 1..3 (issue, issuewild,     *)
(* iodef) or anything else.                                                 *)
FieldsOf(type) ==
    CASE type = "MX"  -> {"priority"}
      [] type = "SRV" -> {"priority", "port", "weight"}
      [] type = "CAA" -> {"flags", "tag"}
      [] OTHER        -> {}

RequiredOf(type) == IF type = "CAA" THEN {"tag"} ELSE FieldsOf(type)

InRange(type, f, v) ==
    CASE f = "port"  -> v \in 1..65535
      [] f = "flags" -> v \in 0..255
      [] f = "tag"   -> v \in 1..3
      [] OTHER       -> v \in 0..65535

KindOK(type, data) ==
    CASE type = "A"        -> data.kind = "ip4"
      [] type = "AAAA"     -> data.kind = "ip6"
      [] type \in HostTypes -> data.kind = "host"
      [] OTHER             -> TRUE

dnsCanonicalRecordName(name) == name.id

dnsCanonicalRecordData(type, data) ==
    IF type \in HostTypes THEN [data EXCEPT !.spelt = "plain"] ELSE data

SameData(type, a, b) ==
    dnsCanonicalRecordData(type, a) = dnsCanonicalRecordData(type, b)

(* strings.EqualFold: case is ignored, a trailing dot is not.               *)
EqualFold(a, b) == a.id = b.id /\ (a.spelt = "dotted" <=> b.spelt = "dotted")

dnsRecordIdentity(r) ==
    <<r.type, dnsCanonicalRecordName(r.name), dnsCanonicalRecordData(r.type, r.data),
      [f \in FieldsOf(r.type) |-> r.fields[f]]>>

(* CNAME records of one name are one record; others are told apart by data. *)
UpsertKey(r) ==
    IF r.type = "CNAME" THEN <<r.type, dnsCanonicalRecordName(r.name)>>
    ELSE dnsRecordIdentity(r)

dnsRecordMatchesRequest(record, req) ==
    /\ record.type = req.type
    /\ dnsCanonicalRecordName(record.name) = dnsCanonicalRecordName(req.name)
    /\ SameData(record.type, record.data, req.data)
    /\ record.ttl = req.ttl
    /\ record.fields = req.fields

dnsRecordRequestsEqual(a, b) ==
    /\ a.type = b.type
    /\ EqualFold(a.name, b.name)
    /\ SameData(a.type, a.data, b.data)
    /\ a.ttl = b.ttl
    /\ a.fields = b.fields

(* One entry of "records" as written: fields holds the optional numbers     *)
(* that are present, ttl 0 stands for a missing one.                        *)
dnsRecordEditRequestFromConfig(raw) ==
    [type |-> raw.type, name |-> raw.name, data |-> raw.data,
     ttl |-> IF raw.ttl = 0 THEN 300 ELSE raw.ttl,
     fields |-> [f \in Fields |-> IF f \in DOMAIN raw.fields THEN raw.fields[f] ELSE 0]]

ValidName(type, name) ==
    /\ name.id # "invalid"
    /\ ~(type = "CNAME" /\ name.id = "@")

ValidEntry(raw) ==
    /\ raw.type \in RecordTypes
    /\ ValidName(raw.type, raw.name)
    /\ raw.data.id # ""
    /\ raw.ttl >= 0

validateDNSRecordRequest(raw) ==
    /\ DOMAIN raw.fields \subseteq FieldsOf(raw.type)
    /\ RequiredOf(raw.type) \subseteq DOMAIN raw.fields
    /\ \A f \in DOMAIN raw.fields : InRange(raw.type, f, raw.fields[f])
    /\ KindOK(raw.type, raw.data)

CNAMEClash(a, b) ==
    /\ dnsCanonicalRecordName(a.name) = dnsCanonicalRecordName(b.name)
    /\ a.type = "CNAME" \/ b.type = "CNAME"

(* A mistake in PairOK: records of one name are not checked for CNAMEs.     *)
PairOK_NoCNAMECheck(a, b) ==
    dnsRecordIdentity(a) = dnsRecordIdentity(b) => dnsRecordRequestsEqual(a, b)

(* A repeated identity must repeat the whole record; different records of   *)
(* one name must not involve a CNAME.                                       *)
PairOK(a, b) ==
    IF dnsRecordIdentity(a) = dnsRecordIdentity(b)
    THEN dnsRecordRequestsEqual(a, b)
    ELSE ~CNAMEClash(a, b)

DeclaredOK(raws) ==
    /\ \A i \in DOMAIN raws : ValidEntry(raws[i]) /\ validateDNSRecordRequest(raws[i])
    /\ \A i \in DOMAIN raws, j \in DOMAIN raws :
          i < j => PairOK(dnsRecordEditRequestFromConfig(raws[i]),
                          dnsRecordEditRequestFromConfig(raws[j]))

(* The requests of an accepted list: the first entry of each identity.  Some *)
(* of a list keep their positions there, as a function on those positions.  *)
declaredDNSRecords(raws) ==
    LET req(i) == dnsRecordEditRequestFromConfig(raws[i])
        repeated(i) == \E j \in DOMAIN raws :
                          j < i /\ dnsRecordIdentity(req(j)) = dnsRecordIdentity(req(i))
    IN [i \in {i \in DOMAIN raws : ~repeated(i)} |-> req(i)]

(* Entries of "absent_records": type, name and perhaps data (id "" if not). *)
validateDNSAbsentRecord(a) ==
    /\ a.type \in RecordTypes
    /\ ValidName(a.type, a.name)
    /\ (a.data.id # "" /\ a.type \in HostTypes) => a.data.kind = "host"

dnsAbsentRecordMatches(a, record) ==
    /\ a.type = record.type
    /\ dnsCanonicalRecordName(a.name) = dnsCanonicalRecordName(record.name)
    /\ a.data.id = "" \/ SameData(a.type, a.data, record.data)

validateDNSAbsentRecordsDoNotConflict(reqs, absent) ==
    \A i \in DOMAIN reqs, a \in absent : ~dnsAbsentRecordMatches(a, reqs[i])

(* A declared record may not share its name with a live one when exactly    *)
(* one of the two is a CNAME.                                               *)
validateDNSRecordLiveConflicts(reqs, live) ==
    \A i \in DOMAIN reqs, j \in DOMAIN live :
        dnsCanonicalRecordName(reqs[i].name) = dnsCanonicalRecordName(live[j].name)
            => (reqs[i].type = "CNAME" <=> live[j].type = "CNAME")

(* The listing as the resource's output and back: types the driver does not *)
(* support (SOA) are in the output and left out of comparisons.             *)
dnsOutput(live) == [known |-> TRUE, records |-> live]

dnsRecordsFromOutput(output) ==
    Restrict(output.records,
             {i \in DOMAIN output.records : output.records[i].type \in RecordTypes})

(* Diff's comparison of the declared records with the stored ones: each     *)
(* declared identity needs a stored record, and the first one is compared.  *)
StoredMatches(reqs, stored) ==
    \A i \in DOMAIN reqs :
        LET same == {k \in DOMAIN stored : dnsRecordIdentity(stored[k]) = dnsRecordIdentity(reqs[i])}
        IN same # {} /\ dnsRecordMatchesRequest(stored[Min(same)], reqs[i])

(* The live records a request may be written to; the first is the one.      *)
SameKey(req, live) == {i \in DOMAIN live : UpsertKey(live[i]) = UpsertKey(req)}

Candidate(req, live) == live[Min(SameKey(req, live))]

UpToDate(req, live) ==
    SameKey(req, live) # {} /\ dnsRecordMatchesRequest(Candidate(req, live), req)

(* The record a request makes of the one with this ID.                      *)
dnsDomainRecordFromRequest(id, req) ==
    [id |-> id, type |-> req.type, name |-> req.name, data |-> req.data,
     ttl |-> req.ttl, fields |-> req.fields]

(* What a configuration asks of a zone.                                     *)
Satisfied(reqs, absent, live) ==
    /\ \A i \in DOMAIN reqs : \E j \in DOMAIN live : dnsRecordMatchesRequest(live[j], reqs[i])
    /\ \A a \in absent, j \in DOMAIN live : ~dnsAbsentRecordMatches(a, live[j])

=============================================================================
