---------------------------- MODULE SpacesState ----------------------------
(***************************************************************************)
(* The Spaces state backend: internal/statebackend/spaces.go behind the     *)
(* RPCs of internal/statebackend_server.go.  Records and locks are objects  *)
(* of one bucket; every S3 request is a step.  Each host process locks a    *)
(* resource, reads its record, saves or deletes it, and unlocks; ListStates *)
(* needs no lock.  The hosts' order of calls is external, and so is the S3  *)
(* client, which repeats a request whose answer it did not get.             *)
(***************************************************************************)
EXTENDS Naturals, FiniteSets

CONSTANTS
    Hosts,       \* host processes, each with its own plugin process
    Resources,   \* resource IDs
    Keys,        \* object keys
    SanitizeID,  \* the key of each resource (sanitizeID): a function
    StateKey,    \* the place in the bucket's order of each key's state object
    LockKey,     \* and of its lock object (stateKey, lockKey)
    PageSize,    \* bound: objects of one page of a listing (1000 at the service)
    Problems,    \* which failures are considered
    MaxProblems, \* bound: how many of them happen
    MaxVersion   \* bound: how often a record may be saved

ProblemKinds == {"crash", "error", "lost_lock", "lost_unlock", "force", "unreadable"}

ASSUME StateAssumption ==
    /\ Resources # {}
    /\ SanitizeID \in [Resources -> Keys]
    /\ StateKey \in [Keys -> Nat \ {0}] /\ LockKey \in [Keys -> Nat \ {0}]
    /\ \A j, k \in Keys : /\ StateKey[j] # LockKey[k]
                          /\ StateKey[j] = StateKey[k] \/ LockKey[j] = LockKey[k] => j = k
    /\ PageSize \in Nat \ {0}
    /\ Problems \subseteq ProblemKinds
    /\ MaxProblems \in Nat
    /\ MaxVersion \in Nat

VARIABLES
    configured, \* hosts whose plugin process has its store (Configure)
    lock,       \* keys with a lock object
    owner,      \* history: the host whose PutObject made the lock object last
    record,     \* the state object of each key
    host,       \* what each host is doing
    problems    \* how many problems there were, and whether one of them made
                \* an Unlock remove an object without looking

vars == <<configured, lock, owner, record, host, problems>>

(* A record; version 0 stands for no object.                                *)
Objects  == [id : Resources, version : 0..MaxVersion]
NoRecord == [id |-> CHOOSE r \in Resources : TRUE, version |-> 0]

PCs == {"idle", "lock_retry", "locked", "read", "delete", "done",
        "unlock_delete", "unlock_retry", "list"}

(* r: the resource worked on; seen: the record read.  Of a listing: the     *)
(* place it continues after (token), whether there is more (IsTruncated),   *)
(* the keys of the page yet to fetch (todo) and the records fetched (got);  *)
(* steady: history, the keys that have had a record, and a readable one,    *)
(* at every moment since the listing began.                                 *)
HostStates == [pc : PCs, r : Resources, seen : Objects, token : Nat, more : BOOLEAN,
               todo : SUBSET Keys, got : SUBSET Objects, steady : SUBSET Keys]

Idle == [pc |-> "idle", r |-> CHOOSE r \in Resources : TRUE, seen |-> NoRecord,
         token |-> 0, more |-> FALSE, todo |-> {}, got |-> {}, steady |-> {}]

(* The type invariant of the bucket and of the hosts' calls.                *)
TypeOK ==
    /\ configured \in SUBSET Hosts
    /\ lock \in SUBSET Keys
    /\ owner \in [Keys -> Hosts]
    /\ record \in [Keys -> Objects]
    /\ host \in [Hosts -> HostStates]
    /\ problems \in [count : 0..MaxProblems, unlock : BOOLEAN]

Init ==
    /\ configured = {}
    /\ lock = {}
    /\ owner \in [Keys -> Hosts]
    /\ record = [k \in Keys |-> NoRecord]
    /\ host = [h \in Hosts |-> Idle]
    /\ problems = [count |-> 0, unlock |-> FALSE]

-----------------------------------------------------------------------------

At(h, pc) == host[h].pc = pc

Key(h) == SanitizeID[host[h].r]

Goto(h, pc) == host' = [host EXCEPT ![h].pc = pc]

Problem(kind) ==
    /\ kind \in Problems
    /\ problems.count < MaxProblems
    /\ problems' = [count  |-> problems.count + 1,
                    unlock |-> problems.unlock \/ kind \in {"lost_unlock", "force"}]

(* The state RPCs fail until Configure has built the store.                 *)
Configure(h) ==
    /\ h \notin configured
    /\ configured' = configured \cup {h}
    /\ UNCHANGED <<lock, owner, record, host, problems>>

Ready(h) == h \in configured /\ At(h, "idle")

(* Mutants: no If-None-Match; the lock object is named by the raw ID.       *)
Lock_Unconditional(h, r) ==
    /\ Ready(h)
    /\ lock' = lock \cup {SanitizeID[r]}
    /\ owner' = [owner EXCEPT ![SanitizeID[r]] = h]
    /\ host' = [host EXCEPT ![h] = [Idle EXCEPT !.pc = "locked", !.r = r]]
    /\ UNCHANGED <<configured, record, problems>>

Lock_RawID(h, r) ==
    /\ Ready(h)
    /\ r \notin lock
    /\ lock' = lock \cup {r}
    /\ owner' = [owner EXCEPT ![SanitizeID[r]] = h]
    /\ host' = [host EXCEPT ![h] = [Idle EXCEPT !.pc = "locked", !.r = r]]
    /\ UNCHANGED <<configured, record, problems>>

(* Lock: one conditional PutObject, refused with 412 when the object        *)
(* exists.                                                                  *)
Lock(h, r) ==
    LET k == SanitizeID[r] IN
    /\ Ready(h)
    /\ k \notin lock
    /\ lock' = lock \cup {k}
    /\ owner' = [owner EXCEPT ![k] = h]
    /\ \/ /\ host' = [host EXCEPT ![h] = [Idle EXCEPT !.pc = "locked", !.r = r]]
          /\ UNCHANGED problems
       \/ /\ Problem("lost_lock")
          /\ host' = [host EXCEPT ![h] = [Idle EXCEPT !.pc = "lock_retry", !.r = r]]
    /\ UNCHANGED <<configured, record>>

(* The repeated PutObject: its own object makes it fail, unless somebody    *)
(* removed it meanwhile.                                                    *)
LockRetry(h) ==
    /\ At(h, "lock_retry")
    /\ IF Key(h) \in lock
       THEN host' = [host EXCEPT ![h] = Idle] /\ UNCHANGED <<lock, owner>>
       ELSE /\ lock' = lock \cup {Key(h)}
            /\ owner' = [owner EXCEPT ![Key(h)] = h]
            /\ Goto(h, "locked")
    /\ UNCHANGED <<configured, record, problems>>

GetState(h) ==
    /\ At(h, "locked")
    /\ host' = [host EXCEPT ![h].pc = "read", ![h].seen = record[Key(h)]]
    /\ UNCHANGED <<configured, lock, owner, record, problems>>

SaveState(h) ==
    /\ At(h, "read")
    /\ host[h].seen.version < MaxVersion
    /\ record' = [record EXCEPT ![Key(h)] =
                     [id |-> host[h].r, version |-> host[h].seen.version + 1]]
    /\ Goto(h, "done")
    /\ UNCHANGED <<configured, lock, owner, problems>>

(* DeleteState: HeadObject, an error when there is no object, and only then *)
(* DeleteObject.                                                            *)
DeleteStateHead(h) ==
    /\ At(h, "read")
    /\ Goto(h, IF record[Key(h)] = NoRecord THEN "done" ELSE "delete")
    /\ UNCHANGED <<configured, lock, owner, record, problems>>

(* What is deleted is no longer there at every moment of a listing.         *)
Unsteady(k, hs) == [g \in Hosts |-> [hs[g] EXCEPT !.steady = @ \ {k}]]

DeleteState(h) ==
    /\ At(h, "delete")
    /\ record' = [record EXCEPT ![Key(h)] = NoRecord]
    /\ host' = Unsteady(Key(h), [host EXCEPT ![h].pc = "done"])
    /\ UNCHANGED <<configured, lock, owner, problems>>

(* Mutant: a lock that exists is taken for one that does not.               *)
UnlockHead_Inverted(h) ==
    /\ At(h, "done")
    /\ IF Key(h) \in lock THEN host' = [host EXCEPT ![h] = Idle] ELSE Goto(h, "unlock_delete")
    /\ UNCHANGED <<configured, lock, owner, record, problems>>

(* Unlock: HeadObject, an error when there is no lock, and only then        *)
(* DeleteObject.  Nothing ties the lock object to the caller.               *)
UnlockHead(h) ==
    /\ At(h, "done")
    /\ IF Key(h) \in lock THEN Goto(h, "unlock_delete") ELSE host' = [host EXCEPT ![h] = Idle]
    /\ UNCHANGED <<configured, lock, owner, record, problems>>

UnlockDelete(h) ==
    /\ At(h, "unlock_delete")
    /\ lock' = lock \ {Key(h)}
    /\ \/ host' = [host EXCEPT ![h] = Idle] /\ UNCHANGED problems
       \/ Problem("lost_unlock") /\ Goto(h, "unlock_retry")
    /\ UNCHANGED <<configured, owner, record>>

(* The repeated DeleteObject.                                               *)
UnlockRetry(h) ==
    /\ At(h, "unlock_retry")
    /\ lock' = lock \ {Key(h)}
    /\ host' = [host EXCEPT ![h] = Idle]
    /\ UNCHANGED <<configured, owner, record, problems>>

(* Working on a resource under its lock, up to the call of Unlock.          *)
InSection(h) == host[h].pc \in {"locked", "read", "delete", "done"}

Abandoned(k) == k \in lock /\ ~\E h \in Hosts : host[h].pc # "idle" /\ Key(h) = k

(* An operator unlocks a resource whose holder is gone.                     *)
ForceUnlock(h, r) ==
    /\ Ready(h)
    /\ Abandoned(SanitizeID[r])
    /\ Problem("force")
    /\ host' = [host EXCEPT ![h] = [Idle EXCEPT !.pc = "unlock_delete", !.r = r]]
    /\ UNCHANGED <<configured, lock, owner, record>>

(* The keys with a state object, and the objects in the bucket's order.     *)
Stored  == {k \in Keys : record[k] # NoRecord}
Present == {StateKey[k] : k \in Stored} \cup {LockKey[k] : k \in lock}

(* ListStates begins.                                                       *)
ListBegin(h) ==
    /\ Ready(h)
    /\ host' = [host EXCEPT ![h] = [Idle EXCEPT !.pc = "list", !.more = TRUE, !.steady = Stored]]
    /\ UNCHANGED <<configured, lock, owner, record, problems>>

(* Mutant: IsTruncated is ignored.                                          *)
ListPage_FirstOnly(h) ==
    LET left == {n \in Present : n > host[h].token} IN
    /\ At(h, "list") /\ host[h].todo = {} /\ host[h].more
    /\ \E last \in left \cup {host[h].token} :
          LET page == {n \in left : n <= last} IN
          /\ Cardinality(page) <= PageSize /\ (page = left \/ Cardinality(page) = PageSize)
          /\ host' = [host EXCEPT ![h].todo = {k \in Stored : StateKey[k] \in page},
                                  ![h].token = last, ![h].more = FALSE]
    /\ UNCHANGED <<configured, lock, owner, record, problems>>

(* ListObjectsV2: the next objects in order, state and lock objects alike,  *)
(* after those of the page before, PageSize of them at most; IsTruncated    *)
(* says whether there are more.  Lock objects are passed over.              *)
ListPage(h) ==
    LET left == {n \in Present : n > host[h].token} IN
    /\ At(h, "list") /\ host[h].todo = {} /\ host[h].more
    /\ \E last \in left \cup {host[h].token} :
          LET page == {n \in left : n <= last} IN
          /\ Cardinality(page) <= PageSize /\ (page = left \/ Cardinality(page) = PageSize)
          /\ host' = [host EXCEPT ![h].todo = {k \in Stored : StateKey[k] \in page},
                                  ![h].token = last, ![h].more = \E n \in left : n > last]
    /\ UNCHANGED <<configured, lock, owner, record, problems>>

(* The next object of the page; one that is gone or cannot be read is       *)
(* skipped.                                                                 *)
ListGet(h, k) ==
    /\ At(h, "list")
    /\ k \in host[h].todo /\ \A j \in host[h].todo : StateKey[k] <= StateKey[j]
    /\ \/ /\ host' = [host EXCEPT ![h].todo = @ \ {k},
                                  ![h].got = @ \cup ({record[k]} \ {NoRecord})]
          /\ UNCHANGED problems
       \/ /\ Problem("unreadable")
          /\ host' = [host EXCEPT ![h].todo = @ \ {k}, ![h].steady = @ \ {k}]
    /\ UNCHANGED <<configured, lock, owner, record>>

Listed(h) == At(h, "list") /\ host[h].todo = {} /\ ~host[h].more

ListEnd(h) ==
    /\ Listed(h)
    /\ host' = [host EXCEPT ![h] = Idle]
    /\ UNCHANGED <<configured, lock, owner, record, problems>>

(* A request fails for good: every call returns its error at once.  The     *)
(* host still unlocks what it locked, but has no answer to a failed Unlock. *)
(* Of a listing that is the request for a page, the first or a later one.   *)
CallError(h) ==
    /\ ~At(h, "idle")
    /\ At(h, "list") => host[h].todo = {} /\ host[h].more
    /\ Problem("error")
    /\ IF host[h].pc \in {"locked", "read", "delete"}
       THEN Goto(h, "done")
       ELSE host' = [host EXCEPT ![h] = Idle]
    /\ UNCHANGED <<configured, lock, owner, record>>

(* The host's process ends; its next one has to be configured again.        *)
Crash(h) ==
    /\ h \in configured
    /\ Problem("crash")
    /\ configured' = configured \ {h}
    /\ host' = [host EXCEPT ![h] = Idle]
    /\ UNCHANGED <<lock, owner, record>>

Step(h) ==
    \/ LockRetry(h) \/ GetState(h) \/ SaveState(h) \/ DeleteStateHead(h) \/ DeleteState(h)
    \/ UnlockHead(h) \/ UnlockDelete(h) \/ UnlockRetry(h)
    \/ ListPage(h) \/ ListEnd(h) \/ \E k \in Keys : ListGet(h, k)

Next ==
    \E h \in Hosts :
        \/ Configure(h) \/ Step(h) \/ CallError(h) \/ Crash(h) \/ ListBegin(h)
        \/ \E r \in Resources : Lock(h, r) \/ ForceUnlock(h, r)

Spec == Init /\ [][Next]_vars

(* Hosts go on with the calls they have begun.                              *)
Fairness == \A h \in Hosts : WF_vars(Step(h))

FairSpec == Spec /\ Fairness

-----------------------------------------------------------------------------

(* "Lock acquires an exclusive lock for the given resource ID": no two      *)
(* hosts work under the same lock, unless an answer to the DeleteObject of  *)
(* Unlock was lost or an operator unlocked by force.                        *)
MutualExclusion ==
    ~problems.unlock =>
        \A g, h \in Hosts : InSection(g) /\ InSection(h) /\ Key(g) = Key(h) => g = h

(* The record a host replaces or deletes is the one it read after locking,  *)
(* under the same condition: SaveState and DeleteState lose no other host's *)
(* update.                                                                  *)
NoLostUpdate ==
    [][~problems.unlock =>
         \A h \in Hosts : \A k \in Keys :
            record'[k] # record[k] /\ host'[h].pc # host[h].pc /\ Key(h) = k =>
                record[k] = host[h].seen]_vars

(* Why NoLostUpdate and MutualExclusion hold: a host between Lock and the   *)
(* end of Unlock made the lock object, and the record it read is current.   *)
OwnsLock ==
    \A h \in Hosts :
        /\ host[h].pc \in {"lock_retry", "locked", "read", "delete", "done", "unlock_delete"} =>
              Key(h) \in lock /\ owner[Key(h)] = h
        /\ host[h].pc # "unlock_retry"

SeenCurrent ==
    \A h \in Hosts : host[h].pc \in {"read", "delete"} => record[Key(h)] = host[h].seen

LockInv == TypeOK /\ (~problems.unlock => OwnsLock /\ SeenCurrent)

(* "Pass a nil or empty map to return all records": when ListStates is      *)
(* about to return, it has a record for every key that had a readable one   *)
(* all along, and none twice, although records are saved and deleted, and   *)
(* lock objects come and go, between its pages.                             *)
ListComplete ==
    \A h \in Hosts : Listed(h) =>
        /\ \A k \in host[h].steady : \E o \in host[h].got : SanitizeID[o.id] = k
        /\ \A o, u \in host[h].got : SanitizeID[o.id] = SanitizeID[u.id] => o = u

(* Every lock object that Lock makes is deleted again by Unlock, unless a   *)
(* process or a request fails on the way.                                   *)
LocksAreReleased ==
    \A k \in Keys : k \in lock ~> k \notin lock \/ problems.count > 0

=============================================================================
