------------------------- MODULE SpacesState_proofs -------------------------
(***************************************************************************)
(* The lock of the Spaces state backend excludes other hosts and so         *)
(* protects the records, for any number of hosts, resources, keys, crashes, *)
(* errors and lost answers to Lock, as long as no answer to the             *)
(* DeleteObject of Unlock is lost and nobody unlocks by force.              *)
(*                                                                          *)
(* A listing misses no record that was there, and readable, throughout it,  *)
(* and has none twice, whatever is written between its pages.               *)
(*                                                                          *)
(* Each action has a lemma about the calls it leaves behind (from the types *)
(* alone) and one about the lock (from Sound).                              *)
(***************************************************************************)
EXTENDS SpacesState, TLAPS

(* What holds while every Unlock was safe.                                  *)
Sound == TypeOK /\ OwnsLock /\ SeenCurrent

ProblemStates == [count : 0..MaxProblems, unlock : BOOLEAN]

LEMMA NoRecordType == NoRecord \in Objects
  BY StateAssumption DEF NoRecord, Objects

LEMMA IdleType == Idle \in HostStates /\ Idle.pc = "idle"
  <1>1. (CHOOSE r \in Resources : TRUE) \in Resources
    BY StateAssumption
  <1> QED
    BY <1>1, NoRecordType DEF Idle, HostStates, PCs

LEMMA InitLock == Init => Sound
  <1>1. Init => [count |-> 0, unlock |-> FALSE] \in ProblemStates
    BY StateAssumption DEF ProblemStates
  <1> QED
    BY <1>1, NoRecordType, IdleType DEF Init, Sound, ProblemStates, TypeOK, OwnsLock, SeenCurrent

(* What one host's call needs of another's.                                 *)
LEMMA HostFacts ==
  ASSUME TypeOK, NEW h \in Hosts
  PROVE  /\ host[h] \in HostStates /\ host[h].r \in Resources /\ Key(h) \in Keys
         /\ host[h].seen \in Objects /\ record[Key(h)] \in Objects
  BY StateAssumption DEF TypeOK, HostStates, Key

(* A step of h leaves the others' calls, their locks and the records they   *)
(* hold locked as they are.                                                 *)
Local(h) ==
    /\ \A g \in Hosts \ {h} : /\ host'[g].pc = host[g].pc /\ host'[g].r = host[g].r
                              /\ host'[g].seen = host[g].seen
    /\ \A k \in Keys : k \in lock /\ owner[k] # h => k \in lock' /\ owner'[k] = owner[k]
    /\ \A k \in Keys : record'[k] # record[k] => k \in lock /\ owner[k] = h

(* What h's own call must still satisfy.                                    *)
Own(h) ==
    /\ host'[h].pc \in {"lock_retry", "locked", "read", "delete", "done", "unlock_delete"} =>
          SanitizeID[host'[h].r] \in lock' /\ owner'[SanitizeID[host'[h].r]] = h
    /\ host'[h].pc # "unlock_retry"
    /\ host'[h].pc \in {"read", "delete"} => record'[SanitizeID[host'[h].r]] = host'[h].seen

LEMMA LocalGivesInv ==
  ASSUME Sound, TypeOK', NEW h \in Hosts, Local(h), Own(h)
  PROVE  Sound'
  <1>1. OwnsLock'
    <2> SUFFICES ASSUME NEW g \in Hosts
                 PROVE  /\ host'[g].pc \in {"lock_retry", "locked", "read", "delete", "done", "unlock_delete"} =>
                              SanitizeID[host'[g].r] \in lock' /\ owner'[SanitizeID[host'[g].r]] = g
                        /\ host'[g].pc # "unlock_retry"
      BY DEF OwnsLock, Key
    <2>1. CASE g = h
      BY <2>1 DEF Own
    <2>2. CASE g # h
      <3>1. SanitizeID[host[g].r] \in Keys
        BY HostFacts DEF Key, Sound
      <3>2. /\ host[g].pc \in {"lock_retry", "locked", "read", "delete", "done", "unlock_delete"} =>
                  SanitizeID[host[g].r] \in lock /\ owner[SanitizeID[host[g].r]] = g
            /\ host[g].pc # "unlock_retry"
        BY DEF Sound, OwnsLock, Key
      <3> QED
        BY <2>2, <3>1, <3>2 DEF Local
    <2> QED
      BY <2>1, <2>2
  <1>2. SeenCurrent'
    <2> SUFFICES ASSUME NEW g \in Hosts, host'[g].pc \in {"read", "delete"}
                 PROVE  record'[SanitizeID[host'[g].r]] = host'[g].seen
      BY DEF SeenCurrent, Key
    <2>1. CASE g = h
      BY <2>1 DEF Own
    <2>2. CASE g # h
      <3>1. SanitizeID[host[g].r] \in Keys
        BY HostFacts DEF Key, Sound
      <3>2. host[g].pc \in {"read", "delete"} =>
              /\ owner[SanitizeID[host[g].r]] = g
              /\ record[SanitizeID[host[g].r]] = host[g].seen
        BY DEF Sound, OwnsLock, SeenCurrent, Key
      <3> QED
        BY <2>2, <3>1, <3>2 DEF Local
    <2> QED
      BY <2>1, <2>2
  <1> QED
    BY <1>1, <1>2 DEF Sound

(* Only h's call changes.                                                   *)
Only(h) ==
    /\ host' \in [Hosts -> HostStates]
    /\ \A g \in Hosts \ {h} : host'[g] = host[g]

LEMMA SetHost ==
  ASSUME TypeOK, NEW h \in Hosts, NEW c \in HostStates, host' = [host EXCEPT ![h] = c]
  PROVE  Only(h) /\ host'[h] = c
  BY DEF TypeOK, Only

LEMMA GotoHost ==
  ASSUME TypeOK, NEW h \in Hosts, NEW pc \in PCs, Goto(h, pc)
  PROVE  /\ Only(h)
         /\ host'[h].pc = pc /\ host'[h].r = host[h].r /\ host'[h].seen = host[h].seen
  BY HostFacts DEF TypeOK, HostStates, Goto, Only

LEMMA ProblemType ==
  ASSUME TypeOK, NEW kind, Problem(kind)
  PROVE  /\ problems' \in ProblemStates
         /\ problems.unlock => problems'.unlock
         /\ kind \in {"lost_unlock", "force"} => problems'.unlock
  <1>1. problems.count \in 0..MaxProblems /\ problems.unlock \in BOOLEAN
    BY DEF TypeOK
  <1>2. problems.count + 1 \in 0..MaxProblems
    BY <1>1, StateAssumption DEF Problem
  <1>3. (problems.unlock \/ kind \in {"lost_unlock", "force"}) \in BOOLEAN
    OBVIOUS
  <1> QED
    BY <1>1, <1>2, <1>3 DEF Problem, ProblemStates

(* Where a listing is.                                                      *)
SameList(g) == /\ host'[g].token = host[g].token /\ host'[g].more = host[g].more
               /\ host'[g].todo = host[g].todo /\ host'[g].got = host[g].got

(* Nothing but calls and problems changes.                                  *)
LEMMA CallsType ==
  ASSUME TypeOK, NEW h \in Hosts, Only(h), problems' \in ProblemStates,
         configured' \in SUBSET Hosts, UNCHANGED <<lock, owner, record>>
  PROVE  TypeOK'
  BY DEF TypeOK, Only, ProblemStates

LEMMA SameProblems ==
  ASSUME TypeOK, UNCHANGED problems
  PROVE  problems' \in ProblemStates
  BY DEF TypeOK, ProblemStates

LEMMA ConfigureType ==
  ASSUME TypeOK, NEW h \in Hosts, Configure(h)
  PROVE  TypeOK'
  BY DEF Configure, TypeOK

LEMMA ConfigureStep ==
  ASSUME Sound, NEW h \in Hosts, Configure(h)
  PROVE  Sound'
  BY ConfigureType DEF Configure, Sound, OwnsLock, SeenCurrent, Key

LEMMA LockType ==
  ASSUME TypeOK, NEW h \in Hosts, NEW r \in Resources, Lock(h, r)
  PROVE  /\ TypeOK' /\ Only(h) /\ SanitizeID[r] \in Keys
         /\ host'[h].pc \in {"locked", "lock_retry"} /\ host'[h].r = r
  <1>1. SanitizeID[r] \in Keys
    BY StateAssumption
  <1>2. PICK pc \in {"locked", "lock_retry"} :
           host' = [host EXCEPT ![h] = [Idle EXCEPT !.pc = pc, !.r = r]]
    BY DEF Lock
  <1>3. [Idle EXCEPT !.pc = pc, !.r = r] \in HostStates
    BY <1>2, IdleType DEF HostStates, PCs
  <1>4. [Idle EXCEPT !.pc = pc, !.r = r].pc = pc /\ [Idle EXCEPT !.pc = pc, !.r = r].r = r
    BY IdleType DEF HostStates
  <1>5. Only(h) /\ host'[h].pc = pc /\ host'[h].r = r
    BY <1>2, <1>3, <1>4, SetHost
  <1>6. problems' \in ProblemStates
    BY ProblemType, SameProblems DEF Lock
  <1>7. TypeOK'
    BY <1>1, <1>5, <1>6 DEF Lock, TypeOK, Only, ProblemStates
  <1> QED
    BY <1>1, <1>2, <1>5, <1>7

LEMMA LockStep ==
  ASSUME Sound, NEW h \in Hosts, NEW r \in Resources, Lock(h, r)
  PROVE  Sound'
  <1>1. /\ TypeOK /\ TypeOK' /\ Only(h) /\ SanitizeID[r] \in Keys
        /\ host'[h].pc \in {"locked", "lock_retry"} /\ host'[h].r = r
    BY LockType DEF Sound
  <1>2. Local(h)
    BY <1>1 DEF Lock, Local, TypeOK, Only
  <1>3. Own(h)
    BY <1>1 DEF Lock, Own, TypeOK
  <1> QED
    BY <1>1, <1>2, <1>3, LocalGivesInv

LEMMA LockRetryType ==
  ASSUME TypeOK, NEW h \in Hosts, LockRetry(h)
  PROVE  TypeOK'
  <1>1. CASE Key(h) \in lock
    <2>1. Only(h) /\ UNCHANGED <<configured, lock, owner, record, problems>>
      BY <1>1, IdleType, SetHost DEF LockRetry
    <2> QED
      BY <2>1, SameProblems, CallsType DEF TypeOK
  <1>2. CASE Key(h) \notin lock
    <2>1. Only(h)
      BY <1>2, GotoHost DEF LockRetry, PCs
    <2> QED
      BY <1>2, <2>1, HostFacts DEF LockRetry, TypeOK, Only
  <1> QED
    BY <1>1, <1>2

LEMMA LockRetryStep ==
  ASSUME Sound, NEW h \in Hosts, LockRetry(h)
  PROVE  Sound'
  <1>1. Key(h) \in lock
    BY DEF LockRetry, At, Sound, OwnsLock
  <1>2. host' = [host EXCEPT ![h] = Idle] /\ UNCHANGED <<lock, owner>>
    BY <1>1 DEF LockRetry
  <1>3. Only(h) /\ host'[h].pc = "idle"
    BY <1>2, IdleType, SetHost DEF Sound
  <1>4. Local(h) /\ Own(h)
    BY <1>2, <1>3 DEF LockRetry, Local, Own, Only
  <1> QED
    BY <1>4, LockRetryType, LocalGivesInv DEF Sound

LEMMA GetStateType ==
  ASSUME TypeOK, NEW h \in Hosts, GetState(h)
  PROVE  /\ TypeOK' /\ Only(h)
         /\ host'[h].pc = "read" /\ host'[h].r = host[h].r /\ host'[h].seen = record[Key(h)]
  <1> DEFINE c == [host[h] EXCEPT !.pc = "read", !.seen = record[Key(h)]]
  <1>1. c \in HostStates /\ c.pc = "read" /\ c.r = host[h].r /\ c.seen = record[Key(h)]
    BY HostFacts DEF HostStates, PCs
  <1>2. host' = [host EXCEPT ![h] = c]
    BY DEF GetState, TypeOK
  <1> HIDE DEF c
  <1>3. Only(h) /\ host'[h] = c
    BY <1>1, <1>2, SetHost
  <1>4. TypeOK'
    BY <1>3 DEF GetState, TypeOK, Only
  <1> QED
    BY <1>1, <1>3, <1>4

LEMMA GetStateStep ==
  ASSUME Sound, NEW h \in Hosts, GetState(h)
  PROVE  Sound'
  <1>1. /\ TypeOK' /\ Only(h)
        /\ host'[h].pc = "read" /\ host'[h].r = host[h].r /\ host'[h].seen = record[Key(h)]
    BY GetStateType DEF Sound
  <1>2. Local(h)
    BY <1>1 DEF GetState, Local, Only
  <1>3. Own(h)
    BY <1>1 DEF GetState, Own, At, Sound, OwnsLock, Key
  <1> QED
    BY <1>1, <1>2, <1>3, LocalGivesInv

(* SaveState and DeleteState change the record of the locked key; only a    *)
(* deletion matters to the listings.                                        *)
Write(h, o) ==
    /\ host[h].pc \in {"read", "delete"}
    /\ record' = [record EXCEPT ![Key(h)] = o]
    /\ \/ o # NoRecord /\ SanitizeID[o.id] = Key(h) /\ Goto(h, "done")
       \/ o = NoRecord /\ host' = Unsteady(Key(h), [host EXCEPT ![h].pc = "done"])
    /\ UNCHANGED <<configured, lock, owner, problems>>

LEMMA WriteType ==
  ASSUME TypeOK, NEW h \in Hosts, NEW o \in Objects, Write(h, o)
  PROVE  /\ TypeOK' /\ host'[h].pc = "done" /\ host'[h].r = host[h].r
         /\ \A g \in Hosts \ {h} : /\ host'[g].pc = host[g].pc /\ host'[g].r = host[g].r
                                   /\ host'[g].seen = host[g].seen /\ SameList(g)
                                   /\ host'[g].steady \subseteq host[g].steady
                                   /\ o = NoRecord => Key(h) \notin host'[g].steady
  <1> DEFINE hs == [host EXCEPT ![h].pc = "done"]
  <1>1. /\ hs \in [Hosts -> HostStates]
        /\ hs[h].pc = "done" /\ hs[h].r = host[h].r
        /\ \A g \in Hosts \ {h} : hs[g] = host[g]
    BY HostFacts DEF TypeOK, HostStates, PCs
  <1>2. \/ o # NoRecord /\ host' = hs
        \/ o = NoRecord /\ host' = [g \in Hosts |-> [hs[g] EXCEPT !.steady = @ \ {Key(h)}]]
    BY DEF Write, Unsteady, Goto
  <1> HIDE DEF hs
  <1>3. ASSUME NEW c \in HostStates
        PROVE  LET e == [c EXCEPT !.steady = @ \ {Key(h)}]
               IN  /\ e \in HostStates /\ e.pc = c.pc /\ e.r = c.r /\ e.seen = c.seen
                   /\ e.token = c.token /\ e.more = c.more /\ e.todo = c.todo /\ e.got = c.got
                   /\ e.steady = c.steady \ {Key(h)}
    BY DEF HostStates
  <1>4. \A g \in Hosts : hs[g] \in HostStates
    BY <1>1
  <1>5. ASSUME NEW g \in Hosts
        PROVE  /\ host'[g] \in HostStates /\ host'[g].pc = hs[g].pc
               /\ host'[g].r = hs[g].r /\ host'[g].seen = hs[g].seen
               /\ host'[g].token = hs[g].token /\ host'[g].more = hs[g].more
               /\ host'[g].todo = hs[g].todo /\ host'[g].got = hs[g].got
               /\ host'[g].steady \subseteq hs[g].steady
               /\ o = NoRecord => Key(h) \notin host'[g].steady
    <2>1. CASE host' = hs /\ o # NoRecord
      BY <1>4, <2>1
    <2>2. CASE host' = [f \in Hosts |-> [hs[f] EXCEPT !.steady = @ \ {Key(h)}]]
      <3>1. host'[g] = [hs[g] EXCEPT !.steady = @ \ {Key(h)}]
        BY <2>2
      <3> QED
        BY <1>3, <1>4, <3>1
    <2> QED
      BY <1>2, <2>1, <2>2
  <1>6. host' \in [Hosts -> HostStates]
    BY <1>1, <1>2, <1>5
  <1>7. TypeOK'
    BY <1>6, HostFacts DEF Write, TypeOK
  <1> QED
    BY <1>1, <1>5, <1>7 DEF SameList

LEMMA WriteStep ==
  ASSUME Sound, NEW h \in Hosts, NEW o \in Objects, Write(h, o)
  PROVE  Sound'
  <1>1. /\ TypeOK /\ TypeOK' /\ host'[h].pc = "done" /\ host'[h].r = host[h].r
        /\ \A g \in Hosts \ {h} : /\ host'[g].pc = host[g].pc /\ host'[g].r = host[g].r
                                  /\ host'[g].seen = host[g].seen
    BY WriteType DEF Sound
  <1>2. Key(h) \in lock /\ owner[Key(h)] = h
    BY DEF Write, Sound, OwnsLock
  <1>3. Local(h)
    BY <1>1, <1>2, HostFacts DEF Write, Local, TypeOK
  <1>4. Own(h)
    BY <1>1, <1>2 DEF Write, Own, Key
  <1> QED
    BY <1>1, <1>3, <1>4, LocalGivesInv

LEMMA SaveIsWrite ==
  ASSUME TypeOK, NEW h \in Hosts, SaveState(h) \/ DeleteState(h)
  PROVE  \E o \in Objects : Write(h, o)
  <1>1. CASE SaveState(h)
    <2> DEFINE o == [id |-> host[h].r, version |-> host[h].seen.version + 1]
    <2>1. o \in Objects /\ o # NoRecord /\ SanitizeID[o.id] = Key(h)
      BY <1>1, HostFacts, StateAssumption DEF SaveState, Objects, NoRecord, Key
    <2>2. Write(h, o)
      BY <1>1, <2>1 DEF SaveState, At, Write
    <2> QED
      BY <2>1, <2>2
  <1>2. CASE DeleteState(h)
    BY <1>2, NoRecordType DEF DeleteState, At, Write
  <1> QED
    BY <1>1, <1>2

LEMMA HeadType ==
  ASSUME TypeOK, NEW h \in Hosts, DeleteStateHead(h) \/ UnlockHead(h)
  PROVE  TypeOK'
  <1>1. UNCHANGED <<configured, lock, owner, record, problems>>
    BY DEF DeleteStateHead, UnlockHead
  <1>2. (\E pc \in PCs : Goto(h, pc)) \/ host' = [host EXCEPT ![h] = Idle]
    BY DEF DeleteStateHead, UnlockHead, PCs
  <1>3. Only(h)
    BY <1>2, GotoHost, SetHost, IdleType
  <1> QED
    BY <1>1, <1>3, SameProblems, CallsType DEF TypeOK

LEMMA HeadStep ==
  ASSUME Sound, NEW h \in Hosts, DeleteStateHead(h) \/ UnlockHead(h)
  PROVE  Sound'
  <1>0. UNCHANGED <<configured, lock, owner, record, problems>>
    BY DEF DeleteStateHead, UnlockHead
  <1>1. Key(h) \in lock /\ owner[Key(h)] = h
    BY DEF DeleteStateHead, UnlockHead, At, Sound, OwnsLock
  <1>2. PICK pc \in {"done", "delete", "unlock_delete"} :
          Goto(h, pc) /\ (pc = "delete" => At(h, "read"))
    BY <1>1 DEF DeleteStateHead, UnlockHead
  <1>3. /\ Only(h)
        /\ host'[h].pc = pc /\ host'[h].r = host[h].r /\ host'[h].seen = host[h].seen
    BY <1>2, GotoHost DEF PCs, Sound
  <1>4. Local(h)
    BY <1>0, <1>3 DEF Local, Only
  <1>5. Own(h)
    BY <1>0, <1>1, <1>2, <1>3 DEF Own, Key, At, Sound, SeenCurrent
  <1> QED
    BY <1>4, <1>5, HeadType, LocalGivesInv DEF Sound

LEMMA UnlockType ==
  ASSUME TypeOK, NEW h \in Hosts, UnlockDelete(h) \/ UnlockRetry(h)
  PROVE  TypeOK'
  <1>1. Only(h)
    BY GotoHost, SetHost, IdleType DEF UnlockDelete, UnlockRetry, PCs
  <1>2. problems' \in ProblemStates
    BY ProblemType, SameProblems DEF UnlockDelete, UnlockRetry
  <1> QED
    BY <1>1, <1>2 DEF UnlockDelete, UnlockRetry, TypeOK, Only, ProblemStates

LEMMA UnlockDeleteStep ==
  ASSUME Sound, ~problems'.unlock, NEW h \in Hosts, UnlockDelete(h)
  PROVE  Sound'
  <1>1. host' = [host EXCEPT ![h] = Idle]
    BY ProblemType DEF UnlockDelete, Sound
  <1>2. Only(h) /\ host'[h].pc = "idle"
    BY <1>1, IdleType, SetHost DEF Sound
  <1>3. owner[Key(h)] = h
    BY DEF UnlockDelete, At, Sound, OwnsLock
  <1>4. Local(h) /\ Own(h)
    BY <1>2, <1>3 DEF UnlockDelete, Local, Own, Only
  <1> QED
    BY <1>4, UnlockType, LocalGivesInv DEF Sound

LEMMA ForceType ==
  ASSUME TypeOK, NEW h \in Hosts, NEW r \in Resources, ForceUnlock(h, r)
  PROVE  TypeOK' /\ problems'.unlock
  <1> DEFINE c == [Idle EXCEPT !.pc = "unlock_delete", !.r = r]
  <1>1. c \in HostStates
    BY IdleType DEF HostStates, PCs
  <1>2. host' = [host EXCEPT ![h] = c]
    BY DEF ForceUnlock
  <1> HIDE DEF c
  <1>3. Only(h)
    BY <1>1, <1>2, SetHost
  <1>4. problems' \in ProblemStates /\ problems'.unlock
    BY ProblemType DEF ForceUnlock
  <1> QED
    BY <1>3, <1>4, CallsType DEF ForceUnlock, TypeOK

(* Listings hold no lock.                                                   *)
ListAction(h) ==
    ListBegin(h) \/ ListPage(h) \/ ListEnd(h) \/ \E k \in Keys : ListGet(h, k)

(* What the next page leaves: the token is further on, and what was in the  *)
(* bucket after the old one is on the page or after the new one.            *)
LEMMA PageFacts ==
  ASSUME TypeOK, NEW h \in Hosts, ListPage(h)
  PROVE  \E last \in Nat, page \in SUBSET Keys, more \in BOOLEAN :
            /\ host' = [host EXCEPT ![h].todo = page, ![h].token = last, ![h].more = more]
            /\ host[h].token <= last
            /\ \A k \in page : host[h].token < StateKey[k] /\ StateKey[k] <= last
            /\ \A k \in Stored : StateKey[k] > host[h].token => k \in page \/ (more /\ StateKey[k] > last)
  <1> DEFINE left == {n \in Present : n > host[h].token}
  <1>1. PICK last \in left \cup {host[h].token} :
           host' = [host EXCEPT ![h].todo = {k \in Stored : StateKey[k] \in {n \in left : n <= last}},
                                ![h].token = last, ![h].more = \E n \in left : n > last]
    BY DEF ListPage
  <1>2. PICK page : page = {k \in Stored : StateKey[k] \in {n \in left : n <= last}}
    OBVIOUS
  <1>3. PICK more \in BOOLEAN : more = (\E n \in left : n > last)
    OBVIOUS
  <1>4. Present \subseteq Nat /\ host[h].token \in Nat
    BY StateAssumption, HostFacts DEF Present, Stored, TypeOK, HostStates
  <1>5. last \in Nat /\ host[h].token <= last
    BY <1>4
  <1>6. host' = [host EXCEPT ![h].todo = page, ![h].token = last, ![h].more = more]
    BY <1>1, <1>2, <1>3
  <1>7. page \in SUBSET Keys /\ \A k \in page : host[h].token < StateKey[k] /\ StateKey[k] <= last
    BY <1>2, <1>4, <1>5 DEF Stored
  <1>8. ASSUME NEW k \in Stored, StateKey[k] > host[h].token
        PROVE  k \in page \/ (more /\ StateKey[k] > last)
    <2>1. StateKey[k] \in left
      BY <1>8 DEF Present
    <2>2. StateKey[k] \in Nat
      BY <1>4, <2>1
    <2> QED
      BY <1>2, <1>3, <1>5, <2>1, <2>2
  <1> QED
    BY <1>5, <1>6, <1>7, <1>8

LEMMA ListType ==
  ASSUME TypeOK, NEW h \in Hosts, ListAction(h)
  PROVE  /\ TypeOK' /\ Only(h) /\ host'[h].pc \in {"idle", "list"}
         /\ UNCHANGED <<lock, owner, record>>
  <1>0. UNCHANGED <<configured, lock, owner, record>>
    BY DEF ListAction, ListBegin, ListPage, ListEnd, ListGet
  <1>1. Only(h) /\ host'[h].pc \in {"idle", "list"}
    <2>0. host[h] \in HostStates
      BY HostFacts
    <2>1. CASE ListBegin(h)
      <3> DEFINE c == [Idle EXCEPT !.pc = "list", !.more = TRUE, !.steady = Stored]
      <3>1. c \in HostStates /\ c.pc = "list"
        BY IdleType DEF HostStates, PCs, Stored
      <3>2. host' = [host EXCEPT ![h] = c]
        BY <2>1 DEF ListBegin
      <3> HIDE DEF c
      <3> QED BY <3>1, <3>2, SetHost
    <2>2. CASE ListEnd(h)
      BY <2>2, IdleType, SetHost DEF ListEnd
    <2>3. CASE ListPage(h)
      <3>1. PICK last \in Nat, page \in SUBSET Keys, more \in BOOLEAN :
               host' = [host EXCEPT ![h].todo = page, ![h].token = last, ![h].more = more]
        BY <2>3, PageFacts
      <3> DEFINE c == [host[h] EXCEPT !.todo = page, !.token = last, !.more = more]
      <3>2. c \in HostStates /\ c.pc = "list"
        BY <2>0, <2>3 DEF HostStates, ListPage, At
      <3>3. host' = [host EXCEPT ![h] = c]
        BY <3>1 DEF TypeOK
      <3> HIDE DEF c
      <3> QED BY <3>2, <3>3, SetHost
    <2>4. ASSUME NEW k \in Keys, ListGet(h, k)
          PROVE  Only(h) /\ host'[h].pc \in {"idle", "list"}
      <3>0. host[h].pc = "list"
        BY <2>4 DEF ListGet, At
      <3>1. CASE host' = [host EXCEPT ![h].todo = @ \ {k}, ![h].got = @ \cup ({record[k]} \ {NoRecord})]
        <4> DEFINE c == [host[h] EXCEPT !.todo = @ \ {k}, !.got = @ \cup ({record[k]} \ {NoRecord})]
        <4>1. record[k] \in Objects
          BY DEF TypeOK
        <4>2. c \in HostStates /\ c.pc = "list"
          BY <2>0, <3>0, <4>1 DEF HostStates
        <4>3. host' = [host EXCEPT ![h] = c]
          BY <3>1 DEF TypeOK
        <4> HIDE DEF c
        <4> QED
          BY <4>2, <4>3, SetHost
      <3>2. CASE host' = [host EXCEPT ![h].todo = @ \ {k}, ![h].steady = @ \ {k}]
        <4> DEFINE c == [host[h] EXCEPT !.todo = @ \ {k}, !.steady = @ \ {k}]
        <4>1. c \in HostStates /\ c.pc = "list"
          BY <2>0, <3>0 DEF HostStates
        <4>2. host' = [host EXCEPT ![h] = c]
          BY <3>2 DEF TypeOK
        <4> HIDE DEF c
        <4> QED
          BY <4>1, <4>2, SetHost
      <3> QED
        BY <2>4, <3>1, <3>2 DEF ListGet
    <2> QED
      BY <2>1, <2>2, <2>3, <2>4 DEF ListAction
  <1>2. problems' \in ProblemStates
    BY ProblemType, SameProblems DEF ListAction, ListBegin, ListPage, ListEnd, ListGet
  <1>3. TypeOK'
    BY <1>0, <1>1, <1>2, CallsType DEF TypeOK
  <1> QED
    BY <1>0, <1>1, <1>3

LEMMA ListStep ==
  ASSUME Sound, NEW h \in Hosts, ListAction(h)
  PROVE  Sound'
  <1>1. /\ TypeOK' /\ Only(h) /\ host'[h].pc \in {"idle", "list"}
        /\ UNCHANGED <<lock, owner, record>>
    BY ListType DEF Sound
  <1>2. Local(h) /\ Own(h)
    BY <1>1 DEF Local, Own, Only
  <1> QED
    BY <1>1, <1>2, LocalGivesInv

LEMMA ErrorType ==
  ASSUME TypeOK, NEW h \in Hosts, CallError(h)
  PROVE  /\ TypeOK' /\ Only(h)
         /\ host'[h].pc = "idle" \/ /\ host'[h].pc = "done" /\ host'[h].r = host[h].r
                                    /\ host[h].pc \in {"locked", "read", "delete"}
  <1>1. CASE host[h].pc \in {"locked", "read", "delete"}
    <2>1. Only(h) /\ host'[h].pc = "done" /\ host'[h].r = host[h].r
      BY <1>1, GotoHost DEF CallError, PCs
    <2> QED
      BY <1>1, <2>1, ProblemType, CallsType DEF CallError, TypeOK
  <1>2. CASE host[h].pc \notin {"locked", "read", "delete"}
    <2>1. Only(h) /\ host'[h].pc = "idle"
      BY <1>2, IdleType, SetHost DEF CallError
    <2> QED
      BY <2>1, ProblemType, CallsType DEF CallError, TypeOK
  <1> QED
    BY <1>1, <1>2

LEMMA ErrorStep ==
  ASSUME Sound, NEW h \in Hosts, CallError(h)
  PROVE  Sound'
  <1>1. /\ TypeOK' /\ Only(h)
        /\ host'[h].pc = "idle" \/ /\ host'[h].pc = "done" /\ host'[h].r = host[h].r
                                   /\ host[h].pc \in {"locked", "read", "delete"}
    BY ErrorType DEF Sound
  <1>2. Local(h)
    BY <1>1 DEF CallError, Local, Only
  <1>3. Own(h)
    BY <1>1 DEF CallError, Own, Sound, OwnsLock, Key
  <1> QED
    BY <1>1, <1>2, <1>3, LocalGivesInv

LEMMA CrashType ==
  ASSUME TypeOK, NEW h \in Hosts, Crash(h)
  PROVE  TypeOK' /\ Only(h) /\ host'[h].pc = "idle"
  <1>1. Only(h) /\ host'[h].pc = "idle"
    BY IdleType, SetHost DEF Crash
  <1>2. TypeOK'
    BY <1>1, ProblemType, CallsType DEF Crash, TypeOK
  <1> QED
    BY <1>1, <1>2

LEMMA CrashStep ==
  ASSUME Sound, NEW h \in Hosts, Crash(h)
  PROVE  Sound'
  <1>1. TypeOK' /\ Only(h) /\ host'[h].pc = "idle"
    BY CrashType DEF Sound
  <1>2. Local(h) /\ Own(h)
    BY <1>1 DEF Crash, Local, Own, Only
  <1> QED
    BY <1>1, <1>2, LocalGivesInv

LEMMA TypeNext ==
  ASSUME TypeOK, [Next]_vars
  PROVE  TypeOK'
  <1>1. CASE UNCHANGED vars
    BY <1>1 DEF vars, TypeOK
  <1>2. ASSUME NEW h \in Hosts, Step(h) PROVE TypeOK'
    BY <1>2, LockRetryType, GetStateType, SaveIsWrite, WriteType, HeadType, UnlockType, ListType
       DEF Step, ListAction
  <1>3. ASSUME NEW h \in Hosts, NEW r \in Resources, Lock(h, r) \/ ForceUnlock(h, r) PROVE TypeOK'
    BY <1>3, LockType, ForceType
  <1> QED
    BY <1>1, <1>2, <1>3, ConfigureType, ErrorType, CrashType, ListType DEF Next, ListAction

(* A step after which every Unlock is still safe.                           *)
LEMMA SoundNext ==
  ASSUME Sound, ~problems'.unlock, [Next]_vars
  PROVE  Sound'
  <1>1. CASE UNCHANGED vars
    BY <1>1 DEF vars, Sound, TypeOK, OwnsLock, SeenCurrent, Key
  <1>2. ASSUME NEW h \in Hosts, Step(h) PROVE Sound'
    <2>1. ~UnlockRetry(h)
      BY DEF UnlockRetry, At, Sound, OwnsLock
    <2>2. SaveState(h) \/ DeleteState(h) => Sound'
      BY SaveIsWrite, WriteStep DEF Sound
    <2> QED
      BY <1>2, <2>1, <2>2, LockRetryStep, GetStateStep, HeadStep, UnlockDeleteStep, ListStep
         DEF Step, ListAction
  <1>3. ASSUME NEW h \in Hosts, NEW r \in Resources, Lock(h, r) \/ ForceUnlock(h, r) PROVE Sound'
    BY <1>3, LockStep, ForceType DEF Sound
  <1> QED
    BY <1>1, <1>2, <1>3, ConfigureStep, ErrorStep, CrashStep, ListStep DEF Next, ListAction

(* An unsafe Unlock is not forgotten.                                       *)
LEMMA UnlockStays ==
  ASSUME TypeOK, [Next]_vars, problems.unlock
  PROVE  problems'.unlock
  <1>1. \A kind : Problem(kind) => problems'.unlock
    BY ProblemType
  <1> QED
    BY <1>1, ZenonT(60) DEF Next, Step, vars, Configure, CallError, Crash, ListBegin, Lock, ForceUnlock, LockRetry,
                GetState, SaveState, DeleteState, DeleteStateHead, UnlockHead, UnlockDelete, UnlockRetry,
                ListPage, ListEnd, ListGet

(* The bucket and the hosts' calls keep their types, whatever happens.      *)
THEOREM StateTypes == Spec => []TypeOK
  <1>1. Init => TypeOK
    BY InitLock DEF Sound
  <1>2. TypeOK /\ [Next]_vars => TypeOK'
    BY TypeNext
  <1> QED
    BY <1>1, <1>2, PTL DEF Spec

(* As long as unlocking is safe, the lock objects and the records are as    *)
(* their holders left and read them.                                        *)
THEOREM LockInvariant == Spec => []LockInv
  <1>1. Init => LockInv
    BY InitLock DEF LockInv, Sound
  <1>2. LockInv /\ [Next]_vars => LockInv'
    <2> SUFFICES ASSUME LockInv, [Next]_vars PROVE LockInv'
      OBVIOUS
    <2>1. TypeOK'
      BY TypeNext DEF LockInv
    <2>2. ASSUME ~problems'.unlock PROVE OwnsLock' /\ SeenCurrent'
      <3>1. ~problems.unlock
        BY <2>2, UnlockStays DEF LockInv
      <3>2. Sound
        BY <3>1 DEF LockInv, Sound
      <3>3. Sound'
        BY <2>2, <3>2, SoundNext
      <3> QED
        BY <3>3 DEF Sound
    <2> QED
      BY <2>1, <2>2 DEF LockInv
  <1> QED
    BY <1>1, <1>2, PTL DEF Spec

(* Lock is exclusive: no two hosts work under the same lock.                *)
THEOREM LockExclusive == Spec => []MutualExclusion
  <1>1. LockInv => MutualExclusion
    BY DEF LockInv, OwnsLock, MutualExclusion, InSection
  <1> QED
    BY <1>1, LockInvariant, PTL

(* Under the lock, SaveState and DeleteState never replace a record other   *)
(* than the one that was read.                                              *)
THEOREM UpdatesKept == Spec => NoLostUpdate
  <1> DEFINE A == ~problems.unlock =>
                    \A h \in Hosts : \A k \in Keys :
                      record'[k] # record[k] /\ host'[h].pc # host[h].pc /\ Key(h) = k =>
                          record[k] = host[h].seen
  <1>1. LockInv /\ [Next]_vars => [A]_vars
    <2> SUFFICES ASSUME LockInv, Next, ~problems.unlock, NEW h \in Hosts,
                        record'[Key(h)] # record[Key(h)], host'[h].pc # host[h].pc
                 PROVE  record[Key(h)] = host[h].seen
      OBVIOUS
    <2>1. PICK g \in Hosts : SaveState(g) \/ DeleteState(g)
      BY DEF Next, Configure, Step, CallError, Crash, ListBegin, Lock, ForceUnlock, LockRetry, GetState,
             DeleteStateHead, UnlockHead, UnlockDelete, UnlockRetry, ListPage, ListEnd, ListGet
    <2>2. PICK o \in Objects : Write(g, o)
      BY <2>1, SaveIsWrite DEF LockInv
    <2>3. h = g
      BY <2>2, WriteType DEF LockInv
    <2> QED
      BY <2>2, <2>3 DEF LockInv, SeenCurrent, Write
  <1> QED
    BY <1>1, LockInvariant, PTL DEF Spec, NoLostUpdate

-----------------------------------------------------------------------------
(* Listings.  A key that has had a record all along is on the page that is  *)
(* being fetched, or after it, or its record has been fetched.              *)

(* A record is stored under the key of its own ID.                          *)
OwnRecords == \A k \in Keys : record[k] # NoRecord => SanitizeID[record[k].id] = k

(* Of a listing's call c: k is on the page, or after it, or fetched.        *)
InSight(c, k) ==
    \/ k \in c.todo
    \/ c.more /\ StateKey[k] > c.token
    \/ \E o \in c.got : SanitizeID[o.id] = k

(* What is fetched is behind the token and fetched once.                    *)
Pursuing(c) ==
    /\ \A k \in c.steady : InSight(c, k)
    /\ \A k \in c.todo : StateKey[k] <= c.token
    /\ \A o \in c.got : StateKey[SanitizeID[o.id]] <= c.token /\ SanitizeID[o.id] \notin c.todo
    /\ \A o, u \in c.got : SanitizeID[o.id] = SanitizeID[u.id] => o = u

Kept(h) == \A k \in host[h].steady : record[k] # NoRecord

ListInv ==
    /\ TypeOK /\ OwnRecords
    /\ \A h \in Hosts : At(h, "list") => Pursuing(host[h]) /\ Kept(h)

(* A step that fetches nothing.                                             *)
LEMMA NoFetchKeeps ==
  ASSUME ListInv, TypeOK', OwnRecords',
         \A g \in Hosts : host'[g].pc = "list" =>
            /\ host[g].pc = "list" /\ SameList(g) /\ host'[g].steady \subseteq host[g].steady
            /\ Kept(g)'
  PROVE  ListInv'
  <1> SUFFICES ASSUME NEW g \in Hosts, host'[g].pc = "list"
               PROVE  Pursuing(host'[g])
    BY DEF ListInv, At
  <1>1. Pursuing(host[g]) /\ SameList(g) /\ host'[g].steady \subseteq host[g].steady
    BY DEF ListInv, At
  <1> QED
    BY <1>1 DEF Pursuing, InSight, SameList

(* A step of h that is no listing's leaves the records and the listings.    *)
LEMMA CallNoList ==
  ASSUME TypeOK, NEW h \in Hosts,
         \/ LockRetry(h) \/ GetState(h) \/ DeleteStateHead(h) \/ UnlockHead(h) \/ UnlockDelete(h)
         \/ UnlockRetry(h) \/ ListEnd(h) \/ CallError(h) \/ Crash(h)
         \/ \E r \in Resources : Lock(h, r) \/ ForceUnlock(h, r)
  PROVE  record' = record /\ host'[h].pc # "list" /\ \A g \in Hosts \ {h} : host'[g] = host[g]
  <1>0. record' = record
    BY DEF LockRetry, GetState, DeleteStateHead, UnlockHead, UnlockDelete, UnlockRetry, ListEnd, CallError,
           Crash, Lock, ForceUnlock
  <1>1. \A pc \in PCs : Goto(h, pc) => host'[h].pc = pc /\ Only(h)
    BY GotoHost
  <1>2. host' = [host EXCEPT ![h] = Idle] => host'[h].pc = "idle" /\ Only(h)
    BY SetHost, IdleType
  <1>3. {"locked", "done", "delete", "unlock_delete", "unlock_retry"} \subseteq PCs
    BY DEF PCs
  <1>4. CASE LockRetry(h) \/ UnlockHead(h) \/ UnlockDelete(h) \/ UnlockRetry(h) \/ ListEnd(h) \/ CallError(h)
             \/ Crash(h) \/ DeleteStateHead(h)
    <2>1. \/ host' = [host EXCEPT ![h] = Idle]
          \/ \E pc \in {"locked", "done", "delete", "unlock_delete", "unlock_retry"} : Goto(h, pc)
      BY <1>4 DEF LockRetry, UnlockHead, UnlockDelete, UnlockRetry, ListEnd, CallError, Crash, DeleteStateHead
    <2> QED
      BY <1>0, <1>1, <1>2, <1>3, <2>1 DEF Only
  <1>5. CASE GetState(h)
    <2>1. host' = [host EXCEPT ![h].pc = "read", ![h].seen = record[Key(h)]]
      BY <1>5 DEF GetState
    <2>2. host'[h].pc = "read" /\ \A g \in Hosts \ {h} : host'[g] = host[g]
      BY <2>1, HostFacts DEF TypeOK, HostStates
    <2> QED
      BY <1>0, <2>2
  <1>6. ASSUME NEW r \in Resources, Lock(h, r) \/ ForceUnlock(h, r)
        PROVE  host'[h].pc # "list" /\ \A g \in Hosts \ {h} : host'[g] = host[g]
    <2>1. PICK pc \in {"locked", "lock_retry", "unlock_delete"} :
            host' = [host EXCEPT ![h] = [Idle EXCEPT !.pc = pc, !.r = r]]
      BY <1>6 DEF Lock, ForceUnlock
    <2>2. [Idle EXCEPT !.pc = pc, !.r = r].pc = pc
      BY IdleType DEF HostStates
    <2>3. host'[h] = [Idle EXCEPT !.pc = pc, !.r = r] /\ \A g \in Hosts \ {h} : host'[g] = host[g]
      BY <2>1 DEF TypeOK
    <2> QED
      BY <2>2, <2>3, SMTT(30)
  <1> QED
    BY <1>0, <1>4, <1>5, <1>6

(* What is deleted is owed to no listing; what is replaced is still there.  *)
LEMMA WriteList ==
  ASSUME ListInv, NEW h \in Hosts, NEW o \in Objects, Write(h, o)
  PROVE  ListInv'
  <1>1. /\ TypeOK /\ TypeOK' /\ host'[h].pc = "done" /\ Key(h) \in Keys
        /\ \A g \in Hosts \ {h} : /\ host'[g].pc = host[g].pc /\ SameList(g)
                                  /\ host'[g].steady \subseteq host[g].steady
                                  /\ o = NoRecord => Key(h) \notin host'[g].steady
    BY WriteType, HostFacts DEF ListInv
  <1>2. /\ record'[Key(h)] = o /\ \A k \in Keys \ {Key(h)} : record'[k] = record[k]
        /\ o # NoRecord => SanitizeID[o.id] = Key(h)
    BY <1>1 DEF Write, TypeOK
  <1>3. OwnRecords'
    BY <1>1, <1>2 DEF ListInv, OwnRecords
  <1>4. ASSUME NEW g \in Hosts, host'[g].pc = "list"
        PROVE  /\ host[g].pc = "list" /\ SameList(g) /\ host'[g].steady \subseteq host[g].steady
               /\ Kept(g)'
    <2>1. /\ g # h /\ host[g].pc = "list" /\ SameList(g) /\ host'[g].steady \subseteq host[g].steady
          /\ o = NoRecord => Key(h) \notin host'[g].steady
      BY <1>1, <1>4
    <2>2. host[g].steady \subseteq Keys /\ Kept(g)
      BY <1>1, <2>1, HostFacts DEF HostStates, ListInv, At
    <2>3. Kept(g)'
      BY <1>2, <2>1, <2>2 DEF Kept
    <2> QED
      BY <2>1, <2>3
  <1> QED
    BY <1>1, <1>3, <1>4, NoFetchKeeps

(* A step of h's listing is judged by what it leaves of that call.          *)
LEMMA OwnListing ==
  ASSUME ListInv, NEW h \in Hosts, ListAction(h), Pursuing(host'[h]), Kept(h)'
  PROVE  ListInv'
  <1>1. TypeOK' /\ Only(h) /\ record' = record
    BY ListType DEF ListInv
  <1>2. OwnRecords'
    BY <1>1 DEF ListInv, OwnRecords
  <1>3. ASSUME NEW g \in Hosts \ {h}, host'[g].pc = "list" PROVE Pursuing(host'[g]) /\ Kept(g)'
    BY <1>1, <1>3 DEF ListInv, Only, At, Kept
  <1> QED
    BY <1>1, <1>2, <1>3 DEF ListInv, At

LEMMA BeginList ==
  ASSUME ListInv, NEW h \in Hosts, ListBegin(h)
  PROVE  ListInv'
  <1> DEFINE c == [Idle EXCEPT !.pc = "list", !.more = TRUE, !.steady = Stored]
  <1>1. c.token = 0 /\ c.more /\ c.todo = {} /\ c.got = {} /\ c.steady = Stored
    BY IdleType DEF Idle
  <1>2. host'[h] = c /\ record' = record
    BY DEF ListBegin, ListInv, TypeOK
  <1> HIDE DEF c
  <1>3. \A k \in Stored : StateKey[k] > 0 /\ record[k] # NoRecord
    BY StateAssumption DEF Stored
  <1>4. Pursuing(host'[h])
    BY <1>1, <1>2, <1>3 DEF Pursuing, InSight
  <1>5. Kept(h)'
    BY <1>1, <1>2, <1>3 DEF Kept
  <1> QED
    BY <1>4, <1>5, OwnListing DEF ListAction

(* What was after the old token is on the new page or after the new token.  *)
LEMMA PageList ==
  ASSUME ListInv, NEW h \in Hosts, ListPage(h)
  PROVE  ListInv'
  <1>1. /\ TypeOK /\ host[h] \in HostStates /\ host[h].todo = {} /\ host[h].more /\ record' = record
        /\ Pursuing(host[h]) /\ Kept(h)
    BY HostFacts DEF ListInv, ListPage
  <1>2. PICK last \in Nat, page \in SUBSET Keys, more \in BOOLEAN :
           /\ host' = [host EXCEPT ![h].todo = page, ![h].token = last, ![h].more = more]
           /\ host[h].token <= last
           /\ \A k \in page : host[h].token < StateKey[k] /\ StateKey[k] <= last
           /\ \A k \in Stored : StateKey[k] > host[h].token => k \in page \/ (more /\ StateKey[k] > last)
    BY <1>1, PageFacts
  <1>3. /\ host'[h].todo = page /\ host'[h].token = last /\ host'[h].more = more
        /\ host'[h].got = host[h].got /\ host'[h].steady = host[h].steady
    BY <1>1, <1>2 DEF TypeOK, HostStates
  <1>4. host[h].token \in Nat /\ host[h].steady \subseteq Stored /\ host[h].got \subseteq Objects
    BY <1>1 DEF HostStates, Kept, Stored
  <1>5. \A k \in Keys : StateKey[k] \in Nat
    BY StateAssumption
  <1>6. \A o \in host[h].got : SanitizeID[o.id] \in Keys
    BY <1>4, StateAssumption DEF Objects
  <1>7. ASSUME NEW k \in host'[h].steady PROVE InSight(host'[h], k)
    <2>1. InSight(host[h], k) /\ k \in Stored
      BY <1>1, <1>3, <1>4, <1>7 DEF Pursuing
    <2> QED
      BY <1>1, <1>2, <1>3, <2>1 DEF InSight
  <1>8. \A k \in host'[h].todo : StateKey[k] <= host'[h].token
    BY <1>2, <1>3
  <1>9. ASSUME NEW o \in host'[h].got
        PROVE  StateKey[SanitizeID[o.id]] <= host'[h].token /\ SanitizeID[o.id] \notin host'[h].todo
    <2>1. o \in host[h].got /\ StateKey[SanitizeID[o.id]] <= host[h].token /\ StateKey[SanitizeID[o.id]] \in Nat
      BY <1>1, <1>3, <1>5, <1>6, <1>9 DEF Pursuing
    <2> QED
      BY <1>2, <1>3, <1>4, <2>1
  <1>10. Pursuing(host'[h])
    BY <1>1, <1>3, <1>7, <1>8, <1>9 DEF Pursuing
  <1>11. Kept(h)'
    BY <1>1, <1>3 DEF Kept
  <1> QED
    BY <1>10, <1>11, OwnListing DEF ListAction

(* An object is fetched, was gone or could not be read.                     *)
LEMMA FetchList ==
  ASSUME ListInv, NEW h \in Hosts, NEW k \in Keys, ListGet(h, k)
  PROVE  ListInv'
  <1>1. /\ TypeOK /\ OwnRecords /\ host[h] \in HostStates /\ k \in host[h].todo /\ record' = record
        /\ Pursuing(host[h]) /\ Kept(h)
    BY HostFacts DEF ListInv, ListGet
  <1>2. StateKey[k] <= host[h].token /\ \A o \in host[h].got : SanitizeID[o.id] # k
    BY <1>1 DEF Pursuing
  <1>3. CASE host' = [host EXCEPT ![h].todo = @ \ {k}, ![h].got = @ \cup ({record[k]} \ {NoRecord})]
    <2>1. /\ host'[h].todo = host[h].todo \ {k} /\ host'[h].got = host[h].got \cup ({record[k]} \ {NoRecord})
          /\ host'[h].token = host[h].token /\ host'[h].more = host[h].more
          /\ host'[h].steady = host[h].steady
      BY <1>1, <1>3 DEF TypeOK, HostStates
    <2>2. \A o \in host'[h].got : o \in host[h].got \/ (o = record[k] /\ SanitizeID[o.id] = k)
      BY <1>1, <2>1 DEF OwnRecords
    <2>3. k \in host[h].steady => \E o \in host'[h].got : SanitizeID[o.id] = k
      BY <1>1, <2>1 DEF OwnRecords, Kept
    <2>4. ASSUME NEW j \in host'[h].steady PROVE InSight(host'[h], j)
      <3>1. InSight(host[h], j)
        BY <1>1, <2>1, <2>4 DEF Pursuing
      <3> QED
        BY <2>1, <2>3, <2>4, <3>1 DEF InSight
    <2>5. /\ \A j \in host'[h].todo : StateKey[j] <= host'[h].token
          /\ \A o \in host'[h].got : StateKey[SanitizeID[o.id]] <= host'[h].token /\ SanitizeID[o.id] \notin host'[h].todo
      BY <1>1, <1>2, <2>1, <2>2 DEF Pursuing
    <2>6. \A o, u \in host'[h].got : SanitizeID[o.id] = SanitizeID[u.id] => o = u
      BY <1>1, <1>2, <2>2 DEF Pursuing
    <2>7. Pursuing(host'[h])
      BY <2>4, <2>5, <2>6 DEF Pursuing
    <2>8. Kept(h)'
      BY <1>1, <2>1 DEF Kept
    <2> QED
      BY <2>7, <2>8, OwnListing DEF ListAction
  <1>4. CASE host' = [host EXCEPT ![h].todo = @ \ {k}, ![h].steady = @ \ {k}]
    <2>1. /\ host'[h].todo = host[h].todo \ {k} /\ host'[h].got = host[h].got
          /\ host'[h].token = host[h].token /\ host'[h].more = host[h].more
          /\ host'[h].steady = host[h].steady \ {k}
      BY <1>1, <1>4 DEF TypeOK, HostStates
    <2>2. Pursuing(host'[h])
      BY <1>1, <2>1 DEF Pursuing, InSight
    <2>3. Kept(h)'
      BY <1>1, <2>1 DEF Kept
    <2> QED
      BY <2>2, <2>3, OwnListing DEF ListAction
  <1> QED
    BY <1>3, <1>4 DEF ListGet

LEMMA ListNext == ListInv /\ [Next]_vars => ListInv'
  <1> SUFFICES ASSUME ListInv, [Next]_vars PROVE ListInv'
    OBVIOUS
  <1>1. TypeOK /\ TypeOK'
    BY TypeNext DEF ListInv
  <1>2. ASSUME record' = record,
               \A g \in Hosts : host'[g].pc = "list" => host'[g] = host[g]
        PROVE  ListInv'
    <2>1. OwnRecords'
      BY <1>2 DEF ListInv, OwnRecords
    <2>2. ASSUME NEW g \in Hosts, host'[g].pc = "list"
          PROVE  /\ host[g].pc = "list" /\ SameList(g) /\ host'[g].steady \subseteq host[g].steady
                 /\ Kept(g)'
      <3>1. host'[g] = host[g]
        BY <1>2, <2>2
      <3> QED
        BY <1>2, <2>2, <3>1 DEF SameList, Kept, ListInv, At
    <2> QED
      BY <1>1, <2>1, <2>2, NoFetchKeeps
  <1>3. ASSUME NEW h \in Hosts,
               \/ LockRetry(h) \/ GetState(h) \/ DeleteStateHead(h) \/ UnlockHead(h) \/ UnlockDelete(h)
               \/ UnlockRetry(h) \/ ListEnd(h) \/ CallError(h) \/ Crash(h)
               \/ \E r \in Resources : Lock(h, r) \/ ForceUnlock(h, r)
        PROVE  ListInv'
    <2>1. record' = record /\ host'[h].pc # "list" /\ \A g \in Hosts \ {h} : host'[g] = host[g]
      BY <1>1, <1>3, CallNoList
    <2> QED
      BY <1>2, <2>1
  <1>4. ASSUME NEW h \in Hosts, SaveState(h) \/ DeleteState(h)
        PROVE  ListInv'
    BY <1>1, <1>4, SaveIsWrite, WriteList
  <1>5. ASSUME NEW h \in Hosts, ListBegin(h) \/ ListPage(h) \/ \E k \in Keys : ListGet(h, k)
        PROVE  ListInv'
    BY <1>5, BeginList, PageList, FetchList
  <1>6. CASE UNCHANGED vars
    BY <1>2, <1>6 DEF vars
  <1>7. ASSUME NEW h \in Hosts, Configure(h)
        PROVE  ListInv'
    BY <1>2, <1>7 DEF Configure
  <1> QED
    BY <1>3, <1>4, <1>5, <1>6, <1>7 DEF Next, Step

(* A listing that is about to return has, whatever is saved, deleted,       *)
(* locked and unlocked between its pages and within them, the record of     *)
(* every key that had a readable one all along, and no key's twice.         *)
THEOREM ListsComplete == Spec => []ListComplete
  <1>1. Init => ListInv
    <2> SUFFICES ASSUME Init PROVE ListInv
      OBVIOUS
    <2>1. TypeOK
      BY InitLock DEF Sound
    <2>2. \A h \in Hosts : host[h].pc = "idle"
      BY IdleType DEF Init
    <2>3. OwnRecords
      BY DEF Init, OwnRecords
    <2> QED
      BY <2>1, <2>2, <2>3 DEF ListInv, At
  <1>2. ListInv => ListComplete
    BY DEF ListInv, Pursuing, InSight, ListComplete, Listed
  <1> QED
    BY <1>1, <1>2, ListNext, PTL DEF Spec

=============================================================================
