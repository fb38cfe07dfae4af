----------------------------- MODULE OwnerTags -----------------------------
(***************************************************************************)
(* Resource ownership (internal/ownership.go): the owner of a resource is  *)
(* the tag workflow-owner:<owner> it carries.  SetOwner takes the others   *)
(* away and adds its own, call by call; ListOwners walks the account's     *)
(* tags and, for each, the listings EnumerateByTag makes.  Several callers *)
(* run at once, calls fail or lose their answers.                          *)
(*                                                                         *)
(* Tags of no owner are left out (ownerFromTag passes them over).  The     *)
(* encoding of ownerTagName is one to one on owners, so that an owner      *)
(* stands for its tag.                                                     *)
(***************************************************************************)
EXTENDS Naturals, Sequences, FiniteSets, SequencesExt

CONSTANTS
    Resources,  \* the taggable resources of the account
    Type,       \* "droplet", "volume", "database" or "cache" for each
    Owners,
    Callers,
    PageSize,   \* entries of a page (200 in the code)
    MaxTagFaults,  \* calls that fail or lose their answer
    MaxCalls,   \* SetOwner and ListOwners calls made
    Unset

Types == {"droplet", "volume", "database", "cache"}

ASSUME OwnerTagsAssumption ==
    /\ IsFiniteSet(Resources) /\ IsFiniteSet(Owners)
    /\ Type \in [Resources -> Types]
    /\ PageSize \in Nat \ {0} /\ MaxTagFaults \in Nat /\ MaxCalls \in Nat

VARIABLES
    tags,       \* the owner tags each resource carries
    known,      \* the owner tags the account has, in the order of creation
    call,       \* what each caller is doing
    failed,     \* resources with a SetOwner that failed and none that
                \* succeeded since
    faults, calls

tagVars == <<tags, known, call, failed, faults, calls>>

Pairs == Resources \X Owners
Held == {p \in Pairs : p[2] \in tags[p[1]]}

\* A caller: the step it is at and, for SetOwner, the resource, the owner,
\* the tags still to be removed and whether no other SetOwner on the
\* resource has overlapped; for ListOwners, the type asked for, the owner
\* tags of the page at hand, the page's number and whether it is the last,
\* the page of the listing, the result, and two histories: the pairs held at
\* some and at every moment of the call.
NoCall == [at |-> "idle", r |-> Unset, o |-> Unset, drop |-> {}, alone |-> TRUE,
         type |-> Unset, owners |-> <<>>, page |-> 0, last |-> TRUE, pos |-> 0,
         out |-> {}, ever |-> {}, always |-> {}]

Steps == {"idle", "read", "untag", "create", "tag", "set",
          "tags", "probe", "droplet", "volume", "database", "listed"}

TagsTypeOK ==
    /\ tags \in [Resources -> SUBSET Owners]
    /\ known \in Seq(Owners) /\ IsInjective(known)
    /\ \A p \in Held : p[2] \in ToSet(known)
    /\ failed \subseteq Resources
    /\ faults \in 0 .. MaxTagFaults
    /\ calls \in 0 .. MaxCalls
    /\ \A c \in Callers :
         /\ call[c].at \in Steps
         /\ call[c].r \in Resources \cup {Unset}
         /\ call[c].o \in Owners \cup {Unset}
         /\ call[c].drop \subseteq Owners
         /\ call[c].alone \in BOOLEAN
         /\ call[c].type \in Types \cup {Unset}
         /\ call[c].owners \in Seq(Owners)
         /\ call[c].page \in Nat /\ call[c].pos \in Nat /\ call[c].last \in BOOLEAN
         /\ call[c].out \subseteq Pairs
         /\ call[c].ever \subseteq Pairs /\ call[c].always \subseteq Pairs

\* Every resource has an owner; one may have several, as two SetOwner calls
\* at once leave it.
TagsInit ==
    /\ tags \in [Resources -> (SUBSET Owners) \ {{}}]
    /\ Cardinality({r \in Resources : Cardinality(tags[r]) > 1}) <= 1
    /\ known \in SetToSeqs(UNION {tags[r] : r \in Resources})
    /\ call = [c \in Callers |-> NoCall]
    /\ failed = {}
    /\ faults = 0 /\ calls = 0

---------------------------------------------------------------------------
(* The histories of the listings under way follow the tags.                *)

Listing(c) == call[c].at \in {"tags", "probe", "droplet", "volume", "database"}

Observed(cs, held) ==
    [c \in Callers |->
        IF Listing(c) /\ cs[c].at # "idle"
        THEN [cs[c] EXCEPT !.ever = @ \cup held, !.always = @ \cap held]
        ELSE cs[c]]

\* A step of caller c to the record new, with the resources tagged as t.
Move(c, new, t) ==
    /\ tags' = t
    /\ call' = Observed([call EXCEPT ![c] = new], {p \in Pairs : p[2] \in t[p[1]]})

TagFault == faults < MaxTagFaults /\ faults' = faults + 1

Started == calls < MaxCalls /\ calls' = calls + 1

---------------------------------------------------------------------------
(* SetOwner.                                                               *)

Setting(c) == call[c].at \in {"read", "untag", "create", "tag"}

\* The call begins: it overlaps the others on the resource.
SetOwner(c, r, o) ==
    LET rivals == {d \in Callers : Setting(d) /\ call[d].r = r} IN
    /\ call[c].at = "idle"
    /\ Started
    /\ call' = [d \in Callers |->
                  IF d = c THEN [NoCall EXCEPT !.at = "read", !.r = r, !.o = o,
                                             !.alone = (rivals = {})]
                  ELSE IF call[d].r = r THEN [call[d] EXCEPT !.alone = FALSE]
                  ELSE call[d]]
    /\ UNCHANGED <<tags, known, failed, faults>>

\* Mutant: only the owner GetOwner would report, the first one, is replaced.
ReadTags_First(c) ==
    /\ call[c].at = "read"
    /\ \E x \in tags[call[c].r] :
          Move(c, [call[c] EXCEPT !.drop = {x} \ {call[c].o}, !.at = "untag"], tags)
    /\ UNCHANGED <<known, failed, faults, calls>>

\* resourceTags: the driver's Read reports the tags.
ReadTags(c) ==
    /\ call[c].at = "read"
    /\ Move(c, [call[c] EXCEPT !.drop = tags[call[c].r] \ {call[c].o}, !.at = "untag"], tags)
    /\ UNCHANGED <<known, failed, faults, calls>>

\* Every other owner tag that was read is removed.
Untag(c) ==
    /\ call[c].at = "untag"
    /\ IF call[c].drop = {}
       THEN Move(c, [call[c] EXCEPT !.at = "create"], tags)
       ELSE \E x \in call[c].drop :
              Move(c, [call[c] EXCEPT !.drop = @ \ {x}], [tags EXCEPT ![call[c].r] = @ \ {x}])
    /\ UNCHANGED <<known, failed, faults, calls>>

\* The account's owner tags with the one of o, the last unless it exists.
WithTag(o) == IF o \in ToSet(known) THEN known ELSE Append(known, o)

\* The tag itself is made; 422 says that it exists.
CreateTag(c) ==
    /\ call[c].at = "create"
    /\ known' = WithTag(call[c].o)
    /\ Move(c, [call[c] EXCEPT !.at = "tag"], tags)
    /\ UNCHANGED <<failed, faults, calls>>

\* The resource is tagged and the call succeeds.
TagResource(c) ==
    /\ call[c].at = "tag"
    /\ Move(c, [call[c] EXCEPT !.at = "set"], [tags EXCEPT ![call[c].r] = @ \cup {call[c].o}])
    /\ failed' = failed \ {call[c].r}
    /\ UNCHANGED <<known, faults, calls>>

\* Mutant: a failed Create or Tag is reported as success.
SetFails_Swallowed(c) ==
    /\ Setting(c)
    /\ TagFault
    /\ IF call[c].at = "create"
       THEN Move(c, [call[c] EXCEPT !.at = "set"], tags) /\ failed' = failed \ {call[c].r}
       ELSE Move(c, NoCall, tags) /\ UNCHANGED failed
    /\ UNCHANGED <<known, calls>>

\* A call fails, or takes effect and loses its answer: SetOwner stops there.
SetFails(c) ==
    /\ Setting(c)
    /\ TagFault
    /\ \/ Move(c, NoCall, tags) /\ UNCHANGED known
       \/ /\ call[c].at = "untag"
          /\ \E x \in call[c].drop : Move(c, NoCall, [tags EXCEPT ![call[c].r] = @ \ {x}])
          /\ UNCHANGED known
       \/ /\ call[c].at = "create"
          /\ Move(c, NoCall, tags)
          /\ known' = WithTag(call[c].o)
       \/ /\ call[c].at = "tag"
          /\ Move(c, NoCall, [tags EXCEPT ![call[c].r] = @ \cup {call[c].o}])
          /\ UNCHANGED known
    /\ failed' = failed \cup {call[c].r}
    /\ UNCHANGED calls

---------------------------------------------------------------------------
(* ListOwners, EnumerateByTag.                                             *)

\* The call begins, for one type or all, for one owner or all.
ListOwners(c, type, o) ==
    /\ call[c].at = "idle"
    /\ Started
    /\ call' = [call EXCEPT ![c] =
                  [NoCall EXCEPT !.type = type, !.ever = Held, !.always = Held,
                               !.o = o, !.at = IF o = Unset THEN "tags" ELSE "probe",
                               !.owners = IF o = Unset THEN <<>> ELSE <<o>>]]
    /\ UNCHANGED <<tags, known, failed, faults>>

\* Page number p of a list, and whether it is the last.
IsLastPage(s, p) == (p + 1) * PageSize >= Len(s)
Page(s, p) ==
    SubSeq(s, p * PageSize + 1, IF IsLastPage(s, p) THEN Len(s) ELSE (p + 1) * PageSize)

\* The next owner tag of the page, the next page, or the end.  A call for one
\* owner ends with it.
NextTag(me) ==
    IF me.owners # <<>> THEN [me EXCEPT !.at = "probe", !.pos = 0]
    ELSE IF me.last THEN [me EXCEPT !.at = "listed"]
    ELSE [me EXCEPT !.at = "tags", !.page = @ + 1]

\* The owner tag at hand is done.
TagDone(me) == NextTag([me EXCEPT !.owners = Tail(@)])

\* Tags.List: one page of the account's tags.
ListTags(c) ==
    /\ call[c].at = "tags"
    /\ Move(c, NextTag([call[c] EXCEPT !.owners = Page(known, call[c].page),
                                       !.last = IsLastPage(known, call[c].page)]), tags)
    /\ UNCHANGED <<known, failed, faults, calls>>

\* The listing a resource type is in: caches are databases with the engine
\* redis.
ListingOf(type) == IF type = "cache" THEN "database" ELSE type

\* Tags.Get: an unknown tag has no resources.
Probe(c) ==
    LET me == call[c] IN
    /\ me.at = "probe"
    /\ Move(c, IF Head(me.owners) \notin ToSet(known) THEN TagDone(me)
               ELSE [me EXCEPT !.at = IF me.type = Unset THEN "droplet" ELSE ListingOf(me.type)],
            tags)
    /\ UNCHANGED <<known, failed, faults, calls>>

\* The listings: droplets are filtered by tag by the service, volumes and
\* databases by the caller.
All(listing) == SetToSeq({r \in Resources : ListingOf(Type[r]) = listing})
Listed(listing, o) ==
    IF listing = "droplet" THEN SelectSeq(All(listing), LAMBDA r : o \in tags[r])
    ELSE All(listing)

\* Mutant: the loop ends after the first page.
AfterPage_First(me, s) ==
    IF me.type = Unset /\ me.at # "database"
    THEN [me EXCEPT !.pos = 0, !.at = IF me.at = "droplet" THEN "volume" ELSE "database"]
    ELSE TagDone(me)

\* What follows a page of a listing: its next page, the next listing when all
\* types are asked for, or the next tag.
AfterPage(me, s) ==
    IF ~IsLastPage(s, me.pos) THEN [me EXCEPT !.pos = @ + 1]
    ELSE IF me.type = Unset /\ me.at # "database"
    THEN [me EXCEPT !.pos = 0, !.at = IF me.at = "droplet" THEN "volume" ELSE "database"]
    ELSE TagDone(me)

\* One page of a listing: the entries with the tag, and of the type asked for.
ListPage(c) ==
    LET me == call[c]
        o  == Head(me.owners)
        s  == Listed(me.at, o)
        hits == {r \in Resources :
                   /\ r \in ToSet(Page(s, me.pos)) /\ o \in tags[r]
                   /\ me.type = Unset \/ Type[r] = me.type} IN
    /\ me.at \in {"droplet", "volume", "database"}
    /\ Move(c, AfterPage([me EXCEPT !.out = @ \cup (hits \X {o})], s), tags)
    /\ UNCHANGED <<known, failed, faults, calls>>

\* An error of any call is returned, without the part found so far.
ListFails(c) ==
    /\ Listing(c)
    /\ TagFault
    /\ Move(c, NoCall, tags)
    /\ UNCHANGED <<known, failed, calls>>

\* The caller has its answer.
Return(c) ==
    /\ call[c].at \in {"set", "listed"}
    /\ Move(c, NoCall, tags)
    /\ UNCHANGED <<known, failed, faults, calls>>

---------------------------------------------------------------------------
TagsNext ==
    \E c \in Callers :
       \/ \E r \in Resources, o \in Owners : SetOwner(c, r, o)
       \/ ReadTags(c) \/ Untag(c) \/ CreateTag(c) \/ TagResource(c) \/ SetFails(c)
       \/ \E type \in Types \cup {Unset}, o \in Owners \cup {Unset} : ListOwners(c, type, o)
       \/ ListTags(c) \/ Probe(c) \/ ListPage(c) \/ ListFails(c)
       \/ Return(c)

TagsSpec == TagsInit /\ [][TagsNext]_tagVars

---------------------------------------------------------------------------
(* Correctness.                                                            *)

\* When SetOwner succeeds and no other SetOwner on the resource overlapped
\* it, the resource has that owner and no other, whatever earlier calls left
\* behind when they failed (SetOwner).
OwnerApplied ==
    \A c \in Callers :
       call[c].at = "set" /\ call[c].alone => tags[call[c].r] = {call[c].o}

\* A resource is without an owner only while a SetOwner on it runs, or after
\* one has failed that no success followed (SetOwner untags before it tags).
OwnerlessExplained ==
    \A r \in Resources :
       tags[r] = {} => r \in failed \/ \E c \in Callers : Setting(c) /\ call[c].r = r

\* A complete listing has only pairs that were tagged at some moment of the
\* call, and has every pair that was tagged all along, of the types and the
\* owner asked for; of droplets, whose pages the service filters and shifts
\* when a tag is removed, only the first half is promised (ListOwners,
\* EnumerateByTag).  Resources stay: only SetOwner interleaves with a listing.
\* Volumes and databases deleted between two pages would shift theirs as well,
\* and the second half would then fail for them as it does for droplets.
Asked(me, p) ==
    /\ me.type = Unset \/ Type[p[1]] = me.type
    /\ me.o = Unset \/ p[2] = me.o
    /\ Type[p[1]] # "droplet"
ListSound ==
    \A c \in Callers :
       call[c].at = "listed" =>
          /\ call[c].out \subseteq call[c].ever
          /\ {p \in call[c].always : Asked(call[c], p)} \subseteq call[c].out
=============================================================================
