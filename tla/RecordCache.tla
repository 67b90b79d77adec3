----------------------------- MODULE RecordCache -----------------------------
(***************************************************************************)
(* The record cache of one zone and the requests that read and change the  *)
(* records of that zone (internal/service/dns.go).                         *)
(*                                                                         *)
(* A list request takes the cached records, or reads them page by page     *)
(* from the provider and stores them unless the generation of the cache    *)
(* has moved on.  A mutation invalidates the zone before the provider call *)
(* and again when it returns.  The provider applies a request at any       *)
(* moment of the call, or after the caller has given up waiting for it.    *)
(* The content of a record set is represented by the number of changes     *)
(* made to it, its creation and its removal included, which stands for its *)
(* fingerprint too.  A client that Get returns is represented by           *)
(* updated_at of the row it was built from.                                *)
(*                                                                         *)
(* The pages of a list are those of Alibaba, Tencent Cloud and Cloudflare: *)
(* a cursor is an offset into a list that is read anew for every page, so  *)
(* that a removal between two pages makes the list skip a record set.  The *)
(* markers of Huawei Cloud, which do not shift, are not modelled.          *)
(***************************************************************************)
EXTENDS Naturals, Sequences, FiniteSets

CONSTANTS
    Readers,        \* goroutines that run ListRecordSets
    Writers,        \* goroutines that run Create-, Update- or DeleteRecordSet
    Records,        \* record sets that may be in the zone
    PageLimit,      \* recordReadPageLimit, 200 in the code
    Kinds,          \* what the mutations do, some of AllKinds
    Ttl,            \* recordCacheTTL, 30 s in the code
    ReadTime,       \* maximumRecordReadTime, 2 min in the code
    MaxChanges,     \* bound of the exploration: changes of one record set
    MaxVersion,     \* bound of the exploration: writes of the account row
    MaxGeneration,  \* bound of the exploration: generations that start an operation
    MaxTime,        \* bound of the exploration: the clock
    None

AllKinds == {"create", "update", "delete"}

\* A recordCacheEntry: what was read, with which account row, and fetchedAt.  A record set
\* that is removed has a content too; None is that of one the pages skipped.
Entry == [content : [Records -> Nat \cup {None}], version : Nat, at : Nat]

\* A mutation as its caller sees it: the content it names, and the change it has made.
Task == [on : Records, expects : Nat \cup {None}, change : Nat]

ASSUME BoundsAssumption ==
    /\ PageLimit \in Nat \ {0} /\ Ttl \in Nat /\ ReadTime \in Nat
    /\ MaxChanges \in Nat /\ MaxVersion \in Nat /\ MaxGeneration \in Nat /\ MaxTime \in Nat
ASSUME RecordsAssumption == IsFiniteSet(Records)
ASSUME KindsAssumption == Kinds \subseteq AllKinds
ASSUME NoneAssumption == None \notin Nat \cup Entry \cup Task

VARIABLES
    \* The provider, the clock and the account row.
    content,    \* the changes made to each record set
    listing,    \* the record sets there are, in the order the adapters list them
    landed,     \* when each of them was applied
    late,       \* requests whose caller gave up and that may still be applied
    clock,      \* now
    version,    \* updated_at of the account row
    \* recordCache[zone].
    known,      \* whether accountID is set
    generation,
    cached,     \* the entry, or None
    \* The list requests.
    pc,         \* where each one is
    refresh,    \* input.Refresh
    row,        \* updated_at of the row its client was built from
    fallback,   \* the entry it found and could not use, or None
    token,      \* the generation of its fetch
    deadline,   \* the end of fetchContext
    cursor,     \* the offset of the next page, None after the last page
    read,       \* the record sets read so far
    shown,      \* the entry it returns, or None for an error
    stale,      \* whether it flags it as stale
    \* The mutations.
    wpc,        \* where each one is
    kind,       \* what it does
    target,     \* the record set it changes
    expected,   \* the content its precondition names
    applied,    \* the change it made, or 0
    audited,    \* whether it left an audit event
    \* What a caller may rely on.
    settled,    \* the last change of each record set whose mutation has returned
    promised,   \* settled when the list came in
    entered,    \* version when the list came in
    looked      \* clock when the list looked at the cache

providerVars == <<content, listing, landed, late>>
cacheVars == <<known, generation, cached>>
listVars ==
    <<refresh, row, fallback, token, deadline, cursor, read, shown, stale, promised, entered, looked>>
readerVars == <<pc, listVars>>
mutationVars == <<kind, target, expected, applied, audited>>
writerVars == <<wpc, mutationVars, settled>>
vars == <<providerVars, clock, version, cacheVars, readerVars, writerVars>>

----------------------------------------------------------------------------
ReaderPcs == {"idle", "client", "lookup", "begin", "fetch", "returned"}

\* Mutations that hold the mutations channel of the account.
Calling == {"check", "write", "applied"}

WriterPcs == {"idle", "current", "invalidate", "queue", "purge", "refused", "audit", "defer",
              "returned"} \cup Calling

\* Lists without duplicates of record sets.
Listings ==
    {s \in UNION {[1..n -> Records] : n \in 0..Cardinality(Records)} :
        \A i, j \in DOMAIN s : s[i] = s[j] => i = j}

\* The record sets there are.
Present == {listing[i] : i \in 1..Len(listing)}

Nothing == [c \in Records |-> None]
Unchanged == [c \in Records |-> 0]

Init ==
    /\ content = Unchanged
    /\ listing \in Listings
    /\ landed = [c \in Records |-> [n \in 1..MaxChanges |-> None]]
    /\ late = Unchanged
    /\ clock = 0
    /\ version = 0
    /\ known = FALSE
    /\ generation = 0
    /\ cached = None
    /\ pc = [r \in Readers |-> "idle"]
    /\ refresh = [r \in Readers |-> FALSE]
    /\ row = [r \in Readers |-> 0]
    /\ fallback = [r \in Readers |-> None]
    /\ token = [r \in Readers |-> 0]
    /\ deadline = [r \in Readers |-> 0]
    /\ cursor = [r \in Readers |-> 0]
    /\ read = [r \in Readers |-> Nothing]
    /\ shown = [r \in Readers |-> None]
    /\ stale = [r \in Readers |-> FALSE]
    /\ wpc = [w \in Writers |-> "idle"]
    /\ kind = [w \in Writers |-> "update"]
    /\ target = [w \in Writers |-> None]
    /\ expected = [w \in Writers |-> 0]
    /\ applied = [w \in Writers |-> 0]
    /\ audited = [w \in Writers |-> FALSE]
    /\ settled = Unchanged
    /\ promised = [r \in Readers |-> Unchanged]
    /\ entered = [r \in Readers |-> 0]
    /\ looked = [r \in Readers |-> 0]

----------------------------------------------------------------------------
(* The cache. *)

InvalidateZone ==
    /\ cached' = None
    /\ generation' = generation + 1
    /\ UNCHANGED known

\* cachedRecordSets that does not look at updated_at.
CachedAnyVersion(r) == cached # None

\* cachedRecordSets: whether the entry was read with the row the client was built from.
CachedOK(r) == cached # None /\ cached.version = row[r]

\* Usable for an entry of any age.
UsableAtAnyAge(r) == ~refresh[r] /\ CachedOK(r)

\* Whether the entry may be returned without a fetch.
Usable(r) == ~refresh[r] /\ CachedOK(r) /\ clock - cached.at <= Ttl

\* Zone sync, RefreshZone and the account operations invalidate the cache too.
InvalidateByOthers ==
    /\ generation < MaxGeneration
    /\ known
    /\ InvalidateZone
    /\ UNCHANGED <<providerVars, clock, version, readerVars, writerVars>>

\* The account row is written: a change, a validation or a sync.
AccountWritten ==
    /\ version < MaxVersion
    /\ version' = version + 1
    /\ UNCHANGED <<providerVars, clock, cacheVars, readerVars, writerVars>>

----------------------------------------------------------------------------
(* ListRecordSets. *)

BeginList(r) ==
    /\ pc[r] = "idle"
    /\ generation < MaxGeneration
    /\ pc' = [pc EXCEPT ![r] = "client"]
    /\ \E b \in BOOLEAN : refresh' = [refresh EXCEPT ![r] = b]
    /\ promised' = [promised EXCEPT ![r] = settled]
    /\ entered' = [entered EXCEPT ![r] = version]
    /\ UNCHANGED <<providerVars, clock, version, cacheVars, row, fallback, token, deadline,
                   cursor, read, shown, stale, looked, writerVars>>

\* Get returns a client that is as new as the row was when it was called.
GetClient(r) ==
    /\ pc[r] = "client"
    /\ pc' = [pc EXCEPT ![r] = "lookup"]
    /\ \E v \in entered[r]..version : row' = [row EXCEPT ![r] = v]
    /\ UNCHANGED <<providerVars, clock, version, cacheVars, refresh, fallback, token, deadline,
                   cursor, read, shown, stale, promised, entered, looked, writerVars>>

\* Return after which the next fetch goes on where this one has stopped.
ReturnKeepingPages(r, entry, flag) ==
    /\ pc' = [pc EXCEPT ![r] = "returned"]
    /\ shown' = [shown EXCEPT ![r] = entry]
    /\ stale' = [stale EXCEPT ![r] = flag]
    /\ refresh' = [refresh EXCEPT ![r] = FALSE]
    /\ fallback' = [fallback EXCEPT ![r] = None]
    /\ token' = [token EXCEPT ![r] = 0]
    /\ deadline' = [deadline EXCEPT ![r] = 0]
    /\ UNCHANGED <<cursor, read, row, promised, entered>>

Return(r, entry, flag) ==
    /\ pc' = [pc EXCEPT ![r] = "returned"]
    /\ shown' = [shown EXCEPT ![r] = entry]
    /\ stale' = [stale EXCEPT ![r] = flag]
    /\ refresh' = [refresh EXCEPT ![r] = FALSE]
    /\ fallback' = [fallback EXCEPT ![r] = None]
    /\ token' = [token EXCEPT ![r] = 0]
    /\ deadline' = [deadline EXCEPT ![r] = 0]
    /\ cursor' = [cursor EXCEPT ![r] = 0]
    /\ read' = [read EXCEPT ![r] = Nothing]
    /\ UNCHANGED <<row, promised, entered>>

UseCached(r) ==
    /\ pc[r] = "lookup"
    /\ Usable(r)
    /\ looked' = [looked EXCEPT ![r] = clock]
    /\ Return(r, cached, FALSE)
    /\ UNCHANGED <<providerVars, clock, version, cacheVars, writerVars>>

Miss(r) ==
    /\ pc[r] = "lookup"
    /\ ~Usable(r)
    /\ pc' = [pc EXCEPT ![r] = "begin"]
    /\ fallback' = [fallback EXCEPT ![r] = IF ~refresh[r] /\ CachedOK(r) THEN cached ELSE None]
    /\ looked' = [looked EXCEPT ![r] = clock]
    /\ UNCHANGED <<providerVars, clock, version, cacheVars, refresh, row, token, deadline, cursor,
                   read, shown, stale, promised, entered, writerVars>>

\* beginRecordFetch.
BeginFetch(r) ==
    /\ pc[r] = "begin"
    /\ pc' = [pc EXCEPT ![r] = "fetch"]
    /\ known' = TRUE
    /\ generation' = generation + 1
    /\ token' = [token EXCEPT ![r] = generation']
    /\ deadline' = [deadline EXCEPT ![r] = clock + ReadTime]
    /\ UNCHANGED <<providerVars, clock, version, cached, refresh, row, fallback, cursor,
                   read, shown, stale, promised, entered, looked, writerVars>>

\* FetchPage that does not look for a record set it has read before.
FetchPageAgain(r) ==
    /\ pc[r] = "fetch"
    /\ cursor[r] # None
    /\ \E end \in cursor[r]..Len(listing) :
         LET page == {listing[i] : i \in cursor[r] + 1..end}
             last == end = Len(listing)
         IN  /\ end - cursor[r] <= PageLimit
             /\ cursor' = [cursor EXCEPT ![r] = IF last THEN None ELSE end]
             /\ read' = [read EXCEPT ![r] = [c \in Records |->
                   IF c \in page \/ (last /\ c \notin Present /\ read[r][c] = None)
                   THEN content[c] ELSE read[r][c]]]
    /\ UNCHANGED <<providerVars, clock, version, cacheVars, pc, refresh, row, fallback, token,
                   deadline, shown, stale, promised, entered, looked, writerVars>>

\* A page of fetchAllRecordSets: the adapter lists the zone anew and cuts the page at the
\* offset, or only up to a shorter end where it reads the list itself in pages.  An offset
\* beyond the list fails, and so does a record set that was read before.  Once the page
\* reaches the end of the list, what is not in it is shown as missing, and what is in it and
\* on no page has been skipped.
FetchPage(r) ==
    /\ pc[r] = "fetch"
    /\ cursor[r] # None
    /\ \E end \in cursor[r]..Len(listing) :
         LET page == {listing[i] : i \in cursor[r] + 1..end}
             last == end = Len(listing)
         IN  /\ end - cursor[r] <= PageLimit
             /\ \A c \in page : read[r][c] = None
             /\ cursor' = [cursor EXCEPT ![r] = IF last THEN None ELSE end]
             /\ read' = [read EXCEPT ![r] = [c \in Records |->
                   IF c \in page \/ (last /\ c \notin Present /\ read[r][c] = None)
                   THEN content[c] ELSE read[r][c]]]
    /\ UNCHANGED <<providerVars, clock, version, cacheVars, pc, refresh, row, fallback, token,
                   deadline, shown, stale, promised, entered, looked, writerVars>>

\* A page fails, the deadline passes, or the pages contradict each other: the entry
\* found before the fetch is returned as stale, unless a refresh was asked for.
FetchFails(r) ==
    /\ pc[r] = "fetch"
    /\ Return(r, fallback[r], fallback[r] # None)
    /\ UNCHANGED <<providerVars, clock, version, cacheVars, looked, writerVars>>

\* StoreFetch that does not look at the generation.
StoreFetchAnyGeneration(r) ==
    /\ pc[r] = "fetch"
    /\ cursor[r] = None
    /\ LET entry == [content |-> read[r], version |-> row[r], at |-> clock] IN
         /\ cached' = entry
         /\ Return(r, entry, FALSE)
    /\ UNCHANGED <<providerVars, clock, version, known, generation, looked, writerVars>>

\* The last page has come: storeRecordFetch, and the records are returned.
StoreFetch(r) ==
    /\ pc[r] = "fetch"
    /\ cursor[r] = None
    /\ LET entry == [content |-> read[r], version |-> row[r], at |-> clock] IN
         /\ cached' = IF generation = token[r] THEN entry ELSE cached
         /\ Return(r, entry, FALSE)
    /\ UNCHANGED <<providerVars, clock, version, known, generation, looked, writerVars>>

\* Get or the fetch fails before there is anything to fall back on.
ListFails(r) ==
    /\ pc[r] = "client"
    /\ Return(r, None, FALSE)
    /\ UNCHANGED <<providerVars, clock, version, cacheVars, looked, writerVars>>

EndList(r) ==
    /\ pc[r] = "returned"
    /\ pc' = [pc EXCEPT ![r] = "idle"]
    /\ row' = [row EXCEPT ![r] = 0]
    /\ shown' = [shown EXCEPT ![r] = None]
    /\ stale' = [stale EXCEPT ![r] = FALSE]
    /\ promised' = [promised EXCEPT ![r] = Unchanged]
    /\ entered' = [entered EXCEPT ![r] = 0]
    /\ looked' = [looked EXCEPT ![r] = 0]
    /\ UNCHANGED <<providerVars, clock, version, cacheVars, refresh, fallback, token, deadline,
                   cursor, read, writerVars>>

----------------------------------------------------------------------------
(* CreateRecordSet, UpdateRecordSet and DeleteRecordSet. *)

\* The precondition names the content the caller has seen, now or in the past.
BeginMutation(w) ==
    /\ wpc[w] = "idle"
    /\ generation < MaxGeneration
    /\ \E k \in Kinds, c \in Records :
         /\ kind' = [kind EXCEPT ![w] = k]
         /\ target' = [target EXCEPT ![w] = c]
         /\ \E n \in 0..content[c] : expected' = [expected EXCEPT ![w] = n]
         /\ wpc' = [wpc EXCEPT ![w] = IF k = "create" THEN "invalidate" ELSE "current"]
    /\ UNCHANGED <<providerVars, clock, version, cacheVars, readerVars, applied, audited, settled>>

\* Whether the precondition holds of the record set at the provider: for a creation, that
\* there is none.
Matches(w) ==
    IF kind[w] = "create" THEN target[w] \notin Present
    ELSE target[w] \in Present /\ content[target[w]] = expected[w]

\* The service reads the record set and compares it with the precondition.
ReadCurrent(w) ==
    /\ wpc[w] = "current"
    /\ wpc' = [wpc EXCEPT ![w] = IF Matches(w) THEN "invalidate" ELSE "refused"]
    /\ UNCHANGED <<providerVars, clock, version, cacheVars, readerVars, mutationVars, settled>>

\* Get fails, the read fails, or the input is refused.
MutationRefused(w) ==
    /\ wpc[w] \in {"current", "invalidate"}
    /\ wpc' = [wpc EXCEPT ![w] = "refused"]
    /\ UNCHANGED <<providerVars, clock, version, cacheVars, readerVars, mutationVars, settled>>

InvalidateBefore(w) ==
    /\ wpc[w] = "invalidate"
    /\ wpc' = [wpc EXCEPT ![w] = "queue"]
    /\ InvalidateZone
    /\ UNCHANGED <<providerVars, clock, version, readerVars, mutationVars, settled>>

\* EnterCall without the mutations channel.
EnterCallAnyTime(w) ==
    /\ wpc[w] = "queue"
    /\ wpc' = [wpc EXCEPT ![w] = "check"]
    /\ UNCHANGED <<providerVars, clock, version, cacheVars, readerVars, mutationVars, settled>>

\* providerMutationCall admits one mutation at a time.
EnterCall(w) ==
    /\ wpc[w] = "queue"
    /\ \A v \in Writers : wpc[v] \notin Calling
    /\ wpc' = [wpc EXCEPT ![w] = "check"]
    /\ UNCHANGED <<providerVars, clock, version, cacheVars, readerVars, mutationVars, settled>>

\* The adapter reads the record set again and compares.
Check(w) ==
    /\ wpc[w] = "check"
    /\ Matches(w)
    /\ wpc' = [wpc EXCEPT ![w] = "write"]
    /\ UNCHANGED <<providerVars, clock, version, cacheVars, readerVars, mutationVars, settled>>

\* The provider creates, changes or removes a record set, and lists the others in any order.
Change(c) ==
    /\ content[c] < MaxChanges
    /\ content' = [content EXCEPT ![c] = @ + 1]
    /\ landed' = [landed EXCEPT ![c][content[c] + 1] = clock]
    /\ listing' \in Listings
    /\ Present' \ {c} = Present \ {c}

\* What a mutation makes of its record set.
ChangeFor(w) ==
    /\ kind[w] = "delete" => target[w] \in Present
    /\ Change(target[w])
    /\ target[w] \in Present' <=> kind[w] # "delete"
    /\ applied' = [applied EXCEPT ![w] = content'[target[w]]]

\* A request that is sent once more as its reply is late.
ApplyAgain(w) ==
    /\ wpc[w] \in {"write", "applied"}
    /\ ChangeFor(w)
    /\ wpc' = [wpc EXCEPT ![w] = "applied"]
    /\ UNCHANGED <<late, clock, version, cacheVars, readerVars, kind, target, expected, audited, settled>>

\* The request of the adapter is applied.
Apply(w) ==
    /\ wpc[w] = "write"
    /\ ChangeFor(w)
    /\ wpc' = [wpc EXCEPT ![w] = "applied"]
    /\ UNCHANGED <<late, clock, version, cacheVars, readerVars, kind, target, expected, audited, settled>>

CallSucceeds(w) ==
    /\ wpc[w] = "applied"
    /\ wpc' = [wpc EXCEPT ![w] = "purge"]
    /\ UNCHANGED <<providerVars, clock, version, cacheVars, readerVars, mutationVars, settled>>

\* The call fails: a conflict, an error, the call timeout, an ended generation.  A request
\* that was sent may be applied all the same, before or after the caller gives up.
CallFails(w) ==
    /\ wpc[w] \in {"queue"} \cup Calling
    /\ wpc' = [wpc EXCEPT ![w] = "audit"]
    /\ \/ UNCHANGED late
       \/ /\ wpc[w] = "write"
          /\ late[target[w]] < MaxChanges
          /\ late' = [late EXCEPT ![target[w]] = @ + 1]
    /\ UNCHANGED <<content, listing, landed, clock, version, cacheVars, readerVars, mutationVars, settled>>

\* The invalidation that follows a call that succeeded.
Purge(w) ==
    /\ wpc[w] = "purge"
    /\ wpc' = [wpc EXCEPT ![w] = "audit"]
    /\ InvalidateZone
    /\ UNCHANGED <<providerVars, clock, version, readerVars, mutationVars, settled>>

\* auditRecordSuccess or auditRecordFailure inserts the event, or fails: the context of the
\* request has ended, or the database is away.  The error is returned instead.
Audit(w) ==
    /\ wpc[w] \in {"refused", "audit"}
    /\ \E b \in BOOLEAN : audited' = [audited EXCEPT ![w] = b]
    /\ wpc' = [wpc EXCEPT ![w] = IF wpc[w] = "audit" THEN "defer" ELSE "returned"]
    /\ UNCHANGED <<providerVars, clock, version, cacheVars, readerVars, kind, target, expected,
                   applied, settled>>

\* The mutation returns to its caller.
Settle(w) ==
    settled' = [settled EXCEPT ![target[w]] = IF @ < applied[w] THEN applied[w] ELSE @]

\* The deferred invalidation, however the call has ended.
DeferredInvalidate(w) ==
    /\ wpc[w] = "defer"
    /\ wpc' = [wpc EXCEPT ![w] = "returned"]
    /\ InvalidateZone
    /\ Settle(w)
    /\ UNCHANGED <<providerVars, clock, version, readerVars, mutationVars>>

EndMutation(w) ==
    /\ wpc[w] = "returned"
    /\ wpc' = [wpc EXCEPT ![w] = "idle"]
    /\ kind' = [kind EXCEPT ![w] = "update"]
    /\ target' = [target EXCEPT ![w] = None]
    /\ expected' = [expected EXCEPT ![w] = 0]
    /\ applied' = [applied EXCEPT ![w] = 0]
    /\ audited' = [audited EXCEPT ![w] = FALSE]
    /\ UNCHANGED <<providerVars, clock, version, cacheVars, readerVars, settled>>

----------------------------------------------------------------------------
(* The rest of the world. *)

\* A request whose caller has given up is applied.
LateApply(c) ==
    /\ late[c] > 0
    /\ Change(c)
    /\ late' = [late EXCEPT ![c] = @ - 1]
    /\ UNCHANGED <<clock, version, cacheVars, readerVars, writerVars>>

\* Someone changes a record set at the provider, past this service.
OutsideChange(c) ==
    /\ Change(c)
    /\ UNCHANGED <<late, clock, version, cacheVars, readerVars, writerVars>>

\* Time passes, but no fetch outlives the deadline of its context.
Tick ==
    /\ clock < MaxTime
    /\ \A r \in Readers : pc[r] = "fetch" => clock < deadline[r]
    /\ clock' = clock + 1
    /\ UNCHANGED <<providerVars, version, cacheVars, readerVars, writerVars>>

ListStep(r) ==
    \/ BeginList(r) \/ GetClient(r) \/ UseCached(r) \/ Miss(r) \/ BeginFetch(r) \/ FetchPage(r)
    \/ FetchFails(r) \/ StoreFetch(r) \/ ListFails(r) \/ EndList(r)

MutationStep(w) ==
    \/ BeginMutation(w) \/ ReadCurrent(w) \/ MutationRefused(w) \/ InvalidateBefore(w)
    \/ EnterCall(w) \/ Check(w) \/ Apply(w) \/ CallSucceeds(w) \/ CallFails(w) \/ Purge(w)
    \/ Audit(w) \/ DeferredInvalidate(w) \/ EndMutation(w)

Next ==
    \/ \E r \in Readers : ListStep(r)
    \/ \E w \in Writers : MutationStep(w)
    \/ \E c \in Records : LateApply(c) \/ OutsideChange(c)
    \/ InvalidateByOthers
    \/ AccountWritten
    \/ Tick

Spec == Init /\ [][Next]_vars

----------------------------------------------------------------------------
(* Properties. *)

TypeOK ==
    /\ content \in [Records -> Nat]
    /\ listing \in Listings
    /\ landed \in [Records -> [1..MaxChanges -> Nat \cup {None}]]
    /\ late \in [Records -> Nat]
    /\ clock \in Nat
    /\ version \in Nat
    /\ known \in BOOLEAN
    /\ generation \in Nat
    /\ cached \in Entry \cup {None}
    /\ pc \in [Readers -> ReaderPcs]
    /\ refresh \in [Readers -> BOOLEAN]
    /\ row \in [Readers -> Nat]
    /\ fallback \in [Readers -> Entry \cup {None}]
    /\ token \in [Readers -> Nat]
    /\ deadline \in [Readers -> Nat]
    /\ cursor \in [Readers -> Nat \cup {None}]
    /\ read \in [Readers -> [Records -> Nat \cup {None}]]
    /\ shown \in [Readers -> Entry \cup {None}]
    /\ stale \in [Readers -> BOOLEAN]
    /\ wpc \in [Writers -> WriterPcs]
    /\ kind \in [Writers -> AllKinds]
    /\ target \in [Writers -> Records \cup {None}]
    /\ expected \in [Writers -> Nat]
    /\ applied \in [Writers -> Nat]
    /\ audited \in [Writers -> BOOLEAN]
    /\ settled \in [Records -> Nat]
    /\ promised \in [Readers -> [Records -> Nat]]
    /\ entered \in [Readers -> Nat]
    /\ looked \in [Readers -> Nat]
    /\ \A w \in Writers : wpc[w] # "idle" => target[w] \in Records
    /\ \A r \in Readers : pc[r] # "fetch" => cursor[r] = 0 /\ read[r] = Nothing

\* Whether a record set that was read has been changed or removed since.
Outdated(seen) == \E c \in Records : seen[c] # None /\ seen[c] < content[c]

\* Every list, from the provider, from the cache or flagged as stale, shows every change
\* whose mutation had returned when the list came in, whether with success or an error.  It
\* may leave a record set out, mutations and all, only where the pages have skipped it, and
\* they do only when a record set that was read before is changed while they are read.
ListsShowReturnedMutations ==
    \A r \in Readers, c \in Records :
        shown[r] # None =>
          IF shown[r].content[c] = None THEN Outdated(shown[r].content)
          ELSE shown[r].content[c] >= promised[r][c]

\* No list shows records read with an account row older than the list itself: records of
\* replaced credentials or options are never shown, not even as stale.
ListsAreOfThisAccount ==
    \A r \in Readers : shown[r] # None => shown[r].version >= entered[r]

\* The first so many changes of a record set include what had happened long before a time.
ShownBefore(many, c, wait, time) ==
    \A n \in 1..MaxChanges : landed[c][n] # None /\ landed[c][n] + wait < time => n <= many

\* What is not flagged as stale shows all that happened to the record sets, in this
\* service or past it, a late request included, up to the lifetime of an entry and the time
\* of a fetch ago.  Where the pages have skipped a record set, another one that is shown has
\* been changed since that time.
UnflaggedListsAreRecent ==
    \A r \in Readers, c \in Records :
        shown[r] # None /\ ~stale[r] =>
          LET seen == shown[r].content IN
          IF seen[c] # None THEN ShownBefore(seen[c], c, Ttl + ReadTime, looked[r])
          ELSE \E d \in Records :
                 /\ seen[d] # None /\ seen[d] < content[d]
                 /\ landed[d][seen[d] + 1] + Ttl + ReadTime >= looked[r]

\* An update or deletion is never applied over a change that had been reported to its
\* caller after the content its precondition names.
NoSilentOverwrite ==
    [][\A w \in Writers :
         (/\ wpc[w] = "write" /\ wpc'[w] = "applied" /\ kind[w] # "create")
         => settled[target[w]] <= expected[w]]_vars

\* A mutation that changed the provider leaves an audit event.
AppliedChangesAreAudited ==
    \A w \in Writers : wpc[w] = "returned" /\ applied[w] > 0 => audited[w]

\* What the callers see: the lists under way, what the answered ones show of the record sets,
\* and the mutations that have not returned yet, as [on, expects, change].
ListsAsked == [r \in Readers |-> pc[r] \notin {"idle", "returned"}]
ContentShown == [r \in Readers |-> IF shown[r] = None THEN None ELSE shown[r].content]
MutationsAsked ==
    [w \in Writers |->
       IF wpc[w] \in {"idle", "returned"} THEN None
       ELSE [on |-> target[w], expects |-> IF kind[w] = "create" THEN None ELSE expected[w],
             change |-> applied[w]]]

\* Whatever the cache holds and however calls end, callers see lists and mutations as
\* RecordService promises them.
Service ==
    INSTANCE RecordService WITH
        reported <- settled, asked <- ListsAsked, promise <- promised, shows <- ContentShown,
        task <- MutationsAsked
ImplementsService == Service!Spec

==============================================================================
