-------------------------- MODULE RecordCacheProofs --------------------------
(* Proofs about RecordCache, for every value of its constants. *)
EXTENDS RecordCache, FiniteSetTheorems, TLAPS

----------------------------------------------------------------------------
(* Type correctness. *)

\* The types hold initially.
LEMMA TypeInit == Init => TypeOK
<1> SUFFICES ASSUME Init PROVE TypeOK
  OBVIOUS
<1>1. landed \in [Records -> [1..MaxChanges -> Nat \cup {None}]]
  BY DEF Init
<1>2. Unchanged \in [Records -> Nat] /\ Nothing \in [Records -> Nat \cup {None}]
  BY DEF Unchanged, Nothing
<1>3. /\ read \in [Readers -> [Records -> Nat \cup {None}]]
      /\ promised \in [Readers -> [Records -> Nat]]
  BY <1>2 DEF Init
<1>4. /\ pc \in [Readers -> ReaderPcs] /\ refresh \in [Readers -> BOOLEAN]
      /\ fallback \in [Readers -> Entry \cup {None}] /\ shown \in [Readers -> Entry \cup {None}]
  BY DEF Init, ReaderPcs
<1>5. /\ row \in [Readers -> Nat] /\ token \in [Readers -> Nat] /\ deadline \in [Readers -> Nat]
      /\ entered \in [Readers -> Nat] /\ looked \in [Readers -> Nat] /\ stale \in [Readers -> BOOLEAN]
  BY DEF Init
<1>7. /\ cursor \in [Readers -> Nat \cup {None}]
      /\ \A r \in Readers : cursor[r] = 0 /\ read[r] = Nothing
  BY DEF Init
<1>6. /\ wpc \in [Writers -> WriterPcs] /\ kind \in [Writers -> AllKinds]
      /\ target \in [Writers -> Records \cup {None}] /\ expected \in [Writers -> Nat]
      /\ applied \in [Writers -> Nat] /\ audited \in [Writers -> BOOLEAN]
      /\ \A w \in Writers : wpc[w] # "idle" => target[w] \in Records
  BY DEF Init, WriterPcs, AllKinds
<1> QED
  BY <1>1, <1>2, <1>3, <1>4, <1>5, <1>6, <1>7 DEF Init, TypeOK

\* What Return does to the variables of a list is well typed.
LEMMA ReturnType ==
  ASSUME TypeOK, NEW r \in Readers, NEW entry \in Entry \cup {None}, NEW flag \in BOOLEAN,
         Return(r, entry, flag)
  PROVE  /\ pc' \in [Readers -> ReaderPcs] /\ refresh' \in [Readers -> BOOLEAN]
         /\ row' \in [Readers -> Nat] /\ fallback' \in [Readers -> Entry \cup {None}]
         /\ token' \in [Readers -> Nat] /\ deadline' \in [Readers -> Nat]
         /\ read' \in [Readers -> [Records -> Nat \cup {None}]]
         /\ shown' \in [Readers -> Entry \cup {None}] /\ stale' \in [Readers -> BOOLEAN]
         /\ promised' \in [Readers -> [Records -> Nat]] /\ entered' \in [Readers -> Nat]
         /\ cursor' \in [Readers -> Nat \cup {None}]
         /\ \A q \in Readers : pc'[q] # "fetch" => cursor'[q] = 0 /\ read'[q] = Nothing
<1>1. Nothing \in [Records -> Nat \cup {None}]
  BY DEF Nothing
<1>2. /\ read' \in [Readers -> [Records -> Nat \cup {None}]] /\ cursor' \in [Readers -> Nat \cup {None}]
      /\ cursor'[r] = 0 /\ read'[r] = Nothing
      /\ \A q \in Readers : q # r => cursor'[q] = cursor[q] /\ read'[q] = read[q] /\ pc'[q] = pc[q]
  BY <1>1 DEF TypeOK, Return
<1>3. \A q \in Readers : pc'[q] # "fetch" => cursor'[q] = 0 /\ read'[q] = Nothing
  BY <1>2 DEF TypeOK
<1> QED
  BY <1>2, <1>3 DEF TypeOK, Return, ReaderPcs

\* What StoreFetch builds is an entry.
LEMMA FetchedEntry ==
  ASSUME TypeOK, NEW r \in Readers
  PROVE  [content |-> read[r], version |-> row[r], at |-> clock] \in Entry
  BY DEF TypeOK, Entry

\* A page of a fetch moves the cursor and reads some record sets as they are.
LEMMA PageReads ==
  ASSUME TypeOK, NEW r \in Readers, FetchPage(r)
  PROVE  \E next \in Nat \cup {None}, some \in SUBSET Records :
           /\ cursor' = [cursor EXCEPT ![r] = next]
           /\ read' = [read EXCEPT ![r] = [c \in Records |-> IF c \in some THEN content[c] ELSE read[r][c]]]
<1>1. cursor[r] \in Nat
  BY DEF FetchPage, TypeOK
<1>2. PICK end \in cursor[r]..Len(listing) :
        LET page == {listing[i] : i \in cursor[r] + 1..end}
            last == end = Len(listing)
        IN  /\ cursor' = [cursor EXCEPT ![r] = IF last THEN None ELSE end]
            /\ read' = [read EXCEPT ![r] = [c \in Records |->
                  IF c \in page \/ (last /\ c \notin Present /\ read[r][c] = None)
                  THEN content[c] ELSE read[r][c]]]
  BY DEF FetchPage
<1> DEFINE some == {c \in Records : \/ c \in {listing[i] : i \in cursor[r] + 1..end}
                                   \/ (end = Len(listing) /\ c \notin Present /\ read[r][c] = None)}
           next == IF end = Len(listing) THEN None ELSE end
<1>3. read' = [read EXCEPT ![r] = [c \in Records |-> IF c \in some THEN content[c] ELSE read[r][c]]]
  BY <1>2
<1>4. cursor' = [cursor EXCEPT ![r] = next] /\ next \in Nat \cup {None} /\ some \in SUBSET Records
  BY <1>1, <1>2
<1> HIDE DEF some, next
<1> QED
  BY <1>3, <1>4

\* A page of a fetch leaves the other lists alone, and keeps what was read or reads it anew.
LEMMA PageOnlyReads ==
  ASSUME TypeOK, NEW r \in Readers, FetchPage(r)
  PROVE  /\ \A q \in Readers : q # r => cursor'[q] = cursor[q] /\ read'[q] = read[q]
         /\ \A q \in Readers, c \in Records :
              read'[q][c] = read[q][c] \/ (q = r /\ read'[q][c] = content[c])
<1>1. PICK next \in Nat \cup {None}, some \in SUBSET Records :
        /\ cursor' = [cursor EXCEPT ![r] = next]
        /\ read' = [read EXCEPT ![r] = [c \in Records |-> IF c \in some THEN content[c] ELSE read[r][c]]]
  BY PageReads
<1>2. read \in [Readers -> [Records -> Nat \cup {None}]] /\ cursor \in [Readers -> Nat \cup {None}]
  BY DEF TypeOK
<1>3. \A q \in Readers : q # r => cursor'[q] = cursor[q] /\ read'[q] = read[q]
  BY <1>1, <1>2
<1>4. \A c \in Records : read'[r][c] = read[r][c] \/ read'[r][c] = content[c]
  BY <1>1, <1>2
<1> QED
  BY <1>3, <1>4

\* A step of a list keeps the types.
LEMMA TypeList == ASSUME TypeOK, NEW r \in Readers, ListStep(r) PROVE TypeOK'
<1> USE NoneAssumption DEF providerVars, cacheVars, writerVars, mutationVars
<1>1. CASE BeginList(r)
  BY <1>1 DEF BeginList, TypeOK, ReaderPcs
<1>2. CASE GetClient(r)
  BY <1>2 DEF GetClient, TypeOK, ReaderPcs
<1>3. CASE UseCached(r)
  <2>1. cached \in Entry
    BY <1>3 DEF UseCached, Usable, CachedOK, TypeOK
  <2> QED
    BY <1>3, <2>1, ReturnType DEF UseCached, TypeOK
<1>4. CASE Miss(r)
  <2>1. fallback' \in [Readers -> Entry \cup {None}]
    BY <1>4 DEF Miss, TypeOK
  <2> QED
    BY <1>4, <2>1 DEF Miss, TypeOK, ReaderPcs
<1>5. CASE BeginFetch(r)
  <2>1. known' \in BOOLEAN /\ generation' \in Nat /\ token' \in [Readers -> Nat]
    BY <1>5 DEF BeginFetch, TypeOK
  <2>2. pc' \in [Readers -> ReaderPcs]
    BY <1>5 DEF BeginFetch, TypeOK, ReaderPcs
  <2>3. deadline' \in [Readers -> Nat]
    BY <1>5, BoundsAssumption DEF BeginFetch, TypeOK
  <2> QED
    BY <1>5, <2>1, <2>2, <2>3 DEF BeginFetch, TypeOK
<1>6. CASE FetchPage(r)
  <2>1. /\ UNCHANGED <<providerVars, clock, version, cacheVars, pc, refresh, row, fallback, token,
                      deadline, shown, stale, promised, entered, looked, writerVars>>
        /\ pc[r] = "fetch" /\ cursor[r] \in Nat
    BY <1>6 DEF FetchPage, TypeOK
  <2>2. PICK next \in Nat \cup {None}, some \in SUBSET Records :
          /\ cursor' = [cursor EXCEPT ![r] = next]
          /\ read' = [read EXCEPT ![r] = [c \in Records |-> IF c \in some THEN content[c] ELSE read[r][c]]]
    BY <1>6, <2>1, PageReads
  <2>3. [c \in Records |-> IF c \in some THEN content[c] ELSE read[r][c]] \in [Records -> Nat \cup {None}]
    BY DEF TypeOK
  <2>4. /\ read' \in [Readers -> [Records -> Nat \cup {None}]] /\ cursor' \in [Readers -> Nat \cup {None}]
        /\ \A q \in Readers : q # r => cursor'[q] = cursor[q] /\ read'[q] = read[q]
    BY <2>2, <2>3 DEF TypeOK
  <2>5. \A q \in Readers : pc'[q] # "fetch" => cursor'[q] = 0 /\ read'[q] = Nothing
    BY <2>1, <2>4 DEF TypeOK
  <2> QED
    BY <2>1, <2>4, <2>5 DEF TypeOK
<1>7. CASE FetchFails(r)
  <2>1. fallback[r] \in Entry \cup {None}
    BY DEF TypeOK
  <2> QED
    BY <1>7, <2>1, ReturnType DEF FetchFails, TypeOK
<1>8. CASE StoreFetch(r)
  <2> DEFINE entry == [content |-> read[r], version |-> row[r], at |-> clock]
  <2>1. entry \in Entry
    BY <1>8, FetchedEntry DEF StoreFetch
  <2>2. cached' \in Entry \cup {None} /\ Return(r, entry, FALSE)
    BY <1>8, <2>1 DEF StoreFetch, TypeOK
  <2> HIDE DEF entry
  <2> QED
    BY <1>8, <2>1, <2>2, ReturnType DEF StoreFetch, TypeOK
<1>9. CASE ListFails(r)
  BY <1>9, ReturnType DEF ListFails, TypeOK
<1>10. CASE EndList(r)
  BY <1>10 DEF EndList, TypeOK, ReaderPcs, Unchanged
<1> QED
  BY <1>1, <1>2, <1>3, <1>4, <1>5, <1>6, <1>7, <1>8, <1>9, <1>10, ListStep(r) DEF ListStep

\* A change at the provider keeps the types.
LEMMA ChangeType ==
  ASSUME TypeOK, NEW c \in Records, Change(c)
  PROVE  /\ content' \in [Records -> Nat] /\ landed' \in [Records -> [1..MaxChanges -> Nat \cup {None}]]
         /\ listing' \in Listings
<1>1. content[c] + 1 \in 1..MaxChanges
  BY BoundsAssumption DEF TypeOK, Change
<1> QED
  BY <1>1 DEF TypeOK, Change

\* A step of a mutation keeps the types.
LEMMA TypeMutation == ASSUME TypeOK, NEW w \in Writers, MutationStep(w) PROVE TypeOK'
<1> USE NoneAssumption DEF TypeOK, providerVars, cacheVars, readerVars, listVars, mutationVars, WriterPcs, Calling
<1>1. CASE BeginMutation(w)
  <2>1. kind' \in [Writers -> AllKinds]
    BY <1>1, KindsAssumption DEF BeginMutation
  <2>2. expected' \in [Writers -> Nat]
    BY <1>1 DEF BeginMutation
  <2>3. /\ wpc' \in [Writers -> WriterPcs]
        /\ target' \in [Writers -> Records \cup {None}]
    BY <1>1 DEF BeginMutation
  <2>4. \A v \in Writers : wpc'[v] # "idle" => target'[v] \in Records
    BY <1>1 DEF BeginMutation
  <2> QED
    BY <1>1, <2>1, <2>2, <2>3, <2>4 DEF BeginMutation
<1>2. CASE ReadCurrent(w)
  BY <1>2 DEF ReadCurrent
<1>3. CASE MutationRefused(w)
  BY <1>3 DEF MutationRefused
<1>4. CASE InvalidateBefore(w)
  BY <1>4 DEF InvalidateBefore, InvalidateZone
<1>5. CASE EnterCall(w)
  BY <1>5 DEF EnterCall
<1>6. CASE Check(w)
  BY <1>6 DEF Check
<1>7. CASE Apply(w)
  <2>1. target[w] \in Records
    BY <1>7 DEF Apply
  <2>2. /\ content' \in [Records -> Nat] /\ landed' \in [Records -> [1..MaxChanges -> Nat \cup {None}]]
        /\ listing' \in Listings
    BY <1>7, <2>1, ChangeType DEF Apply, ChangeFor
  <2>3. applied' \in [Writers -> Nat]
    BY <1>7, <2>1, <2>2 DEF Apply, ChangeFor
  <2> QED
    BY <1>7, <2>2, <2>3 DEF Apply
<1>8. CASE CallSucceeds(w)
  BY <1>8 DEF CallSucceeds
<1>9. CASE CallFails(w)
  <2>1. wpc[w] # "idle"
    BY <1>9 DEF CallFails
  <2>2. /\ wpc' \in [Writers -> WriterPcs]
        /\ \A v \in Writers : wpc'[v] # "idle" => target[v] \in Records
    BY <1>9, <2>1 DEF CallFails
  <2>3. late' \in [Records -> Nat]
    <3>1. late \in [Records -> Nat] /\ target[w] \in Records
      BY <2>1
    <3>2. late[target[w]] + 1 \in Nat
      BY <3>1
    <3> HIDE NoneAssumption DEF TypeOK
    <3> QED
      BY <1>9, <3>1, <3>2 DEF CallFails
  <2> QED
    BY <1>9, <2>2, <2>3 DEF CallFails
<1>10. CASE Purge(w)
  BY <1>10 DEF Purge, InvalidateZone
<1>11. CASE Audit(w)
  BY <1>11 DEF Audit
<1>12. CASE DeferredInvalidate(w)
  BY <1>12 DEF DeferredInvalidate, InvalidateZone, Settle
<1>13. CASE EndMutation(w)
  BY <1>13 DEF EndMutation, AllKinds
<1> QED
  BY <1>1, <1>2, <1>3, <1>4, <1>5, <1>6, <1>7, <1>8, <1>9, <1>10, <1>11, <1>12, <1>13, MutationStep(w)
  DEF MutationStep

\* Every step keeps the types.
LEMMA TypeNext == ASSUME TypeOK, [Next]_vars PROVE TypeOK'
<1> USE DEF providerVars, cacheVars, readerVars, listVars, writerVars, mutationVars
<1>1. ASSUME NEW c \in Records, LateApply(c) \/ OutsideChange(c) PROVE TypeOK'
  <2>1. /\ content' \in [Records -> Nat] /\ landed' \in [Records -> [1..MaxChanges -> Nat \cup {None}]]
        /\ listing' \in Listings
    BY <1>1, ChangeType DEF LateApply, OutsideChange
  <2>2. late' \in [Records -> Nat]
    <3>1. CASE LateApply(c)
      <4>1. late[c] - 1 \in Nat
        BY <3>1 DEF LateApply, TypeOK
      <4> QED
        BY <3>1, <4>1 DEF LateApply, TypeOK
    <3>2. CASE OutsideChange(c)
      BY <3>2 DEF OutsideChange, TypeOK
    <3> QED
      BY <1>1, <3>1, <3>2
  <2>3. UNCHANGED <<clock, version, cacheVars, readerVars, writerVars>>
    BY <1>1 DEF LateApply, OutsideChange
  <2> QED
    BY <2>1, <2>2, <2>3 DEF TypeOK
<1>2. CASE InvalidateByOthers
  BY <1>2 DEF InvalidateByOthers, InvalidateZone, TypeOK
<1>3. CASE AccountWritten
  BY <1>3 DEF AccountWritten, TypeOK
<1>4. CASE Tick
  BY <1>4 DEF Tick, TypeOK
<1>5. CASE UNCHANGED vars
  BY <1>5 DEF vars, TypeOK
<1> QED
  BY <1>1, <1>2, <1>3, <1>4, <1>5, TypeList, TypeMutation DEF Next

\* Every variable keeps its type in every behaviour.
THEOREM TypeCorrect == Spec => []TypeOK
  BY TypeInit, TypeNext, PTL DEF Spec

----------------------------------------------------------------------------
(* Lists show the mutations that had returned. *)

\* What has returned has been applied.
Applied ==
    /\ \A c \in Records : settled[c] <= content[c]
    /\ \A w \in Writers : wpc[w] = "idle" => applied[w] = 0
    /\ \A w \in Writers : wpc[w] # "idle" => applied[w] <= content[target[w]]
    /\ \A r \in Readers, c \in Records : promised[r][c] <= settled[c]

\* The entry shows what has returned, and so does a fetch that may still become the entry.
CacheIsSettled ==
    /\ cached # None => \A c \in Records : cached.content[c] # None => settled[c] <= cached.content[c]
    /\ \A r \in Readers : token[r] <= generation
    /\ \A r \in Readers, c \in Records :
         pc[r] = "fetch" /\ token[r] = generation /\ read[r][c] # None => settled[c] <= read[r][c]

\* What a list holds shows what it was promised.
ListsKeepPromise ==
    \A r \in Readers, c \in Records :
        /\ read[r][c] # None => promised[r][c] <= read[r][c]
        /\ fallback[r] # None /\ fallback[r].content[c] # None => promised[r][c] <= fallback[r].content[c]
        /\ shown[r] # None /\ shown[r].content[c] # None => promised[r][c] <= shown[r].content[c]

\* A list holds nothing of a request it has ended.
HoldsNothingOld ==
    \A r \in Readers :
        /\ pc[r] # "fetch" => \A c \in Records : read[r][c] = None
        /\ pc[r] \notin {"begin", "fetch"} => fallback[r] = None
        /\ pc[r] # "returned" => shown[r] = None

IInv == TypeOK /\ Applied /\ CacheIsSettled /\ ListsKeepPromise /\ HoldsNothingOld

\* The invariant holds initially.
LEMMA InvInit == Init => IInv
<1> SUFFICES ASSUME Init PROVE IInv
  OBVIOUS
<1>1. TypeOK
  BY TypeInit
<1>2. \A c \in Records : settled[c] = 0 /\ content[c] = 0
  BY DEF Init, Unchanged
<1>3. \A r \in Readers, c \in Records : promised[r][c] = 0 /\ read[r][c] = None
  BY DEF Init, Unchanged, Nothing
<1> QED
  BY <1>1, <1>2, <1>3 DEF Init, IInv, Applied, CacheIsSettled, ListsKeepPromise, HoldsNothingOld

\* A list that returns an entry keeps its promise when the entry does.
LEMMA ReturnKeepsPromise ==
  ASSUME TypeOK, ListsKeepPromise, NEW r \in Readers, NEW entry, NEW flag, Return(r, entry, flag),
         entry # None => \A c \in Records : entry.content[c] # None => promised[r][c] <= entry.content[c]
  PROVE  ListsKeepPromise'
<1>1. promised' = promised
  BY DEF Return
<1> QED
  BY <1>1 DEF TypeOK, ListsKeepPromise, Return, Nothing

\* A list keeps what is settled and applied.
LEMMA ListKeepsApplied == ASSUME IInv, NEW r \in Readers, ListStep(r) PROVE Applied'
<1> USE DEF IInv, TypeOK, Applied, providerVars, writerVars, mutationVars
<1>1. CASE BeginList(r)
  BY <1>1 DEF BeginList
<1>2. CASE EndList(r)
  BY <1>2 DEF EndList, Unchanged
<1>3. CASE UNCHANGED <<providerVars, promised, writerVars>>
  BY <1>3
<1> QED
  BY <1>1, <1>2, <1>3, ListStep(r)
  DEF ListStep, GetClient, UseCached, Miss, BeginFetch, FetchPage, FetchFails, StoreFetch, ListFails, Return

\* A list keeps the cache settled.
LEMMA ListKeepsCache == ASSUME IInv, NEW r \in Readers, ListStep(r) PROVE CacheIsSettled'
<1> USE DEF IInv, TypeOK, CacheIsSettled, providerVars, cacheVars, writerVars, mutationVars, ReaderPcs
<1>1. CASE BeginList(r)
  BY <1>1 DEF BeginList
<1>2. CASE GetClient(r)
  BY <1>2 DEF GetClient
<1>3. CASE UseCached(r) \/ FetchFails(r) \/ ListFails(r)
  <2>1. UNCHANGED <<settled, cached, generation>>
    BY <1>3 DEF UseCached, FetchFails, ListFails
  <2>2. /\ pc' = [pc EXCEPT ![r] = "returned"] /\ token' = [token EXCEPT ![r] = 0]
        /\ read' = [read EXCEPT ![r] = Nothing]
    BY <1>3 DEF UseCached, FetchFails, ListFails, Return
  <2> QED
    BY <2>1, <2>2
<1>4. CASE Miss(r)
  BY <1>4 DEF Miss
<1>5. CASE BeginFetch(r)
  <2>1. \A q \in Readers : q # r => token'[q] < generation'
    BY <1>5 DEF BeginFetch
  <2>2. token'[r] = generation'
    BY <1>5 DEF BeginFetch
  <2>3. \A c \in Records : read'[r][c] = None
    BY <1>5 DEF BeginFetch, HoldsNothingOld
  <2>4. UNCHANGED <<settled, cached, read>>
    BY <1>5 DEF BeginFetch
  <2>5. cached # None => \A c \in Records : cached.content[c] # None => settled[c] <= cached.content[c]
    OBVIOUS
  <2>6. generation' \in Nat /\ \A q \in Readers : token'[q] \in Nat
    BY <1>5 DEF BeginFetch
  <2> HIDE DEF IInv, TypeOK
  <2>7. \A q \in Readers : token'[q] <= generation'
    BY <2>1, <2>2, <2>6
  <2>8. \A q \in Readers, c \in Records :
          token'[q] = generation' /\ read'[q][c] # None => settled'[c] <= read'[q][c]
    <3> SUFFICES ASSUME NEW q \in Readers, NEW c \in Records, token'[q] = generation'
                 PROVE  read'[q][c] = None
      OBVIOUS
    <3>1. q = r
      BY <2>1, <2>6
    <3> QED
      BY <2>3, <3>1
  <2> QED
    BY <2>4, <2>5, <2>7, <2>8
<1>6. CASE FetchPage(r)
  <2>1. \A q \in Readers, c \in Records :
          read'[q][c] = read[q][c] \/ (q = r /\ read'[q][c] = content[c])
    BY <1>6, PageOnlyReads
  <2>2. \A c \in Records : settled[c] <= content[c]
    BY DEF Applied
  <2>3. UNCHANGED <<settled, cached, token, generation, pc>>
    BY <1>6 DEF FetchPage
  <2>4. /\ cached' # None =>
             \A c \in Records : cached'.content[c] # None => settled'[c] <= cached'.content[c]
        /\ \A q \in Readers : token'[q] <= generation'
    BY <2>3
  <2>5. ASSUME NEW q \in Readers, NEW c \in Records, pc'[q] = "fetch", token'[q] = generation',
               read'[q][c] # None
        PROVE  settled'[c] <= read'[q][c]
    BY <2>1, <2>2, <2>3, <2>5
  <2> HIDE DEF IInv, TypeOK
  <2> QED
    BY <2>4, <2>5
<1>7. CASE StoreFetch(r)
  BY <1>7 DEF StoreFetch, Return
<1>8. CASE EndList(r)
  BY <1>8 DEF EndList
<1> QED
  BY <1>1, <1>2, <1>3, <1>4, <1>5, <1>6, <1>7, <1>8, ListStep(r) DEF ListStep

\* A list keeps its promise.
LEMMA ListKeepsPromises == ASSUME IInv, NEW r \in Readers, ListStep(r) PROVE ListsKeepPromise'
<1> USE DEF IInv
<1>1. CASE BeginList(r)
  <2>1. /\ \A c \in Records : read[r][c] = None
        /\ fallback[r] = None /\ shown[r] = None
    BY <1>1 DEF BeginList, HoldsNothingOld
  <2>2. \A q \in Readers : q # r => promised'[q] = promised[q]
    BY <1>1 DEF BeginList, TypeOK
  <2>3. UNCHANGED <<read, fallback, shown>>
    BY <1>1 DEF BeginList
  <2> QED
    BY <2>1, <2>2, <2>3 DEF ListsKeepPromise
<1>2. CASE GetClient(r)
  BY <1>2 DEF GetClient, ListsKeepPromise, TypeOK
<1>3. CASE UseCached(r)
  <2>1. \A c \in Records : cached.content[c] # None => promised[r][c] <= cached.content[c]
    <3> SUFFICES ASSUME NEW c \in Records, cached.content[c] # None
                 PROVE  promised[r][c] <= cached.content[c]
      OBVIOUS
    <3>1. cached \in Entry
      BY <1>3 DEF UseCached, Usable, CachedOK, TypeOK
    <3>2. promised[r][c] <= settled[c] /\ settled[c] <= cached.content[c]
      BY <1>3 DEF UseCached, Usable, CachedOK, Applied, CacheIsSettled
    <3>3. promised[r][c] \in Nat /\ settled[c] \in Nat /\ cached.content[c] \in Nat
      BY <3>1 DEF TypeOK, Entry
    <3> QED
      BY <3>2, <3>3
  <2> QED
    BY <1>3, <2>1, ReturnKeepsPromise DEF UseCached
<1>4. CASE Miss(r)
  <2>1. ASSUME NEW c \in Records, fallback'[r] # None, fallback'[r].content[c] # None
        PROVE  promised[r][c] <= fallback'[r].content[c]
    <3>1. cached # None /\ fallback'[r] = cached /\ cached.content[c] # None
      BY <1>4, <2>1 DEF Miss, CachedOK, TypeOK
    <3>2. cached \in Entry
      BY <3>1 DEF TypeOK
    <3>3. promised[r][c] <= settled[c] /\ settled[c] <= cached.content[c]
      BY <3>1 DEF Applied, CacheIsSettled
    <3>4. promised[r][c] \in Nat /\ settled[c] \in Nat /\ cached.content[c] \in Nat
      BY <3>1, <3>2 DEF TypeOK, Entry
    <3> QED
      BY <3>1, <3>3, <3>4
  <2>2. \A q \in Readers : q # r => fallback'[q] = fallback[q]
    BY <1>4 DEF Miss, TypeOK
  <2>3. UNCHANGED <<read, promised, shown>>
    BY <1>4 DEF Miss
  <2> QED
    BY <2>1, <2>2, <2>3 DEF ListsKeepPromise
<1>5. CASE BeginFetch(r)
  BY <1>5 DEF BeginFetch, ListsKeepPromise, TypeOK
<1>6. CASE FetchPage(r)
  <2>2. ASSUME NEW c \in Records PROVE promised[r][c] <= content[c]
    <3>1. promised[r][c] <= settled[c] /\ settled[c] <= content[c]
      BY DEF Applied
    <3>2. promised[r][c] \in Nat /\ settled[c] \in Nat /\ content[c] \in Nat
      BY DEF TypeOK
    <3> QED
      BY <3>1, <3>2
  <2>3. \A q \in Readers, c \in Records :
          read'[q][c] = read[q][c] \/ (q = r /\ read'[q][c] = content[c])
    BY <1>6, PageOnlyReads
  <2>4. UNCHANGED <<promised, fallback, shown>>
    BY <1>6 DEF FetchPage
  <2> QED
    BY <2>2, <2>3, <2>4 DEF ListsKeepPromise
<1>7. CASE FetchFails(r)
  BY <1>7, ReturnKeepsPromise DEF FetchFails, ListsKeepPromise
<1>8. CASE StoreFetch(r)
  BY <1>8, ReturnKeepsPromise DEF StoreFetch, ListsKeepPromise
<1>9. CASE ListFails(r)
  BY <1>9, ReturnKeepsPromise DEF ListFails
<1>10. CASE EndList(r)
  <2>1. /\ \A c \in Records : read[r][c] = None
        /\ fallback[r] = None /\ shown'[r] = None
    BY <1>10 DEF EndList, HoldsNothingOld, TypeOK
  <2>2. \A q \in Readers : q # r => promised'[q] = promised[q] /\ shown'[q] = shown[q]
    BY <1>10 DEF EndList, TypeOK
  <2>3. UNCHANGED <<read, fallback>>
    BY <1>10 DEF EndList
  <2> QED
    BY <2>1, <2>2, <2>3 DEF ListsKeepPromise
<1> QED
  BY <1>1, <1>2, <1>3, <1>4, <1>5, <1>6, <1>7, <1>8, <1>9, <1>10, ListStep(r) DEF ListStep

\* A list that ends forgets what it held.
LEMMA ListHoldsNothingOld == ASSUME IInv, NEW r \in Readers, ListStep(r) PROVE HoldsNothingOld'
<1> USE DEF IInv, HoldsNothingOld, TypeOK
<1>1. CASE BeginList(r) \/ GetClient(r) \/ BeginFetch(r)
  <2>1. UNCHANGED <<read, fallback, shown>>
    BY <1>1 DEF BeginList, GetClient, BeginFetch
  <2>2. \A q \in Readers : q # r => pc'[q] = pc[q]
    BY <1>1 DEF BeginList, GetClient, BeginFetch
  <2>3. \/ pc[r] \in {"idle", "client"} /\ pc'[r] # "returned"
        \/ pc[r] = "begin" /\ pc'[r] = "fetch"
    BY <1>1 DEF BeginList, GetClient, BeginFetch
  <2> HIDE DEF IInv, TypeOK
  <2> QED
    BY <2>1, <2>2, <2>3, IInv DEF IInv
<1>5. CASE EndList(r)
  <2>1. UNCHANGED <<read, fallback>>
    BY <1>5 DEF EndList
  <2>2. \A q \in Readers : q # r => pc'[q] = pc[q] /\ shown'[q] = shown[q]
    BY <1>5 DEF EndList
  <2>3. pc[r] = "returned" /\ shown'[r] = None
    BY <1>5 DEF EndList
  <2> HIDE DEF IInv, TypeOK
  <2> QED
    BY <2>1, <2>2, <2>3, IInv DEF IInv
<1>2. CASE Miss(r)
  BY <1>2 DEF Miss
<1>3. CASE FetchPage(r)
  <2>1. \A q \in Readers : q # r => read'[q] = read[q]
    BY <1>3, PageOnlyReads
  <2>2. UNCHANGED <<pc, fallback, shown>> /\ pc[r] = "fetch"
    BY <1>3 DEF FetchPage
  <2> HIDE DEF IInv, TypeOK
  <2> QED
    BY <2>1, <2>2, IInv DEF IInv
<1>4. CASE UseCached(r) \/ FetchFails(r) \/ StoreFetch(r) \/ ListFails(r)
  <2>1. PICK entry, flag : Return(r, entry, flag)
    BY <1>4 DEF UseCached, FetchFails, StoreFetch, ListFails
  <2> QED
    BY <2>1 DEF Return, Nothing
<1> QED
  BY <1>1, <1>2, <1>3, <1>4, <1>5, ListStep(r) DEF ListStep

----------------------------------------------------------------------------
(* What mutations and the rest of the world do to the invariant. *)

\* A change at the provider only adds to the content.
LEMMA ChangeAdds ==
  ASSUME TypeOK, NEW c \in Records, Change(c)
  PROVE  \A d \in Records : content'[d] \in Nat /\ content[d] <= content'[d]
  BY DEF TypeOK, Change

\* The parts of the invariant about the cache and the lists survive an invalidation.
LEMMA InvalidationKeepsCache ==
  ASSUME IInv, InvalidateZone, UNCHANGED readerVars
  PROVE  CacheIsSettled'
<1>1. cached' = None /\ generation' = generation + 1
  BY DEF InvalidateZone
<1>2. UNCHANGED <<pc, token, read>>
  BY DEF readerVars, listVars
<1>3. \A r \in Readers : token[r] < generation'
  BY <1>1 DEF IInv, CacheIsSettled, TypeOK
<1> QED
  BY <1>1, <1>2, <1>3 DEF IInv, CacheIsSettled, TypeOK

\* A step that leaves the lists alone keeps what they hold.
LEMMA UnchangedLists ==
  ASSUME IInv, UNCHANGED readerVars
  PROVE  ListsKeepPromise' /\ HoldsNothingOld'
  BY DEF IInv, ListsKeepPromise, HoldsNothingOld, readerVars, listVars

\* A step that leaves the cache, the lists and what has returned alone keeps the cache settled.
LEMMA UnchangedCache ==
  ASSUME IInv, UNCHANGED <<cacheVars, readerVars, settled>>
  PROVE  CacheIsSettled'
  BY DEF IInv, CacheIsSettled, cacheVars, readerVars, listVars

\* A mutation settles only what the provider has applied.
LEMMA MutationKeepsApplied == ASSUME IInv, NEW w \in Writers, MutationStep(w) PROVE Applied'
<1> USE DEF IInv, Applied, TypeOK, providerVars, readerVars, listVars, mutationVars
<1>1. CASE BeginMutation(w)
  <2>1. PICK c \in Records : target' = [target EXCEPT ![w] = c]
    BY <1>1 DEF BeginMutation
  <2>2. UNCHANGED <<content, settled, promised, applied>>
    BY <1>1 DEF BeginMutation
  <2>3. applied[w] = 0 /\ wpc'[w] # "idle" /\ target'[w] = c /\ content[c] \in Nat
    BY <1>1, <2>1 DEF BeginMutation
  <2>4. \A v \in Writers : v # w => wpc'[v] = wpc[v] /\ target'[v] = target[v]
    BY <1>1, <2>1 DEF BeginMutation
  <2>5. ASSUME NEW v \in Writers
        PROVE  /\ wpc'[v] = "idle" => applied'[v] = 0
               /\ wpc'[v] # "idle" => applied'[v] <= content'[target'[v]]
    <3>1. CASE v = w
      BY <3>1, <2>2, <2>3
    <3>2. CASE v # w
      BY <3>2, <2>2, <2>4
    <3> QED
      BY <3>1, <3>2
  <2> QED
    BY <2>2, <2>5
<1>2. CASE Apply(w)
  <2>1. target[w] \in Records /\ Change(target[w])
    BY <1>2 DEF Apply, ChangeFor
  <2>2. \A d \in Records : content'[d] \in Nat /\ content[d] <= content'[d]
    BY <2>1, ChangeAdds
  <2>3. /\ UNCHANGED <<target, settled, promised>>
        /\ applied' = [applied EXCEPT ![w] = content'[target[w]]]
        /\ wpc' = [wpc EXCEPT ![w] = "applied"] /\ wpc[w] = "write"
    BY <1>2 DEF Apply, ChangeFor
  <2>4. \A c \in Records : settled'[c] <= content'[c]
    BY <2>2, <2>3
  <2>5. ASSUME NEW v \in Writers, wpc'[v] # "idle" PROVE applied'[v] <= content'[target'[v]]
    <3>1. CASE v = w
      BY <3>1, <2>1, <2>2, <2>3
    <3>2. CASE v # w
      <4>1. wpc[v] # "idle" /\ target[v] \in Records /\ applied'[v] = applied[v]
        BY <3>2, <2>3, <2>5
      <4> QED
        BY <4>1, <2>2, <2>3
    <3> QED
      BY <3>1, <3>2
  <2> QED
    BY <2>3, <2>4, <2>5
<1>3. CASE DeferredInvalidate(w)
  <2>1. target[w] \in Records /\ applied[w] <= content[target[w]]
    BY <1>3 DEF DeferredInvalidate
  <2>2. /\ UNCHANGED <<content, target, applied, promised>>
        /\ wpc' = [wpc EXCEPT ![w] = "returned"] /\ wpc[w] = "defer"
    BY <1>3 DEF DeferredInvalidate
  <2>3. \A c \in Records : settled[c] <= settled'[c] /\ settled'[c] <= content[c] /\ settled'[c] \in Nat
    BY <1>3, <2>1 DEF DeferredInvalidate, Settle
  <2> QED
    BY <2>2, <2>3
<1>4. CASE EndMutation(w)
  BY <1>4 DEF EndMutation
<1>5. CASE UNCHANGED <<content, settled, promised, target, applied>> /\ \A v \in Writers : wpc[v] = "idle" <=> wpc'[v] = "idle"
  BY <1>5
<1>6. CASE \/ ReadCurrent(w) \/ MutationRefused(w) \/ InvalidateBefore(w) \/ EnterCall(w) \/ Check(w)
           \/ CallSucceeds(w) \/ CallFails(w) \/ Purge(w) \/ Audit(w)
  BY <1>5, <1>6
  DEF ReadCurrent, MutationRefused, InvalidateBefore, EnterCall, Check, CallSucceeds, CallFails, Purge,
      Audit, Calling
<1> QED
  BY <1>1, <1>2, <1>3, <1>4, <1>6, MutationStep(w) DEF MutationStep

\* A mutation settles its change together with an invalidation.
LEMMA MutationKeepsCache == ASSUME IInv, NEW w \in Writers, MutationStep(w) PROVE CacheIsSettled'
<1>1. UNCHANGED readerVars
  BY DEF MutationStep, BeginMutation, ReadCurrent, MutationRefused, InvalidateBefore, EnterCall, Check,
         Apply, CallSucceeds, CallFails, Purge, Audit, DeferredInvalidate, EndMutation
<1>2. CASE InvalidateBefore(w) \/ Purge(w) \/ DeferredInvalidate(w)
  BY <1>1, <1>2, InvalidationKeepsCache DEF InvalidateBefore, Purge, DeferredInvalidate
<1>3. CASE UNCHANGED <<cacheVars, settled>>
  BY <1>1, <1>3, UnchangedCache
<1> QED
  BY <1>2, <1>3, MutationStep(w)
  DEF MutationStep, BeginMutation, ReadCurrent, MutationRefused, EnterCall, Check, Apply, CallSucceeds,
      CallFails, Audit, EndMutation

\* Every step keeps the invariant.
LEMMA InvNext == ASSUME IInv, [Next]_vars PROVE IInv'
<1>1. TypeOK'
  BY TypeNext DEF IInv
<1>2. ASSUME NEW r \in Readers, ListStep(r) PROVE IInv'
  BY <1>1, <1>2, ListKeepsApplied, ListKeepsCache, ListKeepsPromises, ListHoldsNothingOld DEF IInv
<1>3. ASSUME NEW w \in Writers, MutationStep(w) PROVE IInv'
  <2>1. UNCHANGED readerVars
    BY <1>3
    DEF MutationStep, BeginMutation, ReadCurrent, MutationRefused, InvalidateBefore, EnterCall, Check,
        Apply, CallSucceeds, CallFails, Purge, Audit, DeferredInvalidate, EndMutation
  <2> QED
    BY <1>1, <1>3, <2>1, MutationKeepsApplied, MutationKeepsCache, UnchangedLists DEF IInv
<1>4. ASSUME NEW c \in Records, LateApply(c) \/ OutsideChange(c) PROVE IInv'
  <2>1. Change(c) /\ UNCHANGED <<cacheVars, readerVars, writerVars>>
    BY <1>4 DEF LateApply, OutsideChange
  <2>2. \A d \in Records : content'[d] \in Nat /\ content[d] <= content'[d]
    BY <2>1, ChangeAdds DEF IInv
  <2>3. Applied'
    BY <2>1, <2>2 DEF IInv, Applied, TypeOK, readerVars, listVars, writerVars, mutationVars
  <2>4. CacheIsSettled'
    BY <2>1, UnchangedCache DEF writerVars
  <2> QED
    BY <1>1, <2>1, <2>3, <2>4, UnchangedLists DEF IInv
<1>5. CASE InvalidateByOthers
  <2>1. InvalidateZone /\ UNCHANGED <<providerVars, readerVars, writerVars>>
    BY <1>5 DEF InvalidateByOthers
  <2>2. Applied'
    BY <2>1 DEF IInv, Applied, providerVars, readerVars, listVars, writerVars, mutationVars
  <2> QED
    BY <1>1, <2>1, <2>2, InvalidationKeepsCache, UnchangedLists DEF IInv
<1>6. CASE AccountWritten \/ Tick \/ UNCHANGED vars
  <2>1. UNCHANGED <<providerVars, cacheVars, readerVars, writerVars>>
    BY <1>6 DEF AccountWritten, Tick, vars
  <2>2. Applied'
    BY <2>1 DEF IInv, Applied, providerVars, readerVars, listVars, writerVars, mutationVars
  <2>3. CacheIsSettled'
    BY <2>1, UnchangedCache DEF writerVars
  <2> QED
    BY <1>1, <2>1, <2>2, <2>3, UnchangedLists DEF IInv
<1> QED
  BY <1>2, <1>3, <1>4, <1>5, <1>6 DEF Next

----------------------------------------------------------------------------
(* A list leaves a record set out only when one it has read was changed since. *)

\* What shows every record set, or has been overtaken by a change.
Whole(seen) == (\E c \in Records : seen[c] = None) => Outdated(seen)

SeenBy(r) == {c \in Records : read[r][c] # None}

\* A fetch between two pages has read as many record sets as its cursor says, and each that
\* has not been changed since is still in the list.
BetweenPages(r) ==
    /\ IsFiniteSet(SeenBy(r)) /\ Cardinality(SeenBy(r)) = cursor[r]
    /\ \A c \in SeenBy(r) : read[r][c] <= content[c] /\ (read[r][c] = content[c] => c \in Present)

Paged ==
    /\ cached # None => Whole(cached.content)
    /\ \A r \in Readers :
         /\ fallback[r] # None => Whole(fallback[r].content)
         /\ shown[r] # None => Whole(shown[r].content)
         /\ pc[r] = "fetch" => IF cursor[r] = None THEN Whole(read[r]) ELSE BetweenPages(r)

\* Nothing is cached or fetched at first.
LEMMA PagedInit == Init => Paged
  BY DEF Init, Paged

\* A page holds as many record sets as it is long.
LEMMA PageSize ==
  ASSUME NEW s \in Listings, NEW a \in Nat, NEW b \in a..Len(s)
  PROVE  LET page == {s[i] : i \in a + 1..b} IN
         page \subseteq Records /\ IsFiniteSet(page) /\ Cardinality(page) = b - a
<1> DEFINE page == {s[i] : i \in a + 1..b}
           f == [i \in a + 1..b |-> s[i]]
<1>1. PICK n \in Nat : s \in [1..n -> Records] /\ \A i, j \in 1..n : s[i] = s[j] => i = j
  BY DEF Listings
<1>2. s \in Seq(Records) /\ Len(s) = n
  BY <1>1
<1>3. a + 1..b \subseteq 1..n /\ b \in Nat /\ a <= b
  BY <1>2
<1>4. page \subseteq Records
  BY <1>1, <1>3
<1>5. f \in Bijection(a + 1..b, page)
  <2>1. f \in [a + 1..b -> page] /\ \A x \in page : \E i \in a + 1..b : f[i] = x
    OBVIOUS
  <2>2. \A i, j \in a + 1..b : f[i] = f[j] => i = j
    BY <1>1, <1>3
  <2> QED
    BY <2>1, <2>2 DEF Bijection, Injection, Surjection, IsInjective
<1>6. IsFiniteSet(a + 1..b) /\ Cardinality(a + 1..b) = b - a
  <2>1. a + 1 \in Int /\ b \in Int
    BY <1>3
  <2>2. IsFiniteSet(a + 1..b) /\ Cardinality(a + 1..b) = IF a + 1 > b THEN 0 ELSE b - (a + 1) + 1
    BY <2>1, FS_Interval
  <2> QED
    BY <2>2, <1>3
<1>7. ExistsBijection(a + 1..b, page)
  BY <1>5 DEF ExistsBijection
<1> HIDE DEF page, f
<1>8. IsFiniteSet(page) /\ Cardinality(page) = b - a
  BY <1>6, <1>7, FS_Bijection
<1> QED
  BY <1>4, <1>8 DEF page

\* A page read without a repetition keeps a fetch between pages; the last page leaves out
\* nothing unless what was read has left the list.
LEMMA PageKeepsPaged ==
  ASSUME TypeOK, NEW r \in Readers, BetweenPages(r), FetchPage(r)
  PROVE  IF cursor'[r] = None THEN Whole(read[r])' ELSE BetweenPages(r)'
<1>1. cursor[r] \in Nat /\ listing \in Listings /\ UNCHANGED <<content, listing>>
  BY DEF FetchPage, TypeOK, providerVars
<1>2. PICK end \in cursor[r]..Len(listing) :
        LET page == {listing[i] : i \in cursor[r] + 1..end}
            last == end = Len(listing)
        IN  /\ \A c \in page : read[r][c] = None
            /\ cursor' = [cursor EXCEPT ![r] = IF last THEN None ELSE end]
            /\ read' = [read EXCEPT ![r] = [c \in Records |->
                  IF c \in page \/ (last /\ c \notin Present /\ read[r][c] = None)
                  THEN content[c] ELSE read[r][c]]]
  BY DEF FetchPage
<1> DEFINE page == {listing[i] : i \in cursor[r] + 1..end}
           front == {listing[i] : i \in 0 + 1..cursor[r]}
<1>3. PICK n \in Nat : listing \in [1..n -> Records] /\ \A i, j \in 1..n : listing[i] = listing[j] => i = j
  BY <1>1 DEF Listings
<1>4. Len(listing) = n /\ end \in Nat /\ cursor[r] <= end /\ end <= n
  BY <1>1, <1>3
<1>5. page \subseteq Records /\ IsFiniteSet(page) /\ Cardinality(page) = end - cursor[r]
  BY <1>1, PageSize
<1>6. front \subseteq Records /\ IsFiniteSet(front) /\ Cardinality(front) = cursor[r]
  <2>1. cursor[r] \in 0..Len(listing)
    BY <1>1, <1>4
  <2>2. IsFiniteSet(front) /\ Cardinality(front) = cursor[r] - 0 /\ front \subseteq Records
    BY <1>1, <2>1, PageSize
  <2> QED
    BY <1>1, <2>2
<1>7. page \subseteq Present /\ front \subseteq Present /\ Present' = Present
  BY <1>1, <1>3, <1>4 DEF Present
<1>8. SeenBy(r) \cap page = {}
  BY <1>2 DEF SeenBy
<1>9. read[r] \in [Records -> Nat \cup {None}] /\ content \in [Records -> Nat]
  BY DEF TypeOK
<1>10. CASE end = Len(listing)
  <2>1. /\ cursor'[r] = None
        /\ \A c \in Records : read'[r][c] = IF c \in page \/ (c \notin Present /\ read[r][c] = None)
                                            THEN content[c] ELSE read[r][c]
    BY <1>2, <1>10 DEF TypeOK
  <2>2. CASE \A c \in SeenBy(r) : c \in Present
    <3>1. SeenBy(r) \subseteq front
      <4>1. ASSUME NEW c \in SeenBy(r) PROVE c \in front
        <5>1. PICK i \in 1..n : c = listing[i]
          BY <1>4, <2>2 DEF Present
        <5>2. i \notin cursor[r] + 1..end
          BY <1>8, <5>1
        <5>3. i \in 0 + 1..cursor[r]
          BY <1>1, <1>4, <1>10, <5>2
        <5> QED
          BY <5>1, <5>3
      <4> QED
        BY <4>1
    <3>2. Cardinality(front) = Cardinality(SeenBy(r))
      BY <1>6 DEF BetweenPages
    <3> HIDE DEF front
    <3>3. SeenBy(r) = front
      BY <1>6, <3>1, <3>2, FS_Subset
    <3> USE DEF front
    <3>4. \A c \in Present : c \in page \/ c \in SeenBy(r)
      <4>1. ASSUME NEW i \in 1..n PROVE i \in cursor[r] + 1..end \/ i \in 0 + 1..cursor[r]
        BY <1>1, <1>4, <1>10
      <4> QED
        BY <1>4, <3>3, <4>1 DEF Present
    <3>5. \A c \in Records : read'[r][c] # None
      BY <1>9, <2>1, <3>4, NoneAssumption DEF SeenBy
    <3> QED
      BY <2>1, <3>5 DEF Whole
  <2>3. CASE \E c \in SeenBy(r) : c \notin Present
    <3>1. PICK c \in SeenBy(r) : c \notin Present
      BY <2>3
    <3>2. c \in Records /\ read[r][c] # None /\ read[r][c] <= content[c] /\ read[r][c] # content[c]
      BY <3>1 DEF BetweenPages, SeenBy
    <3>3. read'[r][c] = read[r][c] /\ content'[c] = content[c] /\ read[r][c] \in Nat /\ content[c] \in Nat
      BY <1>1, <1>7, <1>9, <2>1, <3>1, <3>2
    <3>4. read'[r][c] # None /\ read'[r][c] < content'[c]
      BY <3>2, <3>3
    <3> QED
      BY <2>1, <3>2, <3>4 DEF Whole, Outdated
  <2> QED
    BY <2>2, <2>3
<1>11. CASE end # Len(listing)
  <2>1. /\ cursor'[r] = end /\ end # None
        /\ \A c \in Records : read'[r][c] = IF c \in page THEN content[c] ELSE read[r][c]
    BY <1>2, <1>4, <1>11, NoneAssumption DEF TypeOK
  <2>2. SeenBy(r)' = SeenBy(r) \cup page
    BY <1>5, <1>9, <2>1, NoneAssumption DEF SeenBy
  <2> DEFINE all == SeenBy(r) \cup page
  <2>3. IsFiniteSet(all) /\ Cardinality(all) = cursor[r] + (end - cursor[r]) - 0
    <3>1. Cardinality(SeenBy(r) \cap page) = 0
      BY <1>8, FS_EmptySet
    <3>2. IsFiniteSet(SeenBy(r)) /\ Cardinality(SeenBy(r)) = cursor[r]
      BY DEF BetweenPages
    <3> HIDE DEF page
    <3> QED
      BY <1>5, <3>1, <3>2, FS_Union
  <2>4. cursor[r] + (end - cursor[r]) - 0 = end
    BY <1>1, <1>4
  <2>5. ASSUME NEW c \in SeenBy(r)'
        PROVE  read'[r][c] <= content'[c] /\ (read'[r][c] = content'[c] => c \in Present')
    <3>1. CASE c \in page
      BY <1>1, <1>5, <1>7, <1>9, <2>1, <3>1
    <3>2. CASE c \notin page
      <4>1. c \in SeenBy(r) /\ c \in Records /\ read'[r][c] = read[r][c]
        BY <2>1, <2>2, <3>2 DEF SeenBy
      <4> QED
        BY <1>1, <1>7, <4>1 DEF BetweenPages
    <3> QED
      BY <3>1, <3>2
  <2> HIDE DEF page, all
  <2>6. IsFiniteSet(SeenBy(r)') /\ Cardinality(SeenBy(r)') = cursor'[r]
    BY <2>1, <2>2, <2>3, <2>4 DEF all
  <2> QED
    BY <2>1, <2>5, <2>6 DEF BetweenPages
<1> QED
  BY <1>10, <1>11

\* A change of a record set leaves whole what was whole, and a fetch between its pages.
LEMMA ChangeKeepsPaged ==
  ASSUME TypeOK, Paged, NEW c \in Records, Change(c), UNCHANGED <<cached, readerVars>>
  PROVE  Paged'
<1>1. content' = [content EXCEPT ![c] = content[c] + 1] /\ content \in [Records -> Nat]
  BY DEF Change, TypeOK
<1>2. /\ \A d \in Records : content'[d] \in Nat /\ content[d] \in Nat /\ content[d] <= content'[d]
      /\ content'[c] = content[c] + 1
      /\ \A d \in Records : d # c => content'[d] = content[d]
      /\ Present' \ {c} = Present \ {c}
  BY <1>1 DEF Change
<1>3. ASSUME NEW seen \in [Records -> Nat \cup {None}], Whole(seen) PROVE Whole(seen)'
  <2>1. ASSUME NEW d \in Records, seen[d] # None, seen[d] < content[d] PROVE seen[d] < content'[d]
    <3>1. seen[d] \in Nat /\ content[d] \in Nat /\ content'[d] \in Nat /\ content[d] <= content'[d]
      BY <1>2, <2>1
    <3> QED
      BY <2>1, <3>1
  <2> QED
    BY <1>3, <2>1 DEF Whole, Outdated
<1>4. UNCHANGED <<cached, pc, fallback, shown, cursor, read>>
  BY DEF readerVars, listVars
<1>5. /\ cached # None => cached.content \in [Records -> Nat \cup {None}]
      /\ \A r \in Readers :
           /\ fallback[r] # None => fallback[r].content \in [Records -> Nat \cup {None}]
           /\ shown[r] # None => shown[r].content \in [Records -> Nat \cup {None}]
           /\ read[r] \in [Records -> Nat \cup {None}]
  BY DEF TypeOK, Entry
<1>6. cached' # None => Whole(cached.content)'
  BY <1>3, <1>4, <1>5 DEF Paged, Whole, Outdated
<1>7. ASSUME NEW r \in Readers
      PROVE  /\ fallback'[r] # None => Whole(fallback[r].content)'
             /\ shown'[r] # None => Whole(shown[r].content)'
             /\ pc'[r] = "fetch" /\ cursor'[r] = None => Whole(read[r])'
  BY <1>3, <1>4, <1>5 DEF Paged, Whole, Outdated
<1>8. ASSUME NEW r \in Readers, pc'[r] = "fetch", cursor'[r] # None PROVE BetweenPages(r)'
  <2>1. BetweenPages(r) /\ SeenBy(r)' = SeenBy(r) /\ cursor'[r] = cursor[r]
    BY <1>4, <1>8 DEF Paged, SeenBy
  <2>2. ASSUME NEW d \in SeenBy(r)
        PROVE  read'[r][d] <= content'[d] /\ (read'[r][d] = content'[d] => d \in Present')
    <3>1. /\ d \in Records /\ read'[r][d] = read[r][d] /\ read[r][d] \in Nat
          /\ read[r][d] <= content[d] /\ (read[r][d] = content[d] => d \in Present)
      BY <1>4, <1>5, <2>1 DEF SeenBy, BetweenPages
    <3>2. CASE d = c
      BY <1>2, <3>1, <3>2
    <3>3. CASE d # c
      BY <1>2, <3>1, <3>3
    <3> QED
      BY <3>2, <3>3
  <2> QED
    BY <2>1, <2>2 DEF BetweenPages
<1> QED
  BY <1>6, <1>7, <1>8 DEF Paged

\* Steps that change no record set and no list, and drop what is cached at most.
LEMMA RestKeepsPaged ==
  ASSUME Paged, UNCHANGED <<content, listing, readerVars>>, cached' \in {cached, None}
  PROVE  Paged'
<1>1. UNCHANGED <<content, listing, Present, pc, fallback, shown, cursor, read>>
  BY DEF readerVars, listVars, Present
<1>2. cached' # None => Whole(cached.content)'
  BY <1>1 DEF Paged, Whole, Outdated
<1>3. ASSUME NEW r \in Readers
      PROVE  /\ fallback'[r] # None => Whole(fallback[r].content)'
             /\ shown'[r] # None => Whole(shown[r].content)'
             /\ pc'[r] = "fetch" => IF cursor'[r] = None THEN Whole(read[r])' ELSE BetweenPages(r)'
  BY <1>1 DEF Paged, Whole, Outdated, BetweenPages, SeenBy
<1> QED
  BY <1>2, <1>3 DEF Paged

\* A list that ends with what is whole.
LEMMA ReturnKeepsPaged ==
  ASSUME TypeOK, Paged, NEW r \in Readers, NEW entry, NEW flag, Return(r, entry, flag),
         UNCHANGED <<content, listing>>,
         entry # None => Whole(entry.content),
         cached' = cached \/ cached' = entry
  PROVE  Paged'
<1>1. /\ pc'[r] = "returned" /\ fallback'[r] = None /\ shown'[r] = entry
      /\ \A q \in Readers : q # r =>
           /\ pc'[q] = pc[q] /\ fallback'[q] = fallback[q] /\ shown'[q] = shown[q]
           /\ cursor'[q] = cursor[q] /\ read'[q] = read[q]
  BY DEF Return, TypeOK
<1>2. Present' = Present
  BY DEF Present
<1>3. cached' # None => Whole(cached.content)'
  BY DEF Paged, Whole, Outdated
<1>4. entry # None => Whole(entry.content)'
  BY DEF Whole, Outdated
<1>5. ASSUME NEW q \in Readers, q # r
      PROVE  /\ fallback'[q] # None => Whole(fallback[q].content)'
             /\ shown'[q] # None => Whole(shown[q].content)'
             /\ pc'[q] = "fetch" => IF cursor'[q] = None THEN Whole(read[q])' ELSE BetweenPages(q)'
  <2>1. /\ pc'[q] = pc[q] /\ fallback'[q] = fallback[q] /\ shown'[q] = shown[q]
        /\ cursor'[q] = cursor[q] /\ read'[q] = read[q]
    BY <1>1, <1>5
  <2> QED
    BY <1>2, <2>1 DEF Paged, Whole, Outdated, BetweenPages, SeenBy
<1> QED
  BY <1>1, <1>3, <1>4, <1>5 DEF Paged, Whole, Outdated

\* Every step of a list keeps it.
LEMMA ListKeepsPaged == ASSUME IInv, Paged, NEW r \in Readers, ListStep(r) PROVE Paged'
<1>1. TypeOK /\ UNCHANGED <<content, listing>>
  BY DEF IInv, ListStep, BeginList, GetClient, UseCached, Miss, BeginFetch, FetchPage, FetchFails, StoreFetch,
         ListFails, EndList, providerVars
<1>2. Present' = Present
  BY <1>1 DEF Present
<1>3. CASE UseCached(r) \/ FetchFails(r) \/ StoreFetch(r) \/ ListFails(r)
  <2>1. CASE UseCached(r)
    BY <1>1, <2>1, ReturnKeepsPaged DEF UseCached, Usable, CachedOK, Paged, cacheVars
  <2>2. CASE FetchFails(r)
    BY <1>1, <2>2, ReturnKeepsPaged DEF FetchFails, Paged, cacheVars
  <2>3. CASE StoreFetch(r)
    <3> DEFINE entry == [content |-> read[r], version |-> row[r], at |-> clock]
    <3>1. Return(r, entry, FALSE) /\ (cached' = cached \/ cached' = entry) /\ entry.content = read[r]
      BY <2>3 DEF StoreFetch
    <3>2. Whole(read[r])
      BY <2>3 DEF StoreFetch, Paged
    <3> HIDE DEF entry
    <3> QED
      BY <1>1, <3>1, <3>2, ReturnKeepsPaged
  <2>4. CASE ListFails(r)
    BY <1>1, <2>4, ReturnKeepsPaged DEF ListFails, cacheVars
  <2> QED
    BY <1>3, <2>1, <2>2, <2>3, <2>4
<1>4. ASSUME NEW q \in Readers, q # r, ~(UseCached(r) \/ FetchFails(r) \/ StoreFetch(r) \/ ListFails(r))
      PROVE  /\ fallback'[q] # None => Whole(fallback[q].content)'
             /\ shown'[q] # None => Whole(shown[q].content)'
             /\ pc'[q] = "fetch" => IF cursor'[q] = None THEN Whole(read[q])' ELSE BetweenPages(q)'
  <2>1. /\ pc'[q] = pc[q] /\ fallback'[q] = fallback[q] /\ shown'[q] = shown[q]
        /\ cursor'[q] = cursor[q] /\ read'[q] = read[q]
    <3>1. CASE FetchPage(r)
      <4>1. UNCHANGED <<pc, fallback, shown>>
        BY <3>1 DEF FetchPage
      <4> QED
        BY <1>1, <1>4, <3>1, <4>1, PageOnlyReads
    <3>2. CASE ~FetchPage(r)
      BY <1>1, <1>4, <3>2 DEF ListStep, BeginList, GetClient, Miss, BeginFetch, EndList, TypeOK
    <3> QED
      BY <3>1, <3>2
  <2> QED
    BY <1>1, <1>2, <2>1 DEF Paged, Whole, Outdated, BetweenPages, SeenBy
<1>5. ASSUME UNCHANGED cached PROVE cached' # None => Whole(cached.content)'
  BY <1>1, <1>5 DEF Paged, Whole, Outdated
<1>6. CASE BeginList(r) \/ GetClient(r) \/ EndList(r)
  <2>1. UNCHANGED <<cached, fallback>> /\ shown'[r] \in {shown[r], None} /\ pc'[r] # "fetch"
    BY <1>1, <1>6 DEF BeginList, GetClient, EndList, cacheVars, TypeOK
  <2>2. /\ fallback'[r] # None => Whole(fallback[r].content)'
        /\ shown'[r] # None => Whole(shown[r].content)'
    BY <1>1, <2>1 DEF Paged, Whole, Outdated
  <2>3. ~(UseCached(r) \/ FetchFails(r) \/ StoreFetch(r) \/ ListFails(r)) \/ Paged'
    BY <1>3
  <2> QED
    BY <1>4, <1>5, <2>1, <2>2, <2>3 DEF Paged
<1>7. CASE Miss(r)
  <2>1. /\ UNCHANGED <<cached, shown>> /\ fallback'[r] \in {cached, None} /\ pc'[r] = "begin"
    BY <1>1, <1>7 DEF Miss, cacheVars, TypeOK
  <2>2. /\ fallback'[r] # None => Whole(fallback[r].content)'
        /\ shown'[r] # None => Whole(shown[r].content)'
    BY <1>1, <2>1 DEF Paged, Whole, Outdated
  <2> QED
    BY <1>3, <1>4, <1>5, <2>1, <2>2 DEF Paged
<1>8. CASE BeginFetch(r)
  <2>1. /\ UNCHANGED <<cached, shown, fallback, cursor, read>> /\ pc[r] = "begin"
        /\ cursor[r] = 0 /\ read[r] = Nothing
    BY <1>1, <1>8 DEF BeginFetch, TypeOK
  <2>2. SeenBy(r)' = {}
    BY <2>1 DEF SeenBy, Nothing
  <2>3. BetweenPages(r)' /\ cursor'[r] # None
    BY <2>1, <2>2, FS_EmptySet, NoneAssumption DEF BetweenPages
  <2>4. /\ fallback'[r] # None => Whole(fallback[r].content)'
        /\ shown'[r] # None => Whole(shown[r].content)'
    BY <1>1, <2>1 DEF Paged, Whole, Outdated
  <2> QED
    BY <1>3, <1>4, <1>5, <2>1, <2>3, <2>4 DEF Paged
<1>9. CASE FetchPage(r)
  <2>1. UNCHANGED <<cached, shown, fallback, pc>> /\ pc[r] = "fetch" /\ cursor[r] # None
    BY <1>9 DEF FetchPage, cacheVars
  <2>2. IF cursor'[r] = None THEN Whole(read[r])' ELSE BetweenPages(r)'
    BY <1>1, <1>9, <2>1, PageKeepsPaged DEF Paged
  <2>3. /\ fallback'[r] # None => Whole(fallback[r].content)'
        /\ shown'[r] # None => Whole(shown[r].content)'
    BY <1>1, <2>1 DEF Paged, Whole, Outdated
  <2> QED
    BY <1>3, <1>4, <1>5, <2>1, <2>2, <2>3 DEF Paged
<1> QED
  BY <1>3, <1>6, <1>7, <1>8, <1>9, ListStep(r) DEF ListStep

\* Every step keeps it.
LEMMA PagedNext == ASSUME IInv, Paged, [Next]_vars PROVE Paged'
<1>1. TypeOK
  BY DEF IInv
<1>2. ASSUME NEW w \in Writers, MutationStep(w) PROVE Paged'
  <2>1. CASE Apply(w)
    <3>1. target[w] \in Records
      BY <1>1, <2>1 DEF Apply, TypeOK
    <3> QED
      BY <1>1, <2>1, <3>1, ChangeKeepsPaged DEF Apply, ChangeFor, cacheVars
  <2>2. CASE ~Apply(w)
    <3>1. UNCHANGED <<content, listing, readerVars>> /\ cached' \in {cached, None}
      BY <1>2, <2>2 DEF MutationStep, BeginMutation, ReadCurrent, MutationRefused, InvalidateBefore, EnterCall,
         Check, CallSucceeds, CallFails, Purge, Audit, DeferredInvalidate, EndMutation, InvalidateZone,
         providerVars, cacheVars
    <3> QED
      BY <3>1, RestKeepsPaged
  <2> QED
    BY <2>1, <2>2
<1>3. ASSUME NEW c \in Records, LateApply(c) \/ OutsideChange(c) PROVE Paged'
  BY <1>1, <1>3, ChangeKeepsPaged DEF LateApply, OutsideChange, cacheVars
<1>4. CASE InvalidateByOthers \/ AccountWritten \/ Tick \/ UNCHANGED vars
  BY <1>4, RestKeepsPaged DEF InvalidateByOthers, InvalidateZone, AccountWritten, Tick, vars, providerVars, cacheVars
<1> QED
  BY <1>2, <1>3, <1>4, ListKeepsPaged DEF Next

\* Lists show every change whose mutation had returned when they came in: the generation
\* that a mutation moves on when it returns keeps every older fetch out of the cache.  What a
\* list leaves out, a change of what it had read has pushed past its cursor.
THEOREM ListsAreCurrent == Spec => []ListsShowReturnedMutations
<1>1. IInv /\ Paged => ListsShowReturnedMutations
  <2> SUFFICES ASSUME IInv, Paged, NEW r \in Readers, NEW c \in Records, shown[r] # None
               PROVE  IF shown[r].content[c] = None THEN Outdated(shown[r].content)
                      ELSE shown[r].content[c] >= promised[r][c]
    BY DEF ListsShowReturnedMutations
  <2>1. CASE shown[r].content[c] = None
    BY <2>1 DEF Paged, Whole
  <2>2. CASE shown[r].content[c] # None
    <3>1. shown[r] \in Entry
      BY DEF IInv, TypeOK
    <3>2. shown[r].content[c] \in Nat /\ promised[r][c] \in Nat
      BY <2>2, <3>1 DEF IInv, TypeOK, Entry
    <3>3. promised[r][c] <= shown[r].content[c]
      BY <2>2 DEF IInv, ListsKeepPromise
    <3> QED
      BY <2>2, <3>2, <3>3
  <2> QED
    BY <2>1, <2>2
<1> QED
  BY <1>1, InvInit, InvNext, PagedInit, PagedNext, PTL DEF Spec

----------------------------------------------------------------------------
(* Lists show records of the account as it was when they came in, or later. *)

\* A client is as new as its list, and so is what the list takes from the cache with it.
FromThisAccount ==
    \A r \in Readers :
        /\ pc[r] \in {"lookup", "begin", "fetch"} => entered[r] <= row[r]
        /\ fallback[r] # None => entered[r] <= fallback[r].version
        /\ shown[r] # None => entered[r] <= shown[r].version

\* A list that returns an entry of this account stays of this account.
LEMMA ReturnFromThisAccount ==
  ASSUME TypeOK, FromThisAccount, NEW r \in Readers, NEW entry, NEW flag, Return(r, entry, flag),
         entry # None => entered[r] <= entry.version
  PROVE  FromThisAccount'
<1>1. /\ UNCHANGED <<row, entered>>
      /\ pc'[r] = "returned" /\ fallback'[r] = None /\ shown'[r] = entry
  BY DEF Return, TypeOK
<1>2. \A q \in Readers : q # r => pc'[q] = pc[q] /\ fallback'[q] = fallback[q] /\ shown'[q] = shown[q]
  BY DEF Return, TypeOK
<1> QED
  BY <1>1, <1>2 DEF FromThisAccount

\* Every step of a list keeps it of this account.
LEMMA ListFromThisAccount ==
  ASSUME IInv, FromThisAccount, NEW r \in Readers, ListStep(r)
  PROVE  FromThisAccount'
<1>1. TypeOK
  BY DEF IInv
<1>2. CASE BeginList(r)
  <2>1. fallback[r] = None /\ shown[r] = None /\ pc'[r] = "client"
    BY <1>1, <1>2 DEF BeginList, IInv, HoldsNothingOld, TypeOK
  <2>2. \A q \in Readers : q # r => entered'[q] = entered[q] /\ pc'[q] = pc[q]
    BY <1>1, <1>2 DEF BeginList, TypeOK
  <2>3. UNCHANGED <<row, fallback, shown>>
    BY <1>2 DEF BeginList
  <2> QED
    BY <2>1, <2>2, <2>3 DEF FromThisAccount
<1>3. CASE GetClient(r)
  <2>1. PICK v \in entered[r]..version : row' = [row EXCEPT ![r] = v]
    BY <1>3 DEF GetClient
  <2>2. entered[r] <= row'[r]
    BY <1>1, <2>1 DEF TypeOK
  <2>3. \A q \in Readers : q # r => row'[q] = row[q] /\ pc'[q] = pc[q]
    BY <1>1, <1>3, <2>1 DEF GetClient, TypeOK
  <2>4. UNCHANGED <<entered, fallback, shown>>
    BY <1>3 DEF GetClient
  <2> QED
    BY <2>2, <2>3, <2>4 DEF FromThisAccount
<1>4. CASE UseCached(r)
  BY <1>1, <1>4, ReturnFromThisAccount DEF UseCached, Usable, CachedOK, FromThisAccount
<1>5. CASE Miss(r)
  <2>1. pc[r] = "lookup" /\ entered[r] <= row[r]
    BY <1>5 DEF Miss, FromThisAccount
  <2>2. fallback'[r] # None => entered[r] <= fallback'[r].version
    BY <1>1, <1>5, <2>1 DEF Miss, CachedOK, TypeOK
  <2>3. \A q \in Readers : q # r => fallback'[q] = fallback[q] /\ pc'[q] = pc[q]
    BY <1>1, <1>5 DEF Miss, TypeOK
  <2>4. UNCHANGED <<row, entered, shown>>
    BY <1>5 DEF Miss
  <2> QED
    BY <2>1, <2>2, <2>3, <2>4 DEF FromThisAccount
<1>6. CASE BeginFetch(r) \/ FetchPage(r)
  <2>1. UNCHANGED <<row, entered, fallback, shown>>
    BY <1>6 DEF BeginFetch, FetchPage
  <2>2. \A q \in Readers : pc'[q] = pc[q] \/ pc[q] = "begin"
    BY <1>1, <1>6 DEF BeginFetch, FetchPage, TypeOK
  <2> QED
    BY <2>1, <2>2 DEF FromThisAccount
<1>7. CASE FetchFails(r)
  BY <1>1, <1>7, ReturnFromThisAccount DEF FetchFails, FromThisAccount
<1>8. CASE StoreFetch(r)
  BY <1>1, <1>8, ReturnFromThisAccount DEF StoreFetch, FromThisAccount
<1>9. CASE ListFails(r)
  BY <1>1, <1>9, ReturnFromThisAccount DEF ListFails
<1>10. CASE EndList(r)
  <2>1. fallback[r] = None /\ shown'[r] = None /\ pc'[r] = "idle"
    BY <1>1, <1>10 DEF EndList, IInv, HoldsNothingOld, TypeOK
  <2>2. \A q \in Readers : q # r => /\ pc'[q] = pc[q] /\ row'[q] = row[q]
                                   /\ entered'[q] = entered[q] /\ shown'[q] = shown[q]
    BY <1>1, <1>10 DEF EndList, TypeOK
  <2>3. UNCHANGED fallback
    BY <1>10 DEF EndList
  <2> QED
    BY <2>1, <2>2, <2>3 DEF FromThisAccount
<1> QED
  BY <1>2, <1>3, <1>4, <1>5, <1>6, <1>7, <1>8, <1>9, <1>10, ListStep(r) DEF ListStep

\* No list shows records of an account row older than the list: an entry is taken only with
\* a client of the same row, and that client is as new as the list.
THEOREM ListsAreOfTheAccount == Spec => []ListsAreOfThisAccount
<1>1. Init => FromThisAccount
  BY DEF Init, FromThisAccount
<1>2. ASSUME IInv, FromThisAccount, [Next]_vars PROVE FromThisAccount'
  <2>1. CASE UNCHANGED readerVars
    BY <1>2, <2>1 DEF FromThisAccount, readerVars, listVars
  <2>2. CASE \E r \in Readers : ListStep(r)
    BY <1>2, <2>2, ListFromThisAccount
  <2>3. UNCHANGED readerVars \/ \E r \in Readers : ListStep(r)
    BY <1>2
    DEF Next, vars, MutationStep, BeginMutation, ReadCurrent, MutationRefused, InvalidateBefore, EnterCall,
        Check, Apply, CallSucceeds, CallFails, Purge, Audit, DeferredInvalidate, EndMutation,
        LateApply, OutsideChange, InvalidateByOthers, AccountWritten, Tick
  <2> QED
    BY <2>1, <2>2, <2>3
<1>3. IInv /\ FromThisAccount => ListsAreOfThisAccount
  <2> SUFFICES ASSUME IInv, FromThisAccount, NEW r \in Readers, shown[r] # None
               PROVE  shown[r].version >= entered[r]
    BY DEF ListsAreOfThisAccount
  <2>1. shown[r] \in Entry
    BY DEF IInv, TypeOK
  <2>2. shown[r].version \in Nat /\ entered[r] \in Nat
    BY <2>1 DEF IInv, TypeOK, Entry
  <2> QED
    BY <2>2 DEF FromThisAccount
<1> QED
  BY <1>1, <1>2, <1>3, InvInit, InvNext, PTL DEF Spec

----------------------------------------------------------------------------
(* No update or deletion overwrites a change that had been reported. *)

\* The account admits one call at a time, and between the comparison of the adapter and its
\* write nothing newer than the precondition is, or is about to be, reported.
WritesAreGuarded ==
    /\ \A v, w \in Writers : wpc[v] \in Calling /\ wpc[w] \in Calling => v = w
    /\ \A w \in Writers :
         wpc[w] = "write" /\ kind[w] # "create"
         => /\ settled[target[w]] <= expected[w]
            /\ \A v \in Writers : target[v] = target[w] => applied[v] <= expected[w]

\* What a step of a mutation has to leave alone to keep the other mutations guarded.
LEMMA OthersStayGuarded ==
  ASSUME IInv, WritesAreGuarded, NEW w \in Writers,
         wpc'[w] # "write",
         wpc'[w] \in Calling => wpc[w] \in Calling,
         \A v \in Writers : v # w => /\ wpc'[v] = wpc[v] /\ kind'[v] = kind[v]
                                    /\ target'[v] = target[v] /\ expected'[v] = expected[v]
                                    /\ applied'[v] = applied[v],
         applied'[w] = 0 \/ (applied'[w] = applied[w] /\ target'[w] = target[w]),
         \A c \in Records : \/ settled'[c] = settled[c]
                            \/ (c = target[w] /\ settled'[c] = applied[w])
  PROVE  WritesAreGuarded'
<1>1. \A u, v \in Writers : wpc'[u] \in Calling /\ wpc'[v] \in Calling => u = v
  BY DEF WritesAreGuarded
<1>2. ASSUME NEW v \in Writers, wpc'[v] = "write", kind'[v] # "create"
      PROVE  /\ settled'[target'[v]] <= expected'[v]
             /\ \A u \in Writers : target'[u] = target'[v] => applied'[u] <= expected'[v]
  <2>1. /\ v # w /\ wpc[v] = "write" /\ kind[v] # "create"
        /\ target'[v] = target[v] /\ expected'[v] = expected[v]
    BY <1>2
  <2>2. target[v] \in Records /\ expected[v] \in Nat
    BY <2>1 DEF IInv, TypeOK
  <2>3. /\ settled[target[v]] <= expected[v]
        /\ \A u \in Writers : target[u] = target[v] => applied[u] <= expected[v]
    BY <2>1 DEF WritesAreGuarded
  <2>4. settled'[target[v]] <= expected[v]
    BY <2>2, <2>3
  <2>5. ASSUME NEW u \in Writers, target'[u] = target[v] PROVE applied'[u] <= expected[v]
    <3>1. CASE u = w /\ applied'[w] = 0
      BY <3>1, <2>2
    <3>2. CASE u = w /\ applied'[w] = applied[w] /\ target'[w] = target[w]
      BY <3>2, <2>3, <2>5
    <3>3. CASE u # w
      BY <3>3, <2>3, <2>5
    <3> QED
      BY <3>1, <3>2, <3>3
  <2> QED
    BY <2>1, <2>4, <2>5
<1> QED
  BY <1>1, <1>2 DEF WritesAreGuarded

\* A step of a mutation keeps the writes guarded.
LEMMA MutationKeepsGuard ==
  ASSUME IInv, WritesAreGuarded, NEW w \in Writers, MutationStep(w)
  PROVE  WritesAreGuarded'
<1>1. TypeOK /\ Applied
  BY DEF IInv
<1>2. CASE BeginMutation(w)
  <2>1. wpc'[w] # "write" /\ (wpc'[w] \in Calling => wpc[w] \in Calling)
    BY <1>1, <1>2 DEF BeginMutation, TypeOK, Calling
  <2>2. /\ applied'[w] = 0 \/ (applied'[w] = applied[w] /\ target'[w] = target[w])
        /\ \A c \in Records : \/ settled'[c] = settled[c]
                              \/ (c = target[w] /\ settled'[c] = applied[w])
    BY <1>1, <1>2 DEF BeginMutation, TypeOK, Applied
  <2>3. \A v \in Writers : v # w => /\ wpc'[v] = wpc[v] /\ kind'[v] = kind[v]
                                   /\ target'[v] = target[v] /\ expected'[v] = expected[v]
                                   /\ applied'[v] = applied[v]
    BY <1>1, <1>2 DEF BeginMutation, TypeOK
  <2> QED
    BY <2>1, <2>2, <2>3, OthersStayGuarded
<1>3. CASE \/ ReadCurrent(w) \/ MutationRefused(w) \/ InvalidateBefore(w) \/ CallSucceeds(w)
           \/ CallFails(w) \/ Purge(w)
  <2>1. UNCHANGED <<mutationVars, settled>>
    BY <1>3 DEF ReadCurrent, MutationRefused, InvalidateBefore, CallSucceeds, CallFails, Purge
  <2>2. wpc'[w] \in WriterPcs \ Calling /\ \A v \in Writers : v # w => wpc'[v] = wpc[v]
    BY <1>1, <1>3 DEF ReadCurrent, MutationRefused, InvalidateBefore, CallSucceeds, CallFails, Purge,
                      TypeOK, WriterPcs, Calling
  <2> QED
    BY <2>1, <2>2, OthersStayGuarded DEF Calling, mutationVars
<1>4. CASE EnterCall(w)
  <2>1. UNCHANGED <<mutationVars, settled>> /\ wpc'[w] = "check"
    BY <1>1, <1>4 DEF EnterCall, TypeOK
  <2>2. \A v \in Writers : v # w => wpc'[v] = wpc[v] /\ wpc'[v] \notin Calling
    BY <1>1, <1>4 DEF EnterCall, TypeOK
  <2> QED
    BY <2>1, <2>2 DEF WritesAreGuarded, mutationVars, Calling
<1>5. CASE Check(w)
  <2>1. UNCHANGED <<mutationVars, settled>> /\ wpc[w] = "check" /\ wpc'[w] = "write"
    BY <1>1, <1>5 DEF Check, TypeOK
  <2>2. \A v \in Writers : v # w => wpc'[v] = wpc[v]
    BY <1>1, <1>5 DEF Check, TypeOK
  <2>3. ASSUME kind[w] # "create"
        PROVE  /\ settled[target[w]] <= expected[w]
               /\ \A v \in Writers : target[v] = target[w] => applied[v] <= expected[w]
    <3>1. target[w] \in Records /\ content[target[w]] = expected[w] /\ expected[w] \in Nat
      BY <1>1, <1>5, <2>3 DEF Check, Matches, TypeOK
    <3>2. ASSUME NEW v \in Writers, target[v] = target[w] PROVE applied[v] <= expected[w]
      BY <1>1, <3>1, <3>2 DEF Applied
    <3> QED
      BY <1>1, <3>1, <3>2 DEF Applied
  <2> QED
    BY <2>1, <2>2, <2>3 DEF WritesAreGuarded, mutationVars, Calling
<1>6. CASE Apply(w)
  <2>1. /\ wpc[w] = "write" /\ wpc'[w] = "applied" /\ UNCHANGED <<kind, target, expected, settled>>
        /\ \A v \in Writers : v # w => wpc'[v] = wpc[v]
    BY <1>1, <1>6 DEF Apply, TypeOK, ChangeFor
  <2>2. \A v \in Writers : v # w => wpc[v] \notin Calling
    BY <2>1 DEF WritesAreGuarded, Calling
  <2> QED
    BY <2>1, <2>2 DEF WritesAreGuarded, Calling
<1>7. CASE Audit(w)
  <2>1. UNCHANGED <<kind, target, expected, applied, settled>> /\ wpc'[w] \in {"defer", "returned"}
    BY <1>1, <1>7 DEF Audit, TypeOK
  <2>2. \A v \in Writers : v # w => wpc'[v] = wpc[v]
    BY <1>1, <1>7 DEF Audit, TypeOK
  <2> QED
    BY <2>1, <2>2, OthersStayGuarded DEF Calling
<1>8. CASE DeferredInvalidate(w)
  <2>1. UNCHANGED mutationVars /\ wpc'[w] = "returned"
    BY <1>1, <1>8 DEF DeferredInvalidate, TypeOK
  <2>2. \A v \in Writers : v # w => wpc'[v] = wpc[v]
    BY <1>1, <1>8 DEF DeferredInvalidate, TypeOK
  <2>3. ASSUME NEW c \in Records
        PROVE  settled'[c] = settled[c] \/ (c = target[w] /\ settled'[c] = applied[w])
    <3>1. settled' = [settled EXCEPT ![target[w]] =
                        IF settled[target[w]] < applied[w] THEN applied[w] ELSE settled[target[w]]]
      BY <1>8 DEF DeferredInvalidate, Settle
    <3>2. settled \in [Records -> Nat]
      BY <1>1 DEF TypeOK
    <3>3. settled'[c] = IF c = target[w]
                       THEN IF settled[target[w]] < applied[w] THEN applied[w] ELSE settled[target[w]]
                       ELSE settled[c]
      BY <3>1, <3>2
    <3> QED
      BY <3>3
  <2> QED
    BY <2>1, <2>2, <2>3, OthersStayGuarded DEF Calling, mutationVars
<1>9. CASE EndMutation(w)
  <2>1. /\ wpc'[w] = "idle" /\ applied'[w] = 0 /\ settled' = settled
        /\ \A v \in Writers : v # w => /\ wpc'[v] = wpc[v] /\ kind'[v] = kind[v]
                                      /\ target'[v] = target[v] /\ expected'[v] = expected[v]
                                      /\ applied'[v] = applied[v]
    BY <1>1, <1>9 DEF EndMutation, TypeOK
  <2>2. wpc'[w] # "write" /\ (wpc'[w] \in Calling => wpc[w] \in Calling)
    BY <2>1 DEF Calling
  <2>3. /\ applied'[w] = 0 \/ (applied'[w] = applied[w] /\ target'[w] = target[w])
        /\ \A c \in Records : \/ settled'[c] = settled[c]
                              \/ (c = target[w] /\ settled'[c] = applied[w])
    BY <2>1
  <2> QED
    BY <2>1, <2>2, <2>3, OthersStayGuarded
<1> QED
  BY <1>2, <1>3, <1>4, <1>5, <1>6, <1>7, <1>8, <1>9, MutationStep(w) DEF MutationStep

\* Every step keeps the writes guarded.
LEMMA GuardNext == ASSUME IInv, WritesAreGuarded, [Next]_vars PROVE WritesAreGuarded'
<1>1. CASE UNCHANGED writerVars
  BY <1>1 DEF WritesAreGuarded, writerVars, mutationVars
<1>2. CASE \E w \in Writers : MutationStep(w)
  BY <1>2, MutationKeepsGuard
<1>3. UNCHANGED writerVars \/ \E w \in Writers : MutationStep(w)
  BY DEF Next, vars, ListStep, BeginList, GetClient, UseCached, Miss, BeginFetch, FetchPage, FetchFails,
         StoreFetch, ListFails, EndList, LateApply, OutsideChange, InvalidateByOthers, AccountWritten, Tick
<1> QED
  BY <1>1, <1>2, <1>3

\* No write is under way at first.
LEMMA GuardInit == Init => WritesAreGuarded
  BY DEF Init, WritesAreGuarded, Calling

\* An update or deletion that is applied carries a precondition at least as new as every
\* change of the record set that had been reported.
THEOREM ReportedChangesAreNotOverwritten == Spec => NoSilentOverwrite
<1>1. WritesAreGuarded =>
        [\A w \in Writers :
           (/\ wpc[w] = "write" /\ wpc'[w] = "applied" /\ kind[w] # "create")
           => settled[target[w]] <= expected[w]]_vars
  BY DEF WritesAreGuarded
<1> QED
  BY <1>1, GuardInit, GuardNext, InvInit, InvNext, PTL DEF Spec, NoSilentOverwrite

----------------------------------------------------------------------------
(* Lists that are not flagged are recent. *)

\* A fetch shows what landed before it began, an entry what landed so long before it was
\* stored, and a list what landed before the entry it looked at could have been read.
Recent ==
    /\ \A c \in Records : content[c] <= MaxChanges
    /\ \A c \in Records, n \in 1..MaxChanges : landed[c][n] # None <=> n <= content[c]
    /\ \A r \in Readers : pc[r] = "fetch" =>
         /\ clock <= deadline[r] /\ deadline[r] <= clock + ReadTime
         /\ \A c \in Records : read[r][c] # None => ShownBefore(read[r][c], c, ReadTime, deadline[r])
    /\ cached # None =>
         /\ cached.at <= clock
         /\ \A c \in Records :
              cached.content[c] # None => ShownBefore(cached.content[c], c, ReadTime, cached.at)
    /\ \A r \in Readers :
         /\ looked[r] <= clock
         /\ shown[r] # None /\ stale[r] = FALSE =>
              \A c \in Records :
                shown[r].content[c] # None => ShownBefore(shown[r].content[c], c, Ttl + ReadTime, looked[r])

\* These hold initially.
LEMMA RecentInit == Init => Recent
<1> SUFFICES ASSUME Init PROVE Recent
  OBVIOUS
<1>1. /\ \A c \in Records, n \in 1..MaxChanges : landed[c][n] = None
      /\ \A r \in Readers : pc[r] = "idle" /\ shown[r] = None /\ looked[r] = 0
      /\ cached = None /\ clock = 0
      /\ \A c \in Records : content[c] = 0
  BY DEF Init, Unchanged
<1> QED
  BY <1>1, BoundsAssumption DEF Recent

\* What lands now is too late for anybody to show it yet.
LEMMA ChangeKeepsRecent ==
  ASSUME TypeOK, Recent, NEW c \in Records, Change(c), UNCHANGED <<clock, cached, readerVars>>
  PROVE  Recent'
<1>1. /\ \A d \in Records, n \in 1..MaxChanges :
           \/ landed'[d][n] = landed[d][n]
           \/ landed'[d][n] = clock /\ d = c /\ n = content[c] + 1
      /\ content' = [content EXCEPT ![c] = content[c] + 1] /\ content[c] < MaxChanges
      /\ content[c] + 1 \in 1..MaxChanges => landed'[c][content[c] + 1] = clock
  BY DEF Change, TypeOK
<1>2. /\ clock \in Nat /\ Ttl \in Nat /\ ReadTime \in Nat
      /\ \A d \in Records : content[d] \in Nat
      /\ cached # None => cached.at \in Nat
      /\ \A r \in Readers : deadline[r] \in Nat /\ looked[r] \in Nat
  BY BoundsAssumption DEF TypeOK, Entry
<1>3. UNCHANGED <<pc, deadline, read, shown, stale, looked>>
  BY DEF readerVars, listVars
<1>4. /\ \A d \in Records : content'[d] <= MaxChanges
      /\ \A d \in Records, n \in 1..MaxChanges : landed'[d][n] # None <=> n <= content'[d]
  <2>1. \A d \in Records : content'[d] = IF d = c THEN content[c] + 1 ELSE content[d]
    BY <1>1 DEF TypeOK
  <2>2. \A d \in Records : content'[d] <= MaxChanges
    BY <1>1, <1>2, <2>1, BoundsAssumption DEF Recent
  <2>3. ASSUME NEW d \in Records, NEW n \in 1..MaxChanges PROVE landed'[d][n] # None <=> n <= content'[d]
    <3>1. landed[d][n] # None <=> n <= content[d]
      BY DEF Recent
    <3>2. CASE d = c /\ n = content[c] + 1
      BY <1>1, <1>2, <2>1, <3>2, NoneAssumption
    <3>3. CASE ~(d = c /\ n = content[c] + 1)
      <4>1. landed'[d][n] = landed[d][n]
        BY <1>1, <3>3
      <4> QED
        BY <1>2, <2>1, <3>1, <3>3, <4>1
    <3> QED
      BY <3>2, <3>3
  <2> QED
    BY <2>2, <2>3
<1>5. ASSUME NEW many, NEW d \in Records, NEW wait \in Nat, NEW time \in Nat, time <= clock + wait,
             ShownBefore(many, d, wait, time)
      PROVE  \A n \in 1..MaxChanges : landed'[d][n] # None /\ landed'[d][n] + wait < time => n <= many
  BY <1>1, <1>2, <1>5 DEF ShownBefore
<1>6. ASSUME NEW r \in Readers, pc[r] = "fetch", NEW d \in Records, read[r][d] # None
      PROVE  ShownBefore(read[r][d], d, ReadTime, deadline[r])'
  BY <1>2, <1>3, <1>5, <1>6, BoundsAssumption DEF Recent, ShownBefore
<1>7. ASSUME cached # None, NEW d \in Records, cached.content[d] # None
      PROVE  ShownBefore(cached.content[d], d, ReadTime, cached.at)'
  <2>1. cached.at <= clock + ReadTime /\ cached' = cached
    BY <1>2, <1>7 DEF Recent
  <2> QED
    BY <1>2, <1>5, <1>7, <2>1, BoundsAssumption DEF Recent, ShownBefore
<1>8. ASSUME NEW r \in Readers, shown[r] # None, stale[r] = FALSE, NEW d \in Records,
             shown[r].content[d] # None
      PROVE  ShownBefore(shown[r].content[d], d, Ttl + ReadTime, looked[r])'
  <2>1. looked[r] <= clock + (Ttl + ReadTime) /\ Ttl + ReadTime \in Nat
    BY <1>2 DEF Recent
  <2> QED
    BY <1>2, <1>3, <1>5, <1>8, <2>1 DEF Recent, ShownBefore
<1> QED
  BY <1>3, <1>4, <1>6, <1>7, <1>8 DEF Recent

\* Steps that change no record set, and drop what is cached at most.
LEMMA RestKeepsRecent ==
  ASSUME TypeOK, Recent, UNCHANGED <<content, landed, clock, readerVars>>, cached' \in {cached, None}
  PROVE  Recent'
  BY DEF Recent, ShownBefore, readerVars, listVars

\* Time passes for no fetch beyond its deadline.
LEMMA TickKeepsRecent == ASSUME TypeOK, Recent, Tick PROVE Recent'
<1>1. /\ clock \in Nat /\ clock' = clock + 1
      /\ \A r \in Readers : pc[r] = "fetch" => clock < deadline[r]
      /\ UNCHANGED <<content, landed, cached, pc, deadline, read, shown, stale, looked>>
  BY DEF Tick, TypeOK, providerVars, cacheVars, readerVars, listVars
<1>2. ReadTime \in Nat /\ \A r \in Readers : deadline[r] \in Nat /\ looked[r] \in Nat
  BY BoundsAssumption DEF TypeOK
<1>3. \A r \in Readers : pc[r] = "fetch" => clock' <= deadline[r] /\ deadline[r] <= clock' + ReadTime
  BY <1>1, <1>2 DEF Recent
<1>4. /\ \A r \in Readers : looked[r] <= clock'
      /\ cached # None => cached.at <= clock'
  BY <1>1, <1>2 DEF Recent, TypeOK, Entry
<1> QED
  BY <1>1, <1>3, <1>4 DEF Recent, ShownBefore

\* A list that returns an entry returns a recent one, or flags it.
LEMMA ReturnKeepsRecent ==
  ASSUME TypeOK, Recent, NEW r \in Readers, NEW entry, NEW flag, Return(r, entry, flag),
         UNCHANGED <<content, landed, clock>>,
         cached' # None =>
           /\ cached'.at <= clock
           /\ \A c \in Records :
                cached'.content[c] # None => ShownBefore(cached'.content[c], c, ReadTime, cached'.at),
         \A q \in Readers : q # r => looked'[q] = looked[q],
         looked'[r] <= clock,
         entry # None /\ flag = FALSE =>
           \A c \in Records :
             entry.content[c] # None => ShownBefore(entry.content[c], c, Ttl + ReadTime, looked'[r])
  PROVE  Recent'
<1>1. /\ pc'[r] = "returned" /\ shown'[r] = entry /\ stale'[r] = flag
      /\ \A q \in Readers : q # r => /\ pc'[q] = pc[q] /\ shown'[q] = shown[q] /\ stale'[q] = stale[q]
                                     /\ deadline'[q] = deadline[q] /\ read'[q] = read[q]
  BY DEF Return, TypeOK
<1> QED
  BY <1>1 DEF Recent, ShownBefore

\* Every step of a list keeps it recent.
LEMMA ListKeepsRecent == ASSUME IInv, Recent, NEW r \in Readers, ListStep(r) PROVE Recent'
<1>1. TypeOK
  BY DEF IInv
<1>2. /\ clock \in Nat /\ Ttl \in Nat /\ ReadTime \in Nat
      /\ deadline[r] \in Nat /\ looked[r] \in Nat /\ looked[r] <= clock
      /\ \A c \in Records, n \in 1..MaxChanges : landed[c][n] # None => landed[c][n] \in Nat
  BY <1>1, BoundsAssumption DEF TypeOK, Recent
<1>3. CASE BeginList(r) \/ GetClient(r) \/ EndList(r)
  <2>1. /\ UNCHANGED <<content, landed, clock, cached, deadline, read>>
        /\ \A q \in Readers : q # r => /\ pc'[q] = pc[q] /\ shown'[q] = shown[q]
                                       /\ stale'[q] = stale[q] /\ looked'[q] = looked[q]
        /\ pc'[r] # "fetch"
        /\ shown'[r] = None \/ (shown'[r] = shown[r] /\ stale'[r] = stale[r] /\ looked'[r] = looked[r])
        /\ looked'[r] \in {0, looked[r]}
    BY <1>1, <1>3 DEF BeginList, GetClient, EndList, TypeOK, providerVars, cacheVars
  <2>2. looked'[r] <= clock
    BY <1>2, <2>1
  <2> QED
    BY <2>1, <2>2 DEF Recent, ShownBefore
<1>4. CASE UseCached(r)
  <2>1. /\ Return(r, cached, FALSE) /\ cached # None /\ clock - cached.at <= Ttl /\ looked'[r] = clock
        /\ UNCHANGED <<content, landed, clock, cached>>
        /\ \A q \in Readers : q # r => looked'[q] = looked[q]
    BY <1>1, <1>4 DEF UseCached, Usable, CachedOK, TypeOK, providerVars, cacheVars
  <2>2. cached.at \in Nat
    BY <1>1, <2>1 DEF TypeOK, Entry
  <2>3. ASSUME NEW c \in Records, cached.content[c] # None
        PROVE  ShownBefore(cached.content[c], c, Ttl + ReadTime, looked'[r])
    <3>1. \A n \in 1..MaxChanges :
            landed[c][n] # None /\ landed[c][n] + (Ttl + ReadTime) < clock => landed[c][n] + ReadTime < cached.at
      BY <1>2, <2>1, <2>2
    <3> QED
      BY <2>1, <2>3, <3>1 DEF Recent, ShownBefore
  <2>4. cached' # None =>
           /\ cached'.at <= clock
           /\ \A c \in Records :
                cached'.content[c] # None => ShownBefore(cached'.content[c], c, ReadTime, cached'.at)
    BY <2>1 DEF Recent
  <2>5. looked'[r] <= clock
    BY <1>2, <2>1
  <2> QED
    BY <1>1, <2>1, <2>3, <2>4, <2>5, ReturnKeepsRecent
<1>5. CASE Miss(r)
  <2>1. /\ UNCHANGED <<content, landed, clock, cached, deadline, read, shown, stale>>
        /\ \A q \in Readers : q # r => pc'[q] = pc[q] /\ looked'[q] = looked[q]
        /\ pc'[r] = "begin" /\ shown[r] = None /\ looked'[r] = clock
    BY <1>1, <1>5 DEF Miss, IInv, HoldsNothingOld, TypeOK, providerVars, cacheVars
  <2> QED
    BY <1>2, <2>1 DEF Recent, ShownBefore
<1>6. CASE BeginFetch(r)
  <2>1. /\ UNCHANGED <<content, landed, clock, cached, read, shown, stale, looked>>
        /\ \A q \in Readers : q # r => pc'[q] = pc[q] /\ deadline'[q] = deadline[q]
        /\ deadline'[r] = clock + ReadTime /\ \A c \in Records : read[r][c] = None
    BY <1>1, <1>6 DEF BeginFetch, IInv, HoldsNothingOld, TypeOK, providerVars
  <2>2. clock <= deadline'[r] /\ deadline'[r] <= clock + ReadTime
    BY <1>2, <2>1
  <2> QED
    BY <2>1, <2>2 DEF Recent, ShownBefore
<1>7. CASE FetchPage(r)
  <2>1. UNCHANGED <<content, landed, clock, cached, pc, deadline, shown, stale, looked>>
    BY <1>7 DEF FetchPage, providerVars, cacheVars
  <2>2. \A q \in Readers, c \in Records : read'[q][c] \in {read[q][c], content[c]}
    BY <1>1, <1>7, PageOnlyReads
  <2>3. \A c \in Records : ShownBefore(content[c], c, ReadTime, deadline[r])
    BY DEF Recent, ShownBefore
  <2>4. \A q \in Readers, c \in Records : q # r => read'[q][c] = read[q][c]
    BY <1>1, <1>7, PageOnlyReads
  <2> QED
    BY <2>1, <2>2, <2>3, <2>4 DEF Recent, ShownBefore
<1>8. CASE FetchFails(r)
  <2>1. /\ UNCHANGED <<content, landed, clock, cached, looked>>
        /\ Return(r, fallback[r], fallback[r] # None)
    BY <1>8 DEF FetchFails, providerVars, cacheVars
  <2> QED
    BY <1>1, <1>2, <2>1, ReturnKeepsRecent DEF Recent
<1>9. CASE StoreFetch(r)
  <2> DEFINE entry == [content |-> read[r], version |-> row[r], at |-> clock]
  <2>1. /\ UNCHANGED <<content, landed, clock, looked>>
        /\ Return(r, entry, FALSE) /\ cached' \in {entry, cached}
        /\ pc[r] = "fetch"
    BY <1>9 DEF StoreFetch, providerVars
  <2>2. /\ clock <= deadline[r]
        /\ \A c \in Records : read[r][c] # None => ShownBefore(read[r][c], c, ReadTime, deadline[r])
    BY <2>1 DEF Recent
  <2>3. \A c \in Records : read[r][c] # None => ShownBefore(read[r][c], c, ReadTime, clock)
    BY <1>2, <2>2 DEF ShownBefore
  <2>4. \A c \in Records : read[r][c] # None => ShownBefore(read[r][c], c, Ttl + ReadTime, looked[r])
    <3>1. \A c \in Records, n \in 1..MaxChanges :
            landed[c][n] # None /\ landed[c][n] + (Ttl + ReadTime) < looked[r] => landed[c][n] + ReadTime < deadline[r]
      BY <1>2, <2>2
    <3> QED
      BY <2>2, <3>1 DEF ShownBefore
  <2>5. entry.content = read[r] /\ entry.at = clock
    OBVIOUS
  <2> HIDE DEF entry
  <2>6. cached' # None =>
           /\ cached'.at <= clock
           /\ \A c \in Records :
                cached'.content[c] # None => ShownBefore(cached'.content[c], c, ReadTime, cached'.at)
    BY <1>2, <2>1, <2>3, <2>5 DEF Recent
  <2> QED
    BY <1>1, <1>2, <2>1, <2>4, <2>5, <2>6, ReturnKeepsRecent
<1>10. CASE ListFails(r)
  <2>1. /\ UNCHANGED <<content, landed, clock, cached, looked>>
        /\ Return(r, None, FALSE)
    BY <1>10 DEF ListFails, providerVars, cacheVars
  <2> QED
    BY <1>1, <1>2, <2>1, ReturnKeepsRecent DEF Recent
<1> QED
  BY <1>3, <1>4, <1>5, <1>6, <1>7, <1>8, <1>9, <1>10, ListStep(r) DEF ListStep

\* Every step keeps them.
LEMMA RecentNext == ASSUME IInv, Recent, [Next]_vars PROVE Recent'
<1>1. TypeOK
  BY DEF IInv
<1>2. ASSUME NEW w \in Writers, MutationStep(w) PROVE Recent'
  <2>1. CASE Apply(w)
    <3>1. target[w] \in Records
      BY <1>1, <2>1 DEF Apply, TypeOK
    <3> QED
      BY <1>1, <2>1, <3>1, ChangeKeepsRecent DEF Apply, ChangeFor, cacheVars
  <2>2. CASE ~Apply(w)
    <3>1. UNCHANGED <<content, landed, clock, readerVars>> /\ cached' \in {cached, None}
      BY <1>2, <2>2 DEF MutationStep, BeginMutation, ReadCurrent, MutationRefused, InvalidateBefore, EnterCall,
         Check, CallSucceeds, CallFails, Purge, Audit, DeferredInvalidate, EndMutation, InvalidateZone,
         providerVars, cacheVars
    <3> QED
      BY <1>1, <3>1, RestKeepsRecent
  <2> QED
    BY <2>1, <2>2
<1>3. ASSUME NEW c \in Records, LateApply(c) \/ OutsideChange(c) PROVE Recent'
  BY <1>1, <1>3, ChangeKeepsRecent DEF LateApply, OutsideChange, cacheVars
<1>4. CASE InvalidateByOthers \/ AccountWritten \/ UNCHANGED vars
  BY <1>1, <1>4, RestKeepsRecent DEF InvalidateByOthers, InvalidateZone, AccountWritten, vars, providerVars, cacheVars
<1> QED
  BY <1>1, <1>2, <1>3, <1>4, ListKeepsRecent, TickKeepsRecent DEF Next

\* In every behaviour a list that is not flagged as stale shows what had happened to the
\* record sets the lifetime of an entry and the time of a fetch before it looked, and leaves
\* one out only where another that it shows has changed since then.
THEOREM UnflaggedAlwaysRecent == Spec => []UnflaggedListsAreRecent
<1>1. IInv /\ Paged /\ Recent => UnflaggedListsAreRecent
  <2> SUFFICES ASSUME IInv, Paged, Recent, NEW r \in Readers, NEW c \in Records, shown[r] # None, ~stale[r]
               PROVE  LET seen == shown[r].content IN
                      IF seen[c] # None THEN ShownBefore(seen[c], c, Ttl + ReadTime, looked[r])
                      ELSE \E d \in Records :
                             /\ seen[d] # None /\ seen[d] < content[d]
                             /\ landed[d][seen[d] + 1] + Ttl + ReadTime >= looked[r]
    BY DEF UnflaggedListsAreRecent
  <2> DEFINE seen == shown[r].content
  <2>1. stale[r] = FALSE /\ seen \in [Records -> Nat \cup {None}]
    BY DEF IInv, TypeOK, Entry
  <2>2. CASE seen[c] # None
    BY <2>1, <2>2 DEF Recent
  <2>3. CASE seen[c] = None
    <3>1. PICK d \in Records : seen[d] # None /\ seen[d] < content[d]
      BY <2>3 DEF Paged, Whole, Outdated
    <3>2. seen[d] \in Nat /\ content[d] \in Nat /\ content[d] <= MaxChanges
      BY <2>1, <3>1 DEF IInv, TypeOK, Recent
    <3> DEFINE next == seen[d] + 1
    <3>3. next \in 1..MaxChanges /\ next <= content[d]
      BY <3>1, <3>2, BoundsAssumption
    <3>4. landed[d][next] # None /\ landed[d][next] \in Nat \cup {None} /\ looked[r] \in Nat
      BY <3>3 DEF IInv, TypeOK, Recent
    <3>5. ~(landed[d][next] + (Ttl + ReadTime) < looked[r])
      <4>1. ShownBefore(seen[d], d, Ttl + ReadTime, looked[r])
        BY <2>1, <3>1 DEF Recent
      <4>2. ~(next <= seen[d])
        BY <3>2
      <4> QED
        BY <3>3, <3>4, <4>1, <4>2 DEF ShownBefore
    <3>6. landed[d][next] + Ttl + ReadTime >= looked[r]
      BY <3>4, <3>5, BoundsAssumption
    <3> QED
      BY <2>3, <3>1, <3>6
  <2> QED
    BY <2>2, <2>3
<1> QED
  BY <1>1, PagedInit, PagedNext, RecentInit, RecentNext, InvInit, InvNext, PTL DEF Spec

----------------------------------------------------------------------------
(* The cache and its requests implement RecordService. *)

\* What the cache and the lists hold has happened at the provider.
HoldsWhatHappened ==
    /\ cached # None => \A c \in Records : cached.content[c] # None => cached.content[c] <= content[c]
    /\ \A r \in Readers, c \in Records :
         /\ read[r][c] # None => read[r][c] <= content[c]
         /\ fallback[r] # None /\ fallback[r].content[c] # None => fallback[r].content[c] <= content[c]

\* A mutation that has not come to its call, or was refused, has changed nothing.
NotYetApplied ==
    \A w \in Writers :
      wpc[w] \in {"current", "invalidate", "queue", "check", "write", "refused"} => applied[w] = 0

\* What is held stays true when the provider goes on.
LEMMA HeldStays ==
  ASSUME TypeOK, HoldsWhatHappened, \A c \in Records : content'[c] \in Nat /\ content[c] <= content'[c],
         UNCHANGED <<read, fallback>>, cached' = None \/ cached' = cached
  PROVE  HoldsWhatHappened'
<1>1. ASSUME cached' # None, NEW c \in Records, cached'.content[c] # None
      PROVE  cached'.content[c] <= content'[c]
  <2>1. cached' = cached /\ cached \in Entry /\ cached.content[c] <= content[c]
    BY <1>1 DEF TypeOK, HoldsWhatHappened
  <2>2. cached.content[c] \in Nat /\ content[c] \in Nat
    BY <1>1, <2>1 DEF TypeOK, Entry
  <2> QED
    BY <2>1, <2>2
<1>2. ASSUME NEW r \in Readers, NEW c \in Records, read[r][c] # None PROVE read[r][c] <= content'[c]
  <2>1. read[r][c] \in Nat /\ content[c] \in Nat /\ read[r][c] <= content[c]
    BY <1>2 DEF TypeOK, HoldsWhatHappened
  <2> QED
    BY <2>1
<1>3. ASSUME NEW r \in Readers, NEW c \in Records, fallback[r] # None, fallback[r].content[c] # None
      PROVE  fallback[r].content[c] <= content'[c]
  <2>1. fallback[r] \in Entry /\ fallback[r].content[c] <= content[c]
    BY <1>3 DEF TypeOK, HoldsWhatHappened
  <2>2. fallback[r].content[c] \in Nat /\ content[c] \in Nat
    BY <1>3, <2>1 DEF TypeOK, Entry
  <2> QED
    BY <2>1, <2>2
<1> QED
  BY <1>1, <1>2, <1>3 DEF HoldsWhatHappened

\* A list holds what it has read or taken from the cache.
LEMMA ListHolds == ASSUME IInv, HoldsWhatHappened, NEW r \in Readers, ListStep(r) PROVE HoldsWhatHappened'
<1>1. TypeOK /\ UNCHANGED content
  BY DEF IInv, ListStep, BeginList, GetClient, UseCached, Miss, BeginFetch, FetchPage, FetchFails, StoreFetch,
         ListFails, EndList, providerVars
<1>2. CASE BeginList(r) \/ GetClient(r) \/ BeginFetch(r) \/ EndList(r)
  BY <1>1, <1>2 DEF BeginList, GetClient, BeginFetch, EndList, HoldsWhatHappened, cacheVars
<1>3. CASE Miss(r)
  <2>1. UNCHANGED <<cached, read>> /\ \A q \in Readers : fallback'[q] \in {fallback[q], cached, None}
    BY <1>1, <1>3 DEF Miss, cacheVars, TypeOK
  <2> QED
    BY <1>1, <2>1 DEF HoldsWhatHappened
<1>4. CASE FetchPage(r)
  <2>2. \A q \in Readers, d \in Records : read'[q][d] = read[q][d] \/ read'[q][d] = content[d]
    BY <1>1, <1>4, PageOnlyReads
  <2>3. \A d \in Records : content[d] <= content[d]
    BY <1>1 DEF TypeOK
  <2>4. UNCHANGED <<cached, fallback>>
    BY <1>4 DEF FetchPage, cacheVars
  <2> QED
    BY <1>1, <2>2, <2>3, <2>4 DEF HoldsWhatHappened
<1>5. CASE UseCached(r) \/ FetchFails(r) \/ StoreFetch(r) \/ ListFails(r)
  <2>1. PICK entry, flag : Return(r, entry, flag)
    BY <1>5 DEF UseCached, FetchFails, StoreFetch, ListFails
  <2>2. \A q \in Readers : /\ fallback'[q] \in {fallback[q], None}
                          /\ \A c \in Records : read'[q][c] \in {read[q][c], None}
    BY <1>1, <2>1 DEF Return, TypeOK, Nothing
  <2>3. ASSUME cached' # None, NEW c \in Records, cached'.content[c] # None
        PROVE  cached'.content[c] <= content[c]
    <3>1. CASE cached' = cached
      BY <2>3, <3>1 DEF HoldsWhatHappened
    <3>2. CASE cached' # cached
      <4>1. StoreFetch(r)
        BY <1>5, <3>2 DEF UseCached, FetchFails, ListFails, cacheVars
      <4>2. cached' = [content |-> read[r], version |-> row[r], at |-> clock]
        BY <3>2, <4>1 DEF StoreFetch
      <4> QED
        BY <2>3, <4>2 DEF HoldsWhatHappened
    <3> QED
      BY <3>1, <3>2
  <2> QED
    BY <1>1, <2>2, <2>3 DEF HoldsWhatHappened
<1> QED
  BY <1>2, <1>3, <1>4, <1>5, ListStep(r) DEF ListStep

\* What a step of a mutation does to the content, the cache and what it has applied.
LEMMA MutationApplies ==
  ASSUME IInv, NotYetApplied, NEW w \in Writers, MutationStep(w)
  PROVE  /\ NotYetApplied'
         /\ UNCHANGED readerVars
         /\ cached' = None \/ cached' = cached
         /\ \A c \in Records : content'[c] \in Nat /\ content[c] <= content'[c]
<1>1. TypeOK
  BY DEF IInv
<1>2. UNCHANGED readerVars /\ (cached' = None \/ cached' = cached)
  BY DEF MutationStep, BeginMutation, ReadCurrent, MutationRefused, InvalidateBefore, EnterCall, Check, Apply,
         CallSucceeds, CallFails, Purge, Audit, DeferredInvalidate, EndMutation, cacheVars, InvalidateZone
<1>3. \A c \in Records : content'[c] \in Nat /\ content[c] <= content'[c]
  <2>1. CASE Apply(w)
    BY <1>1, <2>1, ChangeAdds DEF Apply, ChangeFor, TypeOK
  <2>2. CASE UNCHANGED content
    BY <1>1, <2>2 DEF TypeOK
  <2> QED
    BY <2>1, <2>2, MutationStep(w)
    DEF MutationStep, BeginMutation, ReadCurrent, MutationRefused, InvalidateBefore, EnterCall, Check,
        CallSucceeds, CallFails, Purge, Audit, DeferredInvalidate, EndMutation, providerVars
<1>4. \A v \in Writers : v # w => wpc'[v] = wpc[v] /\ applied'[v] = applied[v]
  BY <1>1
  DEF MutationStep, BeginMutation, ReadCurrent, MutationRefused, InvalidateBefore, EnterCall, Check, Apply,
      CallSucceeds, CallFails, Purge, Audit, DeferredInvalidate, EndMutation, ChangeFor, mutationVars, TypeOK
<1> DEFINE early == {"current", "invalidate", "queue", "check", "write", "refused"}
<1>5. wpc'[w] \in early => applied'[w] = applied[w] /\ (wpc[w] \in early \/ wpc[w] = "idle")
  BY <1>1
  DEF MutationStep, BeginMutation, ReadCurrent, MutationRefused, InvalidateBefore, EnterCall, Check, Apply,
      CallSucceeds, CallFails, Purge, Audit, DeferredInvalidate, EndMutation, mutationVars, TypeOK
<1>6. wpc[w] = "idle" => applied[w] = 0
  BY DEF IInv, Applied
<1> QED
  BY <1>2, <1>3, <1>4, <1>5, <1>6 DEF NotYetApplied

\* What the mapping needs of a state.
Behind == HoldsWhatHappened /\ NotYetApplied

\* Every step keeps it.
LEMMA BehindNext == ASSUME IInv, Behind, [Next]_vars PROVE Behind'
<1>1. TypeOK
  BY DEF IInv
<1>2. ASSUME NEW r \in Readers, ListStep(r) PROVE Behind'
  <2>1. UNCHANGED <<wpc, applied>>
    BY <1>2 DEF ListStep, BeginList, GetClient, UseCached, Miss, BeginFetch, FetchPage, FetchFails, StoreFetch,
                ListFails, EndList, writerVars, mutationVars
  <2> QED
    BY <1>2, <2>1, ListHolds DEF Behind, NotYetApplied
<1>3. ASSUME NEW w \in Writers, MutationStep(w) PROVE Behind'
  BY <1>1, <1>3, MutationApplies, HeldStays DEF Behind, readerVars, listVars
<1>4. ASSUME NEW c \in Records, LateApply(c) \/ OutsideChange(c) PROVE Behind'
  <2>1. Change(c) /\ UNCHANGED <<cacheVars, readerVars, writerVars>>
    BY <1>4 DEF LateApply, OutsideChange
  <2> QED
    BY <1>1, <2>1, ChangeAdds, HeldStays
    DEF Behind, NotYetApplied, cacheVars, readerVars, listVars, writerVars, mutationVars
<1>5. CASE InvalidateByOthers \/ AccountWritten \/ Tick \/ UNCHANGED vars
  <2>1. /\ UNCHANGED <<providerVars, readerVars, writerVars>>
        /\ cached' = None \/ cached' = cached
    BY <1>5 DEF InvalidateByOthers, InvalidateZone, AccountWritten, Tick, vars, cacheVars
  <2>2. \A c \in Records : content'[c] \in Nat /\ content[c] <= content'[c]
    BY <1>1, <2>1 DEF TypeOK, providerVars
  <2> QED
    BY <1>1, <2>1, <2>2, HeldStays DEF Behind, NotYetApplied, readerVars, listVars, writerVars, mutationVars
<1> QED
  BY <1>2, <1>3, <1>4, <1>5 DEF Next

\* Init maps to the initial state of RecordService.
LEMMA ServiceInit == Init => Service!Init /\ Behind
<1> SUFFICES ASSUME Init PROVE Service!Init /\ Behind
  OBVIOUS
<1>1. ListsAsked = [r \in Readers |-> FALSE] /\ ContentShown = [r \in Readers |-> None]
  BY DEF Init, ListsAsked, ContentShown
<1>2. MutationsAsked = [w \in Writers |-> None]
  BY DEF Init, MutationsAsked
<1>3. Behind
  BY DEF Init, Behind, HoldsWhatHappened, NotYetApplied, Nothing
<1> QED
  BY <1>1, <1>2, <1>3 DEF Init, Unchanged, Service!Init, Service!Untouched

\* What callers see is the same when nobody asks, answers or returns.
LEMMA SeesTheSame ==
  ASSUME TypeOK, \A r \in Readers : pc'[r] \in {"idle", "returned"} <=> pc[r] \in {"idle", "returned"},
         UNCHANGED <<content, settled, promised, shown, target, kind, expected, applied>>,
         \A w \in Writers : wpc'[w] \in {"idle", "returned"} <=> wpc[w] \in {"idle", "returned"}
  PROVE  UNCHANGED Service!vars
<1>1. ListsAsked' = ListsAsked
  BY DEF ListsAsked
<1>2. ContentShown' = ContentShown
  BY DEF ContentShown
<1>3. MutationsAsked' = MutationsAsked
  BY DEF MutationsAsked
<1> QED
  BY <1>1, <1>2, <1>3 DEF Service!vars

\* An answered list shows what RecordService may show.
LEMMA AnswerShows ==
  ASSUME TypeOK, NEW r \in Readers, pc[r] \notin {"idle", "returned"}, NEW entry \in Entry \cup {None},
         NEW flag, Return(r, entry, flag), UNCHANGED <<content, settled, writerVars>>,
         entry # None =>
           /\ Whole(entry.content)
           /\ \A c \in Records : entry.content[c] # None =>
                promised[r][c] <= entry.content[c] /\ entry.content[c] <= content[c]
  PROVE  Service!Answer(r)
<1>1. UNCHANGED <<content, settled, promised, MutationsAsked>>
  BY DEF Return, writerVars, mutationVars, MutationsAsked
<1>2. ListsAsked[r] /\ ListsAsked' = [ListsAsked EXCEPT ![r] = FALSE]
  BY DEF Return, TypeOK, ListsAsked
<1> DEFINE seen == IF entry = None THEN None ELSE entry.content
<1>3. ContentShown' = [ContentShown EXCEPT ![r] = seen]
  BY DEF Return, TypeOK, ContentShown
<1>4. seen \in Service!Showable(r) \cup {None}
  <2> SUFFICES ASSUME entry # None PROVE entry.content \in Service!Showable(r)
    OBVIOUS
  <2>1. entry.content \in [Records -> Nat \cup {None}]
    BY DEF Entry
  <2>2. \A c \in Records : entry.content[c] # None => entry.content[c] \in 0..content[c]
    BY <2>1 DEF TypeOK
  <2>3. entry.content \in [Records -> (UNION {0..content[c] : c \in Records}) \cup {None}]
    BY <2>1, <2>2
  <2>4. ASSUME NEW c \in Records, entry.content[c] = None
        PROVE  \E d \in Records : entry.content[d] # None /\ entry.content[d] < content[d]
    BY <2>4 DEF Whole, Outdated
  <2> QED
    BY <2>3, <2>4 DEF Service!Showable
<1> HIDE DEF seen
<1> QED
  BY <1>1, <1>2, <1>3, <1>4 DEF Service!Answer

\* A list shows what it read, what was in the cache, or what it found there before.
LEMMA ShowsWhatItHolds ==
  ASSUME IInv, Paged, Behind, NEW r \in Readers, UseCached(r) \/ FetchFails(r) \/ StoreFetch(r) \/ ListFails(r)
  PROVE  Service!Answer(r)
<1>1. TypeOK
  BY DEF IInv
<1>2. UNCHANGED <<content, settled, writerVars>> /\ pc[r] \notin {"idle", "returned"}
  BY DEF UseCached, FetchFails, StoreFetch, ListFails, providerVars, writerVars
<1>3. CASE UseCached(r)
  <2>1. cached \in Entry /\ Return(r, cached, FALSE)
    BY <1>1, <1>3 DEF UseCached, Usable, CachedOK, TypeOK
  <2>2. ASSUME NEW c \in Records, cached.content[c] # None
        PROVE  promised[r][c] <= cached.content[c] /\ cached.content[c] <= content[c]
    <3>1. cached # None
      BY <1>3 DEF UseCached, Usable, CachedOK
    <3>2. promised[r][c] <= settled[c] /\ settled[c] <= cached.content[c] /\ cached.content[c] <= content[c]
      BY <2>2, <3>1 DEF IInv, Applied, CacheIsSettled, Behind, HoldsWhatHappened
    <3>3. promised[r][c] \in Nat /\ settled[c] \in Nat /\ cached.content[c] \in Nat
      BY <1>1, <2>1, <2>2 DEF TypeOK, Entry
    <3> QED
      BY <3>2, <3>3
  <2>3. cached # None => Whole(cached.content)
    BY DEF Paged
  <2> QED
    BY <1>1, <1>2, <2>1, <2>2, <2>3, AnswerShows
<1>4. CASE FetchFails(r)
  <2>1. fallback[r] \in Entry \cup {None} /\ Return(r, fallback[r], fallback[r] # None)
    BY <1>1, <1>4 DEF FetchFails, TypeOK
  <2>2. fallback[r] # None =>
          /\ Whole(fallback[r].content)
          /\ \A c \in Records : fallback[r].content[c] # None =>
               promised[r][c] <= fallback[r].content[c] /\ fallback[r].content[c] <= content[c]
    BY DEF IInv, ListsKeepPromise, Paged, Behind, HoldsWhatHappened
  <2> QED
    BY <1>1, <1>2, <2>1, <2>2, AnswerShows
<1>5. CASE StoreFetch(r)
  <2> DEFINE entry == [content |-> read[r], version |-> row[r], at |-> clock]
  <2>1. entry \in Entry /\ Return(r, entry, FALSE) /\ entry.content = read[r]
    BY <1>1, <1>5, FetchedEntry DEF StoreFetch
  <2>2. /\ Whole(read[r])
        /\ \A c \in Records :
             read[r][c] # None => promised[r][c] <= read[r][c] /\ read[r][c] <= content[c]
    BY <1>5 DEF StoreFetch, IInv, ListsKeepPromise, Paged, Behind, HoldsWhatHappened
  <2> HIDE DEF entry
  <2> QED
    BY <1>1, <1>2, <2>1, <2>2, AnswerShows
<1>6. CASE ListFails(r)
  BY <1>1, <1>2, <1>6, AnswerShows DEF ListFails
<1> QED
  BY <1>3, <1>4, <1>5, <1>6

\* A step of a list is one of a list of RecordService, or nothing to see.
LEMMA ListServes ==
  ASSUME IInv, Paged, Behind, NEW r \in Readers, ListStep(r)
  PROVE  [Service!Next]_(Service!vars)
<1>1. TypeOK
  BY DEF IInv
<1>2. CASE BeginList(r)
  <2>1. shown[r] = None
    BY <1>2 DEF BeginList, IInv, HoldsNothingOld
  <2>2. ~ListsAsked[r] /\ ContentShown[r] = None
    BY <1>2, <2>1 DEF BeginList, ListsAsked, ContentShown
  <2>3. ListsAsked' = [ListsAsked EXCEPT ![r] = TRUE]
    BY <1>1, <1>2 DEF BeginList, ListsAsked, TypeOK
  <2>4. UNCHANGED <<content, settled, ContentShown, MutationsAsked>>
    BY <1>2 DEF BeginList, ContentShown, MutationsAsked, providerVars, writerVars, mutationVars
  <2>5. promised' = [promised EXCEPT ![r] = settled]
    BY <1>2 DEF BeginList
  <2>6. Service!Ask(r)
    BY <2>2, <2>3, <2>4, <2>5 DEF Service!Ask
  <2> QED
    BY <2>6 DEF Service!Next
<1>3. CASE GetClient(r) \/ Miss(r) \/ BeginFetch(r) \/ FetchPage(r)
  <2>1. \A q \in Readers : pc'[q] \in {"idle", "returned"} <=> pc[q] \in {"idle", "returned"}
    BY <1>1, <1>3 DEF GetClient, Miss, BeginFetch, FetchPage, TypeOK
  <2>2. UNCHANGED <<content, settled, promised, shown, target, kind, expected, applied, wpc>>
    BY <1>3 DEF GetClient, Miss, BeginFetch, FetchPage, providerVars, writerVars, mutationVars
  <2> QED
    BY <1>1, <2>1, <2>2, SeesTheSame
<1>4. CASE UseCached(r) \/ FetchFails(r) \/ StoreFetch(r) \/ ListFails(r)
  <2>1. Service!Answer(r)
    BY <1>4, ShowsWhatItHolds
  <2> QED
    BY <2>1 DEF Service!Next
<1>5. CASE EndList(r)
  <2>1. ~ListsAsked[r] /\ UNCHANGED ListsAsked
    BY <1>1, <1>5 DEF EndList, ListsAsked, TypeOK
  <2>2. ContentShown' = [ContentShown EXCEPT ![r] = None]
    BY <1>1, <1>5 DEF EndList, ContentShown, TypeOK
  <2>3. UNCHANGED <<content, settled, MutationsAsked>>
    BY <1>5 DEF EndList, MutationsAsked, providerVars, writerVars, mutationVars
  <2>4. promised' = [promised EXCEPT ![r] = Service!Untouched]
    BY <1>5 DEF EndList, Unchanged, Service!Untouched
  <2>5. Service!Leave(r)
    BY <2>1, <2>2, <2>3, <2>4 DEF Service!Leave
  <2> QED
    BY <2>5 DEF Service!Next
<1> QED
  BY <1>2, <1>3, <1>4, <1>5, ListStep(r) DEF ListStep

\* A mutation that begins is submitted.
LEMMA BeginSubmits == ASSUME TypeOK, IInv, NEW w \in Writers, BeginMutation(w) PROVE Service!Submit(w)
<1> PICK k \in Kinds, c \in Records :
      /\ kind' = [kind EXCEPT ![w] = k] /\ target' = [target EXCEPT ![w] = c]
      /\ \E n \in 0..content[c] : expected' = [expected EXCEPT ![w] = n]
      /\ wpc' = [wpc EXCEPT ![w] = IF k = "create" THEN "invalidate" ELSE "current"]
  BY DEF BeginMutation
<1>1. PICK n \in 0..content[c] : expected' = [expected EXCEPT ![w] = n]
  OBVIOUS
<1>2. wpc[w] = "idle" /\ applied[w] = 0 /\ UNCHANGED <<content, settled, promised, applied, pc, shown>>
  BY DEF BeginMutation, IInv, Applied, providerVars, readerVars, listVars
<1> DEFINE seen == IF k = "create" THEN None ELSE n
<1>3. MutationsAsked[w] = None
  BY <1>2 DEF MutationsAsked
<1>4. MutationsAsked' = [MutationsAsked EXCEPT ![w] = [on |-> c, expects |-> seen, change |-> 0]]
  <2>1. wpc'[w] \notin {"idle", "returned"} /\ target'[w] = c /\ kind'[w] = k /\ expected'[w] = n
    BY <1>1 DEF TypeOK
  <2>2. \A v \in Writers : v # w => /\ wpc'[v] = wpc[v] /\ target'[v] = target[v] /\ kind'[v] = kind[v]
                                   /\ expected'[v] = expected[v]
    BY <1>1 DEF TypeOK
  <2>3. \A v \in Writers : applied'[v] = applied[v]
    BY <1>2
  <2>4. MutationsAsked'[w] = [on |-> c, expects |-> seen, change |-> 0]
    BY <1>2, <2>1 DEF MutationsAsked
  <2>5. \A v \in Writers : v # w => MutationsAsked'[v] = MutationsAsked[v]
    BY <2>2, <2>3 DEF MutationsAsked
  <2>6. /\ MutationsAsked = [v \in Writers |-> MutationsAsked[v]]
        /\ MutationsAsked' = [v \in Writers |-> MutationsAsked'[v]]
    BY DEF MutationsAsked
  <2> QED
    BY <2>4, <2>5, <2>6
<1>5. UNCHANGED <<ListsAsked, ContentShown>>
  BY <1>2 DEF ListsAsked, ContentShown
<1>6. seen \in 0..content[c] \cup {None}
  OBVIOUS
<1> HIDE DEF seen
<1> QED
  BY <1>2, <1>3, <1>4, <1>5, <1>6 DEF Service!Submit

\* A write that is applied carries a mutation out, for the first time.
LEMMA ApplyCarriesOut ==
  ASSUME TypeOK, WritesAreGuarded, NotYetApplied, NEW w \in Writers, Apply(w)
  PROVE  Service!CarryOut(w)
<1> DEFINE id == target[w]
<1>1. /\ wpc[w] = "write" /\ wpc'[w] = "applied" /\ id \in Records /\ applied[w] = 0 /\ Change(id)
      /\ applied'[w] = content'[id]
  BY DEF Apply, ChangeFor, TypeOK, NotYetApplied
<1>2. Service!Change(id)
  BY <1>1 DEF Change, Service!Change
<1>3. MutationsAsked[w] =
        [on |-> id, expects |-> IF kind[w] = "create" THEN None ELSE expected[w], change |-> 0]
  BY <1>1 DEF MutationsAsked
<1>4. kind[w] # "create" => settled[id] <= expected[w]
  BY <1>1 DEF WritesAreGuarded
<1>5. UNCHANGED <<settled, promised, ListsAsked, ContentShown>>
  BY DEF Apply, readerVars, listVars, ListsAsked, ContentShown
<1>6. MutationsAsked' = [MutationsAsked EXCEPT ![w].change = content'[id]]
  <2>1. UNCHANGED <<target, kind, expected>>
    BY DEF Apply
  <2>2. \A v \in Writers : v # w => wpc'[v] = wpc[v] /\ applied'[v] = applied[v]
    BY DEF Apply, ChangeFor, TypeOK
  <2>3. MutationsAsked'[w] =
          [on |-> id, expects |-> IF kind[w] = "create" THEN None ELSE expected[w], change |-> content'[id]]
    BY <1>1, <2>1 DEF MutationsAsked
  <2>4. \A v \in Writers : v # w => MutationsAsked'[v] = MutationsAsked[v]
    BY <2>1, <2>2 DEF MutationsAsked
  <2>5. MutationsAsked' = [v \in Writers |-> MutationsAsked'[v]] /\ DOMAIN MutationsAsked = Writers
    BY DEF MutationsAsked
  <2> QED
    BY <1>3, <2>3, <2>4, <2>5
<1>7. /\ MutationsAsked[w] # None /\ MutationsAsked[w].on = id /\ MutationsAsked[w].change = 0
      /\ MutationsAsked[w].expects # None => settled[id] <= MutationsAsked[w].expects
  <2>1. MutationsAsked[w] \in Task
    BY <1>1, <1>3 DEF TypeOK, Task
  <2> QED
    BY <1>3, <1>4, <2>1, NoneAssumption
<1>8. id \in Records
  BY <1>1
<1> HIDE DEF id
<1> QED
  BY <1>2, <1>5, <1>6, <1>7, <1>8 DEF Service!CarryOut

\* A mutation that returns is reported.
LEMMA ReturnReports ==
  ASSUME TypeOK, NotYetApplied, NEW w \in Writers, DeferredInvalidate(w) \/ (Audit(w) /\ wpc[w] = "refused")
  PROVE  Service!Report(w)
<1> DEFINE id == target[w]
<1>1. /\ wpc[w] \in {"defer", "refused"} /\ wpc'[w] = "returned" /\ id \in Records
      /\ UNCHANGED <<content, promised, target, kind, expected, applied>>
      /\ \A v \in Writers : v # w => wpc'[v] = wpc[v]
  BY DEF DeferredInvalidate, Audit, TypeOK, providerVars, readerVars, listVars, mutationVars
<1>2. MutationsAsked[w].on = id /\ MutationsAsked[w].change = applied[w] /\ MutationsAsked[w] # None
  <2>1. MutationsAsked[w] =
          [on |-> id, expects |-> IF kind[w] = "create" THEN None ELSE expected[w], change |-> applied[w]]
    BY <1>1 DEF MutationsAsked
  <2>2. MutationsAsked[w] \in Task
    BY <1>1, <2>1 DEF TypeOK, Task
  <2> QED
    BY <2>1, <2>2, NoneAssumption
<1>3. settled' = [settled EXCEPT ![id] = IF settled[id] < applied[w] THEN applied[w] ELSE settled[id]]
  <2>1. CASE DeferredInvalidate(w)
    BY <2>1 DEF DeferredInvalidate, Settle
  <2>2. CASE Audit(w) /\ wpc[w] = "refused"
    <3>1. applied[w] = 0 /\ settled' = settled
      BY <2>2 DEF Audit, NotYetApplied
    <3>2. ~(settled[id] < 0)
      BY <1>1 DEF TypeOK
    <3>3. [settled EXCEPT ![id] = settled[id]] = settled
      BY <1>1 DEF TypeOK
    <3> QED
      BY <3>1, <3>2, <3>3
  <2> QED
    BY <2>1, <2>2
<1>4. MutationsAsked' = [MutationsAsked EXCEPT ![w] = None]
  BY <1>1 DEF MutationsAsked
<1>5. UNCHANGED <<ListsAsked, ContentShown>>
  BY DEF DeferredInvalidate, Audit, readerVars, listVars, ListsAsked, ContentShown
<1> HIDE DEF id
<1> QED
  BY <1>1, <1>2, <1>3, <1>4, <1>5 DEF Service!Report

\* A step of a mutation is one of a mutation of RecordService, or nothing to see.
LEMMA MutationServes ==
  ASSUME IInv, Behind, WritesAreGuarded, NEW w \in Writers, MutationStep(w)
  PROVE  [Service!Next]_(Service!vars)
<1>1. TypeOK /\ NotYetApplied
  BY DEF IInv, Behind
<1>2. CASE BeginMutation(w) \/ Apply(w) \/ DeferredInvalidate(w) \/ (Audit(w) /\ wpc[w] = "refused")
  <2>1. Service!Submit(w) \/ Service!CarryOut(w) \/ Service!Report(w)
    BY <1>1, <1>2, BeginSubmits, ApplyCarriesOut, ReturnReports
  <2> QED
    BY <2>1 DEF Service!Next
<1>3. CASE \/ ReadCurrent(w) \/ MutationRefused(w) \/ InvalidateBefore(w) \/ EnterCall(w) \/ Check(w)
           \/ CallSucceeds(w) \/ CallFails(w) \/ Purge(w) \/ (Audit(w) /\ wpc[w] # "refused")
  <2>1. \A v \in Writers : wpc'[v] \in {"idle", "returned"} <=> wpc[v] \in {"idle", "returned"}
    BY <1>1, <1>3 DEF ReadCurrent, MutationRefused, InvalidateBefore, EnterCall, Check, CallSucceeds, CallFails,
                      Purge, Audit, Calling, TypeOK
  <2>2. UNCHANGED <<content, settled, promised, shown, target, kind, expected, applied, pc>>
    BY <1>3 DEF ReadCurrent, MutationRefused, InvalidateBefore, EnterCall, Check, CallSucceeds, CallFails,
                Purge, Audit, providerVars, readerVars, listVars, mutationVars
  <2> QED
    BY <1>1, <2>1, <2>2, SeesTheSame
<1>4. CASE EndMutation(w)
  <2>1. MutationsAsked' = MutationsAsked
    BY <1>1, <1>4 DEF EndMutation, MutationsAsked, TypeOK
  <2>2. UNCHANGED <<content, settled, promised, ListsAsked, ContentShown>>
    BY <1>4 DEF EndMutation, ListsAsked, ContentShown, providerVars, readerVars, listVars
  <2> QED
    BY <2>1, <2>2 DEF Service!vars
<1> QED
  BY <1>2, <1>3, <1>4, MutationStep(w) DEF MutationStep

\* The rest of the world changes records, or nothing to see.
LEMMA OthersServe ==
  ASSUME IInv, [Next]_vars,
         ~\E r \in Readers : ListStep(r), ~\E w \in Writers : MutationStep(w)
  PROVE  [Service!Next]_(Service!vars)
<1>1. ASSUME NEW c \in Records, LateApply(c) \/ OutsideChange(c) PROVE Service!ChangeByOthers(c)
  BY <1>1
  DEF LateApply, OutsideChange, Change, readerVars, listVars, writerVars, mutationVars, ListsAsked,
      ContentShown, MutationsAsked, Service!ChangeByOthers, Service!Change
<1>2. CASE InvalidateByOthers \/ AccountWritten \/ Tick \/ UNCHANGED vars
  <2>1. UNCHANGED <<providerVars, readerVars, writerVars>>
    BY <1>2 DEF InvalidateByOthers, AccountWritten, Tick, vars
  <2> QED
    BY <2>1, SeesTheSame DEF IInv, providerVars, readerVars, listVars, writerVars, mutationVars
<1> QED
  BY <1>1, <1>2 DEF Next, Service!Next

\* Whatever interleaving of lists, mutations, invalidations, failing and late calls: callers
\* see a service without a cache.  Lists show each record set as it was since the changes
\* reported before, mutations are carried out at most once and over nothing reported later than
\* what they name; a list leaves a record set out only when another changed since it was read.
THEOREM CacheImplementsService == Spec => ImplementsService
<1>1. ASSUME IInv, Paged, Behind, WritesAreGuarded, [Next]_vars PROVE [Service!Next]_(Service!vars)
  BY <1>1, ListServes, MutationServes, OthersServe
<1> QED
  BY <1>1, InvInit, InvNext, PagedInit, PagedNext, ServiceInit, BehindNext, GuardInit, GuardNext, PTL
  DEF Spec, ImplementsService, Service!Spec
==============================================================================
