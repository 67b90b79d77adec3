------------------------ MODULE ProviderClientsProofs ------------------------
(* Proofs about ProviderClients, for every value of its constants. *)
EXTENDS ProviderClients, FiniteSetTheorems, TLAPS

----------------------------------------------------------------------------
(* Type correctness. *)

\* The types hold initially.
LEMMA TypeInit == Init => TypeOK
<1> SUFFICES ASSUME Init PROVE TypeOK
  OBVIOUS
<1>1. account \in Row /\ status \in {"unconfigured", "pending", "valid", "error"}
  BY DEF Init, Row
<1> QED
  BY <1>1 DEF Init, TypeOK, Pcs, AllKinds, AllChanges, Holding, InMutation, InSlot

\* However a request ends, what it leaves behind is well typed.
LEMMA TypeFail ==
  ASSUME TypeOK, NEW r \in Requests, pc[r] # "idle", Fail(r),
         UNCHANGED <<rowVars, mapVars, adminVars>>,
         gen' = gen, cached' = cached, builder' \in [Runtimes -> Requests \cup {None}],
         calls' \in [Runtimes -> SUBSET Requests], mutation' \in [Runtimes -> Requests \cup {None}]
  PROVE  TypeOK'
<1> USE NoneAssumption
    DEF TypeOK, rowVars, mapVars, localVars, adminVars, Pcs, Building, Holding,
        InMutation, InSlot, AllKinds
<1>1. CASE Leave(r)
  <2>1. /\ pc' \in [Requests -> Pcs]
        /\ kind' \in [Requests -> AllKinds]
        /\ home' \in [Requests -> Runtimes \cup {None}]
        /\ seen' \in [Requests -> Nat]
    BY <1>1 DEF Leave
  <2>2. /\ row' \in [Requests -> Row \cup {None}]
        /\ expect' \in [Requests -> Row \cup {None}]
        /\ tries' \in [Requests -> Nat]
        /\ since' \in [Requests -> Nat]
    BY <1>1 DEF Leave
  <2>3. ASSUME NEW q \in Requests
        PROVE  /\ pc'[q] # "idle" => home'[q] \in created
               /\ pc'[q] \in {"lookup", "reread", "store", "persist"} \cup Holding => row'[q] \in Row
    BY <1>1 DEF Leave
  <2> QED
    BY <2>1, <2>2, <2>3
<1>2. CASE pc' = [pc EXCEPT ![r] = "persistError"] /\ UNCHANGED localVars
  BY <1>2
<1> QED
  BY <1>1, <1>2 DEF Fail

\* A step of Get keeps the types.
LEMMA TypeGet == ASSUME TypeOK, NEW r \in Requests, GetStep(r) PROVE TypeOK'
<1> USE NoneAssumption
    DEF TypeOK, rowVars, mapVars, runtimeVars, channelVars, localVars, adminVars, Pcs, Building, Holding,
        InMutation, InSlot, AllKinds
<1>1. CASE BeginGet(r)
  BY <1>1, KindsAssumption DEF BeginGet, RuntimeFor, Row
<1>2. CASE AcquireBuild(r)
  BY <1>2 DEF AcquireBuild
<1>3. CASE AbandonBuild(r)
  BY <1>3, TypeFail DEF AbandonBuild
<1>4. CASE Snapshot(r)
  BY <1>4 DEF Snapshot
<1>5. CASE GetFails(r)
  <2>1. builder' \in [Runtimes -> Requests \cup {None}]
    BY <1>5 DEF GetFails
  <2> QED
    BY <1>5, <2>1, TypeFail DEF GetFails, GetMayFail
<1>6. CASE SkipStale(r)
  BY <1>6 DEF SkipStale
<1>7. CASE Load(r)
  BY <1>7 DEF Load
<1>8. CASE ReturnCached(r)
  BY <1>8 DEF ReturnCached, GetReturns, CacheHit
<1>9. CASE Build(r)
  BY <1>9 DEF Build
<1>10. CASE Reread(r)
  BY <1>10 DEF Reread
<1>11. CASE Store(r)
  BY <1>11 DEF Store, GetReturns
<1>12. CASE StoreRefused(r)
  BY <1>12 DEF StoreRefused
<1> QED
  BY <1>1, <1>2, <1>3, <1>4, <1>5, <1>6, <1>7, <1>8, <1>9, <1>10, <1>11, <1>12, GetStep(r) DEF GetStep

\* A step of a provider call, or the statement that follows it, keeps the types.
LEMMA TypeCall == ASSUME TypeOK, NEW r \in Requests, CallStep(r) PROVE TypeOK'
<1> USE NoneAssumption
    DEF TypeOK, rowVars, mapVars, runtimeVars, channelVars, localVars, adminVars, Pcs, Building, Holding,
        InMutation, InSlot, AllKinds
<1>1. CASE AcquireMutation(r)
  BY <1>1 DEF AcquireMutation
<1>2. CASE CallFails(r)
  <2>1. /\ mutation' \in [Runtimes -> Requests \cup {None}]
        /\ calls' \in [Runtimes -> SUBSET Requests]
    BY <1>2 DEF CallFails, Release
  <2> QED
    BY <1>2, <2>1, TypeFail DEF CallFails, Release
<1>3. CASE CheckGeneration(r)
  BY <1>3 DEF CheckGeneration
<1>4. CASE AcquireSlot(r)
  BY <1>4 DEF AcquireSlot
<1>5. CASE StartCall(r)
  BY <1>5 DEF StartCall
<1>6. CASE EndCall(r)
  <2>1. CASE Leave(r)
    BY <1>6, <2>1 DEF EndCall, Release, Leave
  <2>2. CASE pc' \in {[pc EXCEPT ![r] = "held"], [pc EXCEPT ![r] = "persist"]} /\ UNCHANGED localVars
    BY <1>6, <2>2 DEF EndCall, Release
  <2> QED
    BY <1>6, <2>1, <2>2 DEF EndCall
<1>7. CASE Persist(r)
  <2>1. account' \in Row
    BY <1>7 DEF Persist, Row
  <2>2. status' \in {"unconfigured", "pending", "valid", "error"} /\ checked' \in (Nat \X Nat) \cup {None}
    BY <1>7 DEF Persist, Config, Row
  <2> QED
    BY <1>7, <2>1, <2>2 DEF Persist, Leave
<1>8. CASE PersistFails(r)
  BY <1>8 DEF PersistFails, Leave
<1> QED
  BY <1>1, <1>2, <1>3, <1>4, <1>5, <1>6, <1>7, <1>8, CallStep(r) DEF CallStep

\* What Invalidate does to the runtimes is well typed.
LEMMA InvalidateType ==
  ASSUME NEW x \in Runtimes \cup {None}, InvalidateRuntime(x),
         gen \in [Runtimes -> Nat], cached \in [Runtimes -> Row \cup {None}]
  PROVE  gen' \in [Runtimes -> Nat] /\ cached' \in [Runtimes -> Row \cup {None}]
  BY DEF InvalidateRuntime

\* An account operation keeps the types.
LEMMA TypeAdmin == ASSUME TypeOK, NEW a \in Admins, AdminStep(a) PROVE TypeOK'
<1> USE NoneAssumption
    DEF TypeOK, rowVars, mapVars, runtimeVars, channelVars, localVars, adminVars, AllChanges
<1>0. live \in Runtimes \cup {None} /\ removed[a] \in Runtimes \cup {None}
  OBVIOUS
<1>1. CASE BeginChange(a)
  <2>1. gen' \in [Runtimes -> Nat] /\ cached' \in [Runtimes -> Row \cup {None}]
    BY <1>1, <1>0, InvalidateType DEF BeginChange
  <2>2. op' \in [Admins -> AllChanges] /\ before' \in [Admins -> Row \cup {None}]
    BY <1>1, KindsAssumption DEF BeginChange
  <2>3. apc' \in [Admins -> {"idle", "again", "commit", "announce", "cancel"}]
    BY <1>1 DEF BeginChange
  <2> QED
    BY <1>1, <2>1, <2>2, <2>3 DEF BeginChange
<1>2. CASE InvalidateAgain(a)
  BY <1>2, <1>0, InvalidateType DEF InvalidateAgain
<1>3. CASE ChangeFails(a)
  BY <1>3 DEF ChangeFails, AdminLeaves
<1>4. CASE Commit(a)
  <2>1. account' \in Row /\ exists' \in BOOLEAN
    <3>1. account.enabled \in BOOLEAN /\ account.revision \in Nat /\ account.options \in Nat /\ account.version \in Nat
      BY DEF Row
    <3>2. CASE op[a] = "delete"
      BY <1>4, <3>2 DEF Commit, Apply
    <3>3. CASE op[a] # "delete"
      <4>1. account.revision + (IF op[a] = "replace" THEN 1 ELSE 0) \in Nat
        BY <3>1
      <4>2. account.options + (IF op[a] = "options" THEN 1 ELSE 0) \in Nat
        BY <3>1
      <4>3. (CASE op[a] = "enable" -> TRUE [] op[a] = "disable" -> FALSE [] OTHER -> account.enabled) \in BOOLEAN
        BY <3>1
      <4>4. account' = [enabled  |-> CASE op[a] = "enable" -> TRUE [] op[a] = "disable" -> FALSE
                                       [] OTHER -> account.enabled,
                        revision |-> account.revision + (IF op[a] = "replace" THEN 1 ELSE 0),
                        options  |-> account.options + (IF op[a] = "options" THEN 1 ELSE 0),
                        version  |-> account.version + 1]
        BY <1>4, <3>3, Zenon DEF Commit, Apply
      <4>5. account.version + 1 \in Nat
        BY <3>1
      <4>6. exists' = exists
        BY <1>4, <3>3, Zenon DEF Commit, Apply
      <4>7. \A e \in BOOLEAN, v, o, n \in Nat :
              [enabled |-> e, revision |-> v, options |-> o, version |-> n] \in Row
        BY DEF Row
      <4> QED
        BY <4>1, <4>2, <4>3, <4>4, <4>5, <4>6, <4>7, Zenon
    <3> QED
      BY <3>2, <3>3
  <2>2. status' \in {"unconfigured", "pending", "valid", "error"} /\ checked' \in (Nat \X Nat) \cup {None}
    BY <1>4 DEF Commit, Apply
  <2> QED
    <3>1. CASE AdminLeaves(a)
      BY <1>4, <2>1, <2>2, <3>1 DEF Commit, AdminLeaves
    <3>2. CASE apc' = [apc EXCEPT ![a] = "announce"] /\ UNCHANGED <<op, before, removed, lost>>
      BY <1>4, <2>1, <2>2, <3>2 DEF Commit
    <3> QED
      BY <1>4, <3>1, <3>2 DEF Commit
<1>5. CASE Announce(a)
  BY <1>5, <1>0, InvalidateType DEF Announce, AdminLeaves
<1>6. CASE Remove(a)
  BY <1>6 DEF Remove
<1>7. CASE CancelRemoved(a)
  BY <1>7, <1>0, InvalidateType DEF CancelRemoved, AdminLeaves
<1> QED
  BY <1>1, <1>2, <1>3, <1>4, <1>5, <1>6, <1>7, AdminStep(a) DEF AdminStep

\* Every step keeps the types.
LEMMA TypeKept == ASSUME TypeOK, [Next]_vars PROVE TypeOK'
<1>1. CASE \E x \in Runtimes : Expire(x)
  BY <1>1 DEF TypeOK, Expire, rowVars, mapVars, channelVars, localVars, adminVars
<1>2. CASE UNCHANGED vars
  BY <1>2 DEF TypeOK, vars, rowVars, mapVars, runtimeVars, channelVars, localVars, adminVars
<1> QED
  BY <1>1, <1>2, TypeGet, TypeCall, TypeAdmin DEF Next

\* Every variable keeps its type in every behaviour.
THEOREM TypeCorrect == Spec => []TypeOK
  BY TypeInit, TypeKept, PTL DEF Spec

----------------------------------------------------------------------------
(* The inductive invariant. *)

\* Request states after Get has read the row: its client is on the way or in use.
PastLoad == {"lookup", "reread", "store"} \cup Holding

\* Where a slot, a build or a mutation is held is what the channels say, and no channel
\* holds more than it has room for.
Channels ==
    /\ \A x \in Runtimes :
         /\ calls[x] = {r \in Requests : home[r] = x /\ pc[r] \in InSlot}
         /\ IsFiniteSet(calls[x]) /\ Cardinality(calls[x]) <= CallSlots
    /\ \A x \in Runtimes, r \in Requests : builder[x] = r <=> home[r] = x /\ pc[r] \in Building
    /\ \A x \in Runtimes, r \in Requests :
         mutation[x] = r <=> home[r] = x /\ kind[r] = "write" /\ pc[r] \in InMutation

\* An administrator between the commit of a deletion and its end.
Deleting(a) == apc[a] = "cancel" \/ (apc[a] = "announce" /\ op[a] = "delete")

\* There is one deletion at most, and the row is gone by then.
OneDeletion ==
    /\ \A a \in Admins : Deleting(a) => ~exists
    /\ \A a, b \in Admins : Deleting(a) /\ Deleting(b) => a = b

\* As long as the account exists it has had one runtime only.
OneRuntime == exists => created \subseteq {live}

\* All requests that got past the row have the same runtime.
SameHome == \A r, s \in Requests : pc[r] \in PastLoad /\ pc[s] \in PastLoad => home[r] = home[s]

\* Generations grow: nobody works under one to come.
SeenPassed == \A r \in Requests : seen[r] <= IF pc[r] = "idle" THEN 0 ELSE gen[home[r]]

\* A runtime that has a client cached, or a request with a client of its present
\* generation, is the one in the map, or a deletion is about to cancel it.
Serving(x) ==
    cached[x] # None \/ \E r \in Requests : home[r] = x /\ pc[r] \in PastLoad /\ Current(r)
Reachable(x) ==
    \/ x = live /\ \A a \in Admins : apc[a] # "cancel"
    \/ \E a \in Admins : apc[a] = "cancel" /\ removed[a] = x
ServingReachable == \A x \in Runtimes : Serving(x) => Reachable(x)

\* A row somebody has read is an earlier one, or has the present configuration.
Agrees(d, rec) ==
    /\ d.version <= rec.version
    /\ d.version = rec.version => Config(d) = Config(rec)
RowsAgree ==
    /\ \A r \in Requests : pc[r] \in PastLoad \cup {"persist"} => Agrees(row[r], account)
    /\ \A r \in Requests : expect[r] # None => Agrees(expect[r], account)
    /\ \A x \in Runtimes : cached[x] # None => Agrees(cached[x], account)

\* What Get reads is not older than the request, nor than the row a validation read first.
ReadLate ==
    \A r \in Requests :
        /\ since[r] <= account.version
        /\ pc[r] \in {"lookup", "reread", "store"} => row[r].version >= since[r]
        /\ kind[r] = "validate" /\ pc[r] # "idle" => expect[r] \in Row
        /\ kind[r] = "validate" /\ pc[r] \in PastLoad \cup {"persist"}
           => row[r].version >= expect[r].version

\* A client built from d is as good as one built now.
Good(d) == exists /\ account.enabled /\ Config(d) = Config(account)

\* Once all is announced every client that a call can still use is a good one, and so
\* is the cached one.
ClientsGood ==
    ~Unannounced =>
        /\ \A r \in Requests : pc[r] \in {"store"} \cup Holding /\ Current(r) => Good(row[r])
        /\ \A x \in Runtimes : cached[x] # None => Good(cached[x])

----------------------------------------------------------------------------
(* What a step leaves alone. *)

\* A step of a request changes nothing of another one.
LEMMA Others ==
  ASSUME TypeOK, NEW r \in Requests, GetStep(r) \/ CallStep(r), NEW q \in Requests, q # r
  PROVE  /\ pc'[q] = pc[q] /\ kind'[q] = kind[q] /\ home'[q] = home[q] /\ seen'[q] = seen[q]
         /\ row'[q] = row[q] /\ expect'[q] = expect[q] /\ since'[q] = since[q]
<1> USE DEF TypeOK, localVars
<1>1. CASE Leave(r)
  BY <1>1 DEF Leave
<1>2. CASE Fail(r)
  BY <1>1, <1>2 DEF Fail
<1>3. CASE BeginGet(r)
  BY <1>3 DEF BeginGet
<1>4. CASE AcquireBuild(r) \/ Snapshot(r) \/ SkipStale(r) \/ Load(r) \/ Build(r)
  BY <1>4 DEF AcquireBuild, Snapshot, SkipStale, Load, Build
<1>5. CASE Reread(r) \/ StoreRefused(r)
  BY <1>5 DEF Reread, StoreRefused
<1>6. CASE \E client : GetReturns(r, client)
  BY <1>6 DEF GetReturns
<1>7. CASE AcquireMutation(r) \/ CheckGeneration(r) \/ AcquireSlot(r) \/ StartCall(r)
  BY <1>7 DEF AcquireMutation, CheckGeneration, AcquireSlot, StartCall
<1>8. CASE EndCall(r)
  BY <1>1, <1>8 DEF EndCall
<1>9. CASE GetStep(r)
  BY <1>2, <1>3, <1>4, <1>5, <1>6, <1>9
     DEF GetStep, AbandonBuild, GetFails, ReturnCached, Store
<1>10. CASE CallStep(r)
  BY <1>1, <1>2, <1>7, <1>8, <1>10 DEF CallStep, CallFails, Persist, PersistFails
<1> QED
  BY <1>9, <1>10

\* Nor of the generations and the administrators; of the row it renews updated_at at most.
LEMMA RequestLeaves ==
  ASSUME TypeOK, NEW r \in Requests, GetStep(r) \/ CallStep(r)
  PROVE  /\ UNCHANGED <<exists, gen, apc, op, before, removed, lost>>
         /\ account' = account \/ account' = [account EXCEPT !.version = @ + 1]
<1> USE DEF rowVars, runtimeVars, channelVars, adminVars
<1>1. CASE GetStep(r)
  BY <1>1 DEF GetStep, BeginGet, AcquireBuild, AbandonBuild, Snapshot, GetFails, SkipStale, Load,
              ReturnCached, GetReturns, Build, Reread, Store, StoreRefused
<1>2. CASE CallStep(r)
  BY <1>2 DEF CallStep, AcquireMutation, CallFails, CheckGeneration, AcquireSlot, StartCall, EndCall,
              Persist, PersistFails, Release
<1> QED
  BY <1>1, <1>2

\* Only the beginning of a request touches the map.
LEMMA MapLeft ==
  ASSUME NEW r \in Requests, GetStep(r) \/ CallStep(r), ~BeginGet(r)
  PROVE  UNCHANGED <<live, created>>
<1> USE DEF mapVars
<1>1. CASE GetStep(r)
  BY <1>1 DEF GetStep, AcquireBuild, AbandonBuild, Snapshot, GetFails, SkipStale, Load,
              ReturnCached, GetReturns, Build, Reread, Store, StoreRefused
<1>2. CASE CallStep(r)
  BY <1>2 DEF CallStep, AcquireMutation, CallFails, CheckGeneration, AcquireSlot, StartCall, EndCall,
              Persist, PersistFails
<1> QED
  BY <1>1, <1>2

\* Only Store caches a client; other steps of requests drop one at most.
LEMMA CacheLeft ==
  ASSUME TypeOK, NEW r \in Requests, GetStep(r) \/ CallStep(r), NEW x \in Runtimes
  PROVE  \/ cached'[x] \in {cached[x], None}
         \/ Store(r) /\ x = home[r] /\ cached'[x] = row[r]
<1> USE DEF TypeOK, runtimeVars, channelVars
<1>1. CASE Store(r)
  BY <1>1 DEF Store
<1>2. CASE GetStep(r) /\ ~Store(r)
  BY <1>2 DEF GetStep, BeginGet, AcquireBuild, AbandonBuild, Snapshot, GetFails, SkipStale, Load,
              ReturnCached, Build, Reread, StoreRefused
<1>3. CASE CallStep(r)
  BY <1>3 DEF CallStep, AcquireMutation, CallFails, CheckGeneration, AcquireSlot, StartCall, EndCall,
              Persist, PersistFails, Release
<1> QED
  BY <1>1, <1>2, <1>3

\* An account operation moves no request and no channel.
LEMMA AdminLeavesRequests ==
  ASSUME NEW a \in Admins, AdminStep(a)
  PROVE  UNCHANGED <<builder, calls, mutation, pc, kind, home, seen, row, expect, since>>
  BY DEF AdminStep, BeginChange, InvalidateAgain, ChangeFails, Commit, Announce, Remove, CancelRemoved,
         runtimeVars, channelVars, localVars

\* How a request gets past the row, and what it keeps from there on.
Moves(r) ==
  \/ pc'[r] \notin PastLoad \cup {"persist"}
  \/ Load(r)
  \/ /\ pc[r] \in PastLoad /\ pc'[r] \in PastLoad \cup {"persist"}
     /\ home'[r] = home[r] /\ kind'[r] = kind[r] /\ seen'[r] = seen[r]
     /\ row'[r] = row[r] \/ (CacheHit(r) /\ row'[r] = cached[home[r]])
     /\ expect'[r] = expect[r] \/ (pc[r] \in {"lookup", "store"} /\ expect'[r] = row[r] /\ kind[r] = "sync")
     /\ pc'[r] \in {"lookup", "reread", "store"} =>
          row'[r] = row[r] /\ since'[r] = since[r] /\ pc[r] \in {"lookup", "reread"}
     /\ since'[r] \in {since[r], 0}

LEMMA RequestMoves ==
  ASSUME TypeOK, NEW r \in Requests, GetStep(r) \/ CallStep(r)
  PROVE  Moves(r)
<1> USE DEF TypeOK, localVars, PastLoad, Holding, InMutation, InSlot
<1>1. CASE Leave(r)
  BY <1>1 DEF Leave, Moves
<1>2. CASE Fail(r)
  BY <1>1, <1>2 DEF Fail, Moves
<1>3. CASE BeginGet(r) \/ AcquireBuild(r) \/ Snapshot(r) \/ SkipStale(r) \/ StoreRefused(r)
  BY <1>3 DEF BeginGet, AcquireBuild, Snapshot, SkipStale, StoreRefused, Moves
<1>4. CASE Build(r) \/ Reread(r)
  BY <1>4 DEF Build, Reread, Moves
<1>5. CASE ReturnCached(r)
  BY <1>5 DEF ReturnCached, GetReturns, Moves
<1>6. CASE Store(r)
  BY <1>6 DEF Store, GetReturns, Moves
<1>7. CASE AcquireMutation(r) \/ CheckGeneration(r) \/ AcquireSlot(r) \/ StartCall(r)
  BY <1>7 DEF AcquireMutation, CheckGeneration, AcquireSlot, StartCall, Moves
<1>8. CASE EndCall(r)
  BY <1>1, <1>8 DEF EndCall, Moves
<1>9. CASE GetStep(r)
  BY <1>2, <1>3, <1>4, <1>5, <1>6, <1>9 DEF GetStep, AbandonBuild, GetFails, Moves
<1>10. CASE CallStep(r)
  BY <1>1, <1>2, <1>7, <1>8, <1>10 DEF CallStep, CallFails, Persist, PersistFails
<1> QED
  BY <1>9, <1>10

\* What becomes of a request as a whole.
Keeps(r) ==
  \/ BeginGet(r)
  \/ /\ pc'[r] = "idle" /\ kind'[r] = "read" /\ home'[r] = None
     /\ seen'[r] = 0 /\ expect'[r] = None /\ since'[r] = 0
  \/ /\ pc[r] # "idle" /\ pc'[r] # "idle"
     /\ home'[r] = home[r] /\ kind'[r] = kind[r]
     /\ seen'[r] \in {seen[r], gen[home[r]]} /\ since'[r] \in {since[r], 0}
     /\ expect'[r] = expect[r] \/ (pc[r] \in {"lookup", "store"} /\ expect'[r] = row[r] /\ kind[r] = "sync")

\* A request begins, leaves, or goes on in its runtime.
LEMMA RequestKeeps ==
  ASSUME TypeOK, NEW r \in Requests, GetStep(r) \/ CallStep(r)
  PROVE  Keeps(r)
<1> USE DEF TypeOK, localVars
<1>1. CASE Leave(r)
  BY <1>1 DEF Leave, Keeps
<1>2. ASSUME Fail(r), pc[r] # "idle" PROVE Keeps(r)
  BY <1>1, <1>2 DEF Fail, Keeps
<1>3. CASE AcquireBuild(r) \/ Snapshot(r) \/ SkipStale(r) \/ StoreRefused(r) \/ Load(r)
  BY <1>3 DEF AcquireBuild, Snapshot, SkipStale, StoreRefused, Load, Keeps
<1>4. CASE Build(r) \/ Reread(r)
  BY <1>4 DEF Build, Reread, Keeps
<1>5. CASE ReturnCached(r) \/ Store(r)
  BY <1>5 DEF ReturnCached, Store, GetReturns, Keeps
<1>7. CASE AcquireMutation(r) \/ CheckGeneration(r) \/ AcquireSlot(r) \/ StartCall(r)
  BY <1>7 DEF AcquireMutation, CheckGeneration, AcquireSlot, StartCall, Keeps
<1>8. CASE EndCall(r)
  BY <1>1, <1>8 DEF EndCall, Keeps
<1>9. CASE GetStep(r)
  BY <1>2, <1>3, <1>4, <1>5, <1>9 DEF GetStep, AbandonBuild, GetFails, GetMayFail, Keeps
<1>10. CASE CallStep(r)
  BY <1>1, <1>2, <1>7, <1>8, <1>10 DEF CallStep, CallFails, Persist, PersistFails
<1> QED
  BY <1>9, <1>10

----------------------------------------------------------------------------
(* Each part of the invariant is kept. *)

\* Nobody recreates a deleted account.
LEMMA OneDeletionKept ==
  ASSUME TypeOK, OneDeletion, [Next]_vars PROVE OneDeletion'
<1> USE DEF OneDeletion, Deleting, TypeOK
<1>1. ASSUME NEW r \in Requests, GetStep(r) \/ CallStep(r) PROVE OneDeletion'
  BY <1>1, RequestLeaves
<1>2. ASSUME NEW x \in Runtimes, Expire(x) PROVE OneDeletion'
  BY <1>2 DEF Expire, rowVars, adminVars
<1>3. ASSUME NEW a \in Admins, AdminStep(a) PROVE OneDeletion'
  <2>1. CASE BeginChange(a) \/ InvalidateAgain(a) \/ ChangeFails(a) \/ Announce(a) \/ CancelRemoved(a)
    BY <2>1 DEF BeginChange, InvalidateAgain, ChangeFails, Announce, CancelRemoved, AdminLeaves, rowVars
  <2>2. CASE Commit(a)
    <3>1. exists /\ (op[a] # "delete" => exists' = exists) /\ (op[a] = "delete" => exists' = FALSE)
      BY <2>2, Zenon DEF Commit, ChangeGuard, Apply
    <3>2. \A b \in Admins : ~Deleting(b)
      BY <3>1, Zenon
    <3>3. \A b \in Admins : Deleting(b)' => b = a /\ op[a] = "delete"
      BY <2>2, <3>2 DEF Commit, AdminLeaves
    <3>4. \A b \in Admins : Deleting(b)' => ~exists'
      BY <3>1, <3>3, Zenon
    <3>5. \A b, c \in Admins : Deleting(b)' /\ Deleting(c)' => b = c
      BY <3>3, Zenon
    <3> HIDE DEF Deleting
    <3> QED
      BY <3>4, <3>5, Zenon
  <2>3. CASE Remove(a)
    BY <2>3 DEF Remove, rowVars
  <2> QED
    BY <1>3, <2>1, <2>2, <2>3 DEF AdminStep
<1>4. CASE UNCHANGED vars
  BY <1>4 DEF vars, rowVars, adminVars
<1> QED
  BY <1>1, <1>2, <1>3, <1>4 DEF Next

\* A second runtime is made only after the first was removed with the account.
LEMMA OneRuntimeKept ==
  ASSUME TypeOK, OneDeletion, OneRuntime, [Next]_vars PROVE OneRuntime'
<1> USE DEF OneRuntime, TypeOK
<1>1. ASSUME NEW r \in Requests, GetStep(r) \/ CallStep(r) PROVE OneRuntime'
  <2>1. CASE BeginGet(r)
    BY <2>1, NoneAssumption DEF BeginGet, RuntimeFor, rowVars
  <2> QED
    BY <1>1, <2>1, RequestLeaves, MapLeft
<1>2. ASSUME NEW x \in Runtimes, Expire(x) PROVE OneRuntime'
  BY <1>2 DEF Expire, rowVars, mapVars
<1>3. ASSUME NEW a \in Admins, AdminStep(a) PROVE OneRuntime'
  <2>1. CASE BeginChange(a) \/ InvalidateAgain(a) \/ ChangeFails(a) \/ Announce(a) \/ CancelRemoved(a)
    BY <2>1 DEF BeginChange, InvalidateAgain, ChangeFails, Announce, CancelRemoved, rowVars, mapVars
  <2>2. CASE Commit(a)
    BY <2>2 DEF Commit, ChangeGuard, Apply, mapVars
  <2>3. CASE Remove(a)
    BY <2>3 DEF Remove, rowVars, OneDeletion, Deleting
  <2> QED
    BY <1>3, <2>1, <2>2, <2>3 DEF AdminStep
<1>4. CASE UNCHANGED vars
  BY <1>4 DEF vars, rowVars, mapVars
<1> QED
  BY <1>1, <1>2, <1>3, <1>4 DEF Next

\* Requests past the row share a runtime: while the account exists there is only one.
LEMMA SameHomeKept ==
  ASSUME TypeOK, OneRuntime, SameHome, [Next]_vars PROVE SameHome'
<1>1. ASSUME NEW r \in Requests, GetStep(r) \/ CallStep(r) PROVE SameHome'
  <2>1. CASE Load(r)
    <3>1. \A q \in Requests : pc[q] # "idle" => home[q] = live
      BY <2>1 DEF TypeOK, OneRuntime, Load
    <3>2. home' = home
      BY <2>1 DEF Load
    <3>3. \A q \in Requests : pc'[q] \in PastLoad => pc[q] # "idle"
      BY <2>1 DEF TypeOK, Load, PastLoad, Holding, InMutation, InSlot
    <3> QED
      BY <3>1, <3>2, <3>3 DEF SameHome
  <2>2. CASE ~Load(r)
    <3>1. \A q \in Requests : pc'[q] \in PastLoad => pc[q] \in PastLoad /\ home'[q] = home[q]
      BY <1>1, <2>2, Others, RequestMoves DEF Moves
    <3> QED
      BY <3>1 DEF SameHome
  <2> QED
    BY <2>1, <2>2
<1>2. ASSUME NEW x \in Runtimes, Expire(x) PROVE SameHome'
  BY <1>2 DEF Expire, localVars, SameHome
<1>3. ASSUME NEW a \in Admins, AdminStep(a) PROVE SameHome'
  BY <1>3, AdminLeavesRequests DEF SameHome
<1>4. CASE UNCHANGED vars
  BY <1>4 DEF vars, localVars, SameHome
<1> QED
  BY <1>1, <1>2, <1>3, <1>4 DEF Next

\* Invalidate ends the generation of one runtime and leaves the others alone.
LEMMA InvalidateEnds ==
  ASSUME TypeOK, NEW y \in Runtimes \cup {None}, InvalidateRuntime(y), NEW x \in Runtimes
  PROVE  /\ x = y => gen'[x] = gen[x] + 1 /\ cached'[x] = None
         /\ x # y => gen'[x] = gen[x] /\ cached'[x] = cached[x]
  BY NoneAssumption DEF TypeOK, InvalidateRuntime

\* Account operations move generations forward only.
LEMMA AdminRaises ==
  ASSUME TypeOK, NEW a \in Admins, AdminStep(a), NEW x \in Runtimes
  PROVE  gen'[x] \in {gen[x], gen[x] + 1}
<1> USE DEF TypeOK
<1>1. live \in Runtimes \cup {None} /\ removed[a] \in Runtimes \cup {None}
  OBVIOUS
<1>2. CASE BeginChange(a) \/ InvalidateAgain(a) \/ Announce(a) \/ CancelRemoved(a)
  BY <1>1, <1>2, InvalidateEnds DEF BeginChange, InvalidateAgain, Announce, CancelRemoved
<1>3. CASE ChangeFails(a) \/ Commit(a) \/ Remove(a)
  BY <1>3 DEF ChangeFails, Commit, Remove, runtimeVars
<1> QED
  BY <1>2, <1>3, AdminStep(a) DEF AdminStep

\* Generations only grow, and a snapshot takes the present one.
LEMMA SeenPassedKept ==
  ASSUME TypeOK, SeenPassed, [Next]_vars PROVE SeenPassed'
<1>0. TypeOK => \A r \in Requests : seen[r] \in Nat /\ (pc[r] # "idle" => home[r] \in Runtimes /\ gen[home[r]] \in Nat)
  BY DEF TypeOK
<1>1. ASSUME NEW r \in Requests, GetStep(r) \/ CallStep(r) PROVE SeenPassed'
  <2>1. gen' = gen
    BY <1>1, RequestLeaves
  <2>2. CASE BeginGet(r)
    <3>1. seen' = seen /\ \A q \in Requests : q # r => pc'[q] = pc[q] /\ home'[q] = home[q]
      BY <2>2 DEF BeginGet, TypeOK
    <3>2. home'[r] \in Runtimes /\ pc[r] = "idle"
      BY <2>2 DEF BeginGet, TypeOK
    <3>3. gen[home'[r]] \in Nat
      BY <3>2 DEF TypeOK
    <3> QED
      BY <2>1, <3>1, <3>2, <3>3, <1>0 DEF SeenPassed
  <2>3. CASE ~BeginGet(r)
    BY <1>0, <1>1, <2>1, <2>3, Others, RequestKeeps DEF Keeps, SeenPassed
  <2> QED
    BY <2>2, <2>3
<1>2. ASSUME NEW x \in Runtimes, Expire(x) PROVE SeenPassed'
  BY <1>2 DEF Expire, localVars, SeenPassed
<1>3. ASSUME NEW a \in Admins, AdminStep(a) PROVE SeenPassed'
  BY <1>0, <1>3, AdminLeavesRequests, AdminRaises DEF SeenPassed
<1>4. CASE UNCHANGED vars
  BY <1>4 DEF vars, localVars, runtimeVars, SeenPassed
<1> QED
  BY <1>1, <1>2, <1>3, <1>4 DEF Next

\* A generation that Invalidate ended serves nobody any more.
LEMMA InvalidatedServesNone ==
  ASSUME TypeOK, SeenPassed, NEW y \in Runtimes \cup {None}, InvalidateRuntime(y),
         UNCHANGED <<pc, home, seen>>, NEW x \in Runtimes, Serving(x)'
  PROVE  Serving(x) /\ x # y
<1>1. CASE cached'[x] # None
  BY <1>1, InvalidateEnds DEF Serving
<1>2. ASSUME NEW r \in Requests, home'[r] = x, pc'[r] \in PastLoad, Current(r)'
      PROVE  Serving(x) /\ x # y
  <2>1. home[r] = x /\ pc[r] \in PastLoad /\ gen'[x] = seen[r]
    BY <1>2 DEF Current
  <2>2. seen[r] <= gen[x] /\ seen[r] \in Nat /\ gen[x] \in Nat
    BY <2>1 DEF SeenPassed, TypeOK, PastLoad, Holding, InMutation, InSlot
  <2>3. x # y /\ gen'[x] = gen[x]
    BY <2>1, <2>2, InvalidateEnds
  <2> QED
    BY <2>1, <2>3 DEF Serving, Current
<1> QED
  BY <1>1, <1>2 DEF Serving

\* A client in use belongs to the runtime in the map, or to one being cancelled.
LEMMA ServingReachableKept ==
  ASSUME TypeOK, OneDeletion, OneRuntime, SeenPassed, ServingReachable, [Next]_vars
  PROVE  ServingReachable'
<1>1. ASSUME NEW r \in Requests, GetStep(r) \/ CallStep(r) PROVE ServingReachable'
  <2>1. \A x \in Runtimes : Reachable(x) => Reachable(x)'
    <3>1. live' = live \/ live = None
      BY <1>1, MapLeft DEF BeginGet, RuntimeFor
    <3>2. apc' = apc /\ removed' = removed
      BY <1>1, RequestLeaves
    <3> QED
      BY <3>1, <3>2, NoneAssumption DEF Reachable
  <2>2. ASSUME NEW x \in Runtimes, Serving(x)' PROVE Reachable(x)
    <3>1. CASE cached'[x] # None
      <4>1. CASE cached[x] # None
        BY <4>1 DEF ServingReachable, Serving
      <4>2. CASE Store(r) /\ x = home[r]
        BY <4>2 DEF Store, ServingReachable, Serving, PastLoad
      <4> QED
        BY <1>1, <3>1, <4>1, <4>2, CacheLeft
    <3>2. ASSUME NEW q \in Requests, home'[q] = x, pc'[q] \in PastLoad, Current(q)' PROVE Reachable(x)
      <4>1. gen' = gen
        BY <1>1, RequestLeaves
      <4>2. CASE Load(r) /\ q = r
        <5>1. exists /\ home[r] = x /\ pc[r] = "load"
          BY <3>2, <4>2 DEF Load
        <5>2. x = live
          BY <5>1 DEF OneRuntime, TypeOK
        <5>3. \A a \in Admins : apc[a] # "cancel"
          BY <5>1 DEF OneDeletion, Deleting
        <5> QED
          BY <5>2, <5>3 DEF Reachable
      <4>3. CASE ~(Load(r) /\ q = r)
        <5>1. home[q] = x /\ pc[q] \in PastLoad /\ seen'[q] = seen[q] /\ home'[q] = home[q]
          BY <1>1, <3>2, <4>3, Others, RequestMoves DEF Moves
        <5>2. Current(q)
          BY <3>2, <4>1, <5>1 DEF Current
        <5> QED
          BY <5>1, <5>2 DEF ServingReachable, Serving
      <4> QED
        BY <4>2, <4>3
    <3> QED
      BY <2>2, <3>1, <3>2 DEF Serving
  <2> QED
    BY <2>1, <2>2 DEF ServingReachable
<1>2. ASSUME NEW y \in Runtimes, Expire(y) PROVE ServingReachable'
  <2>1. \A x \in Runtimes : Serving(x)' => Serving(x)
    BY <1>2 DEF Expire, localVars, TypeOK, Serving, Current
  <2>2. \A x \in Runtimes : Reachable(x) => Reachable(x)'
    BY <1>2 DEF Expire, mapVars, adminVars, Reachable
  <2> QED
    BY <2>1, <2>2 DEF ServingReachable
<1>3. ASSUME NEW a \in Admins, AdminStep(a) PROVE ServingReachable'
  <2>0. /\ live \in Runtimes \cup {None} /\ removed[a] \in Runtimes \cup {None}
        /\ UNCHANGED <<pc, home, seen>>
    BY <1>3, AdminLeavesRequests DEF TypeOK
  <2>1. CASE BeginChange(a) \/ InvalidateAgain(a) \/ Announce(a)
    <3>1. InvalidateRuntime(live)
      BY <2>1 DEF BeginChange, InvalidateAgain, Announce
    <3>2. \A x \in Runtimes : Reachable(x) => Reachable(x)'
      BY <2>1 DEF BeginChange, InvalidateAgain, Announce, AdminLeaves, mapVars, TypeOK, Reachable
    <3> QED
      BY <2>0, <3>1, <3>2, InvalidatedServesNone DEF ServingReachable
  <2>2. CASE CancelRemoved(a)
    <3>1. \A b \in Admins : apc[b] = "cancel" => b = a
      BY <2>2 DEF CancelRemoved, OneDeletion, Deleting
    <3>2. InvalidateRuntime(removed[a]) /\ apc[a] = "cancel"
      BY <2>2 DEF CancelRemoved
    <3>3. \A x \in Runtimes : ~Serving(x)'
      BY <2>0, <3>1, <3>2, InvalidatedServesNone DEF ServingReachable, Reachable
    <3> QED
      BY <3>3 DEF ServingReachable
  <2>3. CASE ChangeFails(a) \/ Commit(a)
    <3>1. \A x \in Runtimes : Serving(x)' => Serving(x)
      BY <2>3, <2>0 DEF ChangeFails, Commit, runtimeVars, Serving, Current
    <3>2. \A x \in Runtimes : Reachable(x) => Reachable(x)'
      BY <2>3 DEF ChangeFails, Commit, AdminLeaves, mapVars, TypeOK, Reachable
    <3> QED
      BY <3>1, <3>2 DEF ServingReachable
  <2>4. CASE Remove(a)
    <3>1. \A x \in Runtimes : Serving(x)' => Serving(x)
      BY <2>4, <2>0 DEF Remove, runtimeVars, Serving, Current
    <3>2. \A b \in Admins : apc[b] # "cancel"
      BY <2>4 DEF Remove, OneDeletion, Deleting
    <3>3. apc'[a] = "cancel" /\ removed'[a] = live
      BY <2>4 DEF Remove, TypeOK
    <3> QED
      BY <3>1, <3>2, <3>3 DEF ServingReachable, Reachable
  <2> QED
    BY <1>3, <2>1, <2>2, <2>3, <2>4 DEF AdminStep
<1>4. CASE UNCHANGED vars
  BY <1>4 DEF vars, localVars, runtimeVars, mapVars, adminVars, ServingReachable, Serving, Reachable, Current
<1> QED
  BY <1>1, <1>2, <1>3, <1>4 DEF Next

\* A write of the row gives it a later updated_at, or leaves what clients are built from.
LEMMA RowMoves ==
  ASSUME TypeOK, [Next]_vars
  PROVE  account' = account \/ account'.version = account.version + 1
<1>1. ASSUME NEW r \in Requests, GetStep(r) \/ CallStep(r)
      PROVE  account' = account \/ account'.version = account.version + 1
  BY <1>1, RequestLeaves DEF TypeOK, Row
<1>2. ASSUME NEW a \in Admins, AdminStep(a)
      PROVE  account' = account \/ account'.version = account.version + 1
  <2>1. CASE Commit(a)
    <3>1. CASE op[a] = "delete"
      BY <2>1, <3>1 DEF Commit, Apply
    <3>2. CASE op[a] # "delete"
      <4>1. \E e, v, o : account' = [enabled |-> e, revision |-> v, options |-> o, version |-> account.version + 1]
        BY <2>1, <3>2, Zenon DEF Commit, Apply
      <4> QED
        BY <4>1
    <3> QED
      BY <3>1, <3>2
  <2> QED
    BY <1>2, <2>1 DEF AdminStep, BeginChange, InvalidateAgain, ChangeFails, Announce, Remove, CancelRemoved, rowVars
<1> QED
  BY <1>1, <1>2 DEF Next, Expire, vars, rowVars

\* So a row somebody has read keeps agreeing with it.
LEMMA AgreesKept ==
  ASSUME TypeOK, [Next]_vars, NEW d \in Row, Agrees(d, account) PROVE Agrees(d, account')
<1>1. account' = account \/ account'.version = account.version + 1
  BY RowMoves
<1>2. d.version \in Nat /\ account.version \in Nat
  BY DEF TypeOK, Row
<1> QED
  BY <1>1, <1>2 DEF Agrees, Config

\* The rows that handlers and the cache remember are earlier ones.
LEMMA RowsAgreeKept ==
  ASSUME TypeOK, RowsAgree, [Next]_vars PROVE RowsAgree'
<1>0. /\ \A r \in Requests : pc[r] \in PastLoad \cup {"persist"} => row[r] \in Row /\ Agrees(row[r], account')
      /\ \A r \in Requests : expect[r] # None => Agrees(expect[r], account')
      /\ \A x \in Runtimes : cached[x] # None => cached[x] \in Row /\ Agrees(cached[x], account')
  BY AgreesKept DEF RowsAgree, TypeOK, PastLoad
<1>00. Agrees(account, account)
  BY DEF TypeOK, Row, Agrees
<1>1. ASSUME NEW r \in Requests, GetStep(r) \/ CallStep(r) PROVE RowsAgree'
  <2>1. ASSUME NEW q \in Requests, pc'[q] \in PastLoad \cup {"persist"} PROVE Agrees(row'[q], account')
    <3>1. CASE q # r
      BY <1>0, <1>1, <2>1, <3>1, Others
    <3>2. CASE Load(r) /\ q = r
      <4>1. row'[r] = account /\ account' = account
        BY <3>2 DEF Load, rowVars, TypeOK
      <4> QED
        BY <3>2, <4>1, <1>00
    <3>3. CASE ~Load(r) /\ q = r
      <4>1. pc[r] \in PastLoad /\ (row'[r] = row[r] \/ (CacheHit(r) /\ row'[r] = cached[home[r]]))
        BY <1>1, <2>1, <3>3, RequestMoves DEF Moves
      <4>2. home[r] \in Runtimes
        BY <4>1 DEF TypeOK, PastLoad, Holding, InMutation, InSlot
      <4> QED
        BY <1>0, <3>3, <4>1, <4>2 DEF CacheHit
    <3> QED
      BY <3>1, <3>2, <3>3
  <2>2. ASSUME NEW q \in Requests, expect'[q] # None PROVE Agrees(expect'[q], account')
    <3>1. CASE q # r
      BY <1>0, <1>1, <2>2, <3>1, Others
    <3>2. CASE BeginGet(r) /\ q = r
      <4>1. expect'[r] = account /\ account' = account
        BY <2>2, <3>2 DEF BeginGet, rowVars, TypeOK
      <4> QED
        BY <3>2, <4>1, <1>00
    <3>3. CASE ~BeginGet(r) /\ q = r
      <4>1. expect'[r] = expect[r] \/ (pc[r] \in PastLoad /\ expect'[r] = row[r])
        BY <1>1, <2>2, <3>3, RequestKeeps DEF Keeps, PastLoad
      <4> QED
        BY <1>0, <2>2, <3>3, <4>1
    <3> QED
      BY <3>1, <3>2, <3>3
  <2>3. ASSUME NEW x \in Runtimes, cached'[x] # None PROVE Agrees(cached'[x], account')
    <3>1. CASE cached'[x] = cached[x]
      BY <1>0, <2>3, <3>1
    <3>2. CASE Store(r) /\ cached'[x] = row[r]
      BY <1>0, <3>2 DEF Store, PastLoad
    <3> QED
      BY <1>1, <2>3, <3>1, <3>2, CacheLeft
  <2> QED
    BY <2>1, <2>2, <2>3 DEF RowsAgree
<1>2. ASSUME UNCHANGED <<pc, row, expect>>, \A x \in Runtimes : cached'[x] \in {cached[x], None}
      PROVE  RowsAgree'
  BY <1>0, <1>2 DEF RowsAgree
<1>3. ASSUME NEW x \in Runtimes, Expire(x) PROVE RowsAgree'
  BY <1>2, <1>3 DEF Expire, localVars, TypeOK
<1>4. ASSUME NEW a \in Admins, AdminStep(a) PROVE RowsAgree'
  <2>1. \A x \in Runtimes : cached'[x] \in {cached[x], None}
    <3>1. CASE BeginChange(a) \/ InvalidateAgain(a) \/ Announce(a) \/ CancelRemoved(a)
      <4>1. live \in Runtimes \cup {None} /\ removed[a] \in Runtimes \cup {None}
        BY DEF TypeOK
      <4> QED
        BY <3>1, <4>1, InvalidateEnds DEF BeginChange, InvalidateAgain, Announce, CancelRemoved
    <3>2. CASE ChangeFails(a) \/ Commit(a) \/ Remove(a)
      BY <3>2 DEF ChangeFails, Commit, Remove, runtimeVars
    <3> QED
      BY <1>4, <3>1, <3>2 DEF AdminStep
  <2> QED
    BY <1>2, <1>4, <2>1, AdminLeavesRequests
<1>5. CASE UNCHANGED vars
  BY <1>2, <1>5 DEF vars, localVars, runtimeVars
<1> QED
  BY <1>1, <1>3, <1>4, <1>5 DEF Next

\* What Get and a validation read first stays behind what Get reads later.
LEMMA ReadLateKept ==
  ASSUME TypeOK, RowsAgree, ReadLate, [Next]_vars PROVE ReadLate'
<1>0. account.version \in Nat /\ account'.version \in Nat /\ account.version <= account'.version
  BY RowMoves DEF TypeOK, Row
<1>1. ASSUME NEW r \in Requests, GetStep(r) \/ CallStep(r) PROVE ReadLate'
  <2>1. ASSUME NEW q \in Requests PROVE since'[q] <= account'.version
    <3>1. since'[q] \in {since[q], 0, account.version}
      BY <1>1, Others, RequestKeeps DEF Keeps, BeginGet, TypeOK
    <3>2. since[q] \in Nat /\ since[q] <= account.version
      BY DEF TypeOK, ReadLate
    <3> QED
      BY <1>0, <3>1, <3>2
  <2>2. ASSUME NEW q \in Requests, pc'[q] \in {"lookup", "reread", "store"} PROVE row'[q].version >= since'[q]
    <3>1. CASE q # r
      BY <1>1, <2>2, <3>1, Others DEF ReadLate
    <3>2. CASE Load(r) /\ q = r
      BY <3>2 DEF Load, ReadLate, TypeOK
    <3>3. CASE ~Load(r) /\ q = r
      BY <1>1, <2>2, <3>3, RequestMoves DEF Moves, PastLoad, ReadLate
    <3> QED
      BY <3>1, <3>2, <3>3
  <2>3. ASSUME NEW q \in Requests, kind'[q] = "validate", pc'[q] # "idle" PROVE expect'[q] \in Row
    <3>1. CASE q # r
      BY <1>1, <2>3, <3>1, Others DEF ReadLate
    <3>2. CASE BeginGet(r) /\ q = r
      BY <2>3, <3>2 DEF BeginGet, TypeOK
    <3>3. CASE ~BeginGet(r) /\ q = r
      BY <1>1, <2>3, <3>3, RequestKeeps DEF Keeps, ReadLate
    <3> QED
      BY <3>1, <3>2, <3>3
  <2>4. ASSUME NEW q \in Requests, kind'[q] = "validate", pc'[q] \in PastLoad \cup {"persist"}
        PROVE  row'[q].version >= expect'[q].version
    <3>1. CASE q # r
      BY <1>1, <2>4, <3>1, Others DEF ReadLate
    <3>2. CASE Load(r) /\ q = r
      <4>1. row'[r] = account /\ kind[r] = "validate" /\ pc[r] = "load" /\ expect' = expect
        BY <2>4, <3>2 DEF Load, TypeOK
      <4>2. expect[r] \in Row
        BY <4>1 DEF ReadLate
      <4>3. expect[r].version <= account.version
        BY <4>2, NoneAssumption DEF RowsAgree, Agrees
      <4> QED
        BY <3>2, <4>1, <4>2, <4>3, <1>0 DEF Row
    <3>3. CASE ~Load(r) /\ q = r
      <4>1. /\ pc[r] \in PastLoad /\ kind[r] = "validate" /\ expect'[r] = expect[r]
            /\ row'[r] = row[r] \/ (CacheHit(r) /\ row'[r] = cached[home[r]])
        BY <1>1, <2>4, <3>3, RequestMoves DEF Moves
      <4>2. row'[r].version = row[r].version
        BY <4>1 DEF CacheHit
      <4> QED
        BY <3>3, <4>1, <4>2 DEF ReadLate
    <3> QED
      BY <3>1, <3>2, <3>3
  <2> QED
    BY <2>1, <2>2, <2>3, <2>4 DEF ReadLate
<1>2. ASSUME UNCHANGED <<pc, kind, row, expect, since>> PROVE ReadLate'
  BY <1>0, <1>2 DEF ReadLate, TypeOK
<1>3. ASSUME NEW x \in Runtimes, Expire(x) PROVE ReadLate'
  BY <1>2, <1>3 DEF Expire, localVars
<1>4. ASSUME NEW a \in Admins, AdminStep(a) PROVE ReadLate'
  BY <1>2, <1>4, AdminLeavesRequests
<1>5. CASE UNCHANGED vars
  BY <1>2, <1>5 DEF vars, localVars
<1> QED
  BY <1>1, <1>3, <1>4, <1>5 DEF Next

\* A request that has not decided yet between the cached client and a new one gets the
\* cached one, or goes on to read the row again.
LEMMA ReadersGoOn ==
  ASSUME TypeOK, NEW r \in Requests, GetStep(r) \/ CallStep(r), pc[r] \in {"lookup", "reread"},
         pc'[r] \in {"store"} \cup Holding
  PROVE  ReturnCached(r) \/ Reread(r)
<1> USE DEF TypeOK, Holding, InMutation, InSlot
<1>1. CASE GetStep(r)
  BY <1>1 DEF GetStep, BeginGet, AcquireBuild, AbandonBuild, Snapshot, GetFails, SkipStale, Load, Build,
              Store, StoreRefused, Fail, Leave
<1>2. CASE CallStep(r)
  BY <1>2 DEF CallStep, AcquireMutation, CallFails, CheckGeneration, AcquireSlot, StartCall, EndCall,
              Persist, PersistFails
<1> QED
  BY <1>1, <1>2

\* A client that was good remains good over a write of anything but the configuration.
LEMMA GoodKept ==
  ASSUME TypeOK, NEW r \in Requests, GetStep(r) \/ CallStep(r)
  PROVE  exists' = exists /\ account'.enabled = account.enabled /\ Config(account') = Config(account)
  BY RequestLeaves DEF TypeOK, Row, Config

\* Once all is announced, only clients of the present row remain in use.
LEMMA ClientsGoodKept ==
  ASSUME TypeOK, OneDeletion, SeenPassed, ServingReachable, ClientsGood, [Next]_vars
  PROVE  ClientsGood'
<1>0. \A r \in Requests : pc[r] \in {"store"} \cup Holding => pc[r] \in PastLoad
  BY DEF PastLoad
<1>1. ASSUME NEW r \in Requests, GetStep(r) \/ CallStep(r) PROVE ClientsGood'
  <2> SUFFICES ASSUME ~Unannounced
               PROVE  /\ \A q \in Requests : pc'[q] \in {"store"} \cup Holding /\ Current(q)' => Good(row[q])'
                      /\ \A x \in Runtimes : cached'[x] # None => Good(cached[x])'
    BY <1>1, RequestLeaves DEF ClientsGood, Unannounced
  <2>1. /\ exists' = exists /\ account'.enabled = account.enabled /\ Config(account') = Config(account)
        /\ gen' = gen
    BY <1>1, GoodKept, RequestLeaves
  <2>2. ASSUME NEW q \in Requests, pc'[q] \in {"store"} \cup Holding, Current(q)' PROVE Good(row[q])'
    <3>1. CASE q # r
      <4>1. pc[q] \in {"store"} \cup Holding /\ Current(q) /\ row'[q] = row[q]
        BY <1>1, <2>1, <2>2, <3>1, Others DEF Current
      <4> QED
        BY <2>1, <4>1 DEF ClientsGood, Good
    <3>2. CASE Reread(r) /\ q = r
      BY <2>2, <3>2 DEF Reread, Good, TypeOK, rowVars, Holding, InMutation, InSlot
    <3>3. CASE q = r /\ ~Reread(r)
      <4>1. ~Load(r)
        BY <2>2, <3>3 DEF Load, TypeOK, Holding, InMutation, InSlot
      <4>2. /\ pc[r] \in PastLoad /\ home'[r] = home[r] /\ seen'[r] = seen[r]
            /\ row'[r] = row[r] \/ (CacheHit(r) /\ row'[r] = cached[home[r]])
        BY <1>1, <2>2, <3>3, <4>1, RequestMoves DEF Moves, PastLoad
      <4>3. Current(r)
        BY <2>1, <2>2, <3>3, <4>2 DEF Current
      <4>4. CASE CacheHit(r) /\ row'[r] = cached[home[r]]
        <5>1. home[r] \in Runtimes
          BY <4>2 DEF TypeOK, PastLoad, Holding, InMutation, InSlot
        <5> QED
          BY <2>1, <3>3, <4>4, <5>1 DEF ClientsGood, CacheHit, Good
      <4>5. CASE row'[r] = row[r] /\ pc[r] \in {"store"} \cup Holding
        BY <2>1, <3>3, <4>3, <4>5 DEF ClientsGood, Good
      <4>6. ReturnCached(r) \/ pc[r] \in {"store"} \cup Holding
        <5>1. pc[r] \in {"lookup", "reread"} => ReturnCached(r)
          BY <1>1, <2>2, <3>3, ReadersGoOn
        <5> QED
          BY <4>2, <5>1 DEF PastLoad
      <4>7. ReturnCached(r) => CacheHit(r) /\ row'[r] = cached[home[r]]
        BY DEF ReturnCached, GetReturns, TypeOK
      <4> QED
        BY <4>2, <4>4, <4>5, <4>6, <4>7
    <3> QED
      BY <3>1, <3>2, <3>3
  <2>3. ASSUME NEW x \in Runtimes, cached'[x] # None PROVE Good(cached[x])'
    <3>1. CASE cached'[x] = cached[x]
      BY <2>1, <2>3, <3>1 DEF ClientsGood, Good
    <3>2. CASE Store(r) /\ cached'[x] = row[r]
      BY <2>1, <3>2 DEF ClientsGood, Good, Store
    <3> QED
      BY <1>1, <2>3, <3>1, <3>2, CacheLeft
  <2> QED
    BY <2>2, <2>3
<1>2. ASSUME \A x \in Runtimes : ~Serving(x)' PROVE ClientsGood'
  <2>1. \A r \in Requests : pc'[r] \in PastLoad => home'[r] \in Runtimes
    BY <1>2, TypeKept DEF TypeOK, PastLoad, Holding, InMutation, InSlot
  <2> QED
    BY <1>2, <2>1 DEF ClientsGood, Serving, PastLoad
<1>3. ASSUME UNCHANGED <<exists, account, pc, home, seen, row, gen>>, Unannounced = Unannounced',
             \A x \in Runtimes : cached'[x] \in {cached[x], None}
      PROVE  ClientsGood'
  BY <1>3 DEF ClientsGood, Good, Current
<1>4. ASSUME NEW x \in Runtimes, Expire(x) PROVE ClientsGood'
  <2>1. UNCHANGED <<exists, account, pc, home, seen, row, gen>> /\ Unannounced = Unannounced'
    BY <1>4 DEF Expire, rowVars, localVars, adminVars, Unannounced
  <2>2. \A y \in Runtimes : cached'[y] \in {cached[y], None}
    BY <1>4 DEF Expire, TypeOK
  <2> QED
    BY <1>3, <2>1, <2>2
<1>5. ASSUME NEW a \in Admins, AdminStep(a) PROVE ClientsGood'
  <2>0. /\ live \in Runtimes \cup {None} /\ removed[a] \in Runtimes \cup {None}
        /\ UNCHANGED <<pc, home, seen, row>>
    BY <1>5, AdminLeavesRequests DEF TypeOK
  <2>1. CASE BeginChange(a) \/ InvalidateAgain(a) \/ Announce(a)
    <3>1. InvalidateRuntime(live)
      BY <2>1 DEF BeginChange, InvalidateAgain, Announce
    <3>2. CASE \E b \in Admins : apc'[b] \in {"announce", "cancel"}
      BY <3>2 DEF ClientsGood, Unannounced
    <3>3. CASE \A b \in Admins : apc'[b] \notin {"announce", "cancel"}
      <4>1. \A b \in Admins : apc[b] # "cancel"
        BY <2>1, <3>3 DEF BeginChange, InvalidateAgain, Announce, AdminLeaves, TypeOK
      <4>2. \A x \in Runtimes : ~Serving(x)'
        BY <2>0, <3>1, <4>1, InvalidatedServesNone DEF ServingReachable, Reachable
      <4> QED
        BY <1>2, <4>2
    <3> QED
      BY <3>2, <3>3
  <2>2. CASE CancelRemoved(a)
    <3>1. \A b \in Admins : apc[b] = "cancel" => b = a
      BY <2>2 DEF CancelRemoved, OneDeletion, Deleting
    <3>2. InvalidateRuntime(removed[a]) /\ apc[a] = "cancel"
      BY <2>2 DEF CancelRemoved
    <3>3. \A x \in Runtimes : ~Serving(x)'
      BY <2>0, <3>1, <3>2, InvalidatedServesNone DEF ServingReachable, Reachable
    <3> QED
      BY <1>2, <3>3
  <2>3. CASE ChangeFails(a)
    <3>1. Unannounced = Unannounced'
      BY <2>3 DEF ChangeFails, AdminLeaves, TypeOK, Unannounced
    <3> QED
      BY <2>0, <2>3, <3>1, <1>3 DEF ChangeFails, rowVars, runtimeVars
  <2>4. CASE Commit(a)
    <3>1. CASE op[a] # "rename"
      <4>1. lost' = TRUE \/ apc'[a] = "announce"
        BY <2>4, <3>1 DEF Commit, TypeOK
      <4>2. Unannounced'
        BY <4>1, Zenon DEF Unannounced
      <4> QED
        BY <4>2, Zenon DEF ClientsGood
    <3>2. CASE op[a] = "rename"
      <4>1. exists' = exists /\ account'.enabled = account.enabled /\ Config(account') = Config(account)
        BY <2>4, <3>2 DEF Commit, Apply, Config, TypeOK, Row
      <4>2. Unannounced = Unannounced'
        BY <2>4, <3>2 DEF Commit, AdminLeaves, Unannounced, TypeOK
      <4>3. UNCHANGED <<gen, cached>>
        BY <2>4 DEF Commit, runtimeVars
      <4> QED
        BY <2>0, <4>1, <4>2, <4>3 DEF ClientsGood, Good, Current
    <3> QED
      BY <3>1, <3>2
  <2>5. CASE Remove(a)
    <3>1. apc'[a] = "cancel"
      BY <2>5 DEF Remove, TypeOK
    <3> QED
      BY <3>1 DEF ClientsGood, Unannounced
  <2> QED
    BY <1>5, <2>1, <2>2, <2>3, <2>4, <2>5 DEF AdminStep
<1>6. CASE UNCHANGED vars
  BY <1>6 DEF vars, rowVars, localVars, adminVars, runtimeVars, ClientsGood, Good, Current, Unannounced
<1> QED
  BY <1>1, <1>4, <1>5, <1>6 DEF Next

\* Who builds and who mutates in the runtime x.
InBuild(x, r) == home[r] = x /\ pc[r] \in Building
InWrite(x, r) == home[r] = x /\ kind[r] = "write" /\ pc[r] \in InMutation

\* A step after which the same requests are inside, of the same runtimes.
LEMMA ChannelsSame ==
  ASSUME Channels, UNCHANGED channelVars,
         \A q \in Requests, x \in Runtimes :
            /\ (home[q] = x /\ pc[q] \in InSlot) <=> (home'[q] = x /\ pc'[q] \in InSlot)
            /\ InBuild(x, q) <=> InBuild(x, q)'
            /\ InWrite(x, q) <=> InWrite(x, q)'
  PROVE  Channels'
  BY DEF Channels, channelVars, InBuild, InWrite

\* A step of the request r after which it is inside nothing but a new build or mutation,
\* and the channels say so.
LEMMA ChannelsLeft ==
  ASSUME TypeOK, Channels, NEW r \in Requests, GetStep(r) \/ CallStep(r), pc[r] # "idle",
         \A x \in Runtimes : calls'[x] = calls[x] \ {r},
         \A x \in Runtimes : builder'[x] = IF builder[x] = r THEN None ELSE builder[x],
         \A x \in Runtimes : mutation'[x] = IF mutation[x] = r THEN None ELSE mutation[x],
         pc'[r] \notin InSlot \cup Building, kind'[r] # "write" \/ pc'[r] \notin InMutation
  PROVE  Channels'
<1>1. \A q \in Requests : q # r => pc'[q] = pc[q] /\ home'[q] = home[q] /\ kind'[q] = kind[q]
  BY Others
<1>2. ASSUME NEW x \in Runtimes
      PROVE  /\ calls'[x] = {q \in Requests : home'[q] = x /\ pc'[q] \in InSlot}
             /\ IsFiniteSet(calls'[x]) /\ Cardinality(calls'[x]) <= CallSlots
  <2>1. calls'[x] = {q \in Requests : home'[q] = x /\ pc'[q] \in InSlot}
    BY <1>1 DEF Channels
  <2>2. IsFiniteSet(calls[x]) /\ Cardinality(calls[x]) <= CallSlots /\ Cardinality(calls[x]) \in Nat
    BY FS_CardinalityType DEF Channels
  <2>3. IsFiniteSet(calls'[x]) /\ Cardinality(calls'[x]) <= Cardinality(calls[x]) /\ Cardinality(calls'[x]) \in Nat
    BY <2>2, FS_Subset, FS_CardinalityType
  <2> QED
    BY <2>1, <2>2, <2>3, BoundsAssumption
<1>3. ASSUME NEW x \in Runtimes, NEW q \in Requests
      PROVE  builder'[x] = q <=> home'[q] = x /\ pc'[q] \in Building
  BY <1>1, NoneAssumption DEF Channels
<1>4. ASSUME NEW x \in Runtimes, NEW q \in Requests
      PROVE  mutation'[x] = q <=> home'[q] = x /\ kind'[q] = "write" /\ pc'[q] \in InMutation
  BY <1>1, NoneAssumption DEF Channels
<1> QED
  BY <1>2, <1>3, <1>4 DEF Channels

\* Whatever a request does, the channels keep saying who is inside.
LEMMA ChannelsKept ==
  ASSUME TypeOK, Channels, [Next]_vars PROVE Channels'
<1>0. TypeOK'
  BY TypeKept
<1>1. ASSUME NEW r \in Requests, GetStep(r) \/ CallStep(r) PROVE Channels'
  <2> DEFINE x == home[r]
  <2>0. \A q \in Requests : q # r => pc'[q] = pc[q] /\ home'[q] = home[q] /\ kind'[q] = kind[q]
    BY <1>1, Others
  <2>1. ASSUME pc[r] # "idle" PROVE x \in Runtimes
    BY <2>1 DEF TypeOK
  <2>2. ASSUME pc[r] \notin Building \cup InSlot, kind[r] # "write" \/ pc[r] \notin InMutation,
               pc'[r] \notin Building \cup InSlot, kind'[r] # "write" \/ pc'[r] \notin InMutation,
               UNCHANGED channelVars
        PROVE  Channels'
    BY <2>0, <2>2, ChannelsSame DEF InBuild, InWrite
  <2>3. ASSUME home'[r] = home[r], kind'[r] = kind[r], UNCHANGED channelVars,
               pc[r] \in Building <=> pc'[r] \in Building, pc[r] \in InSlot <=> pc'[r] \in InSlot,
               kind[r] # "write" \/ (pc[r] \in InMutation <=> pc'[r] \in InMutation)
        PROVE  Channels'
    BY <2>0, <2>3, ChannelsSame DEF InBuild, InWrite
  <2>4. CASE BeginGet(r)
    BY <2>2, <2>4 DEF BeginGet, runtimeVars, TypeOK, Building, InSlot, InMutation
  <2>5. CASE AcquireBuild(r)
    <3>1. /\ pc[r] = "build" /\ pc'[r] = "snapshot" /\ builder[x] = None /\ x \in Runtimes
          /\ builder' = [builder EXCEPT ![x] = r]
          /\ UNCHANGED <<calls, mutation>>
          /\ home' = home /\ kind' = kind
      BY <2>1, <2>5 DEF AcquireBuild, TypeOK, localVars
    <3>2. ASSUME NEW y \in Runtimes, NEW q \in Requests
          PROVE  builder'[y] = q <=> home'[q] = y /\ pc'[q] \in Building
      BY <2>0, <3>1, NoneAssumption DEF Channels, Building, TypeOK
    <3>3. \A y \in Runtimes : calls'[y] = {q \in Requests : home'[q] = y /\ pc'[q] \in InSlot}
      BY <2>0, <3>1 DEF Channels, InSlot
    <3>4. \A y \in Runtimes, q \in Requests :
            mutation'[y] = q <=> home'[q] = y /\ kind'[q] = "write" /\ pc'[q] \in InMutation
      BY <2>0, <3>1 DEF Channels, InMutation, InSlot
    <3> QED
      BY <3>1, <3>2, <3>3, <3>4 DEF Channels
  <2>6. CASE AbandonBuild(r)
    BY <2>2, <2>6 DEF AbandonBuild, Fail, Leave, runtimeVars, TypeOK, Building, InSlot, InMutation
  <2>7. CASE Snapshot(r) \/ SkipStale(r) \/ Load(r) \/ Build(r) \/ Reread(r) \/ StoreRefused(r)
    BY <2>3, <2>7 DEF Snapshot, SkipStale, Load, Build, Reread, StoreRefused, runtimeVars, localVars, TypeOK,
         Building, InSlot, InMutation
  <2>8. CASE GetFails(r) \/ ReturnCached(r) \/ Store(r)
    <3>1. /\ pc[r] \in Building /\ builder' = [builder EXCEPT ![x] = None] /\ UNCHANGED <<calls, mutation>>
          /\ pc'[r] \notin InSlot \cup Building \cup InMutation
      BY <2>8 DEF GetFails, GetMayFail, ReturnCached, Store, GetReturns, Fail, Leave, TypeOK,
           Building, InSlot, InMutation
    <3>2. x \in Runtimes
      BY <2>1, <3>1 DEF Building
    <3>3. ASSUME NEW y \in Runtimes
          PROVE  /\ builder'[y] = IF builder[y] = r THEN None ELSE builder[y]
                 /\ calls'[y] = calls[y] \ {r}
                 /\ mutation'[y] = IF mutation[y] = r THEN None ELSE mutation[y]
      BY <3>1, <3>2 DEF Channels, TypeOK, Building, InSlot, InMutation
    <3> QED
      BY <1>1, <3>1, <3>3, ChannelsLeft DEF Building
  <2>9. CASE AcquireMutation(r)
    <3>1. /\ pc[r] = "held" /\ pc'[r] = "enter" /\ kind[r] = "write" /\ mutation[x] = None /\ x \in Runtimes
          /\ mutation' = [mutation EXCEPT ![x] = r]
          /\ UNCHANGED <<calls, builder>>
          /\ home' = home /\ kind' = kind
      BY <2>1, <2>9 DEF AcquireMutation, TypeOK, localVars
    <3>2. ASSUME NEW y \in Runtimes, NEW q \in Requests
          PROVE  mutation'[y] = q <=> home'[q] = y /\ kind'[q] = "write" /\ pc'[q] \in InMutation
      BY <2>0, <3>1, NoneAssumption DEF Channels, InMutation, InSlot, TypeOK
    <3>3. \A y \in Runtimes : calls'[y] = {q \in Requests : home'[q] = y /\ pc'[q] \in InSlot}
      BY <2>0, <3>1 DEF Channels, InSlot
    <3>4. \A y \in Runtimes, q \in Requests : builder'[y] = q <=> home'[q] = y /\ pc'[q] \in Building
      BY <2>0, <3>1 DEF Channels, Building
    <3> QED
      BY <3>1, <3>2, <3>3, <3>4 DEF Channels
  <2>10. CASE CheckGeneration(r)
    BY <2>3, <2>10 DEF CheckGeneration, runtimeVars, localVars, TypeOK, Building, InSlot, InMutation
  <2>11. CASE StartCall(r)
    BY <2>3, <2>11 DEF StartCall, runtimeVars, localVars, TypeOK, Building, InSlot, InMutation
  <2>12. CASE AcquireSlot(r)
    <3>1. /\ pc[r] = "slot" /\ pc'[r] = "recheck" /\ x \in Runtimes /\ Cardinality(calls[x]) < CallSlots
          /\ calls' = [calls EXCEPT ![x] = calls[x] \cup {r}]
          /\ UNCHANGED <<builder, mutation>>
          /\ home' = home /\ kind' = kind
      BY <2>1, <2>12 DEF AcquireSlot, TypeOK, localVars
    <3>2. \A y \in Runtimes : calls'[y] = {q \in Requests : home'[q] = y /\ pc'[q] \in InSlot}
      BY <2>0, <3>1 DEF Channels, InSlot, TypeOK
    <3>3. ASSUME NEW y \in Runtimes PROVE IsFiniteSet(calls'[y]) /\ Cardinality(calls'[y]) <= CallSlots
      <4>1. IsFiniteSet(calls[y]) /\ Cardinality(calls[y]) <= CallSlots /\ Cardinality(calls[y]) \in Nat
        BY FS_CardinalityType DEF Channels
      <4>2. CASE y # x
        BY <3>1, <4>1, <4>2 DEF TypeOK
      <4>3. CASE y = x
        <5>1. calls'[y] = calls[y] \cup {r} /\ r \notin calls[y]
          BY <3>1, <4>3 DEF Channels, InSlot, TypeOK
        <5>2. IsFiniteSet(calls'[y]) /\ Cardinality(calls'[y]) = Cardinality(calls[y]) + 1
          <6>1. IsFiniteSet(calls[y] \cup {r}) /\ Cardinality(calls[y] \cup {r}) = Cardinality(calls[y]) + 1
            BY <4>1, <5>1, FS_AddElement, Zenon
          <6> QED
            BY <5>1, <6>1, Zenon
        <5> QED
          BY <3>1, <4>1, <4>3, <5>2, BoundsAssumption
      <4> QED
        BY <4>2, <4>3
    <3>4. \A y \in Runtimes, q \in Requests : builder'[y] = q <=> home'[q] = y /\ pc'[q] \in Building
      BY <2>0, <3>1 DEF Channels, Building
    <3>5. \A y \in Runtimes, q \in Requests :
            mutation'[y] = q <=> home'[q] = y /\ kind'[q] = "write" /\ pc'[q] \in InMutation
      BY <2>0, <3>1 DEF Channels, InMutation, InSlot
    <3> QED
      BY <3>2, <3>3, <3>4, <3>5 DEF Channels
  <2>13. CASE CallFails(r) \/ EndCall(r)
    <3>1. /\ pc[r] \in Holding /\ Release(r)
          /\ pc'[r] \notin InSlot \cup Building \cup InMutation
      BY <2>13 DEF CallFails, EndCall, Fail, Leave, TypeOK, Building, InSlot, InMutation, Holding
    <3>2. x \in Runtimes /\ pc[r] \notin Building /\ pc[r] # "idle"
      BY <2>1, <3>1 DEF Holding, InMutation, InSlot, Building
    <3>3. ASSUME NEW y \in Runtimes
          PROVE  /\ builder'[y] = IF builder[y] = r THEN None ELSE builder[y]
                 /\ calls'[y] = calls[y] \ {r}
                 /\ mutation'[y] = IF mutation[y] = r THEN None ELSE mutation[y]
      BY <3>1, <3>2 DEF Release, Channels, TypeOK
    <3> QED
      BY <1>1, <3>1, <3>2, <3>3, ChannelsLeft
  <2>14. CASE Persist(r) \/ PersistFails(r)
    BY <2>2, <2>14 DEF Persist, PersistFails, Leave, runtimeVars, TypeOK, Building, InSlot, InMutation
  <2>15. CASE GetStep(r)
    BY <2>4, <2>5, <2>6, <2>7, <2>8, <2>15 DEF GetStep
  <2>16. CASE CallStep(r)
    BY <2>9, <2>10, <2>11, <2>12, <2>13, <2>14, <2>16 DEF CallStep
  <2> QED
    BY <1>1, <2>15, <2>16
<1>2. ASSUME UNCHANGED <<builder, calls, mutation, pc, kind, home>> PROVE Channels'
  BY <1>2, ChannelsSame DEF channelVars, InBuild, InWrite
<1>3. ASSUME NEW x \in Runtimes, Expire(x) PROVE Channels'
  BY <1>2, <1>3 DEF Expire, channelVars, localVars
<1>4. ASSUME NEW a \in Admins, AdminStep(a) PROVE Channels'
  BY <1>2, <1>4, AdminLeavesRequests
<1>5. CASE UNCHANGED vars
  BY <1>2, <1>5 DEF vars, runtimeVars, channelVars, localVars
<1> QED
  BY <1>1, <1>3, <1>4, <1>5 DEF Next
----------------------------------------------------------------------------
(* Theorems. *)

\* The parts together are inductive.
IInv ==
    /\ TypeOK /\ Channels /\ OneDeletion /\ OneRuntime /\ SameHome /\ SeenPassed
    /\ ServingReachable /\ RowsAgree /\ ReadLate /\ ClientsGood

\* They hold of an account just created.
LEMMA IInvInit == Init => IInv
<1> SUFFICES ASSUME Init PROVE IInv
  OBVIOUS
<1>1. TypeOK
  BY TypeInit
<1>2. /\ \A r \in Requests : pc[r] = "idle" /\ kind[r] = "read" /\ home[r] = None
                            /\ seen[r] = 0 /\ expect[r] = None /\ since[r] = 0
      /\ \A x \in Runtimes : cached[x] = None /\ builder[x] = None /\ calls[x] = {} /\ mutation[x] = None
      /\ \A a \in Admins : apc[a] = "idle"
      /\ created = {} /\ account.version = 0
  BY DEF Init
<1>3. Channels
  BY <1>2, FS_EmptySet, NoneAssumption, BoundsAssumption
     DEF Channels, InSlot, Building, InMutation
<1>4. OneDeletion /\ OneRuntime
  BY <1>2 DEF OneDeletion, Deleting, OneRuntime
<1>5. SameHome /\ SeenPassed
  BY <1>2 DEF SameHome, SeenPassed, PastLoad, Holding, InMutation, InSlot
<1>6. ServingReachable
  BY <1>2 DEF ServingReachable, Serving, PastLoad, Holding, InMutation, InSlot
<1>7. RowsAgree /\ ReadLate
  BY <1>2 DEF RowsAgree, ReadLate, PastLoad, Holding, InMutation, InSlot
<1>8. ClientsGood
  BY <1>2 DEF ClientsGood, Holding, InMutation, InSlot
<1> QED
  BY <1>1, <1>3, <1>4, <1>5, <1>6, <1>7, <1>8 DEF IInv

\* Every step keeps them.
LEMMA IInvKept == ASSUME IInv, [Next]_vars PROVE IInv'
<1> USE DEF IInv
<1>1. TypeOK' /\ Channels' /\ OneDeletion' /\ OneRuntime' /\ SameHome'
  BY TypeKept, ChannelsKept, OneDeletionKept, OneRuntimeKept, SameHomeKept
<1>2. SeenPassed' /\ ServingReachable' /\ RowsAgree' /\ ReadLate' /\ ClientsGood'
  BY SeenPassedKept, ServingReachableKept, RowsAgreeKept, ReadLateKept, ClientsGoodKept
<1> QED
  BY <1>1, <1>2

\* The invariant of the manager and of the row it reads.
LEMMA IInvAlways == Spec => []IInv
  BY IInvInit, IInvKept, PTL DEF Spec

\* In every behaviour the channels of a runtime hold exactly the requests that are
\* inside, and no more calls than it has slots.
THEOREM ChannelsAlwaysAccounted == Spec => []ChannelsAccounted
<1>1. IInv => ChannelsAccounted
  BY DEF IInv, Channels, ChannelsAccounted
<1> QED
  BY <1>1, IInvAlways, PTL

\* In every behaviour the mutations of one account are made one at a time: they share a
\* runtime, whose mutations channel holds one of them.
THEOREM MutationsAlwaysAlone == Spec => []OneMutationAtATime
<1>1. IInv => OneMutationAtATime
  <2> SUFFICES ASSUME IInv, NEW r \in Requests, NEW s \in Requests, pc[r] = "calling", pc[s] = "calling",
                      kind[r] = "write", kind[s] = "write"
               PROVE  r = s
    BY DEF OneMutationAtATime
  <2>1. home[r] = home[s] /\ home[r] \in Runtimes
    BY DEF IInv, SameHome, TypeOK, PastLoad, Holding, InMutation, InSlot
  <2>2. mutation[home[r]] = r /\ mutation[home[r]] = s
    BY <2>1 DEF IInv, Channels, InMutation, InSlot
  <2> QED
    BY <2>2
<1> QED
  BY <1>1, IInvAlways, PTL

\* In every behaviour, once all committed changes are announced, a provider call whose
\* context is alive uses the configuration of an account that exists and is enabled.
THEOREM LiveCallsAlwaysCurrent == Spec => []LiveCallsUseCurrentAccount
<1>1. IInv => LiveCallsUseCurrentAccount
  BY DEF IInv, ClientsGood, Good, LiveCallsUseCurrentAccount, Holding, InMutation, InSlot
<1> QED
  BY <1>1, IInvAlways, PTL

\* Get returns no client older than the row was when the request came in.
LEMMA GetIsFreshStep == ASSUME IInv, [Next]_vars PROVE
  \A r \in Requests : pc[r] \in Building /\ pc'[r] = "held" => row'[r].version >= since[r]
<1> SUFFICES ASSUME NEW r \in Requests, pc[r] \in Building, pc'[r] = "held"
             PROVE  row'[r].version >= since[r]
  OBVIOUS
<1>1. ASSUME NEW q \in Requests, GetStep(q) \/ CallStep(q) PROVE row'[r].version >= since[r]
  <2>1. r = q
    BY <1>1, Others DEF IInv, Building
  <2>2. ~Load(r)
    BY DEF Load, IInv, TypeOK
  <2>3. /\ pc[r] \in {"lookup", "reread", "store"}
        /\ row'[r] = row[r] \/ (CacheHit(r) /\ row'[r] = cached[home[r]])
    BY <1>1, <2>1, <2>2, RequestMoves DEF IInv, Moves, PastLoad, Holding, InMutation, InSlot, Building
  <2>4. row'[r].version = row[r].version
    BY <2>3 DEF CacheHit
  <2> QED
    BY <2>3, <2>4 DEF IInv, ReadLate
<1>2. ~UNCHANGED pc
  BY DEF Building
<1> QED
  BY <1>1, <1>2, AdminLeavesRequests DEF Next, Expire, vars

\* In every behaviour the client a request gets, cached or not, was built from a row at
\* least as new as the one of the moment the request came in.
THEOREM GetAlwaysFresh == Spec => GetIsFresh
<1>1. IInv /\ [Next]_vars => [\A r \in Requests :
         pc[r] \in Building /\ pc'[r] = "held" => row'[r].version >= since[r]]_vars
  BY GetIsFreshStep
<1> QED
  BY <1>1, IInvAlways, PTL DEF Spec, GetIsFresh

\* A step shows "valid" only for the configuration that was accepted.
LEMMA ValidKept ==
  ASSUME IInv, ValidIsAboutThisAccount, [Next]_vars PROVE ValidIsAboutThisAccount'
<1> USE DEF ValidIsAboutThisAccount
<1>1. ASSUME NEW r \in Requests, Persist(r) PROVE ValidIsAboutThisAccount'
  <2>1. Config(account') = Config(account)
    BY <1>1 DEF Persist, Config, IInv, TypeOK, Row
  <2>2. CASE kind[r] # "validate"
    BY <1>1, <2>1, <2>2 DEF Persist
  <2>3. CASE kind[r] = "validate" /\ pc[r] = "persist"
    <3>1. expect[r] \in Row /\ row[r] \in Row /\ account \in Row
      BY <2>3 DEF IInv, ReadLate, TypeOK
    <3>2. account.version = expect[r].version /\ row[r].version >= expect[r].version
      BY <1>1, <2>3 DEF Persist, RowUnchangedSince, IInv, ReadLate
    <3>3. row[r].version <= account.version
          /\ (row[r].version = account.version => Config(row[r]) = Config(account))
      BY <2>3 DEF IInv, RowsAgree, Agrees
    <3>4. Config(row[r]) = Config(account)
      BY <3>1, <3>2, <3>3 DEF Row
    <3> QED
      BY <1>1, <2>1, <2>3, <3>4 DEF Persist
  <2>4. CASE kind[r] = "validate" /\ pc[r] # "persist"
    BY <1>1, <2>4 DEF Persist
  <2> QED
    BY <2>2, <2>3, <2>4
<1>2. ASSUME NEW a \in Admins, Commit(a) PROVE ValidIsAboutThisAccount'
  <2>1. CASE op[a] = "delete"
    BY <1>2, <2>1 DEF Commit, Apply
  <2>2. CASE op[a] \in {"replace", "options"}
    <3>1. status' # "valid"
      BY <1>2, <2>2 DEF Commit, Apply
    <3> QED
      BY <3>1
  <2>3. CASE op[a] \notin {"delete", "replace", "options"}
    <3>1. status' = status /\ checked' = checked
      BY <1>2, <2>3 DEF Commit, Apply
    <3>2. \E e, v : account' = [enabled  |-> e,
                              revision |-> account.revision + (IF op[a] = "replace" THEN 1 ELSE 0),
                              options  |-> account.options + (IF op[a] = "options" THEN 1 ELSE 0),
                              version  |-> v]
      BY <1>2, <2>3, Zenon DEF Commit, Apply
    <3>3. Config(account') = Config(account)
      BY <2>3, <3>2 DEF Config, IInv, TypeOK, Row
    <3> QED
      BY <3>1, <3>3
  <2> QED
    BY <2>1, <2>2, <2>3
<1>3. ASSUME UNCHANGED rowVars PROVE ValidIsAboutThisAccount'
  BY <1>3 DEF rowVars
<1>4. ASSUME NEW r \in Requests, GetStep(r) \/ CallStep(r), ~Persist(r) PROVE UNCHANGED rowVars
  BY <1>4 DEF GetStep, CallStep, BeginGet, AcquireBuild, AbandonBuild, Snapshot, GetFails, SkipStale, Load,
              ReturnCached, GetReturns, Build, Reread, Store, StoreRefused, AcquireMutation, CallFails,
              CheckGeneration, AcquireSlot, StartCall, EndCall, PersistFails
<1>5. ASSUME NEW a \in Admins, AdminStep(a), ~Commit(a) PROVE UNCHANGED rowVars
  BY <1>5 DEF AdminStep, BeginChange, InvalidateAgain, ChangeFails, Announce, Remove, CancelRemoved
<1> QED
  BY <1>1, <1>2, <1>3, <1>4, <1>5 DEF Next, Expire, vars

\* In every behaviour "valid" is shown for the configuration the provider accepted.
THEOREM ValidAlwaysAboutThisAccount == Spec => []ValidIsAboutThisAccount
<1>1. Init => ValidIsAboutThisAccount
  BY DEF Init, ValidIsAboutThisAccount
<1> QED
  BY <1>1, ValidKept, IInvAlways, PTL DEF Spec

==============================================================================
