--------------------------- MODULE ZoneIndexProofs ---------------------------
(* Proofs about ZoneIndex, for every value of its constants. *)
EXTENDS ZoneIndex, FiniteSetTheorems, TLAPS

----------------------------------------------------------------------------
(* Type correctness. *)

\* The types hold initially.
LEMMA TypeInit == Init => TypeOK
<1> SUFFICES ASSUME Init PROVE TypeOK
  OBVIOUS
<1>1. account \in Row /\ account.config <= MaxConfig
  BY BoundsAssumption DEF Init, Row
<1>2. 0 \in 0..MaxConfig
  BY BoundsAssumption
<1> QED
  BY <1>1, <1>2 DEF Init, TypeOK, SyncPcs, RefreshPcs

\* A row that is written keeps its columns in range.
LEMMA RowWritten ==
  ASSUME NEW rec \in Row, NEW v \in Versions
  PROVE  /\ [rec EXCEPT !.version = v] \in Row
         /\ [rec EXCEPT !.version = v].config = rec.config
         /\ [rec EXCEPT !.version = v].revision = rec.revision
         /\ [rec EXCEPT !.version = v].version = v
  BY DEF Row

\* What an account operation writes is a row.
LEMMA RowEnabled ==
  ASSUME NEW rec \in Row, NEW b \in BOOLEAN
  PROVE  [rec EXCEPT !.enabled = b] \in Row /\ [rec EXCEPT !.enabled = b].config = rec.config
  BY DEF Row

\* So is what a replacement writes, and it has the next configuration.
LEMMA RowReplaced ==
  ASSUME NEW rec \in Row, NEW n \in {rec.revision, rec.revision + 1}
  PROVE  /\ [rec EXCEPT !.config = rec.config + 1, !.revision = n] \in Row
         /\ [rec EXCEPT !.config = rec.config + 1, !.revision = n].config = rec.config + 1
<1> DEFINE moved == [rec EXCEPT !.config = rec.config + 1]
<1>1. n \in Nat /\ rec.config + 1 \in Nat
  BY DEF Row
<1>2. moved \in Row /\ moved.config = rec.config + 1
  BY <1>1 DEF Row
<1>3. [rec EXCEPT !.config = rec.config + 1, !.revision = n] = [moved EXCEPT !.revision = n]
  OBVIOUS
<1> HIDE DEF moved
<1>4. [moved EXCEPT !.revision = n] \in Row /\ [moved EXCEPT !.revision = n].config = moved.config
  BY <1>1, <1>2 DEF Row
<1> QED
  BY <1>2, <1>3, <1>4

\* The operations of the account keep the types.
LEMMA TypeAccount == ASSUME TypeOK, TouchAccount \/ ReplaceConfig \/ DeleteAccount PROVE TypeOK'
<1> USE DEF TypeOK, upstreamVars, tableVars, accountVars, syncVars, refreshVars
<1>0. 0 \in 0..MaxConfig
  BY BoundsAssumption
<1>1. CASE TouchAccount
  <2>1. PICK b \in BOOLEAN : WriteRow([account EXCEPT !.enabled = b])
    BY <1>1 DEF TouchAccount
  <2>2. PICK v \in Versions : account' = [[account EXCEPT !.enabled = b] EXCEPT !.version = v]
    BY <2>1 DEF WriteRow, NewVersions
  <2>3. account' \in Row /\ account'.config <= MaxConfig
    <3>1. account \in Row
      OBVIOUS
    <3> DEFINE rec == [account EXCEPT !.enabled = b]
    <3>2. rec \in Row /\ rec.config = account.config
      BY <3>1, RowEnabled
    <3>3. account' = [rec EXCEPT !.version = v]
      BY <2>2
    <3> HIDE DEF rec
    <3> QED
      BY <3>2, <3>3, RowWritten
  <2>4. disturbed' \in [Syncers -> BOOLEAN]
    BY <2>1 DEF WriteRow
  <2> QED
    BY <1>1, <2>3, <2>4 DEF TouchAccount
<1>2. CASE ReplaceConfig
  <2>1. PICK n \in {account.revision, account.revision + 1} :
          WriteRow([account EXCEPT !.config = account.config + 1, !.revision = n])
    BY <1>2 DEF ReplaceConfig
  <2>2. PICK v \in Versions :
          account' = [[account EXCEPT !.config = account.config + 1, !.revision = n] EXCEPT !.version = v]
    BY <2>1 DEF WriteRow, NewVersions
  <2>3. account.config + 1 <= MaxConfig
    BY <1>2, BoundsAssumption DEF ReplaceConfig, Row
  <2>4. account' \in Row /\ account'.config <= MaxConfig
    <3>1. account \in Row
      OBVIOUS
    <3> DEFINE rec == [account EXCEPT !.config = account.config + 1, !.revision = n]
    <3>2. rec \in Row /\ rec.config = account.config + 1
      BY <3>1, RowReplaced
    <3>3. account' = [rec EXCEPT !.version = v]
      BY <2>2
    <3> HIDE DEF rec
    <3> QED
      BY <2>3, <3>2, <3>3, RowWritten
  <2>5. disturbed' \in [Syncers -> BOOLEAN]
    BY <2>1 DEF WriteRow
  <2> QED
    BY <1>0, <1>2, <2>4, <2>5 DEF ReplaceConfig, InvalidateZoneIndex
<1>3. CASE DeleteAccount
  BY <1>0, <1>3 DEF DeleteAccount
<1> QED
  BY <1>1, <1>2, <1>3

\* The rows that syncs and refreshes remember have a configuration in range.
RememberedInRange ==
    /\ \A s \in Syncers : spc[s] \in {"list", "persist"} => srow[s] \in Row /\ srow[s].config <= MaxConfig
    /\ \A f \in Refreshers : fpc[f] \in {"call", "persist"} => frow[f] \in Row /\ frow[f].config <= MaxConfig

\* Leaving a sync keeps the types of its variables.
LEMMA LeaveSyncType ==
  ASSUME TypeOK, NEW s \in Syncers, LeaveSync(s)
  PROVE  /\ spc' \in [Syncers -> SyncPcs] /\ srow' \in [Syncers -> Row \cup {None}]
         /\ position' \in [Syncers -> Nat] /\ listed' \in [Syncers -> SUBSET Zones]
         /\ stayed' \in [Syncers -> SUBSET Zones] /\ disturbed' \in [Syncers -> BOOLEAN]
  BY DEF TypeOK, LeaveSync, SyncPcs

\* A step of a sync keeps the types.
LEMMA TypeSync ==
  ASSUME TypeOK, RememberedInRange, NEW s \in Syncers,
         BeginSync(s) \/ AbandonSync(s) \/ SyncStep(s) \/ SyncFails(s)
  PROVE  TypeOK'
<1> USE DEF TypeOK, upstreamVars, accountVars, tableVars, refreshVars, SyncPcs
<1>1. CASE BeginSync(s) \/ AbandonSync(s)
  BY <1>1 DEF BeginSync, AbandonSync
<1>2. CASE AcquireAccount(s)
  BY <1>2 DEF AcquireAccount
<1>3. CASE GetSyncClient(s)
  <2>1. account.config \in 0..MaxConfig
    BY DEF Row
  <2> QED
    BY <1>3, <2>1 DEF GetSyncClient
<1>4. CASE ListPage(s)
  <2>1. srow[s] \in Row /\ srow[s].config \in 0..MaxConfig
    BY <1>4 DEF ListPage, RememberedInRange, Row
  <2>2. Page(s) \subseteq Zones
    BY <2>1 DEF Page, Listable
  <2>3. position' \in [Syncers -> Nat]
    <3>1. \A n \in Page(s) \cup {position[s] + PageLimit} : n \in Nat
      BY <2>2, BoundsAssumption DEF Zones
    <3> QED
      BY <1>4, <3>1 DEF ListPage
  <2>4. listed' \in [Syncers -> SUBSET Zones]
    BY <1>4, <2>2 DEF ListPage
  <2> QED
    BY <1>4, <2>3, <2>4 DEF ListPage
<1>5. CASE PersistSync(s)
  <2>1. srow[s].config \in 0..MaxConfig
    BY <1>5 DEF PersistSync, RememberedInRange, Row
  <2>2. account' \in Row /\ account'.config <= MaxConfig
    <3>1. PICK v \in Versions : account' = [account EXCEPT !.version = v]
      BY <1>5 DEF PersistSync, StampAccount, NewVersions
    <3> QED
      BY <3>1, RowWritten
  <2>3. /\ rows' \subseteq Zones /\ visible' \subseteq rows'
        /\ from' \in [Zones -> 0..MaxConfig]
    BY <1>5, <2>1, BoundsAssumption DEF PersistSync, ReplaceZoneIndex
  <2>4. synced' \in 0..MaxConfig \cup {None}
    BY <1>5, <2>1 DEF PersistSync, StampAccount
  <2> QED
    BY <1>5, <2>2, <2>3, <2>4, LeaveSyncType DEF PersistSync, StampAccount
<1>6. CASE SyncConflict(s) \/ SyncRefused(s) \/ SyncFails(s)
  BY <1>6, LeaveSyncType DEF SyncConflict, SyncRefused, SyncFails
<1>7. CASE EndSync(s)
  BY <1>7 DEF EndSync
<1> QED
  BY <1>1, <1>2, <1>3, <1>4, <1>5, <1>6, <1>7 DEF SyncStep

\* Ending a refresh keeps the types of its variables.
LEMMA EndRefreshType ==
  ASSUME TypeOK, NEW f \in Refreshers, EndRefresh(f)
  PROVE  /\ fpc' \in [Refreshers -> RefreshPcs] /\ zone' \in [Refreshers -> Zones \cup {0}]
         /\ frow' \in [Refreshers -> Row \cup {None}] /\ found' \in [Refreshers -> BOOLEAN]
         /\ overtaken' \in [Refreshers -> BOOLEAN]
         /\ \A g \in Refreshers : fpc'[g] # "idle" => zone'[g] \in Zones
  BY DEF TypeOK, EndRefresh, RefreshPcs

\* A step of a refresh keeps the types.
LEMMA TypeRefresh ==
  ASSUME TypeOK, RememberedInRange, NEW f \in Refreshers,
         BeginRefresh(f) \/ RefreshStep(f) \/ RefreshFails(f)
  PROVE  TypeOK'
<1> USE DEF TypeOK, upstreamVars, accountVars, tableVars, syncVars, RefreshPcs
<1>1. CASE BeginRefresh(f)
  BY <1>1 DEF BeginRefresh
<1>2. CASE GetRefreshClient(f)
  BY <1>2 DEF GetRefreshClient
<1>3. CASE Ask(f)
  BY <1>3 DEF Ask
<1>4. CASE UpsertZoneIndex(f)
  <2>1. zone[f] \in Zones /\ frow[f].config \in 0..MaxConfig
    BY <1>4 DEF UpsertZoneIndex, RememberedInRange, Row
  <2> QED
    BY <1>4, <2>1, EndRefreshType DEF UpsertZoneIndex, EndRefresh
<1>5. CASE MarkZoneDeleted(f)
  <2>1. zone[f] \in Zones /\ 0 \in 0..MaxConfig
    BY <1>5, BoundsAssumption DEF MarkZoneDeleted
  <2> QED
    BY <1>5, <2>1, EndRefreshType DEF MarkZoneDeleted, EndRefresh
<1>6. CASE RefreshConflict(f) \/ RefreshRefused(f) \/ RefreshFails(f)
  <2>1. EndRefresh(f) /\ UNCHANGED tableVars
    BY <1>6 DEF RefreshConflict, RefreshRefused, RefreshFails
  <2>2. events' \in Nat
    BY <1>6 DEF RefreshConflict, RefreshRefused, RefreshFails
  <2> QED
    BY <2>1, <2>2, EndRefreshType DEF EndRefresh
<1> QED
  BY <1>1, <1>2, <1>3, <1>4, <1>5, <1>6 DEF RefreshStep

\* A change at the provider keeps the types.
LEMMA TypeUpstream == ASSUME TypeOK, ChangeUpstream PROVE TypeOK'
<1> USE DEF TypeOK, accountVars, tableVars, refreshVars
<1>1. PICK k \in 0..account.config, z \in Zones :
        /\ upstream' = [upstream EXCEPT ![k] = IF z \in @ THEN @ \ {z} ELSE @ \cup {z}]
        /\ stayed' = [s \in Syncers |-> IF srow[s] # None /\ srow[s].config = k
                                        THEN stayed[s] \ {z} ELSE stayed[s]]
  BY DEF ChangeUpstream
<1>2. upstream' \in [0..MaxConfig -> SUBSET Zones]
  BY <1>1
<1>3. stayed' \in [Syncers -> SUBSET Zones]
  BY <1>1
<1> QED
  BY <1>2, <1>3 DEF ChangeUpstream

----------------------------------------------------------------------------
(* The index is of this account. *)

\* A remembered row has the configuration of the account as long as updated_at is the same.
RowsAgree ==
    /\ \A s \in Syncers :
         spc[s] \in {"list", "persist"} /\ srow[s].version = account.version
         => srow[s].config = account.config
    /\ \A f \in Refreshers :
         fpc[f] \in {"call", "persist"} /\ frow[f].version = account.version
         => frow[f].config = account.config

IndexInv == TypeOK /\ RememberedInRange /\ RowsAgree /\ IndexIsOfThisAccount

\* A new value of updated_at is none of the remembered ones.
LEMMA NewVersionIsNew ==
  ASSUME RememberedInRange, NEW v \in NewVersions
  PROVE  /\ \A s \in Syncers : spc[s] \in {"list", "persist"} => srow[s].version # v
         /\ \A f \in Refreshers : fpc[f] \in {"call", "persist"} => frow[f].version # v
<1>1. v \notin Remembered
  BY DEF NewVersions
<1>2. ASSUME NEW s \in Syncers, spc[s] \in {"list", "persist"} PROVE srow[s].version # v
  <2>1. srow[s] \in ({srow[q] : q \in Syncers} \cup {frow[f] : f \in Refreshers}) \ {None}
    BY <1>2, NoneAssumption DEF RememberedInRange
  <2> QED
    BY <1>1, <2>1 DEF Remembered
<1>3. ASSUME NEW f \in Refreshers, fpc[f] \in {"call", "persist"} PROVE frow[f].version # v
  <2>1. frow[f] \in ({srow[q] : q \in Syncers} \cup {frow[g] : g \in Refreshers}) \ {None}
    BY <1>3, NoneAssumption DEF RememberedInRange
  <2> QED
    BY <1>1, <2>1 DEF Remembered
<1> QED
  BY <1>2, <1>3

\* After a write of the row, no remembered row passes for it.
LEMMA WriteKeepsRowsAgree ==
  ASSUME RememberedInRange, NEW v \in NewVersions, account'.version = v,
         \A s \in Syncers : spc'[s] \in {"list", "persist"} =>
           spc[s] \in {"list", "persist"} /\ srow'[s] = srow[s],
         \A f \in Refreshers : fpc'[f] \in {"call", "persist"} =>
           fpc[f] \in {"call", "persist"} /\ frow'[f] = frow[f]
  PROVE  RowsAgree'
  BY NewVersionIsNew DEF RowsAgree

\* What is remembered stays in range while it is only forgotten.
LEMMA ForgettingKeepsRange ==
  ASSUME RememberedInRange,
         \A s \in Syncers : spc'[s] \in {"list", "persist"} =>
           spc[s] \in {"list", "persist"} /\ srow'[s] = srow[s],
         \A f \in Refreshers : fpc'[f] \in {"call", "persist"} =>
           fpc[f] \in {"call", "persist"} /\ frow'[f] = frow[f]
  PROVE  RememberedInRange'
  BY DEF RememberedInRange

\* And it agrees with the account while the row is left alone.
LEMMA ForgettingKeepsRowsAgree ==
  ASSUME RowsAgree, account' = account,
         \A s \in Syncers : spc'[s] \in {"list", "persist"} =>
           spc[s] \in {"list", "persist"} /\ srow'[s] = srow[s],
         \A f \in Refreshers : fpc'[f] \in {"call", "persist"} =>
           fpc[f] \in {"call", "persist"} /\ frow'[f] = frow[f]
  PROVE  RowsAgree'
  BY DEF RowsAgree

\* An operation of the account hides what it makes obsolete.
LEMMA AccountKeepsIndex ==
  ASSUME IndexInv, TouchAccount \/ ReplaceConfig \/ DeleteAccount
  PROVE  IndexInv'
<1>1. TypeOK'
  BY TypeAccount DEF IndexInv
<1>2. UNCHANGED <<spc, srow, fpc, frow>>
  BY DEF TouchAccount, ReplaceConfig, DeleteAccount, syncVars, refreshVars
<1>3. RememberedInRange'
  BY <1>2, ForgettingKeepsRange DEF IndexInv
<1>4. account \in Row
  BY DEF IndexInv, TypeOK
<1>5. CASE TouchAccount
  <2>1. PICK b \in BOOLEAN : WriteRow([account EXCEPT !.enabled = b])
    BY <1>5 DEF TouchAccount
  <2> DEFINE rec == [account EXCEPT !.enabled = b]
  <2>2. rec \in Row /\ rec.config = account.config
    BY <1>4, RowEnabled
  <2>3. PICK v \in NewVersions : account' = [rec EXCEPT !.version = v]
    BY <2>1 DEF WriteRow
  <2> HIDE DEF rec
  <2>4. account'.version = v /\ account'.config = account.config
    BY <2>2, <2>3, RowWritten DEF NewVersions
  <2>5. RowsAgree'
    BY <1>2, <2>4, WriteKeepsRowsAgree DEF IndexInv
  <2>6. IndexIsOfThisAccount'
    BY <1>5, <2>4 DEF IndexInv, IndexIsOfThisAccount, TouchAccount, tableVars
  <2> QED
    BY <1>1, <1>3, <2>5, <2>6 DEF IndexInv
<1>6. CASE ReplaceConfig
  <2>1. PICK n \in {account.revision, account.revision + 1} :
          WriteRow([account EXCEPT !.config = account.config + 1, !.revision = n])
    BY <1>6 DEF ReplaceConfig
  <2> DEFINE rec == [account EXCEPT !.config = account.config + 1, !.revision = n]
  <2>2. rec \in Row
    BY <1>4, RowReplaced
  <2>3. PICK v \in NewVersions : account' = [rec EXCEPT !.version = v]
    BY <2>1 DEF WriteRow
  <2> HIDE DEF rec
  <2>4. account'.version = v
    BY <2>2, <2>3, RowWritten DEF NewVersions
  <2>5. RowsAgree'
    BY <1>2, <2>4, WriteKeepsRowsAgree DEF IndexInv
  <2>6. IndexIsOfThisAccount'
    BY <1>6 DEF IndexIsOfThisAccount, ReplaceConfig, InvalidateZoneIndex
  <2> QED
    BY <1>1, <1>3, <2>5, <2>6 DEF IndexInv
<1>7. CASE DeleteAccount
  <2>1. account' = account /\ exists' = FALSE
    BY <1>7 DEF DeleteAccount
  <2>2. RowsAgree'
    BY <1>2, <2>1, ForgettingKeepsRowsAgree DEF IndexInv
  <2> QED
    BY <1>1, <1>3, <2>1, <2>2 DEF IndexInv, IndexIsOfThisAccount
<1> QED
  BY <1>5, <1>6, <1>7

\* A sync writes what it has read only while the account has the same configuration.
LEMMA SyncKeepsIndex ==
  ASSUME IndexInv, NEW s \in Syncers, BeginSync(s) \/ AbandonSync(s) \/ SyncStep(s) \/ SyncFails(s)
  PROVE  IndexInv'
<1>1. TypeOK'
  BY TypeSync DEF IndexInv
<1>2. CASE PersistSync(s)
  <2>1. PICK v \in NewVersions : account' = [account EXCEPT !.version = v]
    BY <1>2 DEF PersistSync, StampAccount
  <2>2. account'.version = v /\ account'.config = account.config
    BY <2>1, RowWritten DEF IndexInv, TypeOK, NewVersions
  <2>3. /\ \A q \in Syncers : spc'[q] \in {"list", "persist"} =>
             spc[q] \in {"list", "persist"} /\ srow'[q] = srow[q]
        /\ UNCHANGED <<fpc, frow>>
    BY <1>2 DEF PersistSync, LeaveSync, IndexInv, TypeOK
  <2>4. RememberedInRange' /\ RowsAgree'
    BY <2>2, <2>3, ForgettingKeepsRange, WriteKeepsRowsAgree DEF IndexInv
  <2>5. srow[s].config = account.config
    BY <1>2 DEF PersistSync, SameRow, IndexInv, RowsAgree
  <2>6. IndexIsOfThisAccount'
    <3>1. synced' = srow[s].config
      BY <1>2 DEF PersistSync, StampAccount
    <3>2. \A z \in visible' : from'[z] = srow[s].config
      BY <1>2 DEF PersistSync, ReplaceZoneIndex, IndexInv, TypeOK
    <3> QED
      BY <2>2, <2>5, <3>1, <3>2 DEF IndexIsOfThisAccount
  <2> QED
    BY <1>1, <2>4, <2>6 DEF IndexInv
<1>3. CASE GetSyncClient(s)
  <2>1. /\ srow' = [srow EXCEPT ![s] = account] /\ spc' = [spc EXCEPT ![s] = "list"]
        /\ UNCHANGED <<accountVars, tableVars, fpc, frow>>
    BY <1>3 DEF GetSyncClient, refreshVars
  <2>2. srow'[s] = account /\ \A q \in Syncers : q # s => srow'[q] = srow[q] /\ spc'[q] = spc[q]
    BY <2>1 DEF IndexInv, TypeOK
  <2>3. RememberedInRange'
    BY <2>1, <2>2 DEF IndexInv, TypeOK, RememberedInRange
  <2>4. RowsAgree'
    BY <2>1, <2>2 DEF IndexInv, RowsAgree, accountVars
  <2> QED
    BY <1>1, <2>1, <2>3, <2>4 DEF IndexInv, IndexIsOfThisAccount, accountVars, tableVars
<1>4. CASE \/ BeginSync(s) \/ AbandonSync(s) \/ AcquireAccount(s) \/ ListPage(s) \/ SyncConflict(s)
           \/ SyncRefused(s) \/ SyncFails(s) \/ EndSync(s)
  <2>1. UNCHANGED <<accountVars, tableVars, fpc, frow>>
    BY <1>4 DEF BeginSync, AbandonSync, AcquireAccount, ListPage, SyncConflict, SyncRefused, SyncFails,
                EndSync, refreshVars
  <2>2. \A q \in Syncers : spc'[q] \in {"list", "persist"} =>
          spc[q] \in {"list", "persist"} /\ srow'[q] = srow[q]
    BY <1>4 DEF BeginSync, AbandonSync, AcquireAccount, ListPage, SyncConflict, SyncRefused, SyncFails,
                EndSync, LeaveSync, IndexInv, TypeOK
  <2>3. RememberedInRange' /\ RowsAgree'
    BY <2>1, <2>2, ForgettingKeepsRange, ForgettingKeepsRowsAgree DEF IndexInv, accountVars
  <2> QED
    BY <1>1, <2>1, <2>3 DEF IndexInv, IndexIsOfThisAccount, accountVars, tableVars
<1> QED
  BY <1>2, <1>3, <1>4 DEF SyncStep

\* So does a refresh.
LEMMA RefreshKeepsIndex ==
  ASSUME IndexInv, NEW f \in Refreshers, BeginRefresh(f) \/ RefreshStep(f) \/ RefreshFails(f)
  PROVE  IndexInv'
<1>1. TypeOK'
  BY TypeRefresh DEF IndexInv
<1>2. UNCHANGED <<accountVars, spc, srow>>
  BY DEF BeginRefresh, RefreshStep, RefreshFails, GetRefreshClient, Ask, UpsertZoneIndex,
         MarkZoneDeleted, RefreshConflict, RefreshRefused, EndRefresh, syncVars
<1>3. CASE GetRefreshClient(f)
  <2>1. /\ frow' = [frow EXCEPT ![f] = account] /\ fpc' = [fpc EXCEPT ![f] = "call"]
        /\ UNCHANGED tableVars
    BY <1>3 DEF GetRefreshClient
  <2>2. frow'[f] = account /\ \A g \in Refreshers : g # f => frow'[g] = frow[g] /\ fpc'[g] = fpc[g]
    BY <2>1 DEF IndexInv, TypeOK
  <2>3. RememberedInRange'
    BY <1>2, <2>2 DEF IndexInv, TypeOK, RememberedInRange
  <2>4. RowsAgree'
    BY <1>2, <2>2 DEF IndexInv, RowsAgree, accountVars
  <2> QED
    BY <1>1, <1>2, <2>1, <2>3, <2>4 DEF IndexInv, IndexIsOfThisAccount, accountVars, tableVars
<1>4. CASE ~GetRefreshClient(f)
  <2>1. \A g \in Refreshers : fpc'[g] \in {"call", "persist"} =>
          fpc[g] \in {"call", "persist"} /\ frow'[g] = frow[g]
    BY <1>4 DEF BeginRefresh, RefreshStep, RefreshFails, Ask, UpsertZoneIndex, MarkZoneDeleted,
                RefreshConflict, RefreshRefused, EndRefresh, IndexInv, TypeOK
  <2>2. RememberedInRange' /\ RowsAgree'
    BY <1>2, <2>1, ForgettingKeepsRange, ForgettingKeepsRowsAgree DEF IndexInv, accountVars
  <2>3. CASE UpsertZoneIndex(f)
    <3>1. frow[f].config = account.config /\ zone[f] \in Zones
      BY <2>3 DEF UpsertZoneIndex, RefreshMatches, SameRow, IndexInv, RowsAgree, TypeOK
    <3>2. \A z \in visible' : from'[z] = account.config
      BY <2>3, <3>1
      DEF UpsertZoneIndex, RefreshMatches, SameRow, IndexInv, IndexIsOfThisAccount, TypeOK
    <3> QED
      BY <1>1, <1>2, <2>2, <3>2 DEF IndexInv, IndexIsOfThisAccount, accountVars
  <2>4. CASE MarkZoneDeleted(f)
    <3>1. \A z \in visible' : z \in visible /\ from'[z] = from[z]
      BY <2>4 DEF MarkZoneDeleted, IndexInv, TypeOK
    <3> QED
      BY <1>1, <1>2, <2>2, <3>1 DEF IndexInv, IndexIsOfThisAccount, accountVars
  <2>5. CASE UNCHANGED tableVars
    BY <1>1, <1>2, <2>2, <2>5 DEF IndexInv, IndexIsOfThisAccount, accountVars, tableVars
  <2> QED
    BY <1>4, <2>3, <2>4, <2>5
    DEF BeginRefresh, RefreshStep, RefreshFails, Ask, RefreshConflict, RefreshRefused
<1> QED
  BY <1>3, <1>4

\* Every step keeps the invariant.
LEMMA IndexInvNext == ASSUME IndexInv, [Next]_vars PROVE IndexInv'
<1>1. CASE ChangeUpstream \/ UNCHANGED vars
  <2>1. TypeOK'
    <3>1. CASE ChangeUpstream
      BY <3>1, TypeUpstream DEF IndexInv
    <3>2. CASE UNCHANGED vars
      BY <3>2 DEF IndexInv, TypeOK, vars, upstreamVars, accountVars, tableVars, syncVars, refreshVars
    <3> QED
      BY <1>1, <3>1, <3>2
  <2>2. UNCHANGED <<accountVars, tableVars, spc, srow, fpc, frow>>
    BY <1>1 DEF ChangeUpstream, vars, syncVars, refreshVars
  <2> QED
    BY <2>1, <2>2 DEF IndexInv, RememberedInRange, RowsAgree, IndexIsOfThisAccount, accountVars, tableVars
<1> QED
  BY <1>1, AccountKeepsIndex, SyncKeepsIndex, RefreshKeepsIndex DEF Next

\* The invariant holds initially.
LEMMA IndexInvInit == Init => IndexInv
  BY TypeInit DEF Init, IndexInv, RememberedInRange, RowsAgree, IndexIsOfThisAccount

\* Every variable keeps its type in every behaviour.
THEOREM TypeCorrect == Spec => []TypeOK
<1>1. IndexInv => TypeOK
  BY DEF IndexInv
<1> QED
  BY <1>1, IndexInvInit, IndexInvNext, PTL DEF Spec

\* The index never shows what other credentials or options gave: a write is guarded with the
\* row the client was built from, and a replacement hides the index in its own transaction.
THEOREM IndexIsOfTheAccount == Spec => []IndexIsOfThisAccount
<1>1. IndexInv => IndexIsOfThisAccount
  BY DEF IndexInv
<1> QED
  BY <1>1, IndexInvInit, IndexInvNext, PTL DEF Spec

----------------------------------------------------------------------------
(* Syncs, refreshes and the versions of the row they remember. *)

\* Who has got past the channel of the account is in it.
Exclusive == \A s \in Syncers : spc[s] \in {"client", "list", "persist", "release"} => lock = s

\* A sync whose row is no longer the account's has been disturbed.
StaleIsDisturbed ==
    \A s \in Syncers :
        spc[s] \in {"list", "persist"} /\ srow[s].version # account.version => disturbed[s] = TRUE

\* A remembered row that is still the account's is of an enabled account.
RowsEnabled ==
    /\ \A s \in Syncers :
         spc[s] \in {"list", "persist"} /\ srow[s].version = account.version => account.enabled = TRUE
    /\ \A f \in Refreshers :
         fpc[f] \in {"call", "persist"} /\ frow[f].version = account.version => account.enabled = TRUE

\* A refresh that a sync has overtaken is one whose row is out of date.
OvertakenIsStale ==
    \A f \in Refreshers :
        overtaken[f] = TRUE => fpc[f] = "persist" /\ frow[f].version # account.version

VersionInv == IndexInv /\ Exclusive /\ StaleIsDisturbed /\ RowsEnabled /\ OvertakenIsStale

\* These hold initially.
LEMMA VersionInvInit == Init => VersionInv
<1> SUFFICES ASSUME Init PROVE VersionInv
  OBVIOUS
<1>1. /\ \A s \in Syncers : spc[s] = "idle"
      /\ \A f \in Refreshers : fpc[f] = "idle" /\ overtaken[f] = FALSE
  BY DEF Init
<1> QED
  BY <1>1, IndexInvInit DEF VersionInv, Exclusive, StaleIsDisturbed, RowsEnabled, OvertakenIsStale

\* A write of the row by an operation of the account disturbs the syncs that have read it.
LEMMA AccountKeepsVersions ==
  ASSUME VersionInv, TouchAccount \/ ReplaceConfig \/ DeleteAccount
  PROVE  VersionInv'
<1>1. IndexInv'
  BY AccountKeepsIndex DEF VersionInv
<1>2. UNCHANGED <<spc, srow, lock, fpc, frow, overtaken>>
  BY DEF TouchAccount, ReplaceConfig, DeleteAccount, syncVars, refreshVars
<1>3. CASE DeleteAccount
  <2>1. UNCHANGED <<account, disturbed>>
    BY <1>3 DEF DeleteAccount, syncVars
  <2> QED
    BY <1>1, <1>2, <2>1 DEF VersionInv, Exclusive, StaleIsDisturbed, RowsEnabled, OvertakenIsStale
<1>4. CASE TouchAccount \/ ReplaceConfig
  <2>1. PICK rec \in Row : WriteRow(rec)
    <3>1. account \in Row
      BY DEF VersionInv, IndexInv, TypeOK
    <3>2. CASE TouchAccount
      <4>1. PICK b \in BOOLEAN : WriteRow([account EXCEPT !.enabled = b])
        BY <3>2 DEF TouchAccount
      <4> QED
        BY <3>1, <4>1, RowEnabled
    <3>3. CASE ReplaceConfig
      <4>1. PICK n \in {account.revision, account.revision + 1} :
              WriteRow([account EXCEPT !.config = account.config + 1, !.revision = n])
        BY <3>3 DEF ReplaceConfig
      <4> QED
        BY <3>1, <4>1, RowReplaced
    <3> QED
      BY <1>4, <3>2, <3>3
  <2>2. PICK v \in NewVersions : account' = [rec EXCEPT !.version = v]
    BY <2>1 DEF WriteRow
  <2>3. account'.version = v
    BY <2>2, RowWritten DEF NewVersions
  <2>4. \A s \in Syncers : spc[s] \in {"list", "persist"} => disturbed'[s] = TRUE
    BY <2>1, Zenon DEF WriteRow
  <2>5. /\ \A s \in Syncers : spc[s] \in {"list", "persist"} => srow[s].version # v
        /\ \A f \in Refreshers : fpc[f] \in {"call", "persist"} => frow[f].version # v
    BY NewVersionIsNew DEF VersionInv, IndexInv
  <2>6. Exclusive'
    BY <1>2 DEF VersionInv, Exclusive
  <2>7. StaleIsDisturbed'
    BY <1>2, <2>4 DEF StaleIsDisturbed
  <2>8. RowsEnabled'
    BY <1>2, <2>3, <2>5 DEF RowsEnabled
  <2>9. OvertakenIsStale'
    BY <1>2, <2>3, <2>5 DEF VersionInv, OvertakenIsStale
  <2> QED
    BY <1>1, <2>6, <2>7, <2>8, <2>9 DEF VersionInv
<1> QED
  BY <1>3, <1>4

\* A sync writes the row while no other one has read it, and overtakes the refreshes.
LEMMA SyncKeepsVersions ==
  ASSUME VersionInv, NEW s \in Syncers, BeginSync(s) \/ AbandonSync(s) \/ SyncStep(s) \/ SyncFails(s)
  PROVE  VersionInv'
<1>1. IndexInv'
  BY SyncKeepsIndex DEF VersionInv
<1>2. UNCHANGED <<fpc, frow>>
  BY DEF BeginSync, AbandonSync, SyncStep, SyncFails, AcquireAccount, GetSyncClient, ListPage,
         PersistSync, SyncConflict, SyncRefused, EndSync, refreshVars
<1>3. \A q \in Syncers : q # s => spc'[q] = spc[q] /\ srow'[q] = srow[q] /\ disturbed'[q] = disturbed[q]
  BY DEF BeginSync, AbandonSync, SyncStep, SyncFails, AcquireAccount, GetSyncClient, ListPage,
         PersistSync, SyncConflict, SyncRefused, EndSync, LeaveSync, VersionInv, IndexInv, TypeOK
<1>4. Exclusive'
  <2>1. CASE AcquireAccount(s)
    BY <1>3, <2>1, SyncersAssumption DEF AcquireAccount, VersionInv, Exclusive
  <2>2. CASE EndSync(s)
    BY <1>3, <2>2 DEF EndSync, VersionInv, Exclusive, IndexInv, TypeOK
  <2>3. CASE ~AcquireAccount(s) /\ ~EndSync(s)
    <3>1. lock' = lock
      BY <2>3 DEF BeginSync, AbandonSync, SyncStep, SyncFails, GetSyncClient, ListPage,
                  PersistSync, SyncConflict, SyncRefused
    <3>2. spc'[s] \in {"client", "list", "persist", "release"} => spc[s] \in {"client", "list", "persist", "release"}
      BY <2>3 DEF BeginSync, AbandonSync, SyncStep, SyncFails, GetSyncClient, ListPage,
                  PersistSync, SyncConflict, SyncRefused, LeaveSync, VersionInv, IndexInv, TypeOK
    <3> QED
      BY <1>3, <3>1, <3>2 DEF VersionInv, Exclusive
  <2> QED
    BY <2>1, <2>2, <2>3
<1>5. CASE PersistSync(s)
  <2>1. PICK v \in NewVersions : account' = [account EXCEPT !.version = v]
    BY <1>5 DEF PersistSync, StampAccount
  <2>2. account'.version = v
    BY <2>1, RowWritten DEF VersionInv, IndexInv, TypeOK, NewVersions
  <2>3. \A q \in Syncers : spc'[q] \notin {"list", "persist"}
    BY <1>3, <1>5 DEF PersistSync, LeaveSync, VersionInv, Exclusive, IndexInv, TypeOK
  <2>4. \A f \in Refreshers : fpc[f] \in {"call", "persist"} => frow[f].version # v
    BY NewVersionIsNew DEF VersionInv, IndexInv
  <2>5. \A f \in Refreshers : overtaken'[f] = TRUE => fpc[f] = "persist"
    BY <1>5, Zenon DEF PersistSync
  <2>6. OvertakenIsStale'
    BY <1>2, <2>2, <2>4, <2>5 DEF OvertakenIsStale
  <2>7. RowsEnabled' /\ StaleIsDisturbed'
    BY <1>2, <2>2, <2>3, <2>4 DEF RowsEnabled, StaleIsDisturbed
  <2> QED
    BY <1>1, <1>4, <2>6, <2>7 DEF VersionInv
<1>6. CASE ~PersistSync(s)
  <2>1. UNCHANGED <<account, overtaken>>
    BY <1>6 DEF BeginSync, AbandonSync, SyncStep, SyncFails, AcquireAccount, GetSyncClient, ListPage,
         SyncConflict, SyncRefused, EndSync, accountVars, refreshVars
  <2>2. \/ spc'[s] \notin {"list", "persist"}
        \/ srow'[s] = account /\ account.enabled = TRUE
        \/ spc[s] \in {"list", "persist"} /\ srow'[s] = srow[s] /\ disturbed'[s] = disturbed[s]
    <3>1. CASE GetSyncClient(s)
      <4>1. srow'[s] = account
        BY <3>1 DEF GetSyncClient, VersionInv, IndexInv, TypeOK
      <4>2. account.enabled
        BY <3>1 DEF GetSyncClient
      <4>3. account.enabled \in BOOLEAN
        BY DEF VersionInv, IndexInv, TypeOK, Row
      <4> QED
        BY <4>1, <4>2, <4>3
    <3>2. CASE ~GetSyncClient(s)
      BY <1>6, <3>2 DEF BeginSync, AbandonSync, SyncStep, SyncFails, AcquireAccount, ListPage,
         SyncConflict, SyncRefused, EndSync, LeaveSync, VersionInv, IndexInv, TypeOK
    <3> QED
      BY <3>1, <3>2
  <2>3. RowsEnabled' /\ StaleIsDisturbed'
    BY <1>2, <1>3, <2>1, <2>2 DEF VersionInv, RowsEnabled, StaleIsDisturbed
  <2>4. OvertakenIsStale'
    BY <1>2, <2>1 DEF VersionInv, OvertakenIsStale
  <2> QED
    BY <1>1, <1>4, <2>3, <2>4 DEF VersionInv
<1> QED
  BY <1>5, <1>6

\* A refresh reads the row of an enabled account and writes it never.
LEMMA RefreshKeepsVersions ==
  ASSUME VersionInv, NEW f \in Refreshers, BeginRefresh(f) \/ RefreshStep(f) \/ RefreshFails(f)
  PROVE  VersionInv'
<1>1. IndexInv'
  BY RefreshKeepsIndex DEF VersionInv
<1>2. UNCHANGED <<account, lock, spc, srow, disturbed>>
  BY DEF BeginRefresh, RefreshStep, RefreshFails, GetRefreshClient, Ask, UpsertZoneIndex,
         MarkZoneDeleted, RefreshConflict, RefreshRefused, EndRefresh, syncVars, accountVars
<1>3. \A g \in Refreshers : g # f => fpc'[g] = fpc[g] /\ frow'[g] = frow[g] /\ overtaken'[g] = overtaken[g]
  BY DEF BeginRefresh, RefreshStep, RefreshFails, GetRefreshClient, Ask, UpsertZoneIndex,
         MarkZoneDeleted, RefreshConflict, RefreshRefused, EndRefresh, VersionInv, IndexInv, TypeOK
<1>4. \/ fpc'[f] \notin {"call", "persist"}
      \/ frow'[f] = account /\ account.enabled = TRUE
      \/ fpc[f] \in {"call", "persist"} /\ frow'[f] = frow[f]
  <2>1. CASE GetRefreshClient(f)
    <3>1. frow'[f] = account
      BY <2>1 DEF GetRefreshClient, VersionInv, IndexInv, TypeOK
    <3>2. account.enabled
      BY <2>1 DEF GetRefreshClient
    <3>3. account.enabled \in BOOLEAN
      BY DEF VersionInv, IndexInv, TypeOK, Row
    <3> QED
      BY <3>1, <3>2, <3>3
  <2>2. CASE ~GetRefreshClient(f)
    BY <2>2 DEF BeginRefresh, RefreshStep, RefreshFails, Ask, UpsertZoneIndex,
         MarkZoneDeleted, RefreshConflict, RefreshRefused, EndRefresh, VersionInv, IndexInv, TypeOK
  <2> QED
    BY <2>1, <2>2
<1>5. \/ overtaken'[f] = FALSE
      \/ overtaken'[f] = overtaken[f] /\ fpc[f] # "persist"
  BY DEF BeginRefresh, RefreshStep, RefreshFails, GetRefreshClient, Ask, UpsertZoneIndex,
         MarkZoneDeleted, RefreshConflict, RefreshRefused, EndRefresh, VersionInv, IndexInv, TypeOK
<1>6. Exclusive' /\ StaleIsDisturbed'
  BY <1>2 DEF VersionInv, Exclusive, StaleIsDisturbed
<1>7. RowsEnabled'
  BY <1>2, <1>3, <1>4 DEF VersionInv, RowsEnabled
<1>8. OvertakenIsStale'
  BY <1>2, <1>3, <1>5 DEF VersionInv, OvertakenIsStale
<1> QED
  BY <1>1, <1>6, <1>7, <1>8 DEF VersionInv

\* Every step keeps them.
LEMMA VersionInvNext == ASSUME VersionInv, [Next]_vars PROVE VersionInv'
<1>1. CASE ChangeUpstream \/ UNCHANGED vars
  <2>1. UNCHANGED <<account, lock, spc, srow, disturbed, fpc, frow, overtaken>>
    BY <1>1 DEF ChangeUpstream, vars, accountVars, syncVars, refreshVars
  <2> QED
    BY <2>1, IndexInvNext DEF VersionInv, Exclusive, StaleIsDisturbed, RowsEnabled, OvertakenIsStale
<1> QED
  BY <1>1, AccountKeepsVersions, SyncKeepsVersions, RefreshKeepsVersions DEF Next

\* The invariant that relates the remembered rows to the present one.
LEMMA VersionInvAlways == Spec => []VersionInv
  BY VersionInvInit, VersionInvNext, PTL DEF Spec

\* In every behaviour a sync that meets a changed row was overtaken by something that is
\* not a sync: the channel of the account keeps the syncs apart.
THEOREM SyncsNeverCollide == Spec => []SyncsDoNotCollide
<1>1. VersionInv => SyncsDoNotCollide
  <2>1. VersionInv => \A s \in Syncers : spc[s] = "persist" /\ account.version # srow[s].version => disturbed[s] = TRUE
    BY DEF VersionInv, StaleIsDisturbed
  <2> QED
    BY <2>1, Zenon DEF SyncsDoNotCollide
<1> QED
  BY <1>1, VersionInvAlways, PTL

\* What the index shows changes only by these steps.
LEMMA VisibleChanges ==
  ASSUME [Next]_vars, visible' # visible
  PROVE  \/ TouchAccount \/ ReplaceConfig \/ DeleteAccount
         \/ \E s \in Syncers : PersistSync(s)
         \/ \E f \in Refreshers : UpsertZoneIndex(f) \/ MarkZoneDeleted(f)
  BY DEF Next, vars, tableVars, BeginSync, AbandonSync, SyncStep, SyncFails, AcquireAccount, GetSyncClient,
         ListPage, SyncConflict, SyncRefused, EndSync, BeginRefresh, RefreshStep, RefreshFails,
         GetRefreshClient, Ask, RefreshConflict, RefreshRefused, ChangeUpstream

\* A refresh that a sync has overtaken writes nothing.
LEMMA YieldingStep ==
  ASSUME VersionInv, [Next]_vars, NEW f \in Refreshers, fpc[f] = "persist", fpc'[f] = "idle",
         visible' # visible
  PROVE  overtaken[f] # TRUE
<1>1. CASE TouchAccount \/ ReplaceConfig \/ DeleteAccount \/ \E s \in Syncers : PersistSync(s)
  BY <1>1 DEF TouchAccount, ReplaceConfig, DeleteAccount, PersistSync, refreshVars
<1>2. ASSUME NEW g \in Refreshers, UpsertZoneIndex(g) \/ MarkZoneDeleted(g) PROVE overtaken[f] # TRUE
  <2>1. f = g
    BY <1>2 DEF UpsertZoneIndex, MarkZoneDeleted, EndRefresh, VersionInv, IndexInv, TypeOK
  <2>2. account.version = frow[f].version
    BY <1>2, <2>1 DEF UpsertZoneIndex, MarkZoneDeleted, RefreshMatches, SameRow
  <2> QED
    BY <2>2 DEF VersionInv, OvertakenIsStale
<1> QED
  BY <1>1, <1>2, VisibleChanges

\* In every behaviour a refresh leaves alone what a sync has written since the provider
\* answered the refresh.
THEOREM RefreshesAlwaysYield == Spec => RefreshesYieldToSyncs
<1>1. ASSUME VersionInv, [Next]_vars
      PROVE  [\A f \in Refreshers :
                (fpc[f] = "persist" /\ fpc'[f] = "idle" /\ visible' # visible) => ~overtaken[f]]_vars
  <2>1. \A f \in Refreshers :
          (fpc[f] = "persist" /\ fpc'[f] = "idle" /\ visible' # visible) => overtaken[f] # TRUE
    BY <1>1, YieldingStep
  <2>2. \A f \in Refreshers : overtaken[f] \in BOOLEAN
    BY <1>1 DEF VersionInv, IndexInv, TypeOK
  <2> QED
    BY <2>1, <2>2
<1> QED
  BY <1>1, VersionInvAlways, PTL DEF Spec, RefreshesYieldToSyncs

\* In every behaviour the index of a disabled account gains no zone: whoever read the row
\* while it was enabled finds another updated_at.
THEOREM DisabledNeverGains == Spec => DisabledIndexGainsNothing
<1>1. ASSUME VersionInv, [Next]_vars
      PROVE  [~account.enabled => visible' \subseteq visible]_vars
  <2> SUFFICES ASSUME ~account.enabled, visible' # visible PROVE visible' \subseteq visible
    OBVIOUS
  <2>1. account.enabled # TRUE
    OBVIOUS
  <2>2. CASE TouchAccount \/ ReplaceConfig \/ DeleteAccount
    BY <2>2 DEF TouchAccount, ReplaceConfig, DeleteAccount, InvalidateZoneIndex, tableVars
  <2>3. ASSUME NEW s \in Syncers, PersistSync(s) PROVE FALSE
    BY <1>1, <2>1, <2>3 DEF PersistSync, SameRow, VersionInv, RowsEnabled
  <2>4. ASSUME NEW f \in Refreshers, UpsertZoneIndex(f) \/ MarkZoneDeleted(f) PROVE FALSE
    BY <1>1, <2>1, <2>4 DEF UpsertZoneIndex, MarkZoneDeleted, RefreshMatches, SameRow, VersionInv, RowsEnabled
  <2> QED
    BY <1>1, <2>2, <2>3, <2>4, VisibleChanges
<1> QED
  BY <1>1, VersionInvAlways, PTL DEF Spec, DisabledIndexGainsNothing

----------------------------------------------------------------------------
(* Pages with markers. *)

\* A listing with markers has all that stayed up to the marker, and all in the end.
MarkerInv ==
    /\ \A s \in Syncers : spc[s] \notin {"list", "persist"} => position[s] = 0
    /\ markers = TRUE => \A s \in Syncers :
         /\ spc[s] = "list" => /\ stayed[s] \subseteq Listable(s)
                               /\ \A z \in stayed[s] : z <= position[s] => z \in listed[s]
         /\ spc[s] = "persist" => stayed[s] \subseteq listed[s]

\* How many zones of a list come before a zone, or up to it.
UpTo(set, z) == Cardinality({y \in set : y <= z})

\* Ranks grow with the zones of the list.
LEMMA RanksGrow ==
  ASSUME NEW set \in SUBSET Zones, NEW y \in Nat, NEW z \in set
  PROVE  /\ UpTo(set, y) \in Nat /\ UpTo(set, z) \in Nat /\ Cardinality(set) \in Nat
         /\ y < z => UpTo(set, y) < UpTo(set, z)
         /\ z <= y => UpTo(set, z) <= UpTo(set, y)
         /\ UpTo(set, z) <= Cardinality(set)
<1>1. IsFiniteSet(set)
  <2>1. IsFiniteSet(Zones)
    BY FS_Interval, BoundsAssumption DEF Zones
  <2> QED
    BY <2>1, FS_Subset
<1> DEFINE Y == {x \in set : x <= y}
           Z == {x \in set : x <= z}
<1>2. /\ IsFiniteSet(Y) /\ IsFiniteSet(Z)
      /\ Cardinality(Y) \in Nat /\ Cardinality(Z) \in Nat /\ Cardinality(set) \in Nat
  BY <1>1, FS_Subset, FS_CardinalityType
<1>3. Cardinality(Z) <= Cardinality(set)
  BY <1>1, FS_Subset
<1>4. z \in Nat /\ \A x \in set : x \in Nat
  BY DEF Zones
<1>5. ASSUME y < z PROVE Cardinality(Y) < Cardinality(Z)
  <2>1. Y \subseteq Z /\ Y # Z
    <3>1. \A x \in set : x <= y => x <= z
      BY <1>4, <1>5
    <3>2. z \in Z /\ z \notin Y
      BY <1>4, <1>5
    <3> QED
      BY <3>1, <3>2
  <2>2. Cardinality(Y) <= Cardinality(Z) /\ Cardinality(Y) # Cardinality(Z)
    BY <1>2, <2>1, FS_Subset
  <2> QED
    BY <1>2, <2>2
<1>6. ASSUME z <= y PROVE Cardinality(Z) <= Cardinality(Y)
  <2>1. Z \subseteq Y
    <3>1. \A x \in set : x <= z => x <= y
      BY <1>4, <1>6
    <3> QED
      BY <3>1
  <2> QED
    BY <1>2, <2>1, FS_Subset
<1> QED
  BY <1>2, <1>3, <1>5, <1>6 DEF UpTo

\* A sync lists zones.
LEMMA ListableZones ==
  ASSUME TypeOK, RememberedInRange, NEW s \in Syncers, spc[s] = "list"
  PROVE  Listable(s) \subseteq Zones
<1>1. srow[s].config \in 0..MaxConfig
  BY DEF RememberedInRange, Row
<1> QED
  BY <1>1 DEF TypeOK, Listable

\* A page with markers brings the zones from the marker to its end.
LEMMA PageBrings ==
  ASSUME TypeOK, RememberedInRange, NEW s \in Syncers, spc[s] = "list", markers = TRUE,
         NEW z \in Listable(s), z > position[s]
  PROVE  /\ LastPage(s) => z \in Page(s)
         /\ \A n \in Page(s) : z <= n => z \in Page(s)
<1>1. /\ Listable(s) \in SUBSET Zones /\ position[s] \in Nat /\ z \in Zones /\ z \in Nat
      /\ PageLimit \in Nat
  BY BoundsAssumption, ListableZones DEF TypeOK, Zones
<1>2. Skipped(s) = UpTo(Listable(s), position[s])
  BY DEF Skipped, UpTo
<1>3. /\ Skipped(s) \in Nat /\ UpTo(Listable(s), z) \in Nat /\ Skipped(s) < UpTo(Listable(s), z)
      /\ UpTo(Listable(s), z) <= Cardinality(Listable(s)) /\ Cardinality(Listable(s)) \in Nat
  BY <1>1, <1>2, RanksGrow
<1>4. \A x \in Listable(s) :
        x \in Page(s) <=> /\ Skipped(s) < UpTo(Listable(s), x)
                          /\ UpTo(Listable(s), x) <= Skipped(s) + PageLimit
  BY DEF Page, UpTo
<1>5. LastPage(s) => z \in Page(s)
  BY <1>1, <1>3, <1>4 DEF LastPage
<1>6. ASSUME NEW n \in Page(s), z <= n PROVE z \in Page(s)
  <2>1. n \in Listable(s) /\ n \in Nat
    BY <1>1 DEF Page, Zones
  <2>2. UpTo(Listable(s), n) <= Skipped(s) + PageLimit
    BY <1>4, <1>6, <2>1
  <2>3. UpTo(Listable(s), z) <= UpTo(Listable(s), n) /\ UpTo(Listable(s), n) \in Nat
    BY <1>1, <1>6, <2>1, RanksGrow
  <2> QED
    BY <1>1, <1>3, <1>4, <2>2, <2>3
<1> QED
  BY <1>5, <1>6

\* A sync asks for the pages one after the other.
LEMMA SyncKeepsMarkers ==
  ASSUME IndexInv, MarkerInv, NEW s \in Syncers,
         BeginSync(s) \/ AbandonSync(s) \/ SyncStep(s) \/ SyncFails(s)
  PROVE  MarkerInv'
<1>0. TypeOK /\ RememberedInRange
  BY DEF IndexInv
<1>1. /\ \A q \in Syncers : q # s =>
           /\ spc'[q] = spc[q] /\ srow'[q] = srow[q] /\ position'[q] = position[q]
           /\ listed'[q] = listed[q] /\ stayed'[q] = stayed[q]
      /\ UNCHANGED <<markers, upstream>>
  BY <1>0 DEF BeginSync, AbandonSync, SyncStep, SyncFails, AcquireAccount, GetSyncClient, ListPage,
         PersistSync, SyncConflict, SyncRefused, EndSync, LeaveSync, TypeOK, upstreamVars
<1>2. SUFFICES /\ spc'[s] \notin {"list", "persist"} => position'[s] = 0
               /\ markers = TRUE =>
                    /\ spc'[s] = "list" => /\ stayed'[s] \subseteq Listable(s)'
                                           /\ \A z \in stayed'[s] : z <= position'[s] => z \in listed'[s]
                    /\ spc'[s] = "persist" => stayed'[s] \subseteq listed'[s]
  BY <1>1 DEF MarkerInv, Listable
<1>3. CASE GetSyncClient(s)
  <2>1. /\ spc'[s] = "list" /\ srow'[s] = account /\ stayed'[s] = upstream[account.config]
        /\ position'[s] = 0
    BY <1>0, <1>3 DEF GetSyncClient, TypeOK, MarkerInv
  <2>2. stayed'[s] \in SUBSET Zones
    BY <1>0, <2>1 DEF TypeOK, Row
  <2> QED
    BY <1>1, <2>1, <2>2 DEF Listable, Zones
<1>4. CASE ListPage(s)
  <2>1. /\ spc[s] = "list" /\ listed'[s] = listed[s] \cup Page(s) /\ UNCHANGED <<srow, stayed>>
        /\ \/ LastPage(s) /\ spc'[s] = "persist"
           \/ /\ spc'[s] = "list"
              /\ \E n \in Page(s) \cup {position[s] + PageLimit} : NextCursor(s, n) /\ position'[s] = n
    BY <1>0, <1>4 DEF ListPage, TypeOK
  <2> SUFFICES ASSUME markers = TRUE
               PROVE  /\ spc'[s] = "list" => /\ stayed'[s] \subseteq Listable(s)'
                                             /\ \A z \in stayed'[s] : z <= position'[s] => z \in listed'[s]
                      /\ spc'[s] = "persist" => stayed'[s] \subseteq listed'[s]
    BY <2>1
  <2>2. /\ stayed[s] \subseteq Listable(s) /\ Listable(s) \subseteq Nat /\ position[s] \in Nat
        /\ \A z \in stayed[s] : z <= position[s] => z \in listed[s]
    BY <1>0, <2>1, ListableZones DEF MarkerInv, TypeOK, Zones
  <2>3. \A z \in stayed[s] : z \in listed[s] \/ (z \in Listable(s) /\ z > position[s])
    BY <2>2
  <2>4. CASE LastPage(s) /\ spc'[s] = "persist"
    BY <1>0, <2>1, <2>3, <2>4, PageBrings
  <2>5. CASE spc'[s] = "list"
    <3>1. position'[s] \in Page(s)
      BY <2>1, <2>5 DEF NextCursor
    <3>2. \A z \in stayed[s] : z <= position'[s] => z \in listed[s] \cup Page(s)
      BY <1>0, <2>1, <2>3, <3>1, PageBrings
    <3> QED
      BY <1>1, <2>1, <2>2, <2>5, <3>2 DEF Listable
  <2> QED
    BY <2>1, <2>4, <2>5
<1>5. CASE BeginSync(s) \/ AbandonSync(s) \/ AcquireAccount(s) \/ EndSync(s)
  BY <1>0, <1>5 DEF BeginSync, AbandonSync, AcquireAccount, EndSync, TypeOK, MarkerInv
<1>6. CASE PersistSync(s) \/ SyncConflict(s) \/ SyncRefused(s) \/ SyncFails(s)
  BY <1>0, <1>6 DEF PersistSync, SyncConflict, SyncRefused, SyncFails, LeaveSync, TypeOK
<1> QED
  BY <1>3, <1>4, <1>5, <1>6 DEF SyncStep

\* Every step keeps what a listing has.
LEMMA MarkerInvNext == ASSUME IndexInv, MarkerInv, [Next]_vars PROVE MarkerInv'
<1>1. ASSUME UNCHANGED <<markers, upstream, spc, srow, position, listed, stayed>> PROVE MarkerInv'
  BY <1>1 DEF MarkerInv, Listable
<1>2. CASE TouchAccount \/ ReplaceConfig \/ DeleteAccount
  BY <1>1, <1>2 DEF TouchAccount, ReplaceConfig, DeleteAccount, upstreamVars, syncVars
<1>3. ASSUME NEW f \in Refreshers, BeginRefresh(f) \/ RefreshStep(f) \/ RefreshFails(f) PROVE MarkerInv'
  BY <1>1, <1>3 DEF BeginRefresh, RefreshStep, RefreshFails, GetRefreshClient, Ask, UpsertZoneIndex,
         MarkZoneDeleted, RefreshConflict, RefreshRefused, EndRefresh, upstreamVars, syncVars
<1>4. CASE ChangeUpstream
  <2>1. UNCHANGED <<markers, spc, srow, position, listed>>
    BY <1>4 DEF ChangeUpstream
  <2>2. PICK k \in 0..account.config, x \in Zones :
          /\ upstream' = [upstream EXCEPT ![k] = IF x \in @ THEN @ \ {x} ELSE @ \cup {x}]
          /\ stayed' = [s \in Syncers |-> IF srow[s] # None /\ srow[s].config = k
                                          THEN stayed[s] \ {x} ELSE stayed[s]]
    BY <1>4 DEF ChangeUpstream
  <2>3. \A s \in Syncers : stayed'[s] \subseteq stayed[s]
    BY <2>2
  <2>4. ASSUME NEW s \in Syncers, spc[s] = "list", stayed[s] \subseteq Listable(s)
        PROVE  stayed'[s] \subseteq Listable(s)'
    <3>1. srow[s] \in Row /\ srow[s] # None /\ srow[s].config \in 0..MaxConfig
      BY <2>4, NoneAssumption DEF IndexInv, RememberedInRange, Row
    <3>2. Listable(s)' = upstream'[srow[s].config]
      BY <2>1 DEF Listable
    <3>3. CASE srow[s].config = k
      BY <2>2, <2>4, <3>1, <3>2, <3>3 DEF Listable, IndexInv, TypeOK
    <3>4. CASE srow[s].config # k
      BY <2>2, <2>4, <3>1, <3>2, <3>4 DEF Listable, IndexInv, TypeOK
    <3> QED
      BY <3>3, <3>4
  <2> QED
    BY <2>1, <2>3, <2>4 DEF MarkerInv
<1>5. CASE UNCHANGED vars
  BY <1>1, <1>5 DEF vars, upstreamVars, syncVars
<1> QED
  BY <1>2, <1>3, <1>4, <1>5, SyncKeepsMarkers DEF Next

\* A commit of a sync shows what it has listed.
LEMMA CommitShowsListed ==
  ASSUME TypeOK, [Next]_vars, NEW s \in Syncers, Commits(s)
  PROVE  visible' = listed[s]
<1>1. ASSUME NEW q \in Syncers, PersistSync(q) PROVE visible' = listed[s]
  <2>1. q = s
    BY <1>1 DEF Commits, PersistSync, LeaveSync, TypeOK
  <2> QED
    BY <1>1, <2>1 DEF PersistSync, ReplaceZoneIndex
<1>2. CASE TouchAccount \/ ReplaceConfig
  BY <1>2 DEF TouchAccount, ReplaceConfig, Commits
<1>3. CASE account' = account
  BY <1>3 DEF Commits
<1>4. ASSUME NEW q \in Syncers, BeginSync(q) \/ AbandonSync(q) \/ SyncStep(q) \/ SyncFails(q), ~PersistSync(q)
      PROVE  account' = account
  BY <1>4 DEF BeginSync, AbandonSync, SyncStep, SyncFails, AcquireAccount, GetSyncClient, ListPage,
         SyncConflict, SyncRefused, EndSync, accountVars
<1>5. ASSUME NEW f \in Refreshers, BeginRefresh(f) \/ RefreshStep(f) \/ RefreshFails(f) PROVE account' = account
  BY <1>5 DEF BeginRefresh, RefreshStep, RefreshFails, GetRefreshClient, Ask, UpsertZoneIndex,
         MarkZoneDeleted, RefreshConflict, RefreshRefused, EndRefresh, accountVars
<1>6. CASE DeleteAccount \/ ChangeUpstream \/ UNCHANGED vars
  BY <1>3, <1>6 DEF DeleteAccount, ChangeUpstream, vars, accountVars
<1> QED
  BY <1>1, <1>2, <1>3, <1>4, <1>5, <1>6 DEF Next

\* In every behaviour a sync of a provider that pages with markers keeps every zone that
\* the provider has had all along, whatever else is added or removed between two pages.
THEOREM MarkersAlwaysKeepZones == Spec => MarkerSyncsKeepZones
<1>1. Init => MarkerInv
  <2> SUFFICES ASSUME Init PROVE MarkerInv
    OBVIOUS
  <2>1. \A s \in Syncers : spc[s] = "idle" /\ position[s] = 0
    BY DEF Init
  <2> QED
    BY <2>1 DEF MarkerInv
<1>2. ASSUME IndexInv, MarkerInv, [Next]_vars
      PROVE  [\A s \in Syncers : markers /\ Commits(s) => stayed[s] \subseteq visible']_vars
  <2> SUFFICES ASSUME NEW s \in Syncers, markers, Commits(s) PROVE stayed[s] \subseteq visible'
    OBVIOUS
  <2>1. visible' = listed[s]
    BY <1>2, CommitShowsListed DEF IndexInv
  <2>2. markers = TRUE /\ spc[s] = "persist"
    BY <1>2 DEF Commits, IndexInv, TypeOK
  <2>3. stayed[s] \subseteq listed[s]
    BY <1>2, <2>2 DEF MarkerInv
  <2> QED
    BY <2>1, <2>3
<1> QED
  BY <1>1, <1>2, IndexInvInit, IndexInvNext, MarkerInvNext, PTL DEF Spec, MarkerSyncsKeepZones

==============================================================================
