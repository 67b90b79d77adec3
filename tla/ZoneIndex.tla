------------------------------ MODULE ZoneIndex ------------------------------
(***************************************************************************)
(* The zone index of one provider account: the rows of the zones table,    *)
(* the syncs and refreshes that write them, and the account operations     *)
(* that invalidate them (internal/service/zone_sync.go, RefreshZone in     *)
(* internal/service/dns.go and the statements in                           *)
(* internal/db/provider_store.go).                                         *)
(*                                                                         *)
(* Every transaction is SERIALIZABLE, so each is one step.  A transaction  *)
(* whose guard the row no longer satisfies changes nothing, so an account  *)
(* operation is its transaction.  Zones are numbered in the order of their *)
(* names, the order in which the adapters list them.                       *)
(***************************************************************************)
EXTENDS Naturals, FiniteSets

CONSTANTS
    Syncers,        \* goroutines that run SyncAccount: API requests and the scheduler
    Scheduler,      \* the one of them that runs the scheduled syncs
    Refreshers,     \* goroutines that run RefreshZone
    ZoneCount,      \* zones that may ever exist at the provider
    PageLimit,      \* zoneSyncPageLimit, 200 in the code
    Versions,       \* values of updated_at
    MaxConfig,      \* bound of the exploration: replacements of credentials or options
    MaxEvents,      \* bound of the exploration: other writes of the row, changes at the
                    \* provider and failed steps
    None

Zones == 1..ZoneCount

\* The columns of provider_accounts that count here: config numbers the credentials and
\* options, revision is credential_revision and version is updated_at.
Row == [enabled : BOOLEAN, config : Nat, revision : Nat, version : Versions]

ASSUME SyncersAssumption == Scheduler \in Syncers /\ None \notin Syncers
ASSUME BoundsAssumption ==
    /\ ZoneCount \in Nat /\ PageLimit \in Nat \ {0}
    /\ MaxConfig \in Nat /\ MaxEvents \in Nat
ASSUME NoneAssumption == None \notin Nat \cup Row

VARIABLES
    \* The provider.
    markers,    \* whether it pages with markers (Huawei) or its adapter with offsets (the others)
    upstream,   \* the zones it has, for each configuration of the account
    events,     \* what MaxEvents bounds
    \* The provider_accounts row.
    exists,
    account,
    synced,     \* the configuration of the sync of last_zone_sync_at, or None
    \* The zones table.
    rows,       \* zones that have a row
    visible,    \* zones whose row has no deleted_from_provider_at
    from,       \* the configuration each visible row was read with
    \* The syncs.
    lock,       \* who is in the channel of the account, or None
    spc,        \* where each one is
    srow,       \* the row its client was built from, or None
    position,   \* the cursor: zones to skip, or the last zone of the page before
    listed,     \* the zones read so far
    \* The refreshes.
    fpc,        \* where each one is
    zone,       \* the zone
    frow,       \* the row its client was built from, or None
    found,      \* whether the provider has the zone
    \* What the properties are about.
    stayed,     \* zones the provider has had since the first page of a sync was asked for
    disturbed,  \* whether anything but a sync has written the row since a sync read it
    overtaken   \* whether a sync has been written since the provider answered a refresh

upstreamVars == <<markers, upstream>>
accountVars == <<exists, account, synced>>
tableVars == <<rows, visible, from>>
syncVars == <<spc, srow, position, listed, stayed, disturbed>>
refreshVars == <<fpc, zone, frow, found, overtaken>>
vars == <<upstreamVars, events, accountVars, tableVars, lock, syncVars, refreshVars>>

----------------------------------------------------------------------------
SyncPcs == {"idle", "wait", "client", "list", "persist", "release"}
RefreshPcs == {"idle", "client", "call", "persist"}

Init ==
    /\ markers \in BOOLEAN
    /\ upstream \in [0..MaxConfig -> SUBSET Zones]
    /\ events = 0
    /\ exists = TRUE
    /\ \E v \in Versions :
         account = [enabled |-> TRUE, config |-> 0, revision |-> 1, version |-> v]
    /\ synced = None
    /\ rows = {}
    /\ visible = {}
    /\ from = [z \in Zones |-> 0]
    /\ lock = None
    /\ spc = [s \in Syncers |-> "idle"]
    /\ srow = [s \in Syncers |-> None]
    /\ position = [s \in Syncers |-> 0]
    /\ listed = [s \in Syncers |-> {}]
    /\ fpc = [f \in Refreshers |-> "idle"]
    /\ zone = [f \in Refreshers |-> 0]
    /\ frow = [f \in Refreshers |-> None]
    /\ found = [f \in Refreshers |-> FALSE]
    /\ stayed = [s \in Syncers |-> {}]
    /\ disturbed = [s \in Syncers |-> FALSE]
    /\ overtaken = [f \in Refreshers |-> FALSE]

----------------------------------------------------------------------------
(* The account row. *)

\* The times of updated_at that somebody remembers.
Remembered ==
    LET remembered == {srow[s] : s \in Syncers} \cup {frow[f] : f \in Refreshers}
    IN  {account.version} \cup {rec.version : rec \in remembered \ {None}}

\* Every write of the row gives updated_at another time.
NewVersions == Versions \ Remembered

\* Something that is not a sync writes the row.
WriteRow(rec) ==
    /\ exists
    /\ \E v \in NewVersions : account' = [rec EXCEPT !.version = v]
    /\ disturbed' = [s \in Syncers |-> spc[s] \in {"list", "persist"} \/ disturbed[s]]

\* UpdateAccount without options, or ValidateAccount.
TouchAccount ==
    /\ events < MaxEvents
    /\ events' = events + 1
    /\ \E b \in BOOLEAN : WriteRow([account EXCEPT !.enabled = b])
    /\ UNCHANGED <<upstreamVars, exists, synced, tableVars, lock, spc, srow, position, listed,
                   stayed, refreshVars>>

\* InvalidateZoneIndex that leaves last_zone_sync_at.
HideZonesOnly ==
    /\ visible' = {}
    /\ from' = [z \in Zones |-> 0]
    /\ UNCHANGED <<rows, synced>>

\* InvalidateZoneIndex.
InvalidateZoneIndex ==
    /\ visible' = {}
    /\ from' = [z \in Zones |-> 0]
    /\ synced' = None
    /\ UNCHANGED rows

\* ReplaceCredentials, or UpdateAccount with options.
ReplaceConfig ==
    /\ account.config < MaxConfig
    /\ \E n \in {account.revision, account.revision + 1} :
         WriteRow([account EXCEPT !.config = account.config + 1, !.revision = n])
    /\ InvalidateZoneIndex
    /\ UNCHANGED <<upstreamVars, events, exists, lock, spc, srow, position, listed, stayed,
                   refreshVars>>

\* DeleteAccount; the zones go with it.
DeleteAccount ==
    /\ exists
    /\ exists' = FALSE
    /\ rows' = {}
    /\ visible' = {}
    /\ from' = [z \in Zones |-> 0]
    /\ UNCHANGED <<upstreamVars, events, account, synced, lock, syncVars, refreshVars>>

----------------------------------------------------------------------------
(* SyncAccount. *)

BeginSync(s) ==
    /\ spc[s] = "idle"
    /\ s = Scheduler => exists /\ account.enabled
    /\ spc' = [spc EXCEPT ![s] = "wait"]
    /\ UNCHANGED <<upstreamVars, events, accountVars, tableVars, lock, srow, position, listed,
                   stayed, disturbed, refreshVars>>

\* AcquireAccount without the channel of the account.
AcquireAnyTime(s) ==
    /\ spc[s] = "wait"
    /\ lock' = s
    /\ spc' = [spc EXCEPT ![s] = "client"]
    /\ UNCHANGED <<upstreamVars, events, accountVars, tableVars, srow, position, listed,
                   stayed, disturbed, refreshVars>>

AcquireAccount(s) ==
    /\ spc[s] = "wait"
    /\ lock = None
    /\ lock' = s
    /\ spc' = [spc EXCEPT ![s] = "client"]
    /\ UNCHANGED <<upstreamVars, events, accountVars, tableVars, srow, position, listed,
                   stayed, disturbed, refreshVars>>

\* The context of the request ends while it waits.
AbandonSync(s) ==
    /\ spc[s] = "wait"
    /\ spc' = [spc EXCEPT ![s] = "idle"]
    /\ UNCHANGED <<upstreamVars, events, accountVars, tableVars, lock, srow, position, listed,
                   stayed, disturbed, refreshVars>>

\* Get returns a client and the row it was built from.
GetSyncClient(s) ==
    /\ spc[s] = "client"
    /\ exists /\ account.enabled
    /\ spc' = [spc EXCEPT ![s] = "list"]
    /\ srow' = [srow EXCEPT ![s] = account]
    /\ stayed' = [stayed EXCEPT ![s] = upstream[account.config]]
    /\ UNCHANGED <<upstreamVars, events, accountVars, tableVars, lock, position, listed, disturbed,
                   refreshVars>>

\* The zones the provider has for the client of a sync.
Listable(s) == upstream[srow[s].config]

\* The zones that come before the page a sync asks for.
Skipped(s) ==
    IF markers THEN Cardinality({z \in Listable(s) : z <= position[s]}) ELSE position[s]

\* The adapter's page: so many zones of the list as it is now, in the order of their names.
Page(s) ==
    LET Rank(z) == Cardinality({y \in Listable(s) : y <= z})
    IN  {z \in Listable(s) : Skipped(s) < Rank(z) /\ Rank(z) <= Skipped(s) + PageLimit}

\* LastPage that stops a zone too early.
LastPageOffByOne(s) == Skipped(s) + PageLimit + 1 >= Cardinality(Listable(s))

\* Whether the page has no next cursor.
LastPage(s) == Skipped(s) + PageLimit >= Cardinality(Listable(s))

\* Whether an offset is past the end of the list, or the page repeats a zone.
PageContradicts(s) ==
    \/ Skipped(s) > Cardinality(Listable(s))
    \/ Page(s) \cap listed[s] # {}

\* Whether the page gives the cursor n: its last zone, or the offset of the next page.
NextCursor(s, n) ==
    IF markers THEN n \in Page(s) /\ \A z \in Page(s) : z <= n ELSE n = position[s] + PageLimit

ListPage(s) ==
    /\ spc[s] = "list"
    /\ ~PageContradicts(s)
    /\ listed' = [listed EXCEPT ![s] = @ \cup Page(s)]
    /\ \/ /\ LastPage(s)
          /\ spc' = [spc EXCEPT ![s] = "persist"]
          /\ UNCHANGED position
       \/ /\ ~LastPage(s)
          /\ \E n \in Page(s) \cup {position[s] + PageLimit} :
               NextCursor(s, n) /\ position' = [position EXCEPT ![s] = n]
          /\ UNCHANGED spc
    /\ UNCHANGED <<upstreamVars, events, accountVars, tableVars, lock, srow, stayed, disturbed,
                   refreshVars>>

\* SyncAccount returns, with the zones or an error; the channel is given back after that.
LeaveSync(s) ==
    /\ spc' = [spc EXCEPT ![s] = "release"]
    /\ srow' = [srow EXCEPT ![s] = None]
    /\ position' = [position EXCEPT ![s] = 0]
    /\ listed' = [listed EXCEPT ![s] = {}]
    /\ stayed' = [stayed EXCEPT ![s] = {}]
    /\ disturbed' = [disturbed EXCEPT ![s] = FALSE]

\* The guard of the writes: the row is the one that the client was built from.
SameRow(rec) == exists /\ account.revision = rec.revision /\ account.version = rec.version

\* ReplaceZoneIndex that inserts no rows.
ReplaceExistingOnly(s) ==
    /\ visible' = listed[s]
    /\ from' = [z \in Zones |-> IF z \in listed[s] THEN srow[s].config ELSE 0]
    /\ UNCHANGED rows

\* ReplaceZoneIndex that does not clear deleted_from_provider_at.
ReplaceHiddenStayHidden(s) ==
    /\ rows' = rows \cup listed[s]
    /\ visible' = listed[s] \ (rows \ visible)
    /\ from' = [z \in Zones |-> IF z \in visible' THEN srow[s].config ELSE 0]

\* ReplaceZoneIndex: upserts, tombstones for the rest.
ReplaceZoneIndex(s) ==
    /\ rows' = rows \cup listed[s]
    /\ visible' = listed[s]
    /\ from' = [z \in Zones |-> IF z \in listed[s] THEN srow[s].config ELSE 0]

\* The sync writes last_zone_sync_at and leaves updated_at.
StampWithoutUpdate(s) ==
    /\ synced' = srow[s].config
    /\ UNCHANGED <<exists, account>>

\* The last statement of ReplaceZoneIndex, which also writes updated_at.
StampAccount(s) ==
    /\ \E v \in NewVersions : account' = [account EXCEPT !.version = v]
    /\ synced' = srow[s].config
    /\ UNCHANGED exists

PersistSync(s) ==
    /\ spc[s] = "persist"
    /\ SameRow(srow[s])
    /\ ReplaceZoneIndex(s)
    /\ StampAccount(s)
    /\ overtaken' = [f \in Refreshers |-> fpc[f] = "persist"]
    /\ LeaveSync(s)
    /\ UNCHANGED <<upstreamVars, events, lock, fpc, zone, frow, found>>

\* The account has changed, so the transaction is rolled back.
SyncConflict(s) ==
    /\ spc[s] = "persist"
    /\ ~SameRow(srow[s])
    /\ LeaveSync(s)
    /\ UNCHANGED <<upstreamVars, events, accountVars, tableVars, lock, refreshVars>>

\* The account cannot be used, or the pages contradict each other.
SyncRefused(s) ==
    /\ \/ spc[s] = "client" /\ ~(exists /\ account.enabled)
       \/ spc[s] = "list" /\ PageContradicts(s)
    /\ LeaveSync(s)
    /\ UNCHANGED <<upstreamVars, events, accountVars, tableVars, lock, refreshVars>>

\* The database, the build of the client or a call fails, or the deadline passes.
SyncFails(s) ==
    /\ events < MaxEvents
    /\ events' = events + 1
    /\ spc[s] \in {"client", "list", "persist"}
    /\ LeaveSync(s)
    /\ UNCHANGED <<upstreamVars, accountVars, tableVars, lock, refreshVars>>

\* EndSync without the deferred release.
EndSyncKeepingLock(s) ==
    /\ spc[s] = "release"
    /\ spc' = [spc EXCEPT ![s] = "idle"]
    /\ UNCHANGED <<upstreamVars, events, accountVars, tableVars, lock, srow, position, listed,
                   stayed, disturbed, refreshVars>>

EndSync(s) ==
    /\ spc[s] = "release"
    /\ spc' = [spc EXCEPT ![s] = "idle"]
    /\ lock' = None
    /\ UNCHANGED <<upstreamVars, events, accountVars, tableVars, srow, position, listed, stayed,
                   disturbed, refreshVars>>

----------------------------------------------------------------------------
(* RefreshZone. *)

\* GetZone finds the row of a zone that is not hidden.
BeginRefresh(f) ==
    /\ fpc[f] = "idle"
    /\ \E z \in visible : zone' = [zone EXCEPT ![f] = z]
    /\ fpc' = [fpc EXCEPT ![f] = "client"]
    /\ UNCHANGED <<upstreamVars, events, accountVars, tableVars, lock, syncVars, frow, found,
                   overtaken>>

GetRefreshClient(f) ==
    /\ fpc[f] = "client"
    /\ exists /\ account.enabled
    /\ fpc' = [fpc EXCEPT ![f] = "call"]
    /\ frow' = [frow EXCEPT ![f] = account]
    /\ UNCHANGED <<upstreamVars, events, accountVars, tableVars, lock, syncVars, zone, found,
                   overtaken>>

\* The provider returns the zone, or says that it has none.
Ask(f) ==
    /\ fpc[f] = "call"
    /\ fpc' = [fpc EXCEPT ![f] = "persist"]
    /\ found' = [found EXCEPT ![f] = zone[f] \in upstream[frow[f].config]]
    /\ UNCHANGED <<upstreamVars, events, accountVars, tableVars, lock, syncVars, zone, frow,
                   overtaken>>

EndRefresh(f) ==
    /\ fpc' = [fpc EXCEPT ![f] = "idle"]
    /\ zone' = [zone EXCEPT ![f] = 0]
    /\ frow' = [frow EXCEPT ![f] = None]
    /\ found' = [found EXCEPT ![f] = FALSE]
    /\ overtaken' = [overtaken EXCEPT ![f] = FALSE]
    /\ UNCHANGED <<upstreamVars, accountVars, lock, syncVars>>

\* RefreshMatches that compares credential_revision only.
RefreshMatchesRevision(f) == exists /\ account.revision = frow[f].revision

\* The precondition of both writes of a refresh.
RefreshMatches(f) == SameRow(frow[f])

\* UpsertZoneIndex, which gives the row of the zone back when it was hidden meanwhile.
UpsertZoneIndex(f) ==
    /\ fpc[f] = "persist"
    /\ found[f]
    /\ RefreshMatches(f)
    /\ rows' = rows \cup {zone[f]}
    /\ visible' = visible \cup {zone[f]}
    /\ from' = [from EXCEPT ![zone[f]] = frow[f].config]
    /\ EndRefresh(f)
    /\ UNCHANGED events

\* MarkZoneDeleted of a row that is not hidden yet.
MarkZoneDeleted(f) ==
    /\ fpc[f] = "persist"
    /\ ~found[f]
    /\ RefreshMatches(f)
    /\ zone[f] \in visible
    /\ visible' = visible \ {zone[f]}
    /\ from' = [from EXCEPT ![zone[f]] = 0]
    /\ EndRefresh(f)
    /\ UNCHANGED <<rows, events>>

\* The account has changed, or someone has hidden the row already.
RefreshConflict(f) ==
    /\ fpc[f] = "persist"
    /\ ~RefreshMatches(f) \/ (~found[f] /\ zone[f] \notin visible)
    /\ EndRefresh(f)
    /\ UNCHANGED <<tableVars, events>>

\* The account cannot be used.
RefreshRefused(f) ==
    /\ fpc[f] = "client"
    /\ ~(exists /\ account.enabled)
    /\ EndRefresh(f)
    /\ UNCHANGED <<tableVars, events>>

RefreshFails(f) ==
    /\ events < MaxEvents
    /\ events' = events + 1
    /\ fpc[f] # "idle"
    /\ EndRefresh(f)
    /\ UNCHANGED tableVars

----------------------------------------------------------------------------
\* Someone adds a zone at the provider or removes one.
ChangeUpstream ==
    /\ events < MaxEvents
    /\ events' = events + 1
    /\ \E k \in 0..account.config, z \in Zones :
         /\ upstream' = [upstream EXCEPT ![k] = IF z \in @ THEN @ \ {z} ELSE @ \cup {z}]
         /\ stayed' = [s \in Syncers |-> IF srow[s] # None /\ srow[s].config = k THEN stayed[s] \ {z} ELSE stayed[s]]
    /\ UNCHANGED <<markers, accountVars, tableVars, lock, spc, srow, position, listed,
                   disturbed, refreshVars>>

SyncStep(s) ==
    \/ AcquireAccount(s) \/ GetSyncClient(s) \/ ListPage(s) \/ PersistSync(s) \/ SyncConflict(s)
    \/ SyncRefused(s) \/ EndSync(s)

RefreshStep(f) ==
    \/ GetRefreshClient(f) \/ Ask(f) \/ UpsertZoneIndex(f) \/ MarkZoneDeleted(f)
    \/ RefreshConflict(f) \/ RefreshRefused(f)

Next ==
    \/ \E s \in Syncers : BeginSync(s) \/ AbandonSync(s) \/ SyncStep(s) \/ SyncFails(s)
    \/ \E f \in Refreshers : BeginRefresh(f) \/ RefreshStep(f) \/ RefreshFails(f)
    \/ TouchAccount \/ ReplaceConfig \/ DeleteAccount
    \/ ChangeUpstream

Spec == Init /\ [][Next]_vars

\* The scheduler's ticker goes on, waiters of a channel are served in turn, and a call or a
\* transaction ends, for each has a deadline.
Fairness ==
    /\ WF_vars(BeginSync(Scheduler))
    /\ \A s \in Syncers : WF_vars(SyncStep(s)) /\ SF_vars(AcquireAccount(s))
    /\ \A f \in Refreshers : WF_vars(RefreshStep(f))

FairSpec == Spec /\ Fairness

----------------------------------------------------------------------------
(* Properties. *)

TypeOK ==
    /\ markers \in BOOLEAN
    /\ upstream \in [0..MaxConfig -> SUBSET Zones]
    /\ events \in Nat
    /\ exists \in BOOLEAN
    /\ account \in Row /\ account.config <= MaxConfig
    /\ synced \in 0..MaxConfig \cup {None}
    /\ rows \subseteq Zones
    /\ visible \subseteq rows
    /\ from \in [Zones -> 0..MaxConfig]
    /\ lock \in Syncers \cup {None}
    /\ spc \in [Syncers -> SyncPcs]
    /\ srow \in [Syncers -> Row \cup {None}]
    /\ position \in [Syncers -> Nat]
    /\ listed \in [Syncers -> SUBSET Zones]
    /\ fpc \in [Refreshers -> RefreshPcs]
    /\ zone \in [Refreshers -> Zones \cup {0}]
    /\ frow \in [Refreshers -> Row \cup {None}]
    /\ found \in [Refreshers -> BOOLEAN]
    /\ stayed \in [Syncers -> SUBSET Zones]
    /\ disturbed \in [Syncers -> BOOLEAN]
    /\ overtaken \in [Refreshers -> BOOLEAN]
    /\ \A f \in Refreshers : fpc[f] # "idle" => zone[f] \in Zones

\* The index shows only zones that the account's present credentials and options gave, and a
\* time of the last sync only when that sync was made with them.
IndexIsOfThisAccount ==
    exists => /\ \A z \in visible : from[z] = account.config
              /\ synced \in {None, account.config}

\* Syncs do not make each other fail: one that meets a changed row was overtaken by
\* something that is not a sync.
SyncsDoNotCollide ==
    \A s \in Syncers : spc[s] = "persist" /\ account.version # srow[s].version => disturbed[s]

\* A refresh never changes what a sync has written since the provider answered the refresh.
RefreshesYieldToSyncs ==
    [][\A f \in Refreshers :
         (fpc[f] = "persist" /\ fpc'[f] = "idle" /\ visible' # visible) => ~overtaken[f]]_vars

\* The index of a disabled account gains no zone.
DisabledIndexGainsNothing == [][~account.enabled => visible' \subseteq visible]_vars

\* The commit of a sync.
Commits(s) == spc[s] = "persist" /\ spc'[s] = "release" /\ account' # account

\* A sync of a provider that pages with markers keeps every zone that the provider has had
\* all along.
MarkerSyncsKeepZones ==
    [][\A s \in Syncers : markers /\ Commits(s) => stayed[s] \subseteq visible']_vars

\* A sync soft-marks missing zones only: it keeps every zone that the provider has had all along.
SyncsHideMissingZonesOnly ==
    [][\A s \in Syncers : Commits(s) => stayed[s] \subseteq visible']_vars

\* A sync that waits for another one ends, one way or the other.
WaitingSyncsEnd == \A s \in Syncers : spc[s] = "wait" ~> spc[s] = "idle"

\* Once the provider and the account rest, the index of a usable account comes to be what
\* the provider has, and stays so.
IndexConverges == <>[](exists /\ account.enabled => visible = upstream[account.config])

==============================================================================
