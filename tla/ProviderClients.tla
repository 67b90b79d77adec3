--------------------------- MODULE ProviderClients ---------------------------
(***************************************************************************)
(* The provider client manager of one provider account, together with the  *)
(* account row it reads and the account operations that change that row    *)
(* (internal/service/provider_clients.go, provider_accounts.go and their   *)
(* statements in internal/db/provider_store.go).                           *)
(*                                                                         *)
(* Runtimes of different accounts share nothing, so one account is enough. *)
(* A request handler calls Get, which builds a provider client (or takes   *)
(* the cached one), and then makes bounded calls with it.  An              *)
(* administrator's handler changes the row in a transaction and            *)
(* invalidates the runtime before and after it.  A generation is cancelled *)
(* exactly when its runtime has moved on to a later one, so the context of *)
(* a generation needs no variable of its own.  A client is represented by  *)
(* the row it was built from.                                              *)
(***************************************************************************)
EXTENDS Naturals, FiniteSets

CONSTANTS
    Requests,       \* goroutines that use a client: lists, changes, syncs, validations
    Admins,         \* goroutines that change or delete the account
    Kinds,          \* what requests do, some of AllKinds
    Changes,        \* what administrators do, some of AllChanges
    Runtimes,       \* providerAccountRuntime values the account may ever get
    BuildAttempts,  \* maximumClientBuildAttempts, 3 in the code
    CallSlots,      \* maximumAccountConcurrency, 8 in the code
    MaxVersion,     \* bound of the exploration: writes of the account row
    MaxGeneration,  \* bound of the exploration: generations that start an operation
    None

\* ListRecordSets and other reads, record mutations, ValidateAccount, SyncAccount.
AllKinds == {"read", "write", "validate", "sync"}

\* UpdateAccount with a new name, options or enabled flag, ReplaceCredentials, DeleteAccount.
AllChanges == {"rename", "options", "enable", "disable", "replace", "delete"}

Row == [enabled : BOOLEAN, revision : Nat, options : Nat, version : Nat]

ASSUME BoundsAssumption ==
    /\ BuildAttempts \in Nat \ {0}
    /\ CallSlots \in Nat \ {0}
    /\ MaxVersion \in Nat
    /\ MaxGeneration \in Nat
ASSUME KindsAssumption == Kinds \subseteq AllKinds /\ Changes \subseteq AllChanges
ASSUME NoneAssumption == None \notin Requests \cup Runtimes \cup Row

VARIABLES
    \* The provider_accounts row.
    exists,     \* whether it is there
    account,    \* the columns a client depends on; version stands for updated_at
    status,     \* validation_status
    checked,    \* the configuration the provider accepted when status became "valid"
    \* ProviderClientManager.accounts and its runtimes.
    live,       \* the runtime in the map, or None
    created,    \* the runtimes made so far
    gen,        \* generation
    cached,     \* the cached client, or None
    builder,    \* who is in the build channel, or None
    calls,      \* who is in the calls channel
    mutation,   \* who is in the mutations channel, or None
    \* The requests.
    pc,         \* where each one is
    kind,       \* what it does
    home,       \* its runtime
    seen,       \* the generation it works under
    row,        \* the row it read, and then the one its client was built from
    expect,     \* the row its last statement is guarded with
    tries,      \* snapshots taken
    since,      \* the version of the row when it came in
    \* The administrators.
    apc,        \* where each one is
    op,         \* the change
    before,     \* the row it read
    removed,    \* the runtime it took out of the map
    lost        \* a change committed, its reply was lost, and no Invalidate followed

rowVars == <<exists, account, status, checked>>
mapVars == <<live, created>>
channelVars == <<builder, calls, mutation>>
runtimeVars == <<gen, cached, channelVars>>
localVars == <<kind, home, seen, row, expect, tries, since>>
adminVars == <<apc, op, before, removed, lost>>
vars == <<rowVars, mapVars, runtimeVars, pc, localVars, adminVars>>

----------------------------------------------------------------------------
\* Request states in which the build channel of the runtime is held.
Building == {"snapshot", "load", "lookup", "reread", "store"}

\* Request states in which a slot of the calls channel is held.
InSlot == {"recheck", "calling"}

\* Request states of a mutation in which the mutations channel is held.
InMutation == {"enter", "slot"} \cup InSlot

\* Request states after Get has returned a client.
Holding == {"held"} \cup InMutation

Pcs == {"idle", "build", "persist", "persistError"} \cup Building \cup Holding

\* The part of a row a provider client is built from.
Config(rec) == <<rec.revision, rec.options>>

\* CreateAccount has made the account, enabled or not, with credentials or without.
Init ==
    /\ exists = TRUE
    /\ \E enabled \in BOOLEAN, revision \in {0, 1} :
         /\ account = [enabled |-> enabled, revision |-> revision, options |-> 0, version |-> 0]
         /\ status = IF revision = 0 THEN "unconfigured" ELSE "pending"
    /\ checked = None
    /\ live = None
    /\ created = {}
    /\ gen = [x \in Runtimes |-> 1]
    /\ cached = [x \in Runtimes |-> None]
    /\ builder = [x \in Runtimes |-> None]
    /\ calls = [x \in Runtimes |-> {}]
    /\ mutation = [x \in Runtimes |-> None]
    /\ pc = [r \in Requests |-> "idle"]
    /\ kind = [r \in Requests |-> "read"]
    /\ home = [r \in Requests |-> None]
    /\ seen = [r \in Requests |-> 0]
    /\ row = [r \in Requests |-> None]
    /\ expect = [r \in Requests |-> None]
    /\ tries = [r \in Requests |-> 0]
    /\ since = [r \in Requests |-> 0]
    /\ apc = [a \in Admins |-> "idle"]
    /\ op = [a \in Admins |-> "rename"]
    /\ before = [a \in Admins |-> None]
    /\ removed = [a \in Admins |-> None]
    /\ lost = FALSE

----------------------------------------------------------------------------
(* Helpers. *)

\* providerAccountRuntime.current for the generation a request was given.
Current(r) == gen[home[r]] = seen[r]

\* ProviderClientManager.accountRuntime: the runtime in the map, or a new one.
RuntimeFor(x) == IF live = None THEN x \notin created ELSE x = live

\* CacheHit for any row.
CacheHitAnyRow(r) == Current(r) /\ cached[home[r]] # None

\* providerAccountRuntime.cached: whether the cached client serves the row just read.
CacheHit(r) ==
    /\ Current(r)
    /\ cached[home[r]] # None
    /\ cached[home[r]].enabled
    /\ cached[home[r]].revision = row[r].revision
    /\ cached[home[r]].version = row[r].version
    /\ cached[home[r]].options = row[r].options

\* providerAccountRuntime.invalidate on the runtime x, or nothing when there is none.
InvalidateRuntime(x) ==
    IF x = None THEN UNCHANGED <<gen, cached>>
    ELSE /\ gen' = [gen EXCEPT ![x] = @ + 1]
         /\ cached' = [cached EXCEPT ![x] = None]

\* A request leaves.
Leave(r) ==
    /\ pc' = [pc EXCEPT ![r] = "idle"]
    /\ kind' = [kind EXCEPT ![r] = "read"]
    /\ home' = [home EXCEPT ![r] = None]
    /\ seen' = [seen EXCEPT ![r] = 0]
    /\ row' = [row EXCEPT ![r] = None]
    /\ expect' = [expect EXCEPT ![r] = None]
    /\ tries' = [tries EXCEPT ![r] = 0]
    /\ since' = [since EXCEPT ![r] = 0]

\* What ends with an error; ValidateAccount still records that the check failed.
Fail(r) ==
    IF kind[r] = "validate"
    THEN pc' = [pc EXCEPT ![r] = "persistError"] /\ UNCHANGED localVars
    ELSE Leave(r)

----------------------------------------------------------------------------
(* ProviderClientManager.Get. *)

\* The handler starts: ValidateAccount reads the row it will guard its result with,
\* and accountRuntime finds or makes the runtime.
BeginGet(r) ==
    /\ pc[r] = "idle"
    /\ pc' = [pc EXCEPT ![r] = "build"]
    /\ \E k \in Kinds, x \in Runtimes :
         /\ k = "validate" => exists
         /\ RuntimeFor(x)
         /\ live' = x
         /\ created' = created \cup {x}
         /\ kind' = [kind EXCEPT ![r] = k]
         /\ home' = [home EXCEPT ![r] = x]
         /\ expect' = [expect EXCEPT ![r] = IF k = "validate" THEN account ELSE None]
    /\ since' = [since EXCEPT ![r] = account.version]
    /\ UNCHANGED <<rowVars, runtimeVars, seen, row, tries, adminVars>>

AcquireBuild(r) ==
    /\ pc[r] = "build"
    /\ builder[home[r]] = None
    /\ builder' = [builder EXCEPT ![home[r]] = r]
    /\ pc' = [pc EXCEPT ![r] = "snapshot"]
    /\ UNCHANGED <<rowVars, mapVars, gen, cached, calls, mutation, localVars, adminVars>>

\* The request's context ends while it waits for the build channel.
AbandonBuild(r) ==
    /\ pc[r] = "build"
    /\ Fail(r)
    /\ UNCHANGED <<rowVars, mapVars, runtimeVars, adminVars>>

Snapshot(r) ==
    /\ pc[r] = "snapshot"
    /\ tries[r] < BuildAttempts
    /\ tries' = [tries EXCEPT ![r] = @ + 1]
    /\ seen' = [seen EXCEPT ![r] = gen[home[r]]]
    /\ pc' = [pc EXCEPT ![r] = "load"]
    /\ UNCHANGED <<rowVars, mapVars, runtimeVars, kind, home, row, expect, since, adminVars>>

\* When Get may return with an error: the attempts are used up, the row is missing,
\* disabled or has no credential, or the database, the vault or the factory fails.
GetMayFail(r) ==
    \/ pc[r] = "snapshot" /\ tries[r] = BuildAttempts
    \/ pc[r] \in {"load", "lookup", "reread"}

GetFails(r) ==
    /\ GetMayFail(r)
    /\ builder' = [builder EXCEPT ![home[r]] = None]
    /\ Fail(r)
    /\ UNCHANGED <<rowVars, mapVars, gen, cached, calls, mutation, adminVars>>

\* The generation ended between the snapshot and the test of its context.
SkipStale(r) ==
    /\ pc[r] = "load"
    /\ ~Current(r)
    /\ pc' = [pc EXCEPT ![r] = "snapshot"]
    /\ UNCHANGED <<rowVars, mapVars, runtimeVars, localVars, adminVars>>

Load(r) ==
    /\ pc[r] = "load"
    /\ exists /\ account.enabled /\ account.revision # 0
    /\ row' = [row EXCEPT ![r] = account]
    /\ pc' = [pc EXCEPT ![r] = "lookup"]
    /\ UNCHANGED <<rowVars, mapVars, runtimeVars, kind, home, seen, expect, tries, since, adminVars>>

\* Get returns a client and the row: ValidateAccount keeps the row it read first,
\* SyncAccount takes this one.
GetReturns(r, client) ==
    /\ pc' = [pc EXCEPT ![r] = "held"]
    /\ row' = [row EXCEPT ![r] = client]
    /\ expect' = [expect EXCEPT ![r] = IF kind[r] = "sync" THEN row[r] ELSE @]
    /\ tries' = [tries EXCEPT ![r] = 0]
    /\ since' = [since EXCEPT ![r] = 0]
    /\ builder' = [builder EXCEPT ![home[r]] = None]
    /\ UNCHANGED <<rowVars, mapVars, gen, calls, mutation, kind, home, seen, adminVars>>

\* ReturnCached with the entry dropped before it is returned.
ReturnDropped(r) ==
    /\ pc[r] = "lookup"
    /\ CacheHit(r)
    /\ cached' = [cached EXCEPT ![home[r]] = None]
    /\ GetReturns(r, None)

ReturnCached(r) ==
    /\ pc[r] = "lookup"
    /\ CacheHit(r)
    /\ GetReturns(r, cached[home[r]])
    /\ UNCHANGED cached

\* cached found nothing usable (and dropped what it found), so a client is built.
Build(r) ==
    /\ pc[r] = "lookup"
    /\ ~CacheHit(r)
    /\ cached' = [cached EXCEPT ![home[r]] = IF Current(r) THEN None ELSE @]
    /\ pc' = [pc EXCEPT ![r] = "reread"]
    /\ UNCHANGED <<rowVars, mapVars, gen, channelVars, localVars, adminVars>>

\* The row is read again: another attempt unless it is the one the client was built from.
Reread(r) ==
    /\ pc[r] = "reread"
    /\ exists
    /\ IF account.enabled /\ account.version = row[r].version /\ Config(account) = Config(row[r])
       THEN pc' = [pc EXCEPT ![r] = "store"] /\ UNCHANGED row
       ELSE pc' = [pc EXCEPT ![r] = "snapshot"] /\ row' = [row EXCEPT ![r] = None]
    /\ UNCHANGED <<rowVars, mapVars, runtimeVars, kind, home, seen, expect, tries, since, adminVars>>

Store(r) ==
    /\ pc[r] = "store"
    /\ Current(r)
    /\ cached' = [cached EXCEPT ![home[r]] = row[r]]
    /\ GetReturns(r, row[r])

\* store refuses the client of an ended generation.
StoreRefused(r) ==
    /\ pc[r] = "store"
    /\ ~Current(r)
    /\ pc' = [pc EXCEPT ![r] = "snapshot"]
    /\ row' = [row EXCEPT ![r] = None]
    /\ UNCHANGED <<rowVars, mapVars, runtimeVars, kind, home, seen, expect, tries, since, adminVars>>

\* The cache lifetime ends: the timer's callback, or cached finding the entry too old.
Expire(x) ==
    /\ cached[x] # None
    /\ cached' = [cached EXCEPT ![x] = None]
    /\ UNCHANGED <<rowVars, mapVars, gen, channelVars, pc, localVars, adminVars>>

----------------------------------------------------------------------------
(* providerCall and providerMutationCall. *)

\* AcquireMutation that does not wait.
AcquireMutationAnyway(r) ==
    /\ pc[r] = "held"
    /\ kind[r] = "write"
    /\ mutation' = [mutation EXCEPT ![home[r]] = r]
    /\ pc' = [pc EXCEPT ![r] = "enter"]
    /\ UNCHANGED <<rowVars, mapVars, gen, cached, builder, calls, localVars, adminVars>>

\* A mutation waits for the mutations channel first.
AcquireMutation(r) ==
    /\ pc[r] = "held"
    /\ kind[r] = "write"
    /\ mutation[home[r]] = None
    /\ mutation' = [mutation EXCEPT ![home[r]] = r]
    /\ pc' = [pc EXCEPT ![r] = "enter"]
    /\ UNCHANGED <<rowVars, mapVars, gen, cached, builder, calls, localVars, adminVars>>

\* Release for a call that leaves its slot behind.
ReleaseMutationOnly(r) ==
    /\ mutation' = [mutation EXCEPT ![home[r]] = IF @ = r THEN None ELSE @]
    /\ UNCHANGED <<calls, gen, cached, builder>>

\* Release for a mutation that gives its slot back and keeps the mutations channel.
ReleaseSlotOnly(r) ==
    /\ calls' = [calls EXCEPT ![home[r]] = @ \ {r}]
    /\ UNCHANGED <<mutation, gen, cached, builder>>

\* A call gives back what it holds, whichever way it ends.
Release(r) ==
    /\ mutation' = [mutation EXCEPT ![home[r]] = IF @ = r THEN None ELSE @]
    /\ calls' = [calls EXCEPT ![home[r]] = @ \ {r}]
    /\ UNCHANGED <<gen, cached, builder>>

\* The call fails: its generation has ended, or the request's context or the call timeout.
CallFails(r) ==
    /\ \/ pc[r] \in {"held", "slot", "recheck", "calling"}
       \/ pc[r] = "enter" /\ ~Current(r)
    /\ Release(r)
    /\ Fail(r)
    /\ UNCHANGED <<rowVars, mapVars, adminVars>>

CheckGeneration(r) ==
    /\ pc[r] = IF kind[r] = "write" THEN "enter" ELSE "held"
    /\ Current(r)
    /\ pc' = [pc EXCEPT ![r] = "slot"]
    /\ UNCHANGED <<rowVars, mapVars, runtimeVars, localVars, adminVars>>

AcquireSlot(r) ==
    /\ pc[r] = "slot"
    /\ Cardinality(calls[home[r]]) < CallSlots
    /\ calls' = [calls EXCEPT ![home[r]] = @ \cup {r}]
    /\ pc' = [pc EXCEPT ![r] = "recheck"]
    /\ UNCHANGED <<rowVars, mapVars, gen, cached, builder, mutation, localVars, adminVars>>

StartCall(r) ==
    /\ pc[r] = "recheck"
    /\ Current(r)
    /\ pc' = [pc EXCEPT ![r] = "calling"]
    /\ UNCHANGED <<rowVars, mapVars, runtimeVars, localVars, adminVars>>

\* The call returns.  The handler makes another one (a page, a batch item), leaves, or
\* goes on to persist what it learnt.
EndCall(r) ==
    /\ pc[r] = "calling"
    /\ Release(r)
    /\ \/ kind[r] # "validate" /\ pc' = [pc EXCEPT ![r] = "held"] /\ UNCHANGED localVars
       \/ kind[r] \in {"read", "write"} /\ Leave(r)
       \/ kind[r] \in {"validate", "sync"} /\ pc' = [pc EXCEPT ![r] = "persist"] /\ UNCHANGED localVars
    /\ UNCHANGED <<rowVars, mapVars, adminVars>>

----------------------------------------------------------------------------
(* The statements that write the row at the end of a validation or a sync. *)

\* RowUnchangedSince without the columns it compares.
RowStillThere(rec) == exists

\* The optimistic guard of SetProviderAccountValidation and ReplaceZoneIndex.
RowUnchangedSince(rec) ==
    exists /\ account.revision = rec.revision /\ account.version = rec.version

Persist(r) ==
    /\ pc[r] \in {"persist", "persistError"}
    /\ RowUnchangedSince(expect[r])
    /\ account.version < MaxVersion
    /\ account' = [account EXCEPT !.version = @ + 1]
    /\ IF kind[r] # "validate" THEN UNCHANGED <<status, checked>>
       ELSE IF pc[r] = "persist" THEN status' = "valid" /\ checked' = Config(row[r])
       ELSE status' = "error" /\ checked' = None
    /\ Leave(r)
    /\ UNCHANGED <<exists, mapVars, runtimeVars, adminVars>>

\* The row changed in between, or the statement fails: nothing is written.
PersistFails(r) ==
    /\ pc[r] \in {"persist", "persistError"}
    /\ Leave(r)
    /\ UNCHANGED <<rowVars, mapVars, runtimeVars, adminVars>>

----------------------------------------------------------------------------
(* UpdateAccount, ReplaceCredentials and DeleteAccount. *)

AdminLeaves(a) ==
    /\ apc' = [apc EXCEPT ![a] = "idle"]
    /\ op' = [op EXCEPT ![a] = "rename"]
    /\ before' = [before EXCEPT ![a] = None]
    /\ removed' = [removed EXCEPT ![a] = None]

\* The handler reads the row (a deletion does not) and invalidates the runtime.
BeginChange(a) ==
    /\ apc[a] = "idle"
    /\ \A x \in Runtimes : gen[x] <= MaxGeneration
    /\ \E change \in Changes :
         /\ change # "delete" => exists
         /\ op' = [op EXCEPT ![a] = change]
         /\ before' = [before EXCEPT ![a] = IF change = "delete" THEN None ELSE account]
         /\ apc' = [apc EXCEPT ![a] =
                      IF change \in {"options", "enable", "disable"} THEN "again" ELSE "commit"]
    /\ InvalidateRuntime(live)
    /\ lost' = FALSE
    /\ UNCHANGED <<rowVars, mapVars, channelVars, pc, localVars, removed>>

\* UpdateAccount invalidates once more before a transaction that changes the configuration.
InvalidateAgain(a) ==
    /\ apc[a] = "again"
    /\ apc' = [apc EXCEPT ![a] = "commit"]
    /\ InvalidateRuntime(live)
    /\ lost' = FALSE
    /\ UNCHANGED <<rowVars, mapVars, channelVars, pc, localVars, op, before, removed>>

\* The input is refused, or the transaction fails and rolls back.
ChangeFails(a) ==
    /\ apc[a] \in {"again", "commit"}
    /\ AdminLeaves(a)
    /\ UNCHANGED <<rowVars, mapVars, runtimeVars, pc, localVars, lost>>

\* The WHERE clause of the statement that applies the change.
ChangeGuard(a) ==
    /\ exists
    /\ op[a] = "replace" => account.revision = before[a].revision
    /\ op[a] \notin {"replace", "delete"} => account.version = before[a].version

\* What the statement writes.
Apply(change) ==
    IF change = "delete"
    THEN exists' = FALSE /\ UNCHANGED <<account, status, checked>>
    ELSE /\ account' = [enabled  |-> CASE change = "enable" -> TRUE
                                      [] change = "disable" -> FALSE
                                      [] OTHER -> account.enabled,
                        revision |-> account.revision + (IF change = "replace" THEN 1 ELSE 0),
                        options  |-> account.options + (IF change = "options" THEN 1 ELSE 0),
                        version  |-> account.version + 1]
         /\ IF change \in {"replace", "options"}
            THEN /\ status' = IF account'.revision > 0 THEN "pending" ELSE "unconfigured"
                 /\ checked' = None
            ELSE UNCHANGED <<status, checked>>
         /\ UNCHANGED exists

\* The transaction commits.  A change of the configuration is announced next; when the
\* reply to the commit is lost the handler returns an error and announces nothing.
Commit(a) ==
    /\ apc[a] = "commit"
    /\ account.version < MaxVersion
    /\ ChangeGuard(a)
    /\ Apply(op[a])
    /\ \/ op[a] = "rename" /\ AdminLeaves(a) /\ UNCHANGED lost
       \/ op[a] # "rename" /\ AdminLeaves(a) /\ lost' = TRUE
       \/ /\ op[a] # "rename"
          /\ apc' = [apc EXCEPT ![a] = "announce"]
          /\ UNCHANGED <<op, before, removed, lost>>
    /\ UNCHANGED <<mapVars, runtimeVars, pc, localVars>>

\* Announce without the Invalidate after the transaction.
AnnounceNothing(a) ==
    /\ apc[a] = "announce"
    /\ op[a] # "delete"
    /\ AdminLeaves(a)
    /\ UNCHANGED <<rowVars, mapVars, runtimeVars, pc, localVars, lost>>

\* Invalidate after the transaction.
Announce(a) ==
    /\ apc[a] = "announce"
    /\ op[a] # "delete"
    /\ InvalidateRuntime(live)
    /\ lost' = FALSE
    /\ AdminLeaves(a)
    /\ UNCHANGED <<rowVars, mapVars, channelVars, pc, localVars>>

\* Remove after a deletion: the manager forgets the runtime ...
Remove(a) ==
    /\ apc[a] = "announce"
    /\ op[a] = "delete"
    /\ apc' = [apc EXCEPT ![a] = "cancel"]
    /\ removed' = [removed EXCEPT ![a] = live]
    /\ live' = None
    /\ UNCHANGED <<rowVars, created, runtimeVars, pc, localVars, op, before, lost>>

\* ... and then invalidates it.
CancelRemoved(a) ==
    /\ apc[a] = "cancel"
    /\ InvalidateRuntime(removed[a])
    /\ AdminLeaves(a)
    /\ UNCHANGED <<rowVars, mapVars, channelVars, pc, localVars, lost>>

----------------------------------------------------------------------------
GetStep(r) ==
    \/ BeginGet(r) \/ AcquireBuild(r) \/ AbandonBuild(r) \/ Snapshot(r) \/ GetFails(r)
    \/ SkipStale(r) \/ Load(r) \/ ReturnCached(r) \/ Build(r) \/ Reread(r) \/ Store(r)
    \/ StoreRefused(r)

CallStep(r) ==
    \/ AcquireMutation(r) \/ CallFails(r) \/ CheckGeneration(r) \/ AcquireSlot(r)
    \/ StartCall(r) \/ EndCall(r) \/ Persist(r) \/ PersistFails(r)

AdminStep(a) ==
    \/ BeginChange(a) \/ InvalidateAgain(a) \/ ChangeFails(a) \/ Commit(a) \/ Announce(a)
    \/ Remove(a) \/ CancelRemoved(a)

Next ==
    \/ \E r \in Requests : GetStep(r) \/ CallStep(r)
    \/ \E x \in Runtimes : Expire(x)
    \/ \E a \in Admins : AdminStep(a)

\* The steps a handler takes without waiting for another one: statements, builds and
\* provider calls are bounded by timeouts, and a call whose generation has ended fails
\* before it waits for anything.
Unblocked(r) ==
    \/ Snapshot(r) \/ GetFails(r) \/ SkipStale(r) \/ Load(r) \/ ReturnCached(r) \/ Build(r)
    \/ Reread(r) \/ Store(r) \/ StoreRefused(r) \/ CheckGeneration(r) \/ StartCall(r)
    \/ EndCall(r) \/ Persist(r) \/ PersistFails(r)
    \/ pc[r] \notin {"held", "slot"} /\ CallFails(r)
    \/ pc[r] = "held" /\ kind[r] # "write" /\ ~Current(r) /\ CallFails(r)

\* A Go channel serves its waiting senders in order, so who waits for a channel that is
\* freed again and again gets it.  No request is assumed to give up.
Fairness ==
    \A r \in Requests :
        /\ WF_vars(Unblocked(r))
        /\ SF_vars(AcquireBuild(r) \/ AcquireMutation(r) \/ AcquireSlot(r))

Spec == Init /\ [][Next]_vars

FairSpec == Spec /\ Fairness

----------------------------------------------------------------------------
(* Properties. *)

TypeOK ==
    /\ exists \in BOOLEAN
    /\ account \in Row
    /\ status \in {"unconfigured", "pending", "valid", "error"}
    /\ checked \in (Nat \X Nat) \cup {None}
    /\ live \in created \cup {None}
    /\ created \in SUBSET Runtimes
    /\ gen \in [Runtimes -> Nat]
    /\ cached \in [Runtimes -> Row \cup {None}]
    /\ builder \in [Runtimes -> Requests \cup {None}]
    /\ calls \in [Runtimes -> SUBSET Requests]
    /\ mutation \in [Runtimes -> Requests \cup {None}]
    /\ pc \in [Requests -> Pcs]
    /\ kind \in [Requests -> AllKinds]
    /\ home \in [Requests -> Runtimes \cup {None}]
    /\ seen \in [Requests -> Nat]
    /\ row \in [Requests -> Row \cup {None}]
    /\ expect \in [Requests -> Row \cup {None}]
    /\ tries \in [Requests -> Nat]
    /\ since \in [Requests -> Nat]
    /\ \A r \in Requests :
         /\ pc[r] # "idle" => home[r] \in created
         /\ pc[r] \in {"lookup", "reread", "store", "persist"} \cup Holding => row[r] \in Row
    /\ apc \in [Admins -> {"idle", "again", "commit", "announce", "cancel"}]
    /\ op \in [Admins -> AllChanges]
    /\ before \in [Admins -> Row \cup {None}]
    /\ removed \in [Admins -> created \cup {None}]
    /\ lost \in BOOLEAN

\* A committed change whose Invalidate has not run: the handler is about to call it, or
\* it never will because the reply to the commit was lost.
Unannounced == lost \/ \E a \in Admins : apc[a] \in {"announce", "cancel"}

\* Once every committed change is announced, a provider call whose context is not
\* cancelled uses the credentials and the options of the row, and the account exists and
\* is enabled (generation tests in store, providerCall and Invalidate after the commit).
LiveCallsUseCurrentAccount ==
    \A r \in Requests :
        pc[r] = "calling" /\ Current(r) /\ ~Unannounced
        => exists /\ account.enabled /\ Config(row[r]) = Config(account)

\* Get never returns a client older than the row was when the request came in, even when
\* it comes from the cache and whatever was announced or lost.
GetIsFresh ==
    [][\A r \in Requests :
         pc[r] \in Building /\ pc'[r] = "held" => row'[r].version >= since[r]]_vars

\* Mutations of one account are made one at a time, also across the removal of a runtime
\* and the creation of another one.
OneMutationAtATime ==
    \A r, s \in Requests :
        (/\ pc[r] = "calling" /\ pc[s] = "calling"
         /\ kind[r] = "write" /\ kind[s] = "write") => r = s

\* Whatever way a handler leaves, the channels of every runtime hold exactly the
\* requests that are inside: no slot is lost and none is released twice.
ChannelsAccounted ==
    \A x \in Runtimes :
        /\ calls[x] = {r \in Requests : home[r] = x /\ pc[r] \in InSlot}
        /\ Cardinality(calls[x]) <= CallSlots
        /\ \A r \in Requests : builder[x] = r <=> home[r] = x /\ pc[r] \in Building
        /\ \A r \in Requests :
             mutation[x] = r <=> home[r] = x /\ kind[r] = "write" /\ pc[r] \in InMutation

\* "valid" is never shown for credentials or options other than those the provider
\* accepted: a validation that raced a change is refused.
ValidIsAboutThisAccount == status = "valid" => checked = Config(account)

\* No request waits for ever for a channel of the account.  One that holds a client enters
\* its call: a mutation gets the mutations channel, whoever had it before, and other calls
\* come to wait for a slot.  And one that waits for the build channel or a slot, or is in the
\* middle of Get or of a call, comes to hold a client or ends.
RequestsGetOn ==
    \A r \in Requests :
        /\ pc[r] = "held" ~> pc[r] # "held"
        /\ pc[r] \notin {"idle", "held"} ~> pc[r] \in {"idle", "held"}

============================================================================
