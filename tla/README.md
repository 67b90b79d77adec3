# A verification project for aster-dns

aster-dns manages DNS zones and records at four providers (Huawei Cloud, Alibaba Cloud,
Tencent Cloud, Cloudflare) behind one HTTP API. The provider is the source of truth for
zones and records; PostgreSQL holds users, sessions, provider accounts with their
encrypted credentials, an index of zones and the audit events. This directory holds
TLA+ modules of its core, the configurations that check them with TLC, and theorems about
them checked with TLAPS.

    tlasany ZoneIndex.tla                            # parse
    tlc -workers 2 -config ZoneIndex.cfg MCZoneIndex # model-check
    tlapm ZoneIndexProofs.tla                        # check the proofs

Paths below are relative to `src/internal` unless they begin with `docs/` or `spec/`.

## 1. Inventory

### Components

| component | state | operations | hard because of |
|---|---|---|---|
| provider client manager, `service/provider_clients.go` | a map of runtimes, one per account: build, call and mutation channels, generation, cached client with an expiry timer | `Get`, `Invalidate`, `Remove`, bounded calls | row read, client built, row changed; ended generations; channels held across failures |
| provider account service, `service/provider_accounts.go` | the `provider_accounts` row | create, update, replace credentials, delete, validate | invalidation before and after a transaction whose reply may be lost; optimistic guards |
| record cache and record mutations, `service/dns.go` | one cache entry and one generation per zone, in memory | list, get, create, update, delete, batch, invalidate | fills racing mutations; requests applied after their caller gave up; fallback on old entries |
| zone index, `service/zone_sync.go`, `RefreshZone` in `service/dns.go`, `db/provider_store.go` | the `zones` rows, `last_zone_sync_at`, one channel per account | sync, refresh, invalidate the index | minutes between reading the account and writing the index; pages of a changing list |
| scheduler, `app/app.go` | a ticker | one sync of every enabled account after another | must let the index converge; meets API syncs |
| provider adapters, `provider/*` | none, the provider keeps it | list, get, create, update, delete | mutations of several calls without compensation; pagination by offset or marker |
| users and authentication methods, `auth/users.go`, `passkeys.go`, `password_settings.go`, `totp_settings.go`, `enrollment.go`, `bootstrap.go` | users, passkeys, TOTP credentials | administration of users, settings of one user | reads before a transaction; last administrator, last method |
| sessions and challenges, `auth/login.go`, `passkey_login.go`, `sessions.go` | sessions, one-time challenges | login in one or two steps, logout, revocation | logins racing revocations; single use |
| login limiter, `auth/limiter.go` | token buckets, at most 10,000 | `Allow` | eviction |
| credential vault, `crypto/*` | key ring, read only | encrypt, decrypt | nothing concurrent |
| audit, `audit/*`, `db/audit_store.go` | append-only events | insert, query | partial failure after an applied change |
| HTTP API, middleware, configuration, migrations, web console | none, or start-up only | | |

### How they interact

- Handlers run concurrently as goroutines of one process (`docs/OPERATIONS.md:7` allows
  one replica). They share the runtimes, the record cache and the channels of the syncs in
  memory, and rows in PostgreSQL. `WithinTx` is SERIALIZABLE; single statements outside it
  are atomic.
- Whoever needs a provider calls `Get`, which returns a client and the row it was built
  from. `updated_at` and `credential_revision` of that row guard the later writes
  (`SetProviderAccountValidation`, `ReplaceZoneIndex`, `UpsertZoneIndex`,
  `MarkZoneDeleted`).
- An account operation invalidates the client and the record cache, runs its transaction,
  and invalidates again. A generation counter per runtime (and another per zone in the
  record cache) makes results of earlier work unusable.
- A record mutation invalidates the zone's cache entry before the provider call, after it
  has succeeded, and, deferred, whenever it returns.

### What makes each correct

- Clients: after a change is announced no admitted call uses the old configuration; the
  channels are neither leaked nor shared; nobody starves.
- Account: a validation result is only ever about the configuration it tested.
- Record cache: whoever lists after a mutation returned sees it; nothing read with an
  older account row is shown; what is not flagged as stale is recent; a precondition
  protects what was reported.
- Adapters: a mutation of several provider calls never takes an old record away before the
  new ones are there, touches nothing else, says "done" only when it is, and does no harm
  when it is sent again; no call leaves the zone in a state that the adapter cannot list.
- Zone index: only zones of the present configuration are visible; writers that were
  overtaken give way; syncs do not collide; the index converges.
- Authentication: an active administrator remains, every user keeps a method to log in,
  who is disabled gains nothing, a code of the second factor is used once and only with
  the secret it belongs to, and the two tables that know of a second factor agree.

The hazards behind these are listed with their lines in `PROJECT.json`.

## 2. Modules

| module | models |
|---|---|
| `ProviderClients` | one account: its row, its runtimes, requests that `Get` a client and call with it, administrators that change it |
| `RecordService` | what the service promises those who list and change the records of a zone |
| `RecordCache` | one zone: its cached records, list requests, mutations, the provider, a clock; implements `RecordService` |
| `ZoneIndex` | one account: its zones at the provider and in the index, syncs with their pages, refreshes, account operations |
| `ProviderRecords` | what the adapters share: normal forms, fingerprints, grouping of records into record sets, the provider's side of a call |
| `AliyunAdapter`, `TencentAdapter`, `CloudflareAdapter`, `HuaweiAdapter` | one adapter each: what it reads, what it refuses, which calls it plans, which final read satisfies it |
| `RecordSetChange` | what every adapter promises of a change of one record set |
| `RecordMutations` | one mutation carried out by one of the adapters, with its faults; implements `RecordSetChange` |
| `AuthAccounts` | users, their passwords, passkeys and second factor, sessions, grants and pending logins, and the requests that change them |
| `ProviderClientsProofs`, `RecordCacheProofs`, `RecordSetChangeProofs`, `ZoneIndexProofs`, `AuthAccountsProofs` | the theorems |
| `SequenceLemmas`, `RecordPlansProofs`, `RecordMutationsProofs` | the theorems about `RecordMutations`: facts about lists of calls, what the plans of each adapter are made of and what their last reads show, and the mutation itself |
| `MCProviderClients`, `MCRecordCache`, `MCRecordMutations`, `MCZoneIndex`, `MCAuthAccounts` | model values, operations, zones and symmetry for TLC |

Definitions whose name is another definition's with a qualification (`AnnounceNothing`,
`CacheHitAnyRow`, `StampWithoutUpdate`, ...) are not part of the next-state relations: each
states what the code would do with one plausible mistake, and the property it belongs to
fails with it.

### ProviderClients

State: the row (`exists`, `account`, `status`), the manager's map (`live`, `created`), per
runtime the generation, the cached client and the holders of its channels, per request
where it is and what it holds (`pc`, `home`, `seen`, `row`), per administrator where the
operation is. A client is represented by the row it was built from; `version` is
`updated_at`. A generation's context is cancelled exactly when the runtime has moved on,
which is `~Current(r)`, so contexts need no variable. A request is one of four kinds:
reads, mutations (which take the mutations channel first), validations and syncs (which
write the row at the end).

One action per step between two points where another goroutine can be seen: `BeginGet`
(the map), `AcquireBuild`, `Snapshot`, `Load` (the row with its credential), `ReturnCached`
or `Build`, `Reread`, `Store`; then `AcquireMutation`, `CheckGeneration`, `AcquireSlot`,
`StartCall`, `EndCall`, and `Persist`. Every wait can be abandoned and every statement,
build or call can fail. An administrator takes `BeginChange`, `InvalidateAgain`,
`Commit`, `Announce`; a deletion ends with `Remove` and `CancelRemoved`, which the code
does not do under one lock. `Commit` may lose its reply, and then nothing is announced
(`lost`).

A call in state `calling` whose generation has ended runs with a cancelled context; the
property about calls is therefore about current ones. A validation records `checked`, the
configuration the provider accepted; it is not a column but what the status claims.
`invalid` and `error` are both `error`.

### RecordCache

State: `content[c]` counts the changes made to a record set at the provider, which stands
for its content and its fingerprint; `cached` and `generation` are `recordCache[zone]`;
lists and mutations have a state each. `GetClient` returns a client at least as new as the
row when the list came in, which is `GetIsFresh` of `ProviderClients`. The provider applies
a mutation in `Apply`, or after the caller gave up in `LateApply`, and others change
records past the service in `OutsideChange`. `late` requests are never tied to a caller.

`RecordService` is the same service without a cache, generations or calls: a list is asked for and
answered, a mutation is submitted, carried out and reported. Its variables are functions of
those of `RecordCache` (`Service`): `reported` is `settled`, a list shows the contents of the
entry it returns, and a mutation is a task `[on, expects, change]` from `BeginMutation` until
`DeferredInvalidate`, the step that returns. What the cache does between these maps to stutters.

The pages are those of Alibaba Cloud, Tencent Cloud and Cloudflare. `listing` holds the record sets there are,
in the order in which the adapter lists them, which every change may alter; the list starts in any state.
`cursor` is an offset, and `FetchPage` cuts a page at that offset out of the list as it is now, since the adapter
lists the whole zone again for every page; a page may be shorter, because an adapter may need several native
calls for its list. An offset beyond the list and a record set that was read before make the fetch fail. A set removed
between two pages moves the others up, and the one that moves across the offset is on no page: such a list
leaves it out (its content is `None`), is cached and is not flagged. The properties say what that
takes: a list leaves a record set out only if another set, which it does show, was changed or removed after it
was read. `RecordService` promises just this too. Creations, updates and deletions are `Kinds`. The
markers of Huawei Cloud do not shift, so its lists have fewer behaviours than these.

One choice worth knowing: a mutation of several provider calls is one change here. That
its calls are a change of one record set is what `RecordMutations` shows.

### ProviderRecords and the adapters

These modules are operators only. A record set is `[id, name, type, ttl, entries, ext,
fingerprint]`; its ID is the set of the IDs of its records, as `encodeRecordSetID` makes it
(Huawei's is the provider's own). An entry is `[id, text, num, ext]`: `text` for the value or
the target, `num` for the numeric fields, `ext` for the fields of one provider. A text is a
word inside some levels of quotation marks, because quotation marks are what the
conversions add and remove: Alibaba and Tencent Cloud send CAA values quoted and TXT values as
they are, Cloudflare and Huawei Cloud quote TXT, and reading takes one or two levels off.
`CanonicalTXT` takes off one level each time, as `canonicalizeTXT` does. The service normalises what an
adapter returns once more (`Shown` in `RecordMutations`), and what a client sends before the adapter does (`Admit`), so
a text may lose two levels on either way. A TXT value that Alibaba Cloud keeps inside two levels of quotation marks is
therefore shown without any. Sent back as it was shown, it passes the adapter's precondition, which is compared in the
normal form, and is rewritten without the marks. `EchoChangesNothing` is about the sets the service shows as the adapter
lists them; one zone of the run has such a value, which is not one of them. The service's list fails
where its own normal form finds two entries the same (`Normalizable`).

Each adapter defines `Readable` and `Sets` (its list of a zone), `CreatePlan`, `UpdatePlan` and
`DeletePlan` (its checks in their order and, if none objects, the provider calls in their
order with the fields each call writes), `FinalSets` and `StillThere` (what its last read
accepts), `ReadsAgain` (whether that read is repeated) and `CallRefused`. Alibaba Cloud needs a call per
field: a new record is enabled and unweighted until further calls have said otherwise,
and the switch of the weighted routing is one for a name, a type and a line. Tencent Cloud and Cloudflare write a
whole record per call. Huawei Cloud has record sets of its own and changes them later.

Left out: the canonical form of names and addresses (values are given in it), extensions
of another provider than the account's, TTLs beyond 32 bits, the provider's time stamp in
the fingerprint (the code notices more changes than the model), and the order in which a
repeated and a foreign entry ID are refused, which differ in the error only.

Seen while reading, and kept in the model: a set that Alibaba Cloud shall create disabled is
enabled until its last calls; the weighting switch also acts on the same records with
another TTL; one MX record with a priority outside 1..50, or two that become equal in the
normal form, make the whole zone unreadable; two entries of one set that exchange their
values are refused half way as duplicates; and a half-done creation at Alibaba Cloud can be repeated
harmlessly because the provider refuses the records that are there already.

### RecordMutations and RecordSetChange

State: `records`, the provider's records by ID, and `before`, what they were before the
last write; `request`; `plan`, the calls still to do and the expectation of the last read;
`result`. A mutation goes through these steps:

- `Ask` takes any request a client can make of a set the service shows, by up to `Edits` edits, with
  the ID and the fingerprint it was shown; `desired` is what the client sends.
- An item of a batch of TTLs is first made an update: `ReadItem` reads the set and makes the update of what it
  reads, with the precondition the client gave (`BatchRecordSets`), or `RefuseItem` refuses it.
- `Admit` is the service's own part: for an update or a deletion it reads the set and compares the precondition
  (`Fresh`), for a creation or an update it normalises the input and checks the TTL and the type
  (`Capable`, from `validateRecordCapabilities`); `RefuseRequest` turns the request away. What is passed on is `input`.
- `Begin` is the adapter's `currentRecordSetForMutation`, from a list of its own, its precondition and all its checks.
- The calls follow one by one (`CallDone`), and each may fail (`CallFails`) or be done without a reply
  (`ReplyLost`), since `mutationCall` makes a call once.
- Then come the final reads (`Confirmed`, `Unconfirmed`, `ReadFails`), whose set the service normalises once more.
- `Retry` is the client sending the same request again.

Between any two of them someone else may change or remove a record (`Interfere`), and a list may still
show what was there before the last write (`Views`). Huawei Cloud is read by ID: what a read shows is the set asked
for and nothing else.

Huawei Cloud has a status per set. `phase` is one of the pending ones (`Pendings`), of those in which the
provider has stopped (`Stops`: `FREEZE`, `ILLEGAL`, `POLICE`, `ERROR`, from `docs/providers/huawei.md:107`), or "" for a set
that is in use or disabled. `Settle` ends what is pending as it was asked, or in one of `Halts`. The final read
(`waitForFinalRecordSet`, `huawei/mutations.go:191`) accepts every status that is not pending, so a change that ended in `ERROR`
is a success, and its set is shown with the status "". `SuccessShowsTheRequest` therefore exempts the status of a set
in `Stops`, and of nothing else. Whether a stopped set still answers queries is the provider's, and not modelled.
That the provider freezes a set by itself, or gives up a deletion, counts as a write of others in `Interfere`.

A plan names the IDs of the records it will add as the next free ones. `issued` bounds
the IDs that were ever given out: an attempt may use at most one for each wanted entry, so
it reserves as many and some stay unused.

Seven named assumptions say what the constants are: attempts and final reads are at least
one; the adapters are among the four; `Halts` is a part of `Stops`; `None` is no value of the fields that may be absent;
a zone to start from is finite, numbered from 1, its records have the fields of its provider
(a CNAME or NS record without numbers), and Huawei Cloud has nothing pending in it; an
entry's own fields are a line and a weight at Huawei Cloud and none at Cloudflare; the fields
an adapter reads are there, and Huawei Cloud keeps TXT and CAA values in quotation marks, as
`quoteHuaweiTXT` and `quoteHuaweiCAA` (`huawei/mapping.go:364`) write them and as its tests have them
(`GivenAssumption`: an update of a value without them would write it with them). TLC checks
the assumptions for the zones of the runs.

`RecordSetChange` says what the rest of the system may rely on: a change writes only
records it wants, removes a record of the old set only when all wanted ones are in place,
touches no other record, and ends with "ok" only if nothing is left to do. It may stop
anywhere with an error. `Implements` maps a record to what it serves (its key and values;
remarks, weights, states and the provider's own flags are left out of the mapping, and
Huawei's pending deletions count as done) and the running plan to the abstract change. When
others write meanwhile, or the list was old, the order of removals and the answer are not
promised; `SuccessShowsTheRequest` says what is even then.

### ZoneIndex

State: `upstream[k]`, the zones the provider has for configuration `k` of the account;
`rows`, `visible` and `from`, the zones table; `synced`, `last_zone_sync_at`; the syncs
with cursor and collected zones; the refreshes. `updated_at` takes one of a few values and
a write takes one that nobody remembers, which is as good as a growing clock because
the code only compares for equality.

Transactions are single steps, since they are serializable. `BeginSync` .. `EndSync` follow
`SyncAccount`, a page per step. `markers` says once and for all how the adapter pages:
Huawei's marker names the last zone of the page before, the cursors of the others are
offsets into a list that every page reads and sorts anew. A page itself, though an adapter
may need several calls for it, is one snapshot.

A sync whose generation has ended may still list pages here. The code would cancel it, so
the model has behaviours that the code has not; its safety properties do not need the
cancellation.

### AuthAccounts

State: the tables as functions of the user (`created`, `row`, `passkeys`, `totp`,
`sessions`, `grant`, `pending`), the clock of TOTP in time steps (`now`), and per request
its operation, its user, and what it has read or holds. A request begins with
`Authenticate`, which stands for `AuthenticateSession` and `RequirePermission`, or as one of
the public ones (`BeginBootstrap`, `BeginEnrollment`, `BeginLogin`, `BeginTOTP`). It reads the
user (`ReadUser`), may count passkeys or read the TOTP credential (`CountPasskeys`,
`ReadForSetup`, `VerifyCode`), and ends with its transaction, one `Commit` action each, or
with `Fail`. Any number of other requests run between these steps.

`updated_at` is not a number here. `UpdateUser` and `SetUserDisabled` write a row only if it
has the `updated_at` that was read, and renew it, so all that matters of it is which
requests have read a row that has been written since: the set `overtaken`. `DeletePasskey` is
the one operation that renews it without a change of the row, and `MethodRemains` depends
on it: the passkeys are counted outside the transaction that gives the password up.

Identifiers and secrets are random in the code. A new one gets a number that nobody of
its kind has and no other request holds, so numbers are used again but never mistaken.
The two requests of a ceremony of WebAuthn are one beginning: their challenge is consumed
by the second request before anything is read. Whatever only makes a request fail (rate
limits, wrong codes, used up attempts, expired challenges, a changed sign count) is `Fail`.
Operators and viewers are one role, `member`, as neither manages users.

## 3. What the runs check

| run | configuration | properties | states |
|---|---|---|---|
| `clients` | 2 requests (validations and mutations), 1 administrator, 2 runtimes; replace, delete, disable; 2 writes of the row | `TypeOK`, `LiveCallsUseCurrentAccount`, `ValidIsAboutThisAccount`, `OneMutationAtATime`, `ChannelsAccounted`, `GetIsFresh` | 4.9 million |
| `clients_liveness` | 2 requests (mutations and syncs), 1 administrator, 1 call slot, no symmetry | `RequestsGetOn` | 0.21 million |
| `records` | 1 list at a time, 2 mutations of 1 record set, 4 generations | `TypeOK`, `ListsShowReturnedMutations`, `NoSilentOverwrite`, `ImplementsService` | 2.2 million |
| `records_time` | 1 list at a time, 2 record sets on pages of 1, 1 write of the account row, 1 mutation with late requests, 1 change of each set, past the service or by it, 2 generations, a clock to 2 with lifetime 0 and read time 1 | `ListsAreOfThisAccount`, `ListsShowReturnedMutations`, `UnflaggedListsAreRecent` | 7.5 million |
| `records_audit` | 1 mutation | `AppliedChangesAreAudited`, violated | |
| `zones` | 2 syncs, 1 of them scheduled, 1 refresh, 2 zones on pages of 1, 1 change of the configuration, 2 other events | `TypeOK`, `IndexIsOfThisAccount`, `SyncsDoNotCollide`, `RefreshesYieldToSyncs`, `DisabledIndexGainsNothing`, `MarkerSyncsKeepZones` | 2.1 million |
| `zones_liveness` | the same without symmetry or changes of the configuration, 1 event | `WaitingSyncsEnd`, `IndexConverges` | |
| `zones_paging` | 1 sync, 2 zones on pages of 1 | `SyncsHideMissingZonesOnly`, violated | |
| `auth_users` | 2 users, 2 requests, 1 session and 1 passkey per user; creation, update, disabling, enrolment, login, methods | `TypeOK`, `AdminRemains`, `OneFounder`, `MethodRemains`, `DisabledUsersGetNoPasskeys` | 2.5 million |
| `auth_sessions` | 1 user, 2 requests, 2 sessions, 2 secrets, 2 time steps; login, second factor, sessions, profile | `CodesAreUsedOnce`, `VerifiedCodesAreCurrent`, `SecondFactorIsConsistent` | 1.8 million |
| `mutations` | the 4 adapters on 12 zones of 1 to 3 records, requests of 2 edits sent up to twice, failing calls, lost replies, old lists, changes that end in `ERROR`, 1 write of someone else, 2 final reads | `TypeOK`, `SuccessShowsTheRequest`, `RetriesChangeNothing`, `ItemsChangeTTLsOnly`, `EchoChangesNothing`, `ListStaysReadable`, `Implements` | 1.5 million |
| `mutations_applied` | Alibaba Cloud, 1 edit, nothing fails | `AppliedUpdatesSucceed`, violated | |

Each property has a mutated definition with which TLC refutes it, so none holds by the
shape of its model.

### Bounds

`MaxVersion`, `MaxConfig`, `MaxChanges`, `MaxEvents` bound writes of the row, changes of
the configuration, changes of a record set, and failures and outside changes;
`MaxGeneration` bounds the generations that may start a new operation and `MaxTime` the
clock. One administrator may run several operations one after another. The properties
compare one thing that was read with one write that came after, so two requests and two
writes already give every order of "read, write, use"; two runtimes give the
removal and re-creation; two pages give the shift between pages, and a `BuildAttempts` of 2
a retry that succeeds and one that is refused. `CallSlots` is 8 in the code: 2 make it both
possible and impossible to get in next to another call, 1 makes all requests compete.
In the run `records` operations start in generations 0 to 3. A mutation moves the generation on twice, before its call
and when it returns, or three times when its call succeeds. A list that comes in after a mutation
has returned therefore starts in generation 2 or later, or in 3 where an earlier list has fetched meanwhile, which
is the list that would cache something old. With fewer generations no list would have been promised anything.
One list at a time is enough since lists meet only in the cache, where a mutation or an invalidation has to
come between, and both mutations are of the same record set, which is where preconditions matter.
`records_time` has two record sets on pages of one, the least with which a page can be shifted: a set is removed after
it was read, by someone else or by a late request, and the other is skipped. Two generations are enough there, for a
list that fills the cache and one that finds it. The lifetime of an entry is 0, so it ends with the next tick, and a
fetch may take one tick: at 2 a list first meets an entry older than it may be. Mutations are updates in both runs: a deletion takes the same steps, a creation those without the
precondition, sets are removed and created by the changes past the service, and the theorems hold with all three kinds.

The run of `RecordMutations` has sets of two records because the order of calls, the
distinction of kept, new and removed entries and a stop in between begin with two; another set
beside them (same name, other TTL or type) to be left alone; and at least one zone for
each peculiarity: mixed states, weights, quoted values, in one and in two levels, an empty line, a proxied record, a provider's own NS
record, a set out of service. Two edits at once let a request change a value and a common field, or add an
entry and give up another. A repeated request shows all that a repetition does,
since it is planned from the records as they are. `Halts` is `ERROR` only: the four statuses in `Stops` differ in nothing but the name. A second write of others would only
repeat the first, with one exception: an item of a batch is read twice before it is written, and
`ItemsChangeTTLsOnly` says "one write" itself. With two (`MaxInterferences = 2`, the bound
in the property dropped) TLC finds a set changed after the client saw it, read for the item,
and changed back before the adapter compares the fingerprint: what others had already
taken back is then written again. The set does have the fingerprint the client saw when it is
compared, so no document of the repository is contradicted and this is not listed as a finding.

The two runs of `AuthAccounts` divide the operations: rules about administrators need two
users and no second factor, the rules about codes need one user and the clock. Within a
run two requests are at any two of their steps, which is what the hazards are made of (one
has read, the other writes). `SessionIds`, `Keys` and `Ids` bound what exists at a time,
`MaxStep` the time steps; with two of them a code is valid before, in and after its step.
One passkey per user leaves out only the deletion of one of several, which the theorem
`MethodAlwaysRemains` covers. An update of oneself by an administrator (`updateSelf`) is in no
run: it is an update with fewer choices, and the theorems hold with it.

Deadlock is checked in the passing runs of `ProviderClients`, `ZoneIndex` and `AuthAccounts`. It is switched
off for `RecordCache`, where the bound on generations ends every behaviour, for
`RecordMutations`, where a mutation that has been answered is the end, and for `zones_paging`,
whose scheduler rests once the account is deleted.

### Fairness

`RequestsGetOn` assumes weak fairness of the steps that a request takes by itself: every
statement, build and call has a deadline. It assumes strong fairness of taking a channel,
since a Go channel serves its waiting senders in order, so a sender cannot be passed over
for ever. No request is assumed to give up and no administrator to act or to stop. The property
follows a request through both of its waits: whoever is in `Get` gets out of it, and whoever has its client leaves
that state as well, a mutation by getting the mutations channel. A leaked channel of either sort violates it.

`WaitingSyncsEnd` and `IndexConverges` assume the same of syncs and refreshes, and that
the scheduler's ticker begins another sync when the one before has ended
(`app/app.go:221`). Failures and changes from outside are bounded by `MaxEvents`, which is
the assumption "once everything rests" under which convergence is stated.

### Findings

1. `records_audit`: an applied change may be left without an audit event. The event is
   inserted after the provider call with the context of the request; when that context has
   ended, or the database is away, the handler returns an error and the change stays.
   `docs/IMPLEMENTATION_STATUS.md:131` says that mutations write audit events.
2. `zones_paging`: for three of the four adapters a zone that is removed at the provider
   between two pages of a sync makes the sync miss another zone, which is soft-marked as
   missing though it is there. `docs/IMPLEMENTATION_STATUS.md:50` says that a sync
   soft-marks missing zones. It takes an account of more than 200 zones; the next sync
   repairs it. With markers it cannot happen (`MarkerSyncsKeepZones`).
3. `mutations_applied`: at Alibaba Cloud a set of enabled and disabled records has the status "",
   and an update that names none keeps it. The final read then looks for entries whose own
   status is "" (`finalizeAliyunEntries`, `provider/aliyun/mutations.go:300`), finds none, and reports the conflict
   "could not be re-fetched" for an update that was done in full. `docs/providers/aliyun.md:125`
   says that mixed state is preserved and `:234` that the final state is returned. The same
   happens, at Alibaba and Tencent Cloud, when a request names an existing record without
   its extension and the record has a remark: the remark stays, and an empty one is expected.

## 4. What is proved

All theorems are about the modules as they stand, for every value of their constants
that satisfies the named assumptions (bounds are naturals, page and slot limits are
positive, `None` is not a value of the other sets). Sets of requests need not be finite.

- `TypeCorrect` for the four modules of the service: `Spec => []TypeOK`. One step per action; rows and
  entries stay opaque except where an action builds one.
- All safety properties of `ProviderClients` follow from one invariant (`IInv`), whose parts TLC
  also found true on the instance of the run. They say that a deleted account is not
  recreated and that there is one deletion at most (`OneDeletion`), that an account that
  exists has had one runtime only (`OneRuntime`), and that requests past the row
  therefore share one (`SameHome`); with the channels' contents (`Channels`) this gives
  `ChannelsAlwaysAccounted` and `MutationsAlwaysAlone`. `LiveCallsAlwaysCurrent` needs in addition that a
  runtime that still serves anybody is the one in the map or is about to be cancelled
  (`ServingReachable`), so that an Invalidate after a commit reaches every client in use;
  and that generations only grow (`SeenPassed`), so that it ends them (`ClientsGood`).
  `GetAlwaysFresh` and `ValidAlwaysAboutThisAccount` need that rows somebody remembers have an older
  `updated_at` or the present configuration (`RowsAgree`), and that what Get reads is not
  older than what its request read first (`ReadLate`).
- `ListsAreCurrent`: `Spec => []ListsShowReturnedMutations`. The property alone is not
  inductive, as a list that has not returned says nothing about what it holds. The
  invariant adds: what a mutation applied is not more than the content (`Applied`); a
  cached entry, or a fetch whose token is still the generation, lacks no change that is
  settled (`CacheIsSettled`); pages and fallbacks that a list holds keep what was promised
  to it (`ListsKeepPromise`); and a returned change that the cache lacks is impossible
  because the deferred invalidation is the step that returns (`HoldsNothingOld`). For the sets
  that a list leaves out there is a second invariant (`Paged`): between two pages a fetch has read as many sets as its
  offset says, and each that has not been changed since is still in the list (`BetweenPages`). So when the last page reaches the
  end of the list and none of those read has been changed, they are all the sets before the offset, and
  none has been skipped.
- `ListsAreOfTheAccount`: the versions of entries, fallbacks and clients are not older than
  the row was when the list came in (`FromThisAccount`).
- `ReportedChangesAreNotOverwritten`: `Spec => NoSilentOverwrite`. Between the comparison
  of the precondition and the write, the mutations channel keeps every other change of
  this service from being reported (`WritesAreGuarded`).
- `UnflaggedAlwaysRecent`: `Spec => []UnflaggedListsAreRecent`. Changes are numbered in the order in
  which they land, so the invariant (`Recent`) says of a fetch that it shows what landed before
  it began, that is `ReadTime` before its deadline, which the clock cannot pass; of an entry, what
  landed `ReadTime` before it was stored; and of a list, the same with `Ttl` in addition. Where a set is left
  out, `Paged` gives another one that was changed after it was read, and `Recent` says that this change landed
  no longer ago.
- `CacheImplementsService`: `Spec => ImplementsService`, the refinement of `RecordService`. A step of
  a list maps to asking, answering or leaving, one of a mutation to submitting, carrying out or reporting, one of
  others to a change or a stutter. Three facts make the steps fit: what a list holds (pages, fallback, entry) has
  happened, shows what the list was promised, and leaves out only what `RecordService` allows
  (`HoldsWhatHappened` with `ListsKeepPromise` and `Paged`);
  a mutation whose call has not been applied has no change of its own (`NotYetApplied`), so it
  is carried out once; and what has been reported is not newer than what an applied mutation
  names (`WritesAreGuarded`).
- `IndexIsOfTheAccount`: `Spec => []IndexIsOfThisAccount`. The guard of the writes compares
  `updated_at`, the property compares configurations, so the invariant says that a row
  that somebody remembers and that has the present `updated_at` has the present
  configuration (`RowsAgree`), and that remembered rows are in range.
- `SyncsNeverCollide`, `RefreshesAlwaysYield` and `DisabledNeverGains` share a second invariant
  (`VersionInv`): who is past the channel is in it (`Exclusive`), so a sync that commits is the
  only one that has read the row; a sync with an outdated row is disturbed; a refresh that a
  sync overtook has an outdated row (`OvertakenIsStale`); and a row that is still the account's
  is of an enabled account (`RowsEnabled`).
- `MarkersAlwaysKeepZones`: what stayed at the provider up to the marker is listed (`MarkerInv`).
  A page holds the zones of ranks `Skipped + 1` to `Skipped + PageLimit`, ranks grow with the names
  (`RanksGrow`), so it brings every zone from the marker to its last one (`PageBrings`). With
  offsets the first of these facts fails as soon as a zone before the offset goes.

- `NoGapAlways`: `RecordSetChange`'s specification implies that at no time of a change both an old record of the
  set is gone and a wanted one missing (`NoGap`). It is inductive: a removal needs all
  wanted records, writes add no gap, and a change starts with all its old records.

The theorems about `RecordMutations` hold for every zone, request and bound, and for all four
adapters:

- `Typed`: `Spec => []TypeOK`, from the invariant `Kept`, which adds that a request fits its
  kind and stage, and that every call still planned is one that leaves records records
  (`CallOK`): it names IDs that were given out, adds whole records, and writes fields the
  record has. That this is so of each plan is what `RecordPlansProofs` shows of the
  operators of the adapters (`PlanShape`, `PlanMade`).
- `AlwaysUnderway`: while an attempt that saw neither others' writes nor an old list makes
  its calls, what it has left completes the change (`OnTrack`). `Left` says what that is: the
  calls are a list of writes and then a list of removals; a write puts one wanted record in place
  as it is wanted (`Puts`) or changes nothing that is served (`Stays`: states, remarks,
  weights); a removal takes an old record that is not wanted (`Drops`); what is wanted and
  not yet served will be written, and what is old and not wanted will be removed. The
  invariant also says that Huawei Cloud has nothing pending until somebody has asked and that
  the set a client saw was not pending, since Huawei Cloud's plan for a set on its way out
  would write to a set that nobody is served from.
- `ImplementsChange`: `Spec => Implements`, the refinement of `RecordSetChange`. `Zone` is what is
  served; a call that `Puts` maps to a write, one that `Drops` to a removal (all wanted records
  are there, as the list of writes is empty), the rest to stutters; an undisturbed answer "ok" finds no call
  left, so all wanted is in place and all unwanted is gone.
- `NoGapInTheZone`: `Spec => []NoGap`, of the mapped zone, from the two theorems above.
- `SuccessAlwaysShows`: `Spec => []SuccessShowsTheRequest`, from the invariant `Promising`. A last
  read that accepts is compared with what the plan aims at, so what is to be shown is that
  the aim is the request (`Aims`), although plans take a line or state from one entry for all:
  validation has made sure that all entries name the same, so the plan's fits each of them
  (`StatusFits`, `StatusAimed`, `OptionsFit`). For Alibaba Cloud, Tencent Cloud and Cloudflare it
  therefore does not matter who else writes or which calls were lost. Huawei Cloud's last read
  waits for a set that is not pending and compares nothing, so there the invariant says that the calls left
  turn the set, as the zone has it, into the one asked for (`HuaweiAims`), and that settling
  changes only what is pending; this needs that no one else writes. What the read shows of the status is what was
  asked for unless the set has stopped (`RestingShows`, `CurrentStatus`), which is the exemption in the
  property. The invariant also relates `desired` to `input`: the service's normal form keeps the words, so what is shown of
  the one is shown of the other.
- `EchoAlwaysChangesNothing`: `Spec => []EchoChangesNothing`, from the invariant `Echoing`: as long as
  no one else writes, an unedited request finds what it was listed from (`Sees`), whatever
  calls and reads fail and however often it is sent. `Sees` includes that the set is shown as the adapter lists it,
  so it is in normal form and what the service passes on is the set itself (`SeenInput`). The update must match the
  fingerprint, and a set in the adapter's list that has the same contents when it is normalised once more is in
  normal form already: a level of quotation marks taken away would be missed at the text with most of
  them (`NormalAlready`, by `NoLargest`). So what is wanted is what is there, Alibaba Cloud,
  Tencent Cloud and Cloudflare plan no call for it (`AliyunEchoes`, `TencentEchoes`,
  `CloudflareEchoes`), and the one call of Huawei Cloud restates the set (`HuaweiEchoes`),
  which leaves it pending, later settled or stopped (`Calm`), and otherwise as it was (`Restated`).

Where these proofs need induction over a list of calls, they take the least position at which
a claim fails (`Least` in `SequenceLemmas`), which needs no operator
as a parameter; that the flattening of lists of calls contains just their calls is shown so.

All properties of `AuthAccounts` are theorems, with any numbers of users, requests, passkeys
and sessions. Their proofs share a classification of the steps (`StepCases`): a request
begins, reads, or ends, and an end writes no row, the row of a new user, or the row of its
user within what `RoleKept`, `PasswordKept` and `PasskeysKept` allow.

- `AdminAlwaysRemains`: `Spec => []AdminRemains`. `NotLastAdmin` decides with the row that was
  read, so the invariant says that it is the present one unless the request is overtaken
  (`Current`); also that operations are about users that exist (`Present`) and that a user
  without a row is enabled (`Fresh`), for the first administrator.
- `MethodAlwaysRemains`: `Spec => MethodRemains`. The step that takes a password away finds a
  passkey because the count made before still holds (`Counted`): a passkey is only deleted
  with a new `updated_at`, which overtakes the request.
- `OnlyOneFounder`: there are no founders while there are no users.
- `DisabledGainNothing`: `Spec => DisabledUsersGetNoPasskeys`. An enrolment whose grant is
  still there (`EnrollsEnabled`), and a registration whose session is (`RegistersEnabled`), is
  of a user who is enabled; new grants and sessions are never taken for old ones
  (`GrantsGuarded`, `SessionsGuarded`).
- `SecondFactorAgrees` is inductive as it stands; `EachCodeOnce` needs that nothing was
  accepted after `last_accepted_timestep` or before a confirmation (`UsedUp`).
- `VerifiedCodesStayCurrent`: the secret of a waiting login can only change by a setup, which
  leaves it unconfirmed, and a confirmation deletes the waiting logins; new ones are not
  taken for old ones (`PendingHeld`).

Only model-checked: `RetriesChangeNothing`, `ItemsChangeTTLsOnly` and `ListStaysReadable` of
`RecordMutations`. They hold for the zones and values of the run, and not for all: larger instances
given to TLC break each of them, so a theorem would need more assumptions than the code gives.

- `ListStaysReadable`: `canonicalizeTXT` (`provider/domain.go:330`) takes one level of quotation marks away. It is
  applied to a value twice when it is sent, by the service and by the adapter, and again when it is listed. Where the zone has
  the TXT value `c`, a client that adds a `c` inside three levels of them passes validation, `c` inside
  one is written, and both are listed as `c`: two equal entries, for which the list fails. The
  texts that clients write in the run have at most two levels.
- `RetriesChangeNothing`: an update that exchanges the values of two TXT records, one of them kept in
  quotation marks, and changes a third, may stop before the third: the fingerprint is
  then the one the client sent, and its retry does the rest. The run edits a set twice at most,
  and such an update takes three edits.
- `ItemsChangeTTLsOnly`: Cloudflare decides anew whether a record can be proxied whenever it is written. A zone where
  it decided otherwise than by type before lets a batch change that field of the set. In the zones
  of the run it decides by type.

Liveness, together with ENABLED, is out of the reach of the prover.
Every other property of a passing run is a theorem.

## 5. Plan

Done in this order: clients, record cache, zone index, accounts, each with its runs and
its first theorems, then the adapters with the mutations of record sets. What comes next:

1. The cursors that clients page with (`normalizePage` and `nextCursor` in `service/dns.go`): pure operators
   checked against a reference definition over small lists.
2. The login limiter and the count of attempts of a pending login, as a module of their
   own.
3. The three properties of `RecordMutations` that are only model-checked, as theorems under the hypotheses
   named in section 4 (texts in few levels of quotation marks, zones without values kept
   in two spellings, records that can be proxied by type), on top of `AlwaysUnderway`.

Not modelled: encodings, the spelling of names, addresses and quoted strings, the SDKs, factories and
error classes of the adapters, cryptography, configuration and migrations, HTTP and the web console: they keep no state that
concurrent requests share. Also not modelled: the touch that prolongs a session and the
login limiter; lost updates between a refresh of one zone
and a sync that listed earlier, which the code accepts and the next sync repairs.
