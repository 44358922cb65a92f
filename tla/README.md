# TokenLedger: TLA+ models, model checking and proofs

TokenLedger is a self-hosted LLM gateway that meters what passes through it. Clients call
a *gateway* with a virtual key; the gateway checks the key, applies the key's limits,
forwards the request to a provider, and emits one usage event. A *worker* takes the events
off a Redis stream and writes raw rows and rollups to Postgres. An *API* manages accounts,
workspaces, keys, credentials, teams and prices and answers analytics queries for the *web*
console.

This directory holds TLA+ models of these parts, the TLC runs that check them on small
instances, and TLAPS proofs for every size. `PROJECT.json` is the index: components, runs,
the source lines of each definition, hazards, findings and theorems.

## 1. Inventory

| Component | State it keeps | Operations that change it | What is hard | What makes it correct |
|---|---|---|---|---|
| Usage-event ingest (`apps/worker/src/ingest`) | stream and consumer group in Redis; `usage_event`, rollups, `lastUsedAt` in Postgres; batch in hand | XADD, XREADGROUP, dead-letter, `persistBatch`, XACK, stop, restart | crashes between the steps, redelivery, lost answers, several workers, an event twice in a batch | each event charged once per inserted row; nothing acknowledged that is not recorded; the loop goes on |
| Rollups (`ingest/rollups.ts`) and analytics (`modules/analytics*.ts`) | hourly and daily sums | `groupRollups`, upserts; reads by page, time and group | rounding, the team of a bucket, pages over a table that changes | reports count each event once |
| Reconcile (`jobs/reconcile.ts`) | none of its own | compares raw rows with rollups | runs beside ingest and retention | reports no drift without a cause |
| Retention (`jobs/retention.ts`) | raw rows, export rows and files | delete by cutoff, unlink, sweep | prunes rows and files that others are using | rollups untouched, orphans go |
| CSV exports (`modules/exports.ts`, `jobs/export-csv.ts`) | job rows, queue entries, files | queue, run, finish, expire, download | crash and retry between file and row, updates that lose their answer, two slots on one job | a finished job has its complete file |
| Event sink (`apps/gateway/src/sink.ts`) | retry buffer, flush flag, loss counter; commands in the Redis client | `emit`, `bufferEvent`, `flushLoop`, shutdown | refusals, disconnects, lost answers, a loop that waits while others append | every loss counted, no event stuck |
| Virtual-key cache (`stores/cached.ts`) | in-process entry per gateway, Redis entry | `resolve`, invalidation messages, expiry | a lookup that holds an old row while it changes; lost messages | bounded staleness |
| Gateway handlers (`proxy/*.ts`) and rate limiter (`ratelimit.ts`) | stage of each request, usage event, counters per window | check, authorise, limit, forward, finalize | interleaved INCR/EXPIRE, commands that wait out an outage of Redis, aborted streams and bodies | limit per window, streams are metered, nobody waits for ever |
| Metering of a payload (`proxy/core.ts`, `packages/providers`, `packages/pricing`) | `FrameTap.pending`, the extractor, the translator | chunk, flush, abort, parse, price | chunks that split frames or characters, preliminary counts, overlapping price patterns | usage independent of chunking; ACTUAL means final; the best price |
| Prices (`modules/pricing.ts`, `gateway/src/pricing.ts`) | overrides, catalog, the gateway's snapshot | create, PATCH, delete, refresh | check-then-write, refreshes that overlap or fail | one override for a pattern, a snapshot that never ages |
| Invitations and members (`modules/invitations.ts`) | accounts, memberships, invitations | invite, new link, revoke, accept, PATCH and DELETE of members | each handler is several statements | the workspace keeps an OWNER, nobody gets in uninvited |
| Sessions (`modules/auth.ts`) | refresh-token rows in families | login, refresh, reuse detection, logout | rotation is two writes without a transaction | one usable token; a replay ends the family |
| Credentials and keys (`modules/credentials.ts`, `keys.ts`) | credentials, defaults, pins | create, PATCH, delete, issue | check-then-write at READ COMMITTED | one default; pinned credentials are served |
| Teams and projects (`modules/teams.ts`, `org.ts`) | teams, members, projects | create, PATCH, delete, add, remove | check-then-write beside ingest and other requests | nothing dangles |
| Web console (`apps/web/src`) | query cache | navigate, edit, invalidate | slow answers, pages that show what others edit | users see their own edits |
| Administration, licensing, configuration, telemetry | none that others depend on | reads, wiring | - | - |

How they interact: the gateway's sink and the ingest loop share the stream; the API's key
routes invalidate the gateway's cache by DEL and pub/sub; deleting projects and
credentials in the API changes which rows the ingest transaction may insert; retention
prunes the rows that make redelivery harmless, the ones an export pages through and the
ones reconcile compares; the limiter's counters are shared by all gateways; the gateway
prices requests with a copy of tables that the API edits. What is hard to test in each
place is listed, line by line, under "hazards" in `PROJECT.json`.

## 2. Modules

| Module | Models | State and actions |
|---|---|---|
| `UsageLedger` | what ADR-4 promises | published events, raw rows, how often each event is in the rollups; `Record` adds both in one step, `Prune` only removes rows |
| `Ingest` | `consumer.ts`, `persist.ts`, worker start and stop, pruning, parents' deletion | Redis as an append-only log, the ids still in the stream, and the group (cursor, pending entries); one `pc` per worker with `read`, `dlq`, `persist`, `ack` following the body of `loop`; the transaction of `persistBatch` is one step that commits, is rejected by a foreign key, fails, or commits and loses its answer |
| `Reports` | `rollups.ts`, the upserts, `analytics.ts`, `analytics-query.ts`, `reconcile.ts` | both rollup tables by bucket and user, money in units of 1e-8; `Ingest` of a batch in any order; one reader, which is the explorer page by page or reconcile with its two queries; time series and breakdowns are operators over the tables |
| `Exports` | `exports.ts`, `export-csv.ts`, `retention.ts`, the export worker | rows, queue entries, files as sequences of events, one record per slot with the cursor and the offset of its write stream, the retention job and one download statement by statement; each update of the row commits, fails, or commits and loses its answer (`unheard` is history: a slot whose DONE did) |
| `EventSink` | `sink.ts`, the Redis client's queue, gateway shutdown | `inflight` are XADDs under way or waiting in the client, `buffer` and `flusher` the retry buffer and its loop; `lostReplies` is history: the XADDs of each event that Redis ran and whose answer was lost |
| `KeyCache` | `CachedKeyStore`, revoke, PATCH, project deletion | one key, one change of its row; the awaits of `resolve` are the steps `get`, `hit`, `query`, `fill`, `set`; time to live counts down with `Tick` |
| `GatewayRequest` | both request handlers, `EventFinalizer`, `RedisRateLimiter` | a stage per request and the counters of a key per window; `late` is history: windows for which an INCR ran after the life of its counter |
| `Metering` | `FrameTap`, the adapters' extractors, translation, `matchPrice`, `calculateCostUsd`, `finalize` | one request: the frames a provider sends as bytes, `Chunk(n)` for every n, what is pending, the state of extractor and translator, what the client got, the event |
| `Gateway` | the two together | a behaviour follows the stages of the requests of a key, or the payload of one of them |
| `Members` | `invitations.ts`, `/auth/register`, workspace guard | one workspace; a request is a record of what it has read; each Prisma statement is one action |
| `Sessions` | login, refresh, logout of `auth.ts` | rows in families; a refresh reads, then kills the family or rotates and issues. `closed` and `raced` are history: which families a replay or logout should have ended, and in which two requests have overlapped |
| `Accounts` | the two together | a behaviour is of the memberships or of the sessions |
| `Credentials` | `credentials.ts`, the pins of `keys.ts`, `PgCredentialStore.getDefault` | rows with status and default, keys with pins and allowed providers; a request holds what it has read between its read and its write |
| `Teams` | `teams.ts`, `org.ts`, and what removal of members, issue of keys and ingest do beside them | rows of team, members, project; routes whose check the database does not repeat are two steps |
| `Prices` | `modules/pricing.ts`, `PgPricingSource` | override rows by pattern, the write the gateway's snapshot dates from, refreshes under way |
| `Console` | the queries, mutations and invalidations of `apps/web/src/features` | the pages as data (what each shows, edits and invalidates) and one entry of the query cache, any one. `crossed` is history: an answer older than an edit is on its way or in the cache, because react-query did not abandon its request, and no newer one has come |
| `ControlPlane` | the four areas together | a behaviour is of one area |
| `MC*` | small instances | values for the constants, symmetry |
| `*Proofs` | proofs | one module for each component with theorems; `GatewayRedisProofs` has those of `EventSink` and `KeyCache` |

Conventions. A definition keeps the name the source has where that is possible. A *Faulty
variant* is an operator that no specification uses: it is what a plausible bug would make
of the definition after it, and replacing that definition by it must break the property it
is listed with. `Faults` selects which faults an instance has, and `MaxFaults` (a budget
that every fault draws on) how many.

Data is reduced to what the properties tell apart. In `Ingest` the rollups are the multiset
of events that were added to them; `Reports` adds them up. A batch is a set of entry ids in
`Ingest`, so an event that is twice in a batch is two ids with one payload, and a sequence
of events in `Reports`, where the order decides the team of a group. In `Metering` a frame
is two bytes, which is enough for a chunk to end inside it, inside one of its multi-byte
characters or inside a delimiter; what a frame says is a record of the fields the extractors
read. A model name is a sequence of letters, so that patterns with a star have prefixes.

Redis restarts (`Ingest`): the append-only file is written by `Fsync` and a restart brings
back the last state written, possibly none. Redis writes the file every second, so what is
lost is a suffix of what happened; a state as old as the first one is included.

The queue of the exports (`Exports`) is BullMQ, modelled from how the worker uses it: an
entry waits, is active under a lock, and is completed, failed or waiting again. The lock of
a slot can lapse while the slot goes on (`LockLapses`), after which the entry is taken back
and another slot may run the job at the same time.

Compositions by choice. The payload of a request depends on no other request and no stage
depends on a payload; likewise the four areas of `ControlPlane` share no variable, nor do memberships
and sessions. Steps of
two such parts commute and neither disables the other, so an invariant over the variables
of one part holds in the composition if it holds when only that part moves. `Gateway`,
`Accounts` and `ControlPlane` therefore choose the part in the initial state. What does cross between the
areas is modelled where it matters: the gateway's choice of a credential in `Credentials`,
ingest and key issue in `Teams`, the snapshot of the gateway in `Prices`.

## 3. Runs

| Run | Instance | Shows |
|---|---|---|
| `ingest_faults` | 2 events of one key, a poison message, 2 workers, batches of 2, 3 entries, MAXLEN 2, two faults among repeated XADD, crash, failed transaction, failed Redis command | a poison message is acknowledged only after its dead-letter copy; `lastUsedAt` is the latest recorded use although batches commit in any order; while nothing fails every event is recorded, graceful stops included |
| `ingest_restart` | 2 events, 2 workers, MAXLEN 1, one pruning of each event, the credential one of them used may be deleted, two faults among Redis restarts and failed transactions | rollups are exact, acknowledged entries are recorded, each step is a step of `UsageLedger`, and the loop takes every unread entry off the stream again |
| `ingest_crash` | violation of `PublishedIsRecorded` | a crash between XREADGROUP and XACK leaves entries pending for ever |
| `sink` | 4 events, a buffer of 2, two faults among refusal, disconnect, lost answer and shutdown | losses are counted; no event is duplicated by the sink itself, or left behind without a flush loop; each event is settled in the end |
| `keycache` | 2 gateways, a lookup on each, LocalTTL 1, RedisTTL 2, lookups of up to 2 | the old row is answered for `StaleBound` at most after the handler answered, and for `Residence` at most unless a lookup held the old row as it changed |
| `accounts` | members: the founder and a second user, 2 invitations, 2 requests, 2 roles. Sessions: 3 tokens, 2 logins, 2 requests | owner, invitations and revocation under any interleaving (`OwnerStays`, `JoinedByInvitation`, `RevokedInvitationIsDead`); rotation and the end of a family (`OneActiveUnlessRaced`, `ClosedUnlessRaced`) |
| `gateway` | stages: 2 requests, limit 1, 3 windows, counters of 2 windows, commands that wait any number of windows, all faults. Payload: an answer of each provider, streamed or whole, native or unified, cut at every byte; conversations of up to 2 messages; the catalog read in two orders, with and without overrides | the limit of each window for which no INCR came too late (`AllowedPerWindow`); every request is answered once Redis is back, and streams are metered, aborted ones too (`RequestsAreAnswered`). The meter holds what the complete frames say (`UsageIsWhatArrived`); the client gets the provider's bytes, or the translated answer in order (`ClientSeesTheAnswer`); ACTUAL means the final counts, and a stream that ends has them (`ActualIsFinal`); no turn of a conversation is lost (`TurnsSurvive`); the price is the best one (`PriceIsBest`) |
| `metering_openrouter` | violation of `UpstreamCostIsCharged` | the provider's own cost of a model without a price is dropped |
| `exports` | 1 export, 2 slots, 3 events of which one is past retention, pages of 2, 2 attempts, two faults among crash, lapsed lock, error or lost answer, and failed unlink | a finished export has its whole file and a download is complete or a 404 (`FinishedIsComplete`), a settled row stays settled (`SettledIsFinal`) |
| `exports_settle` | the same with 1 event, under fairness | a queued export settles (`ExportSettles`), files without a row go (`OrphansAreSwept`) |
| `reports` | 4 events of 2 users over 2 days, two of them alike and at one instant; batches of up to 2; costs that round up and down and meet reconcile's tolerance exactly; pages of 1; one change of team | reports of every granularity and role are exact (`ReportsAreExact`), costs are within the rounding of each increment and the two tables agree (`CostWithinRounding`), teams are charged for their events (`TeamsAreCharged`), the explorer repeats nothing and skips only ties (`ExplorerSkipsOnlyTies`), drift has a cause (`DriftIsExplained`) |
| `controlplane` | 3 credentials of 2 providers and a key; 2 users, a team and a project; 2 overrides of 2 patterns, 3 writes, 2 refreshes; each entry of the query cache, 2 edits; 2 requests in each area | one default for a provider (`DefaultIsUnique`), pins are served (`PinnedIsServed`), no row of a team or project dangles (`NothingDangles`), the gateway's prices do not age and administrators do not re-key overrides, save for the two races of section 5 (`PriceChangesAreSound`), users see their own edits (`OwnEditsAreShown`) |

Why the bounds are enough to be interesting. Two workers are what it takes for batches to
commit in either order and for one to recreate the group under the other; three entries
are two events and either a poison message or a repeated XADD, and fit in one batch or
two. MAXLEN below the number of entries makes trimming happen. Two faults allow the
combinations that matter (a transaction that loses its answer, and then a restart that
delivers the batch again; a lapsed lock and a crash). A buffer of two with four events
fills, overflows and drains while others arrive. In `KeyCache` the TTLs differ and a lookup
may outlive an in-process entry, so each term of `StaleBound` is reached; after
`StaleBound + 1` the elapsed time is no longer counted, which bounds the state space without
bounding time. Two requests are the smallest number that races in `Members`, `Sessions` and
the control plane, three tokens a login with a refresh and one more. With a limit of one,
two requests are one more than a window lets through, and in the third window the counter of
the first has expired, so an INCR that is still waiting then comes too late. Pages of two make
an export of three rows span two, the second of them short, and one of two rows, after
pruning or before the insert, a full page and an empty one; liveness depends on the
queue and the slots and not on the rows, so one row will do there. The explorer has one page
per row, two of which tie. Four events are enough for a group of two, a bucket that two
batches add to, a second user and a second day; their costs end in 40, 50 and 60 hundredths
of the rollups' last place, so that they round both ways, sums differ from sums of
rounded parts, and two increments are off by exactly what reconcile tolerates. Two providers are needed for a pin to add one. For
the safety properties that are proved the bounds do not matter.

Symmetry is used in `accounts` for requests, in `reports` for teams and the two events that are alike, and in
`controlplane` for requests and for two of the rows or users: no definition tells them apart
(x1 and x2 are credentials of one provider), and these runs check only safety,
`RevokedInvitationIsDead` and `PriceChangesAreSound` being statements about single steps.

Deadlock is checked except in `sink`, `gateway`, `metering_openrouter`, `exports`,
`exports_settle`, `reports` and `controlplane`, where the instance ends: all events settled or recorded, all
requests answered, the last window over, the one export deleted, all writes used up.

### Fairness

* `Ingest`: weak fairness of each worker's `Step`: the process is scheduled, its
  supervisor starts it again, and Redis and Postgres answer. Faults, stops, publishing,
  retention and operators are not assumed to happen.
* `EventSink`: Redis answers commands when it is reachable, outages end, and the event
  loop runs continuations and the timer of `flushLoop`.
* `GatewayRequest`: strong fairness of each handler's steps, since a command waiting for
  Redis is sent whenever the connection is back, however often it drops; providers answer
  or run into `headersTimeout` and `bodyTimeout`; outages end. Without the last one
  `RequestsAreAnswered` fails: see the limiter in section 5.
* `Exports`: weak fairness of the API's second statement, of taking a waiting job, of each
  slot's steps, of BullMQ's check for stalled entries, of the daily retention job, and of
  a file getting older. Faults are not assumed to happen or not to happen, beyond their
  number.

## 4. Proofs

All theorems hold for every value of the constants that satisfies the named assumptions
of the module: any number of workers, events, gateways, lookups, users, requests, tokens,
rows, jobs and slots, any times to live, any bounds and any faults unless stated. The
assumptions say that a bound is a number, that the limit and the life of a counter are not
zero (`GatewayAssumption`), that the marks for "none" are no names (`TeamsAssumption`,
`PricesAssumption`), that a table of events is finite (`ExportsAssumption`, and
`ReportsAssumption`, which adds that a day is a number of hours) and what a request, a frame
and a price entry are made of (`MeteringAssumption`). `FinalAssumption` says what a provider's
final counts are: those that its stream tells last, of each kind, or those of a whole body,
where all but Anthropic count cached tokens as input too; and a provider that is asked for a
usage frame sends one. It is stated without the extractors and without `Normalize`, and TLC
compares it with the counts that the instance writes down for each call.

Type invariants. `TypeOK` of `Ingest` is checked and proved, those of the other modules are
proved on the way to their theorems (`GatewayTypes`, `ControlPlaneTypes`, `ExportTypes` by
name, and `MeterTypes`, `ReportsTypeOK`); no run lists them, since what they say is needed by
the properties that are listed.

* `IngestProofs`
  * `TypeCorrect`.
  * `AcknowledgedIsRecorded`: needs `AckInv`, which says the same of the state saved for a
    restart, that ids beyond the end of the log are not delivered, and that a worker at
    `ack` has its batch recorded. Without the part on the saved state a restart would
    bring back a group about which nothing is known.
  * `RollupsExact` and `IngestImplementsLedger` assume `"resend" \notin Faults`. Then the
    log is injective (`LogInjective`), an inserted event has one copy in the batch
    (`CopiesOnce`), and a commit is a `Record` step of the ledger. With repeated XADDs both
    statements are false (section 5).
  * `LastUsedIsTheLatest`: holds without strengthening, from the way a commit takes the
    maximum, in whatever order batches commit.
  * `PoisonIsKept` assumes `"restart" \notin Faults`: a restart brings back a dead-letter
    stream older than what was acknowledged. Its invariant `DlqInv` says that a worker past
    `dlq` has nothing left to dead-letter, and that a poison entry in hand is in the
    dead-letter stream or among what is left.
* `GatewayRedisProofs`, of the two components between the gateway and Redis
  * `EventSink`: `FlushLoopRuns`, and `LossesAreCounted` by a step lemma: a step loses
    at most one event, and then the counter goes up, unless the process exits. `SinkSendsOnce`
    from `OnceInv`: no event is in the buffer twice or both in the buffer and under way, and an
    event that waits has been in the stream only as often as answers to its own XADDs were
    lost, one that is settled once more at most.
  * `KeyCache`: `StalenessBounded` from `StaleInv`, which gives each place the old row
    can be in (Redis, in-process entries, lookups) a time budget that, added to the time
    since the answer, never exceeds the bound of that place. `ChangesArePrompt` from
    `PromptInv`: without a race Redis has no old row once the route has answered, and what an
    old entry or a hit has left to live shrinks as time passes.
* `MembersProofs`: `WorkspaceKeepsItsOwner`, `MembersWereInvited`, `RevocationHolds` from
  `IInv`: besides the two properties, what a request in flight knows (`Knows`) - a membership about to be
  written is not the founder's, an invitation about to be accepted is a row for the
  account that will join.
* `SessionsProofs`: `RotationLeavesOne`, `EndedForGood` from `Good(f)`: in a family without
  overlap there is at most one request in flight, and what it is about to do determines
  which tokens are usable.

* `GatewayProofs`: `GatewayTypes` and `RateLimitHolds`, of the specification of
  `GatewayRequest`, the half of `GatewaySpec` that follows the stages. The limit alone is not
  inductive, since a counter expires. `LimiterInv` says that a counter lives to its window's
  start plus `KeyTTL` at least (`LimiterOnTime`), and that until then it is at least the number of
  requests that passed (`Covered`, in `LimiterCounts`). Commands may come at any time: an INCR
  within the life of the counter is counted with the others, and one that comes later puts its
  window in `late`, of which nothing is said.

  The other half, `Metering`, is about sequences of any length, and its proofs go by induction
  over them. `UpTo` is that induction for a set of numbers instead of a predicate, from the
  well-foundedness of `<`; with it a recursive function is shown to satisfy its equation
  (`Recursion`, `SaysLoops`, `TapsLoop`, `CutLoops`).
  * `EventsHaveTheBestPrice`: the loop of `findIn` holds the longest prefix among the entries it
    has passed (`LoopFindsLongest`), so the price of a record is the best of the two tables
    (`FindsTheBest`); `PricedInv` adds what the tables are.
  * `ConversationsSurvive`: a filter keeps the order and numbers of the turns (`FilterStep`),
    for each of the three shapes of a request.
  * `UsageMetered` from `MeteredInv`: there is a number a of frames such that what is pending
    are bytes of the next frame, garbled or not (`Reads`), and the meter holds what the
    first a frames say (`ReadUpTo`). The loop of `_transform` cuts at delimiters and nowhere
    else (`CutGoesOn`, `CutCuts`, `CutIsCut`), although a delimiter may come in two chunks.
  * `ClientsSeeTheAnswer` from `ShownInv`, which adds what a chunk border does to a character:
    the garbled bytes that are pending are those of the frames in `split` (`Marks`), and a
    frame of which only the first byte has come is already there if its character is wide
    (`SplitAt`), so a frame is whole or garbled for good once it is complete
    (`MarkedForGood`). The client has been shown the translation of the first a frames
    (`Tells`), the role once (`Began`); without a translator, the bytes up to `at`.
  * `ActualCostsAreFinal` from `MeteredInv` and `FinalInv`: the stream that is sent reports the
    final counts. One more frame does to the meter of each adapter what it does to the counts
    told last (`Extracted`, `ToldStep`), so the meter of the first k frames holds what they
    tell, and is closed when one of them closes the counts (`SaysTold`); at the end of the
    stream that is what the provider calls final (`SaysFinal`, `NormalizeIs`). It needs
    `FinalAssumption`.
  * `MeterTypes`: only frames of the stream have bytes in it (`FrameOfByte`).
* `ControlPlaneProofs`, each area with its invariant, and then for `ControlPlaneSpec`:
  * `OneDefaultCredential` and `PinsStayServed` from `CredInv`: what a request that is about
    to write has read (`CredPending`) - it takes the default only from rows of its provider,
    and one that does not ask for the default has seen a row of the provider - and the
    providers of a key's pins are among the allowed ones, in the row and in a request.
  * `NoDanglingRows` from `TeamInv`: whoever a request is about to add to a team was in the
    workspace when it looked, and is still, or has left.
  * `PricesChangeSoundly`, an action property, from `PriceInv`: a PATCH in flight was
    allowed to re-key the row as it read it (`PatchesAllowed`), and unless refreshes have
    overlapped one at most is under way and its rows are no older than the snapshot
    (`RefreshesInOrder`).
  * `UsersSeeTheirEdits` from `ConsoleInv`: an edit invalidates whatever it owes the user
    (`EditsAreSound`), and an answer under way is as recent as what the
    user is owed (`AnswerIsRecent`), since an invalidation abandons every other one, unless it
    was crossed; a newer answer ends that exception too.
* `ExportsProofs`
  * `ExportTypes` needs `QueueInv`: the lock of an entry has one holder, and an entry that
    may still run has an attempt left, although entries are taken back from slots that go on.
  * `SettledForGood`: while two slots have not worked on a job at once, one slot has it, and
    as long as that slot may still write the row (`Alone`) the row is unsettled, or DONE by an
    update of that slot whose answer was lost (`Due`).
  * `FinishedFilesAreComplete` from `FileInv`: besides that, what retention and a download have
    read of a job still means something (`Kept`: only files without a row are swept), a file
    under way is strictly descending down to the cursor and lacks no owed row above it
    (`Paging`), and a finished one lacks none (`Finished`). The lemmas `EveryPlaceIsTaken` and `PageLemma` show what a page of `Batch`
    rows below a cursor is, for any table: the newest ones, in order, and the short page the
    last.

* `ReportsProofs`, from `ReportsInv`, which is inductive and has two parts.
  * `Tables`: a rollup row holds the number of events in its bucket, a cost that is theirs up
    to half a unit of the last place for each increment, and as many increments as events at
    most (`Rolls`, for hours and for days); a day's cost is the sum of its hours' (`AddsUp`);
    and the team of a row is that of one of its events (`Stamped`).
  * `Readers`: what the explorer has shown lies behind its cursor and holds nothing twice, and
    of the rows it owes only those ahead of the cursor are missing, or rows of a time at which a
    page ended (`Explored`); what reconcile read in its first query is all there is of a day, or
    the day has changed since (`ReadRaw`), and what it reports is explained (`Explains`).

  `ReportsAreExact`, `CostWithinRounding`, `TeamsAreCharged` and `DriftIsExplained` are about
  sums over sets, for which the first sections of the module build what the library lacks: an
  induction over the subsets of a finite set (`Inductive`), sums of a union, of a bound, of an
  interchange of sums (`Summable`), sums by groups (`Fibre`) and truncation of times to units that
  are multiples of each other (`Multiple`). The groups of a batch partition it, whatever its
  order, so an upsert adds every event to one row of each table.
  `CostsCorrect`, `DriftCorrect`, `ExplorerCorrect`, `ReportsCorrect` and `TeamsCorrect` follow from
  `ReportsInv` without a further step of the specification.

Proving changed a few definitions and no behaviour: on one instance the states are the same.
`Written` in `Exports` was a CASE whose guards overlapped. TLC takes the first that holds, TLA+
leaves the value open, and no proof goes through; it is an IF now. The loops of `Metering` and
the sums of `Reports` were folds, whose definitions the provers cannot open; they are recursive
functions now. A batch's groups in `Reports` are indexed by the place of the event that opens
them, which is what decides the team.

Only model-checked: liveness (`RecordedUnlessFault`, `LoopNeverWedges`, `EmittedIsSettled`,
`RequestsAreAnswered`, `ExportSettles`, `OrphansAreSwept`), which is out of the prover's reach.
Every other property of a passing run is a theorem.

## 5. What the models show of the code

Two runs expect a violation and are described under "findings", with the line of a comment
or document the code disagrees with: pending entries are never claimed (`ingest_crash`), and
the cost a provider reports is dropped when no price matches (`metering_openrouter`).

Some properties carry a qualification, and each of these is a place where the unqualified
statement fails in the model.

Ingest and gateway:

* `RecordedUnlessFault`: also a failed transaction leaves its batch pending, since the
  next XREADGROUP asks for new entries only.
* `RollupsMatchRows` is checked without repeated XADDs: `persistBatch` filters a batch by
  `inserted.has(e.id)`, and an event that is in the batch twice passes the filter twice
  (`persist.ts:18`), although `persist.ts:9` says redeliveries "can never double-count".
* `EveryLossCounted` speaks of a live process: `shutdown()` of the gateway discards the
  buffer and the commands under way without counting them. While the connection is down
  nothing reaches the retry buffer; events wait in the client, which has no bound.
* `PromptUnlessRaced`: a lookup that read the row before a revocation writes it to Redis
  after the invalidation, where it lives for REDIS_TTL_S.
* `RequestsAreAnswered` asks only that streams be metered: a buffered body that breaks off after the provider
  has answered makes `readAll` throw and ends the handler before `finalize`
  (`pipeline.ts:162`), so the request is never metered.
* `RequestsAreAnswered` needs outages to end: with `maxRetriesPerRequest: null` the
  limiter's INCR neither succeeds nor fails while Redis cannot be reached, so the request
  waits, although `ratelimit.ts:11` says that the limiter fails open.
* `AllowedPerWindow` counts what the limiter lets through; requests let through because
  Redis refused the command (fail open) are not held against the limit. It excepts windows
  for which an INCR came late: a command that is queued in the client waits for as long as the
  outage lasts (`queue/index.ts:75`), the counter of its window lives for 120 seconds
  (`ratelimit.ts:22`), and an INCR that comes after that starts it from 1 again, so requests
  that waited out a long outage can pass beyond the limit. A shorter wait does no harm, and
  neither does an EXPIRE of any age.
* `ClientSeesTheAnswer`: text whose bytes two chunks share is garbled in a translated
  stream, since each chunk is decoded by itself (`core.ts:104`). Streams that are passed
  through are not affected, and neither is the usage.
* `ActualIsFinal` excepts the unified endpoint in front of Ollama: the answer has the shape
  of OpenAI there and the adapter reads that of Ollama's own API, so nothing is metered. It
  also excepts bodies that are not JSON, which are not asked for a usage frame.

Sessions and members:

* `OneActiveUnlessRaced`: two refreshes with one token that overlap both succeed.
* `ClosedUnlessRaced`: a replay detected between the two writes of a refresh
  (`auth.ts:148` and `152`) revokes the rows that exist and misses the one about to be
  created, which stays usable.
* `accept` works with the invitation it found, so a link that is replaced meanwhile still
  lets its holder in, and two overlapping accepts of a link can let a member in again who
  was removed between them. No property excludes either.

Exports and reports:

* `FinishedIsComplete` and `SettledIsFinal` except jobs that two slots have worked on at
  once: the second slot truncates the file under the first (`export-csv.ts:42`), and either
  may settle the row.
* `SettledIsFinal` lets an attempt write FAILED over its own DONE: the update to DONE is inside
  the try block, so when it commits and its answer is lost the catch block records a failure
  (`export-csv.ts:55-67`), although the file is complete and the row has its expiry. Until then
  the export can be downloaded, afterwards it cannot; retention removes both in time.
* `ExportSettles` starts from a queued job: a row whose API process died before it queued
  the job stays PENDING, and the console polls it for ever. It also excepts entries BullMQ
  has given up after `maxStalledCount`, whose row stays RUNNING.
* `CostWithinRounding`: the rollups keep six places of costs that have eight. A sum is off
  by half a millionth of a dollar for each increment, so reconcile, which tolerates one
  millionth, reports drift for days with three or more increments (`DriftIsExplained`), and
  also when ingest or retention changes a day between its two queries. With two increments the
  difference can be one millionth exactly; the sums are subtracted as doubles
  (`reconcile.ts:50-51`), and the result is above 1e-6 or not as the sums happen to be rounded
  (100.000003 - 100.000002 is), so the model lets such a day be reported or not.
* `TeamsAreCharged` excepts daily buckets with events of two teams: the whole bucket is
  charged to the team of the event that came first, since the team is not part of the key.
  The total of a breakdown, and so each share, leaves out the groups beyond the limit.
* `ExplorerSkipsOnlyTies`: the cursor is a time without the id that `docs/10` speaks of, so
  rows of the instant at which a page ends are skipped.

Control plane:

* `DefaultIsUnique`: deleting the default leaves a provider without one, and the gateway
  takes the oldest active credential.
* `PinnedIsServed` speaks of pins whose credential is there and active: a key pinned to
  deleted credentials only is refused. Taking a pin away does not take back the provider
  that it added to the key's list (`keys.ts:145`).
* `NothingDangles`: removal from the workspace leaves the rows of `team_member`, and
  who comes back is a LEAD again.
* A key can be issued in a project that is archived between the check and the write
  (`keys.ts:102`); no property excludes it.
* `PriceChangesAreSound`: an administrator's PATCH that read the row before an OWNER re-keyed
  it writes the old key back. Refreshes that overlap may install the older answer last. The seed
  writes row by row, so a refresh can install a part of the catalog.
* `OwnEditsAreShown` excepts the pairs in `Unannounced`, where a page edits what another
  page shows and does not invalidate it (the onboarding wizard's credential and key, the
  deletion of teams and projects), and an entry for which an answer older than the edit was on
  its way when it was invalidated. react-query abandons a request only if the page is open
  and the entry has data: the first load of an entry goes on (a list is served, a row is created
  from its page, the list arrives without the row), and so does the request for a page the user
  has left. The old answer is taken for fresh, for a minute at most, or until a newer one
  comes. An edit whose answer is lost invalidates nothing.
* The "New override" dialog of the pricing page never opens: `open={existing !== null}`
  (`PricingPage.tsx:179`), and "new" is mapped to `existing = null`. It is left out of
  `Console`.

## 6. Not modelled, and the plan

Left out for good: layout, forms and charts of the web console, telemetry, configuration,
health endpoints, the licensing stub, encryption and hashing, wording of errors, HTTP
headers, labels and date parsing of the analytics routes, and the instance administration,
which only reads. They keep no state the others depend on. Contents of messages beyond
their role and order, finish reasons, tools and images pass through the translation
untouched by anything stated here.

Next, in this order:

1. `Pipeline`: `EventSink` and `Ingest` composed over the stream, from `emit` to the
   rollup, with the end-to-end statement (recorded, counted as lost, trimmed, or pending).
2. The console's API client (`apps/web/src/api`): how tabs and parallel requests present
   refresh tokens, composed with `Sessions`.
