------------------------------- MODULE Reports -------------------------------
(***************************************************************************)
(* What the console shows of the usage, and where it comes from: batches of *)
(* events become raw rows and rollups (apps/worker/src/ingest/rollups.ts,   *)
(* persist.ts), the explorer pages through the raw rows and the reports     *)
(* group the rollups (apps/api/src/modules/analytics.ts, analytics-query.ts), *)
(* and reconcile compares the two (apps/worker/src/jobs/reconcile.ts), while *)
(* ingest commits, retention prunes and projects change teams.  Money is    *)
(* counted in units of 1e-8 USD; requests stand for every integer sum of a  *)
(* rollup.                                                                  *)
(***************************************************************************)
EXTENDS Integers, FiniteSets, Sequences, SequencesExt, FiniteSetsExt

CONSTANTS
  Event,      \* usage events
  User,       \* the users they belong to
  Team,       \* teams the project can belong to
  UserOf,     \* the user of each event
  OccurredAt, \* the time of each event
  CostUsd,    \* the cost of each event, numeric(14,8)
  Hour, Day,  \* the length of an hour and of a day
  Quantum,    \* a unit in the last place of the rollups' numeric(14,6)
  Limit,      \* rows of a page of the explorer, and of a breakdown
  MaxBatch,   \* events of an ingest batch
  MaxMoves    \* how often the project changes its team

ASSUME ReportsAssumption ==
  /\ IsFiniteSet(Event) /\ IsFiniteSet(User)
  /\ UserOf \in [Event -> User]
  /\ OccurredAt \in [Event -> Nat] /\ CostUsd \in [Event -> Nat]
  /\ {Hour, Day, Quantum, Limit, MaxBatch} \subseteq Nat \ {0}
  /\ Day % Hour = 0
  /\ MaxMoves \in Nat

VARIABLES
  team,       \* project.teamId
  stamp,      \* teamId of each event that was emitted, "none" before
  recorded,   \* events that ingest has committed
  rows,       \* usage_event: the recorded events that are not pruned
  hourly,     \* usage_rollup_hourly, by <<bucket, user>>
  daily,      \* usage_rollup_daily, by <<bucket, user>>
  reader,     \* a reader of the tables and what it has read
  moves       \* changes of team left

vars == <<team, stamp, recorded, rows, hourly, daily, reader, moves>>

\* The sum of f over a finite set.
SumOver(f, S) ==
  LET sum[T \in SUBSET S] ==
        IF T = {} THEN 0 ELSE LET x == CHOOSE x \in T : TRUE IN f[x] + sum[T \ {x}]
  IN  sum[S]

SumCost(events) == SumOver(CostUsd, events)

\* truncateUtc
Truncate(t, unit) == (t \div unit) * unit

\* The primary key of a rollup; project, provider and model are fixed here.
Key(e, unit)  == <<Truncate(OccurredAt[e], unit), UserOf[e]>>
Buckets(unit) == {(OccurredAt[e] \div unit) * unit : e \in Event}
DayOf(e)      == (OccurredAt[e] \div Day) * Day

NoRow == [requests |-> 0, costUsd |-> 0, teamId |-> "none", parts |-> 0]
Idle  == [kind |-> "idle"]

Init ==
  /\ team \in Team
  /\ stamp = [e \in Event |-> "none"]
  /\ recorded = {} /\ rows = {}
  /\ hourly = [k \in Buckets(Hour) \X User |-> NoRow]
  /\ daily = [k \in Buckets(Day) \X User |-> NoRow]
  /\ reader = Idle
  /\ moves = MaxMoves

---------------------------------------------------------------------------
(* Rollups *)

\* PATCH /projects/:id with a teamId.
MoveProject(t) ==
  /\ moves > 0 /\ team # t
  /\ team' = t
  /\ moves' = moves - 1
  /\ UNCHANGED <<stamp, recorded, rows, hourly, daily, reader>>

\* The gateway meters a request: the event carries the team of its project.
Emit(e) ==
  /\ stamp[e] = "none"
  /\ stamp' = [stamp EXCEPT ![e] = team]
  /\ UNCHANGED <<team, recorded, rows, hourly, daily, reader, moves>>

\* Faulty variant: a group takes the team that its project has now.
TeamOfProject(first) == team

\* A group takes the team of its first event: the team is not part of the key.
TeamOf(first) == stamp[first]

\* The events of a batch in the hour, and of the user, of its i-th.
GroupOf(batch, i) == {e \in ToSet(batch) : Key(e, Hour) = Key(batch[i], Hour)}

\* The positions of the events that open a group: no earlier one belongs to it.
Opening(batch) == {i \in DOMAIN batch : \A j \in 1..(i - 1) : batch[j] \notin GroupOf(batch, i)}

\* groupRollups: the groups of a batch, each summed up, by the position of the
\* event that opens it.
GroupRollups(batch) ==
  [i \in Opening(batch) |->
     [first    |-> batch[i],
      requests |-> Cardinality(GroupOf(batch, i)),
      teamId   |-> TeamOf(batch[i]),
      costUsd  |-> SumCost(GroupOf(batch, i))]]

\* Faulty variant: the column cuts off what it cannot hold.
StoredDown(cost) == (cost \div Quantum) * Quantum

\* The column has fewer places than the increment: Postgres rounds to them.
Stored(cost) == ((cost + Quantum \div 2) \div Quantum) * Quantum

\* The row after INSERT ... ON CONFLICT DO UPDATE of the groups at these
\* positions, in their order: the first increment of a key sets its team, all
\* of them add to the sums.  parts counts the increments.
Added(r, groups, mine) ==
  [requests |-> r.requests + SumOver([i \in mine |-> groups[i].requests], mine),
   costUsd  |-> r.costUsd + SumOver([i \in mine |-> Stored(groups[i].costUsd)], mine),
   teamId   |-> IF r.requests = 0 /\ mine # {} THEN groups[Min(mine)].teamId ELSE r.teamId,
   parts    |-> r.parts + Cardinality(mine)]

\* The groups of the batch that go into the row of key k.
Into(k, unit, groups) == {i \in DOMAIN groups : Key(groups[i].first, unit) = k}

Upsert(table, unit, groups) ==
  [k \in DOMAIN table |-> Added(table[k], groups, Into(k, unit, groups))]

\* A step that changes raw rows of these days disturbs a reconcile under way.
Disturb(r, days) == IF r.kind = "reconcile" THEN [r EXCEPT !.touched = @ \cup days] ELSE r

\* persistBatch of events that are new: rows and both rollups at once.
Ingest(batch) ==
  /\ \A e \in ToSet(batch) : stamp[e] # "none" /\ e \notin recorded
  /\ recorded' = recorded \cup ToSet(batch)
  /\ rows' = rows \cup ToSet(batch)
  /\ hourly' = Upsert(hourly, Hour, GroupRollups(batch))
  /\ daily' = Upsert(daily, Day, GroupRollups(batch))
  /\ reader' = Disturb(reader, {DayOf(e) : e \in ToSet(batch)})
  /\ UNCHANGED <<team, stamp, moves>>

\* runRetention deletes old raw rows, a batch at a time (here one row); the
\* rollups stay.
Prune(e) ==
  /\ rows' = rows \ {e}
  /\ reader' = IF reader.kind = "explorer" THEN [reader EXCEPT !.owed = @ \ {e}] ELSE reader
  /\ UNCHANGED <<team, stamp, recorded, hourly, daily, moves>>

---------------------------------------------------------------------------
(* The explorer: GET /usage/events, page after page (UsagePage) *)

\* The page is opened; owed are the rows that it should come to show.
Explore ==
  /\ reader = Idle
  /\ reader' = [kind |-> "explorer", shown |-> <<>>, cursor |-> -1, more |-> TRUE,
                owed |-> rows]
  /\ UNCHANGED <<team, stamp, recorded, rows, hourly, daily, moves>>

\* occurredAt < decodeCursor(cursor), unless there is none.
Before(e, cursor) == cursor = -1 \/ OccurredAt[e] < cursor

\* The pages the query may return: the newest rows, those of one time in any
\* order.
Pages(found) ==
  {page \in kSubset(Min({Limit, Cardinality(found)}), found) :
     \A e \in page, x \in found \ page : OccurredAt[e] >= OccurredAt[x]}

\* Faulty variant: the cursor keeps only the day.
EdgeDay(page) == (Min({OccurredAt[e] : e \in page}) \div Day) * Day

\* encodeCursor: the time of the last row of a page, and nothing else.
Edge(page) == Min({OccurredAt[e] : e \in page})

\* One row more than the page is read, to know whether another page follows.
LoadMore ==
  /\ reader.kind = "explorer" /\ reader.more
  /\ LET found == {e \in rows : Before(e, reader.cursor)}
     IN  \E page \in Pages(found) :
           reader' = IF Cardinality(found) > Limit
                     THEN [reader EXCEPT !.shown = @ \o SetToSeq(page), !.cursor = Edge(page)]
                     ELSE [reader EXCEPT !.shown = @ \o SetToSeq(page), !.more = FALSE]
  /\ UNCHANGED <<team, stamp, recorded, rows, hourly, daily, moves>>

---------------------------------------------------------------------------
(* Reports over the rollups *)

\* Faulty variant: nobody's view is trimmed.
WideAll(role) == TRUE

\* scopeUserId: a MEMBER sees only its own usage.
Wide(role) == role \in {"OWNER", "ADMIN", "VIEWER"}

\* buildWhere: the rows of a table in [from, to) that the caller may see.
Where(table, from, to, role, u) ==
  {k \in DOMAIN table : /\ table[k].requests > 0
                        /\ k[1] >= from /\ k[1] < to
                        /\ Wide(role) \/ k[2] = u}

\* tableFor: only the hourly report reads the hourly table.
TableFor(unit) == IF unit = Hour THEN hourly ELSE daily

\* queryTimeseries of the requests: the bucket of each key cut to the unit.
Timeseries(unit, from, to, role, u) ==
  LET keys == Where(TableFor(unit), from, to, role, u)
  IN  [t \in {(k[1] \div unit) * unit : k \in keys} |->
         SumOver([k \in keys |-> TableFor(unit)[k].requests],
                 {k \in keys : (k[1] \div unit) * unit = t})]

\* queryBreakdown by team: the cost of the daily rollups of each team.
CostByTeam(from, to, role, u) ==
  LET keys == Where(daily, from, to, role, u)
  IN  [t \in {daily[k].teamId : k \in keys} |->
         SumOver([k \in keys |-> daily[k].costUsd], {k \in keys : daily[k].teamId = t})]

\* The answers: the Limit most expensive groups, and the sum of those alone.
Breakdowns(costs) ==
  {[rows |-> shown, totalCostUsd |-> SumOver(costs, shown)] :
     shown \in {s \in kSubset(Min({Limit, Cardinality(DOMAIN costs)}), DOMAIN costs) :
                  \A g \in s, x \in DOMAIN costs \ s : costs[g] >= costs[x]}}

---------------------------------------------------------------------------
(* Reconcile *)

\* The raw rows are read by day ...
ReconcileRaw ==
  /\ reader = Idle
  /\ reader' = [kind |-> "reconcile", touched |-> {}, drift |-> {},
                raw |-> [d \in Buckets(Day) |-> {e \in rows : DayOf(e) = d}],
                pruned |-> {DayOf(e) : e \in recorded \ rows}]
  /\ UNCHANGED <<team, stamp, recorded, rows, hourly, daily, moves>>

\* Faulty variant: the cost of a day is compared with that of a single user.
RollupCostFirst(d) == daily[CHOOSE k \in DOMAIN daily : k[1] = d].costUsd

\* ... then the rollups ...
RollupCost(d)     == SumOver([u \in User |-> daily[<<d, u>>].costUsd], User)
RollupRequests(d) == SumOver([u \in User |-> daily[<<d, u>>].requests], User)

\* ... and a day with raw rows drifts when its counts differ, or its costs by
\* more than 1e-6 USD.  The sums are subtracted as doubles: a difference of just
\* 1e-6 comes out above it or not, as the sums happen to be rounded.  (Any other
\* difference is 1e-8 away, beyond their error below ten million USD a day.)
Drifts(d, raw, above) ==
  /\ raw # {}
  /\ \/ RollupRequests(d) # Cardinality(raw)
     \/ RollupCost(d) - SumCost(raw) > Quantum
     \/ SumCost(raw) - RollupCost(d) > Quantum
     \/ above /\ RollupCost(d) - SumCost(raw) \in {Quantum, -Quantum}

ReconcileRollups ==
  /\ reader.kind = "reconcile"
  /\ \E above \in SUBSET Buckets(Day) :
       reader' = [reader EXCEPT !.kind = "reconciled",
                                !.drift = {d \in Buckets(Day) : Drifts(d, reader.raw[d], d \in above)}]
  /\ UNCHANGED <<team, stamp, recorded, rows, hourly, daily, moves>>

Close ==
  /\ reader.kind \in {"explorer", "reconciled"}
  /\ reader' = Idle
  /\ UNCHANGED <<team, stamp, recorded, rows, hourly, daily, moves>>

---------------------------------------------------------------------------
Next ==
  \/ \E t \in Team : MoveProject(t)
  \/ \E e \in Event : Emit(e)
  \/ \E b \in SetToAllKPermutations(Event \ recorded) : Len(b) \in 1..MaxBatch /\ Ingest(b)
  \/ \E e \in rows : Prune(e)
  \/ Explore \/ LoadMore \/ ReconcileRaw \/ ReconcileRollups \/ Close

Spec == Init /\ [][Next]_vars

---------------------------------------------------------------------------
(* Properties *)

\* Every raw row is of a committed event, every committed event was emitted, and
\* only rows that are in the table are owed to the explorer.
TypeOK ==
  /\ team \in Team /\ moves \in 0..MaxMoves
  /\ stamp \in [Event -> Team \cup {"none"}]
  /\ rows \subseteq recorded /\ recorded \subseteq {e \in Event : stamp[e] # "none"}
  /\ \A t \in {hourly, daily} : \A k \in DOMAIN t :
       t[k].requests \in Nat /\ t[k].parts \in 0..t[k].requests /\ t[k].costUsd \in Nat
  /\ reader.kind \in {"idle", "explorer", "reconcile", "reconciled"}
  /\ reader.kind = "explorer" => reader.owed \subseteq rows

\* A report over whole days counts, at every granularity, each event that the
\* caller may see exactly once and no other, however the events were batched,
\* whatever was pruned since, and whatever the team of the project.
ReportsAreExact ==
  \A from \in Buckets(Day), role \in {"ADMIN", "MEMBER"}, u \in User :
    \A to \in {d + Day : d \in {d \in Buckets(Day) : d >= from}} :
      LET seen == {e \in recorded : /\ from <= OccurredAt[e] /\ OccurredAt[e] < to
                                    /\ role = "ADMIN" \/ UserOf[e] = u}
      IN  \A unit \in {Hour, Day, 2 * Day} :
            LET Slot(e) == (OccurredAt[e] \div unit) * unit
            IN  Timeseries(unit, from, to, role, u) =
                  [t \in {Slot(e) : e \in seen} |-> Cardinality({e \in seen : Slot(e) = t})]

InBucket(unit, k) == {e \in recorded : (OccurredAt[e] \div unit) * unit = k[1] /\ UserOf[e] = k[2]}

\* x and y differ by no more than n roundings to the column's last place.
Within(x, y, n) == 2 * (x - y) <= n * Quantum /\ 2 * (y - x) <= n * Quantum

\* The hours of the day of a daily rollup.
HoursOf(k) == {h \in DOMAIN hourly : h[2] = k[2] /\ k[1] <= h[1] /\ h[1] < k[1] + Day}

\* The cost of a rollup is that of its events up to half a unit in the last
\* place for each increment, and the two tables agree on every day exactly.
CostWithinRounding ==
  /\ \A k \in DOMAIN hourly : Within(hourly[k].costUsd, SumCost(InBucket(Hour, k)), hourly[k].parts)
  /\ \A k \in DOMAIN daily :
       daily[k].costUsd = SumOver([h \in DOMAIN hourly |-> hourly[h].costUsd], HoursOf(k))

\* The breakdown by team charges each team for the events that it owned when
\* they happened (docs/05), up to rounding, as long as no daily rollup holds
\* events of two teams; and its total is the whole cost when every team fits.
TeamsAreCharged ==
  (\A k \in DOMAIN daily : Cardinality({stamp[e] : e \in InBucket(Day, k)}) <= 1) =>
    LET costs == CostByTeam(0, Max(Buckets(Day)) + 1, "OWNER", CHOOSE u \in User : TRUE)
        Parts == SumOver([k \in DOMAIN daily |-> daily[k].parts], DOMAIN daily)
    IN  /\ DOMAIN costs = {stamp[e] : e \in recorded}
        /\ \A t \in DOMAIN costs :
             Within(costs[t], SumCost({e \in recorded : stamp[e] = t}), Parts)
        /\ \A b \in Breakdowns(costs) :
             Cardinality(DOMAIN costs) <= Limit => Within(b.totalCostUsd, SumCost(recorded), Parts)

\* The explorer shows no event twice, whatever is ingested or pruned between two
\* pages, and when it has no more pages it has shown every row that was there
\* when it was opened and still is, except rows of the very time at which a page
\* ended (the cursor holds no id, against docs/10:96).
ExplorerSkipsOnlyTies ==
  reader.kind = "explorer" =>
    /\ IsInjective(reader.shown)
    /\ ~reader.more => \A e \in reader.owed : \E x \in ToSet(reader.shown) : OccurredAt[x] = OccurredAt[e]

Increments(d) == SumOver([u \in User |-> daily[<<d, u>>].parts], User)

\* Reconcile reports a day only if ingest or retention changed its rows around
\* the two reads, or it had the two increments whose roundings can add up to 1e-6.
DriftIsExplained ==
  reader.kind = "reconciled" =>
    \A d \in reader.drift : d \in reader.touched \cup reader.pruned \/ Increments(d) > 1
=============================================================================
