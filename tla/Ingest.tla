------------------------------- MODULE Ingest -------------------------------
(***************************************************************************)
(* The usage-event ingest path of the worker (apps/worker/src/ingest): the  *)
(* Redis stream usage.events with its consumer group, the workers that run  *)
(* XREADGROUP -> dead-letter -> persistBatch -> XACK, and the Postgres      *)
(* tables persistBatch writes, together with what happens around them:      *)
(* Redis restarts, failed transactions, crashes, graceful stops, retention  *)
(* and the deletion of rows that events refer to.                           *)
(*                                                                          *)
(* The stream is an append-only log plus the set of ids still in it: Redis  *)
(* ids only grow, so an id is never reused even when an entry is trimmed or *)
(* lost.  The rollup tables are the multiset of events that were added to   *)
(* them (charged): every column of a rollup row is a sum over it.           *)
(***************************************************************************)
EXTENDS Naturals, Sequences, FiniteSets

CONSTANTS
  Event,       \* usage events; one element per event id
  Poison,      \* payloads that decodeBatch refuses
  Worker,      \* worker processes
  VirtualKey,  \* rows of virtual_key
  Parent,      \* rows of project and provider_credential
  Restricted,  \* the parents that are projects: usage_event restricts deletion
  Deletable,   \* the parents an operator may try to delete
  Time,        \* values of occurredAt; 0 is SQL's NULL
  KeyOf,       \* [Event -> VirtualKey]
  ParentsOf,   \* [Event -> SUBSET Parent]
  OccurredAt,  \* [Event -> Time]
  BatchSize,   \* INGEST_BATCH_SIZE
  MaxLen,      \* MAXLEN of XADD
  Faults,      \* the faults that may happen
  MaxFaults,   \* how many of them
  MaxEntries,  \* bound on XADDs
  MaxPrunes    \* bound on prunings of one event

FaultKinds == {"resend", "crash", "postgres", "redis", "restart"}

ASSUME SetsAssumption ==
  /\ Event \cap Poison = {}
  /\ Restricted \subseteq Parent
  /\ Deletable \subseteq Parent
  /\ Time \subseteq Nat
  /\ 0 \in Time
  /\ Faults \subseteq FaultKinds

ASSUME FunctionsAssumption ==
  /\ KeyOf \in [Event -> VirtualKey]
  /\ ParentsOf \in [Event -> SUBSET Parent]
  /\ OccurredAt \in [Event -> Time \ {0}]

ASSUME BoundsAssumption ==
  /\ BatchSize \in Nat \ {0}
  /\ MaxLen \in Nat \ {0}
  /\ MaxFaults \in Nat
  /\ MaxEntries \in Nat
  /\ MaxPrunes \in Nat

VARIABLES
  log,         \* payload of every XADD ever made, indexed by entry id
  stream,      \* ids of the entries now in the stream
  group,       \* the consumer group: does it exist, last id delivered, pending
  dlq,         \* ids copied to the dead-letter stream
  saved,       \* what Redis comes back with after a restart
  pc,          \* where each worker's loop is
  running,     \* the running flag of startIngest
  batch,       \* entry ids of the batch in hand
  todo,        \* invalid entries of it not yet dead-lettered
  usage_event, \* events that have a raw row
  charged,     \* how often each event was added to the rollups
  pruned,      \* how often retention deleted the event's row
  lastUsedAt,  \* virtual_key.lastUsedAt
  alive,       \* parents that have not been deleted
  budget       \* faults that may still happen

redis    == <<log, stream, group, dlq, saved>>
workers  == <<pc, running, batch, todo>>
postgres == <<usage_event, charged, pruned, lastUsedAt, alive>>
vars     == <<log, stream, group, dlq, saved, pc, running, batch, todo,
              usage_event, charged, pruned, lastUsedAt, alive, budget>>

Payload == Event \cup Poison
NoGroup == [exists |-> FALSE, cursor |-> 0, pel |-> {}]
Group   == [exists : BOOLEAN, cursor : Nat, pel : SUBSET Nat]

Published == {log[i] : i \in DOMAIN log}

Init ==
  /\ log = <<>>
  /\ stream = {}
  /\ group = NoGroup
  /\ dlq = {}
  /\ saved = [stream |-> {}, group |-> NoGroup, dlq |-> {}]
  /\ pc = [w \in Worker |-> "down"]
  /\ running = [w \in Worker |-> FALSE]
  /\ batch = [w \in Worker |-> {}]
  /\ todo = [w \in Worker |-> {}]
  /\ usage_event = {}
  /\ charged = [e \in Event |-> 0]
  /\ pruned = [e \in Event |-> 0]
  /\ lastUsedAt = [k \in VirtualKey |-> 0]
  /\ alive = Parent
  /\ budget = MaxFaults

Fault(f) == /\ f \in Faults
            /\ budget > 0
            /\ budget' = budget - 1

---------------------------------------------------------------------------
(* Redis *)

\* XADD ... MAXLEN ~ n: the oldest entries may go, never below n of them.
Trimmed(full) ==
  {S \in SUBSET full :
     /\ S = full \/ Cardinality(S) >= MaxLen
     /\ \A i \in full \ S : \A j \in S : i < j}

XAdd(p) ==
  /\ Len(log) < MaxEntries
  /\ log' = Append(log, p)
  /\ stream' \in Trimmed(stream \cup {Len(log) + 1})
  /\ UNCHANGED <<group, dlq, saved, workers, postgres>>

\* publishUsageEvent: one XADD for each event the gateway emits.
Publish(p) ==
  /\ p \notin Published
  /\ XAdd(p)
  /\ UNCHANGED budget

\* The connection drops after Redis ran the XADD and before its reply: the
\* client sends the command again on reconnection.
Resend(p) ==
  /\ Fault("resend")
  /\ p \in Published
  /\ XAdd(p)

\* XGROUP CREATE usage.events ingest 0 MKSTREAM; BUSYGROUP is ignored.
EnsureConsumerGroup ==
  group' = IF group.exists THEN group ELSE [NoGroup EXCEPT !.exists = TRUE]

\* The append-only file reaches the disk ...
Fsync ==
  /\ "restart" \in Faults
  /\ saved' = [stream |-> stream, group |-> group, dlq |-> dlq]
  /\ saved' # saved
  /\ UNCHANGED <<log, stream, group, dlq, workers, postgres, budget>>

\* ... and a restart brings back what was there: the stream, the group and
\* the dead letters go back together, possibly to nothing at all.
RedisRestart ==
  /\ Fault("restart")
  /\ stream' = saved.stream
  /\ group' = saved.group
  /\ dlq' = saved.dlq
  /\ UNCHANGED <<log, saved, workers, postgres>>

---------------------------------------------------------------------------
(* The loop of startIngest *)

Unread == {i \in stream : i > group.cursor}

\* What XREADGROUP COUNT BatchSize > may deliver: the oldest unread entries.
Delivery(S) ==
  /\ S # {}
  /\ S \subseteq Unread
  /\ \A i \in Unread \ S : \A j \in S : j < i
  /\ Cardinality(S) <= BatchSize
  /\ S = Unread \/ Cardinality(S) = BatchSize

Delivered(S) ==
  \E last \in S :
    /\ \A i \in S : i <= last
    /\ group' = [group EXCEPT !.cursor = last, !.pel = @ \cup S]

Invalid(S) == {i \in S : log[i] \in Poison}

\* persistBatch is skipped when no entry of the batch is valid.
AfterDlq(S) == IF Invalid(S) = S THEN "ack" ELSE "persist"

\* Faulty variant: a stopped loop ends nowhere.
NextTurnStuck(w) == IF running[w] THEN "read" ELSE "stopping"

\* while (running): the next turn of the loop, or the process ends.
NextTurn(w) == IF running[w] THEN "read" ELSE "down"

EndTurn(w) ==
  /\ pc' = [pc EXCEPT ![w] = NextTurn(w)]
  /\ batch' = [batch EXCEPT ![w] = {}]
  /\ todo' = [todo EXCEPT ![w] = {}]
  /\ UNCHANGED running

\* main.ts: the group is ensured, then the loop starts.
Boot(w) ==
  /\ pc[w] = "down"
  /\ EnsureConsumerGroup
  /\ pc' = [pc EXCEPT ![w] = "read"]
  /\ running' = [running EXCEPT ![w] = TRUE]
  /\ UNCHANGED <<log, stream, dlq, saved, batch, todo, postgres, budget>>

\* XREADGROUP returns entries and decodeBatch sorts them into valid and not.
Read(w) ==
  /\ pc[w] = "read"
  /\ group.exists
  /\ \E S \in SUBSET Unread :
       /\ Delivery(S)
       /\ Delivered(S)
       /\ batch' = [batch EXCEPT ![w] = S]
       /\ todo' = [todo EXCEPT ![w] = Invalid(S)]
       /\ pc' = [pc EXCEPT ![w] = IF Invalid(S) # {} THEN "dlq" ELSE AfterDlq(S)]
  /\ UNCHANGED <<log, stream, dlq, saved, running, postgres, budget>>

\* The reply of XREADGROUP is lost with the connection: the client repeats
\* the command and reads on, the first delivery stays pending.
ReadReplyLost(w) ==
  /\ Fault("redis")
  /\ pc[w] = "read"
  /\ group.exists
  /\ \E S \in SUBSET Unread : Delivery(S) /\ Delivered(S)
  /\ UNCHANGED <<log, stream, dlq, saved, workers, postgres>>

\* BLOCK ran out: nothing to do this turn.
ReadNothing(w) ==
  /\ pc[w] = "read"
  /\ ~running[w]
  /\ group.exists
  /\ Unread = {}
  /\ EndTurn(w)
  /\ UNCHANGED <<redis, postgres, budget>>

\* Faulty variant: the missing group is not recreated.
ReadNoGroupIgnored(w) ==
  /\ pc[w] = "read"
  /\ ~group.exists
  /\ EndTurn(w)
  /\ UNCHANGED <<redis, postgres, budget>>

\* NOGROUP: recreate the group and continue, unless stop() was called.
ReadNoGroup(w) ==
  /\ pc[w] = "read"
  /\ ~group.exists
  /\ IF running[w] THEN EnsureConsumerGroup ELSE UNCHANGED group
  /\ EndTurn(w)
  /\ UNCHANGED <<log, stream, dlq, saved, postgres, budget>>

\* One XADD to usage.events.dlq for each invalid entry, oldest first.
DeadLetter(w) ==
  /\ pc[w] = "dlq"
  /\ \E i \in todo[w] :
       /\ \A j \in todo[w] : i <= j
       /\ dlq' = dlq \cup {i}
       /\ todo' = [todo EXCEPT ![w] = @ \ {i}]
       /\ pc' = [pc EXCEPT ![w] = IF todo[w] = {i} THEN AfterDlq(batch[w]) ELSE "dlq"]
  /\ UNCHANGED <<log, stream, group, saved, running, batch, postgres, budget>>

\* XACK of every id of the batch; without a group it acknowledges nothing.
Ack(w) ==
  /\ pc[w] = "ack"
  /\ group' = [group EXCEPT !.pel = @ \ batch[w]]
  /\ EndTurn(w)
  /\ UNCHANGED <<log, stream, dlq, saved, postgres, budget>>

\* Faulty variant: a failed dead-letter XADD is swallowed.
RedisErrorSwallowed(w) ==
  /\ Fault("redis")
  /\ pc[w] = "dlq"
  /\ pc' = [pc EXCEPT ![w] = AfterDlq(batch[w])]
  /\ todo' = [todo EXCEPT ![w] = {}]
  /\ UNCHANGED <<redis, running, batch, postgres>>

\* A Redis command of the turn is refused (out of memory, loading): the
\* catch block backs off and the loop reads on.
RedisError(w) ==
  /\ Fault("redis")
  /\ pc[w] \in {"dlq", "ack"}
  /\ EndTurn(w)
  /\ UNCHANGED <<redis, postgres>>

---------------------------------------------------------------------------
(* persistBatch *)

EventsOf(S) == {log[i] : i \in S} \cap Event

\* INSERT ... ON CONFLICT DO NOTHING RETURNING id
Inserted(w) == EventsOf(batch[w]) \ usage_event

\* Foreign keys are checked for the rows that are inserted.
ForeignKeysHold(w) == \A e \in Inserted(w) : ParentsOf[e] \subseteq alive

\* Faulty variant: the rollups are computed from the whole batch.
CopiesUnfiltered(w, e) == Cardinality({i \in batch[w] : log[i] = e})

\* events.filter((e) => inserted.has(e.id)): how often e is in it.
Copies(w, e) ==
  IF e \in Inserted(w) THEN Cardinality({i \in batch[w] : log[i] = e}) ELSE 0

\* Faulty variant: a batch overwrites a later lastUsedAt.
IsLatestOfBatch(t, k, fresh) ==
  LET seen == {OccurredAt[e] : e \in {f \in fresh : KeyOf[f] = k}}
  IN  IF seen = {} THEN t = lastUsedAt[k] ELSE t \in seen /\ \A u \in seen : u <= t

\* touchVirtualKeys: the latest fresh event, if later than what is stored.
IsLatest(t, k, fresh) ==
  LET seen == {lastUsedAt[k]} \cup {OccurredAt[e] : e \in {f \in fresh : KeyOf[f] = k}}
  IN  t \in seen /\ \A u \in seen : u <= t

\* The transaction: raw rows, lastUsedAt and rollup increments together.
Commit(w) ==
  /\ ForeignKeysHold(w)
  /\ usage_event' = usage_event \cup Inserted(w)
  /\ charged' = [e \in Event |-> charged[e] + Copies(w, e)]
  /\ lastUsedAt' \in [VirtualKey -> Time]
  /\ \A k \in VirtualKey : IsLatest(lastUsedAt'[k], k, Inserted(w))
  /\ UNCHANGED <<pruned, alive>>

Persist(w) ==
  /\ pc[w] = "persist"
  /\ Commit(w)
  /\ pc' = [pc EXCEPT ![w] = "ack"]
  /\ UNCHANGED <<redis, running, batch, todo, budget>>

\* Faulty variant: the failed batch is acknowledged all the same.
PersistRejectedAcked(w) ==
  /\ pc[w] = "persist"
  /\ ~ForeignKeysHold(w)
  /\ pc' = [pc EXCEPT ![w] = "ack"]
  /\ UNCHANGED <<redis, running, batch, todo, postgres, budget>>

\* The insert violates a foreign key: everything rolls back, the catch block
\* backs off, and the batch is not acknowledged.
PersistRejected(w) ==
  /\ pc[w] = "persist"
  /\ ~ForeignKeysHold(w)
  /\ EndTurn(w)
  /\ UNCHANGED <<redis, postgres, budget>>

\* Postgres is down or the transaction times out ...
PersistFails(w) ==
  /\ Fault("postgres")
  /\ pc[w] = "persist"
  /\ EndTurn(w)
  /\ UNCHANGED <<redis, postgres>>

\* ... or it commits and the answer is lost.
PersistReplyLost(w) ==
  /\ Fault("postgres")
  /\ pc[w] = "persist"
  /\ Commit(w)
  /\ EndTurn(w)
  /\ UNCHANGED redis

---------------------------------------------------------------------------
(* Processes, retention and operators *)

\* Faulty variant: the process exits without waiting for the loop.
StopAtOnce(w) ==
  /\ running[w]
  /\ pc' = [pc EXCEPT ![w] = "down"]
  /\ running' = [running EXCEPT ![w] = FALSE]
  /\ batch' = [batch EXCEPT ![w] = {}]
  /\ todo' = [todo EXCEPT ![w] = {}]
  /\ UNCHANGED <<redis, postgres, budget>>

\* SIGTERM: shutdown() calls ingest.stop(), which waits for the loop.
Stop(w) ==
  /\ running[w]
  /\ running' = [running EXCEPT ![w] = FALSE]
  /\ UNCHANGED <<redis, pc, batch, todo, postgres, budget>>

Crash(w) ==
  /\ Fault("crash")
  /\ pc[w] # "down"
  /\ pc' = [pc EXCEPT ![w] = "down"]
  /\ running' = [running EXCEPT ![w] = FALSE]
  /\ batch' = [batch EXCEPT ![w] = {}]
  /\ todo' = [todo EXCEPT ![w] = {}]
  /\ UNCHANGED <<redis, postgres>>

\* Faulty variant: retention takes the rollups with the raw rows.
RetentionOfRollups ==
  \E S \in SUBSET usage_event :
    /\ S # {}
    /\ \A e \in S : pruned[e] < MaxPrunes
    /\ usage_event' = usage_event \ S
    /\ pruned' = [e \in Event |-> IF e \in S THEN pruned[e] + 1 ELSE pruned[e]]
    /\ charged' = [e \in Event |-> IF e \in S THEN 0 ELSE charged[e]]
    /\ UNCHANGED <<redis, workers, lastUsedAt, alive, budget>>

\* One DELETE of runRetention: some of the rows older than a cutoff.
Retention ==
  \E cutoff \in Time : \E S \in SUBSET {e \in usage_event : OccurredAt[e] < cutoff} :
    /\ S # {}
    /\ \A e \in S : pruned[e] < MaxPrunes
    /\ usage_event' = usage_event \ S
    /\ pruned' = [e \in Event |-> IF e \in S THEN pruned[e] + 1 ELSE pruned[e]]
    /\ UNCHANGED <<redis, workers, charged, lastUsedAt, alive, budget>>

\* DELETE of a project is refused while a raw row refers to it; that of a
\* credential only clears the reference (ON DELETE SET NULL).
DeleteParent(p) ==
  /\ p \in alive \cap Deletable
  /\ p \in Restricted => \A e \in usage_event : p \notin ParentsOf[e]
  /\ alive' = alive \ {p}
  /\ UNCHANGED <<redis, workers, usage_event, charged, pruned, lastUsedAt, budget>>

---------------------------------------------------------------------------
Step(w) ==
  \/ Boot(w)
  \/ Read(w) \/ ReadNothing(w) \/ ReadNoGroup(w)
  \/ DeadLetter(w)
  \/ Persist(w) \/ PersistRejected(w)
  \/ Ack(w)

Next ==
  \/ \E p \in Payload : Publish(p) \/ Resend(p)
  \/ Fsync
  \/ RedisRestart
  \/ \E w \in Worker :
       \/ Boot(w)
       \/ Read(w) \/ ReadReplyLost(w) \/ ReadNothing(w) \/ ReadNoGroup(w)
       \/ DeadLetter(w)
       \/ Persist(w) \/ PersistRejected(w) \/ PersistFails(w) \/ PersistReplyLost(w)
       \/ Ack(w) \/ RedisError(w)
       \/ Stop(w) \/ Crash(w)
  \/ Retention
  \/ \E p \in Parent : DeleteParent(p)

Spec == Init /\ [][Next]_vars

\* A worker process is scheduled and restarted by its supervisor; stops,
\* faults, retention, operators and the gateway owe nothing.
Fairness == \A w \in Worker : WF_vars(Step(w))

FairSpec == Spec /\ Fairness

---------------------------------------------------------------------------
(* Properties *)

\* The group has delivered entry i and does not hold it pending any more.
Settled(str, grp, i) == grp.exists /\ i \in str /\ i <= grp.cursor /\ i \notin grp.pel

Recorded(e) == charged[e] > 0

\* Every variable keeps its type: ids in hand, pending, saved or dead-lettered
\* are ids that XADD has given out, and each worker is at a step of its loop.
TypeOK ==
  /\ log \in Seq(Payload)
  /\ stream \subseteq DOMAIN log
  /\ group \in Group
  /\ dlq \subseteq DOMAIN log
  /\ saved \in [stream : SUBSET DOMAIN log, group : Group, dlq : SUBSET DOMAIN log]
  /\ pc \in [Worker -> {"down", "read", "dlq", "persist", "ack"}]
  /\ running \in [Worker -> BOOLEAN]
  /\ batch \in [Worker -> SUBSET DOMAIN log]
  /\ todo \in [Worker -> SUBSET DOMAIN log]
  /\ usage_event \subseteq Event
  /\ charged \in [Event -> Nat]
  /\ pruned \in [Event -> Nat]
  /\ lastUsedAt \in [VirtualKey -> Time]
  /\ alive \subseteq Parent
  /\ budget \in Nat

\* The rollups are exact: an event was added to them once for each time its
\* raw row was inserted, the rows retention has deleted since included
\* (persist.ts: "computed from ONLY the rows that actually inserted").
\* Holds when no XADD is sent twice.
RollupsMatchRows ==
  \A e \in Event :
    charged[e] = (IF e \in usage_event THEN 1 ELSE 0) + pruned[e]

\* An entry the group has delivered and no longer holds pending was recorded,
\* whatever fails or restarts: XACK comes only after the commit.
AckedIsRecorded ==
  \A i \in DOMAIN log :
    Settled(stream, group, i) /\ log[i] \in Event => Recorded(log[i])

\* The same for poison messages: acked after the dead-letter copy (comment in
\* decodeBatch).  Holds while Redis does not come back with an older state.
PoisonIsDeadLettered ==
  \A i \in DOMAIN log :
    Settled(stream, group, i) /\ log[i] \in Poison => i \in dlq

\* virtual_key.lastUsedAt is the time of the latest event ever recorded for
\* the key, in whatever order batches commit.
LastUsedIsLatest ==
  \A k \in VirtualKey :
    LET times == {OccurredAt[e] : e \in {f \in Event : Recorded(f) /\ KeyOf[f] = k}}
    IN  /\ \A t \in times : t <= lastUsedAt[k]
        /\ lastUsedAt[k] # 0 => lastUsedAt[k] \in times

\* The ingest path implements the ledger that ADR-4 describes.
Ledger == INSTANCE UsageLedger WITH published <- Published \cap Event

LedgerSpec == Ledger!Spec

\* An unread entry is eventually delivered or gone: missing groups, failed
\* batches and crashes never wedge the loop (comment in the catch block).
LoopNeverWedges ==
  \A i \in 1..MaxEntries : [](i \in Unread => <>(i \notin Unread))

\* Every published event is eventually recorded (docs/03: what a crashed worker
\* left pending is claimed).
PublishedIsRecorded ==
  \A e \in Event : (e \in Published) ~> Recorded(e)

\* While nothing fails, every published event that MAXLEN does not trim is
\* eventually recorded, whatever graceful stops of the workers do: stop() lets
\* the turn under way finish.
RecordedUnlessFault ==
  \A e \in Event :
    (e \in Published) ~> \/ Recorded(e)
                         \/ e \notin {log[i] : i \in stream}
                         \/ budget < MaxFaults

=============================================================================
