---------------------------- MODULE IngestProofs ----------------------------
(***************************************************************************)
(* Proofs about Ingest, for every number of workers, events, entries and    *)
(* faults: type correctness; that an acknowledged event was recorded and    *)
(* that lastUsedAt is the time of the latest event, under every fault; when *)
(* no XADD is sent twice, that the rollups match the raw rows and that the  *)
(* ingest path implements UsageLedger; and when Redis does not restart,     *)
(* that poison messages are dead-lettered before they are acknowledged.     *)
(***************************************************************************)
EXTENDS Ingest, FiniteSetTheorems, TLAPS

\* A transaction adds natural numbers to the rollups, and at least one for
\* every event it inserts.
LEMMA CopiesNat ==
  ASSUME TypeOK, NEW w \in Worker, NEW e \in Event
  PROVE  /\ Copies(w, e) \in Nat
         /\ e \in Inserted(w) => Copies(w, e) > 0
<1> DEFINE S == {i \in batch[w] : log[i] = e}
<1>1. S \subseteq 1..Len(log)
  BY DEF TypeOK
<1>2. IsFiniteSet(S)
  <2>1. Len(log) \in Nat
    BY DEF TypeOK
  <2>2. IsFiniteSet(1..Len(log))
    BY <2>1, FS_Interval
  <2> QED
    BY <1>1, <2>2, FS_Subset
<1>3. Cardinality(S) \in Nat
  BY <1>2, FS_CardinalityType
<1>4. e \in Inserted(w) => S # {}
  BY DEF Inserted, EventsOf
<1>5. S # {} => Cardinality(S) # 0
  BY <1>2, FS_EmptySet
<1> QED
  BY <1>3, <1>4, <1>5 DEF Copies

---------------------------------------------------------------------------
(* Type correctness *)

\* Appending keeps the ids that exist and adds the next one.
LEMMA AppendLog ==
  ASSUME log \in Seq(Payload), NEW p \in Payload
  PROVE  /\ Append(log, p) \in Seq(Payload)
         /\ DOMAIN Append(log, p) = DOMAIN log \cup {Len(log) + 1}
         /\ Len(log) + 1 \notin DOMAIN log
         /\ Append(log, p)[Len(log) + 1] = p
         /\ \A i \in DOMAIN log : Append(log, p)[i] = log[i]
  OBVIOUS

LEMMA XAddType ==
  ASSUME TypeOK, NEW p \in Payload, XAdd(p), budget' \in Nat
  PROVE  TypeOK'
<1>1. log' \in Seq(Payload) /\ DOMAIN log' = DOMAIN log \cup {Len(log) + 1}
  BY AppendLog DEF TypeOK, XAdd
<1>2. stream' \subseteq DOMAIN log'
  BY <1>1 DEF TypeOK, XAdd, Trimmed
<1> QED
  BY <1>1, <1>2 DEF TypeOK, XAdd, workers, postgres

LEMMA EndTurnType ==
  ASSUME TypeOK, NEW w \in Worker, EndTurn(w)
  PROVE  /\ pc' \in [Worker -> {"down", "read", "dlq", "persist", "ack"}]
         /\ running' \in [Worker -> BOOLEAN]
         /\ batch' \in [Worker -> SUBSET DOMAIN log]
         /\ todo' \in [Worker -> SUBSET DOMAIN log]
  BY DEF TypeOK, EndTurn, NextTurn

LEMMA FaultType ==
  ASSUME TypeOK, NEW f, Fault(f)
  PROVE  budget' \in Nat
  BY DEF TypeOK, Fault

LEMMA EnsureGroupType ==
  ASSUME TypeOK, EnsureConsumerGroup
  PROVE  group' \in Group
  BY DEF TypeOK, EnsureConsumerGroup, NoGroup, Group

LEMMA DeliveredType ==
  ASSUME TypeOK, NEW S \in SUBSET Unread, Delivered(S)
  PROVE  group' \in Group /\ S \subseteq DOMAIN log
<1>1. S \subseteq DOMAIN log
  BY DEF TypeOK, Unread
<1>2. S \subseteq Nat
  BY <1>1 DEF TypeOK
<1>3. PICK last \in S : group' = [group EXCEPT !.cursor = last, !.pel = @ \cup S]
  BY DEF Delivered
<1>4. last \in Nat /\ group.pel \cup S \subseteq Nat
  BY <1>2, <1>3 DEF TypeOK, Group
<1> QED
  BY <1>1, <1>3, <1>4 DEF TypeOK, Group

LEMMA CommitType ==
  ASSUME TypeOK, NEW w \in Worker, Commit(w)
  PROVE  /\ usage_event' \subseteq Event
         /\ charged' \in [Event -> Nat]
         /\ pruned' \in [Event -> Nat]
         /\ lastUsedAt' \in [VirtualKey -> Time]
         /\ alive' \subseteq Parent
<1>1. usage_event' \subseteq Event
  BY DEF TypeOK, Commit, Inserted, EventsOf
<1>2. charged' \in [Event -> Nat]
  <2>1. \A e \in Event : charged[e] + Copies(w, e) \in Nat
    BY CopiesNat DEF TypeOK
  <2> QED
    BY <2>1 DEF Commit
<1> QED
  BY <1>1, <1>2 DEF TypeOK, Commit

\* Every step of the ingest path keeps the types.
LEMMA TypeStep ==
  ASSUME TypeOK, [Next]_vars
  PROVE  TypeOK'
<1>1. ASSUME NEW p \in Payload, Publish(p) PROVE TypeOK'
  BY <1>1, XAddType DEF Publish, TypeOK
<1>2. ASSUME NEW p \in Payload, Resend(p) PROVE TypeOK'
  BY <1>2, XAddType, FaultType DEF Resend
<1>3. CASE Fsync
  BY <1>3 DEF TypeOK, Fsync, workers, postgres
<1>4. CASE RedisRestart
  BY <1>4, FaultType DEF TypeOK, RedisRestart, workers, postgres
<1>5. ASSUME NEW w \in Worker, Boot(w) PROVE TypeOK'
  BY <1>5, EnsureGroupType DEF TypeOK, Boot, postgres
<1>6. ASSUME NEW w \in Worker, Read(w) PROVE TypeOK'
  <2>1. PICK S \in SUBSET Unread :
          /\ Delivered(S)
          /\ batch' = [batch EXCEPT ![w] = S]
          /\ todo' = [todo EXCEPT ![w] = Invalid(S)]
          /\ pc' = [pc EXCEPT ![w] = IF Invalid(S) # {} THEN "dlq" ELSE AfterDlq(S)]
    BY <1>6 DEF Read
  <2>2. group' \in Group /\ S \subseteq DOMAIN log
    BY <2>1, DeliveredType
  <2> QED
    BY <1>6, <2>1, <2>2 DEF TypeOK, Read, Invalid, AfterDlq, postgres
<1>7. ASSUME NEW w \in Worker, ReadReplyLost(w) PROVE TypeOK'
  <2>1. group' \in Group
    BY <1>7, DeliveredType DEF ReadReplyLost
  <2> QED
    BY <1>7, <2>1, FaultType DEF TypeOK, ReadReplyLost, workers, postgres
<1>8. ASSUME NEW w \in Worker, ReadNothing(w) PROVE TypeOK'
  BY <1>8, EndTurnType DEF TypeOK, ReadNothing, redis, postgres
<1>9. ASSUME NEW w \in Worker, ReadNoGroup(w) PROVE TypeOK'
  <2>1. group' \in Group
    BY <1>9, EnsureGroupType DEF ReadNoGroup, TypeOK
  <2> QED
    BY <1>9, <2>1, EndTurnType DEF TypeOK, ReadNoGroup, postgres
<1>10. ASSUME NEW w \in Worker, DeadLetter(w) PROVE TypeOK'
  BY <1>10 DEF TypeOK, DeadLetter, AfterDlq, postgres
<1>11. ASSUME NEW w \in Worker, Persist(w) PROVE TypeOK'
  BY <1>11, CommitType DEF TypeOK, Persist, redis
<1>12. ASSUME NEW w \in Worker, PersistRejected(w) PROVE TypeOK'
  BY <1>12, EndTurnType DEF TypeOK, PersistRejected, redis, postgres
<1>13. ASSUME NEW w \in Worker, PersistFails(w) PROVE TypeOK'
  BY <1>13, EndTurnType, FaultType DEF TypeOK, PersistFails, redis, postgres
<1>14. ASSUME NEW w \in Worker, PersistReplyLost(w) PROVE TypeOK'
  BY <1>14, EndTurnType, CommitType, FaultType DEF TypeOK, PersistReplyLost, redis
<1>15. ASSUME NEW w \in Worker, Ack(w) PROVE TypeOK'
  <2>1. group' \in Group
    BY <1>15 DEF Ack, TypeOK, Group
  <2> QED
    BY <1>15, <2>1, EndTurnType DEF TypeOK, Ack, postgres
<1>16. ASSUME NEW w \in Worker, RedisError(w) PROVE TypeOK'
  BY <1>16, EndTurnType, FaultType DEF TypeOK, RedisError, redis, postgres
<1>17. ASSUME NEW w \in Worker, Stop(w) PROVE TypeOK'
  BY <1>17 DEF TypeOK, Stop, redis, postgres
<1>18. ASSUME NEW w \in Worker, Crash(w) PROVE TypeOK'
  BY <1>18, FaultType DEF TypeOK, Crash, redis, postgres
<1>19. CASE Retention
  BY <1>19 DEF TypeOK, Retention, redis, workers
<1>20. ASSUME NEW p \in Parent, DeleteParent(p) PROVE TypeOK'
  BY <1>20 DEF TypeOK, DeleteParent, redis, workers
<1>21. CASE UNCHANGED vars
  BY <1>21 DEF TypeOK, vars
<1> QED
  BY <1>1, <1>2, <1>3, <1>4, <1>5, <1>6, <1>7, <1>8, <1>9, <1>10, <1>11, <1>12,
     <1>13, <1>14, <1>15, <1>16, <1>17, <1>18, <1>19, <1>20, <1>21 DEF Next

\* Every reachable state of the ingest path is well typed: the batch in hand,
\* the pending entries and what Redis restores are ids that were XADDed.
THEOREM TypeCorrect == Spec => []TypeOK
<1>1. Init => TypeOK
  BY SetsAssumption, BoundsAssumption DEF Init, TypeOK, NoGroup, Group
<1>2. TypeOK /\ [Next]_vars => TypeOK'
  BY TypeStep
<1> QED
  BY <1>1, <1>2, PTL DEF Spec

---------------------------------------------------------------------------
(* Acknowledged events were recorded *)

\* Entries that a group no longer holds pending carry recorded events.
SettledRecorded(str, grp) ==
  \A i \in DOMAIN log :
    Settled(str, grp, i) /\ log[i] \in Event => Recorded(log[i])

\* The inductive invariant behind AckedIsRecorded: what the stream's group
\* and the one on disk have settled was recorded, so was every event of a
\* batch about to be acknowledged and every raw row, and no group is ahead
\* of the log.
AckInv ==
  /\ SettledRecorded(stream, group)
  /\ SettledRecorded(saved.stream, saved.group)
  /\ \A w \in Worker : pc[w] = "ack" =>
       \A i \in batch[w] : log[i] \in Event => Recorded(log[i])
  /\ \A e \in usage_event : Recorded(e)
  /\ group.cursor <= Len(log)
  /\ saved.group.cursor <= Len(log)

\* A step that only adds to the rollups keeps what was recorded.
LEMMA SettledKept ==
  ASSUME TypeOK, TypeOK', NEW str, NEW grp,
         SettledRecorded(str, grp),
         log' = log,
         \A e \in Event : charged'[e] >= charged[e]
  PROVE  \A i \in DOMAIN log' :
           Settled(str, grp, i) /\ log'[i] \in Event => charged'[log'[i]] > 0
  BY DEF TypeOK, SettledRecorded, Recorded

\* Redis hands out the oldest unread entries: what lies at or before the new
\* cursor was settled before or is pending now.
LEMMA DeliverySettles ==
  ASSUME TypeOK, NEW S \in SUBSET Unread, Delivery(S), Delivered(S), group.exists,
         NEW i \in DOMAIN log, Settled(stream, group', i)
  PROVE  Settled(stream, group, i)
<1>1. PICK last \in S : group' = [group EXCEPT !.cursor = last, !.pel = @ \cup S]
  BY DEF Delivered
<1>2. i \in stream /\ i <= last /\ i \notin group.pel /\ i \notin S
  BY <1>1 DEF Settled, TypeOK, Group
<1>3. i \notin Unread
  <2>1. i \in Nat /\ last \in Nat
    BY DEF TypeOK, Unread
  <2> QED
    BY <1>1, <1>2, <2>1 DEF Delivery
<1>4. i <= group.cursor
  BY <1>2, <1>3 DEF Unread, TypeOK, Group
<1> QED
  BY <1>2, <1>4 DEF Settled

\* After a commit every event of the batch is recorded.
LEMMA CommitRecords ==
  ASSUME TypeOK, AckInv, NEW w \in Worker, Commit(w)
  PROVE  /\ \A e \in Event : charged'[e] >= charged[e]
         /\ \A e \in usage_event' : charged'[e] > 0
         /\ \A i \in batch[w] : log[i] \in Event => charged'[log[i]] > 0
<1>1. \A e \in Event : Copies(w, e) \in Nat /\ charged'[e] = charged[e] + Copies(w, e)
  BY CopiesNat DEF Commit
<1>2. \A e \in Event : charged'[e] >= charged[e]
  BY <1>1 DEF TypeOK
<1>3. \A e \in Inserted(w) : e \in Event /\ charged'[e] > 0
  BY <1>1, CopiesNat DEF TypeOK, Inserted, EventsOf
<1>4. \A e \in usage_event : charged'[e] > 0
  BY <1>2, CommitType DEF AckInv, Recorded, TypeOK
<1>5. \A i \in batch[w] : log[i] \in Event => log[i] \in Inserted(w) \cup usage_event
  BY DEF Inserted, EventsOf
<1> QED
  BY <1>2, <1>3, <1>4, <1>5 DEF Commit

\* A new entry is beyond every cursor, so it is not settled.
LEMMA AckXAdd ==
  ASSUME TypeOK, AckInv, NEW p \in Payload, XAdd(p)
  PROVE  AckInv'
<1>1. /\ log' \in Seq(Payload)
      /\ DOMAIN log' = DOMAIN log \cup {Len(log) + 1}
      /\ \A i \in DOMAIN log : log'[i] = log[i]
      /\ Len(log') = Len(log) + 1
  BY AppendLog DEF TypeOK, XAdd
<1>2. stream' \subseteq stream \cup {Len(log) + 1}
  BY DEF XAdd, Trimmed
<1>3. group' = group /\ saved' = saved /\ pc' = pc /\ batch' = batch
      /\ charged' = charged /\ usage_event' = usage_event
  BY DEF XAdd, workers, postgres
<1>4. group.cursor \in Nat /\ saved.group.cursor \in Nat /\ Len(log) \in Nat
  BY DEF TypeOK, Group
<1>5. SettledRecorded(stream, group)'
  BY <1>1, <1>2, <1>3, <1>4 DEF AckInv, SettledRecorded, Settled, Recorded
<1>6. SettledRecorded(saved.stream, saved.group)'
  BY <1>1, <1>3, <1>4 DEF AckInv, SettledRecorded, Settled, Recorded
<1>7. \A w \in Worker : pc'[w] = "ack" =>
        \A i \in batch'[w] : log'[i] \in Event => charged'[log'[i]] > 0
  BY <1>1, <1>3 DEF AckInv, TypeOK, Recorded
<1> QED
  BY <1>1, <1>3, <1>4, <1>5, <1>6, <1>7 DEF AckInv, Recorded

\* A recreated group has delivered nothing, so it has settled nothing.
LEMMA AckEnsure ==
  ASSUME TypeOK, AckInv, EnsureConsumerGroup
  PROVE  SettledRecorded(stream, group') /\ group'.cursor <= Len(log)
<1>1. CASE group.exists
  BY <1>1 DEF AckInv, EnsureConsumerGroup
<1>2. CASE ~group.exists
  <2>1. group'.cursor = 0
    BY <1>2 DEF EnsureConsumerGroup, NoGroup
  <2>2. \A i \in DOMAIN log : ~(i <= 0)
    BY DEF TypeOK
  <2> QED
    BY <2>1, <2>2 DEF SettledRecorded, Settled, TypeOK
<1> QED
  BY <1>1, <1>2

\* A turn that ends with Redis and Postgres as they were settles nothing.
LEMMA AckEndTurn ==
  ASSUME TypeOK, AckInv, NEW w \in Worker, EndTurn(w),
         log' = log, stream' = stream, saved' = saved, charged' = charged,
         usage_event' = usage_event,
         SettledRecorded(stream, group'), group'.cursor <= Len(log)
  PROVE  AckInv'
<1>1. \A v \in Worker : pc'[v] = "ack" => pc[v] = "ack" /\ batch'[v] = batch[v]
  BY DEF EndTurn, NextTurn, TypeOK
<1> QED
  BY <1>1 DEF AckInv, SettledRecorded, Settled, Recorded

\* The part of the invariant a worker's own move can disturb.
LEMMA AckSameRedis ==
  ASSUME TypeOK, AckInv,
         log' = log, stream' = stream, group' = group, saved' = saved,
         charged' = charged, usage_event' \subseteq usage_event,
         \A v \in Worker : pc'[v] = "ack" =>
           \A i \in batch'[v] : log[i] \in Event => Recorded(log[i])
  PROVE  AckInv'
  BY DEF AckInv, SettledRecorded, Settled, Recorded

\* Every step of the ingest path keeps the invariant.
LEMMA AckStep ==
  ASSUME TypeOK, TypeOK', AckInv, [Next]_vars
  PROVE  AckInv'
<1>1. ASSUME NEW p \in Payload, Publish(p) PROVE AckInv'
  BY <1>1, AckXAdd DEF Publish
<1>2. ASSUME NEW p \in Payload, Resend(p) PROVE AckInv'
  BY <1>2, AckXAdd DEF Resend
<1>3. CASE Fsync
  BY <1>3 DEF Fsync, workers, postgres, AckInv, SettledRecorded, Settled, Recorded
<1>4. CASE RedisRestart
  BY <1>4 DEF RedisRestart, workers, postgres, AckInv, SettledRecorded, Settled, Recorded
<1>5. ASSUME NEW w \in Worker, Boot(w) PROVE AckInv'
  <2>1. SettledRecorded(stream, group') /\ group'.cursor <= Len(log)
    BY <1>5, AckEnsure DEF Boot
  <2>2. \A v \in Worker : pc'[v] = "ack" => pc[v] = "ack"
    BY <1>5 DEF Boot, TypeOK
  <2> QED
    BY <1>5, <2>1, <2>2 DEF Boot, postgres, AckInv, SettledRecorded, Settled, Recorded
<1>6. ASSUME NEW w \in Worker, NEW S \in SUBSET Unread,
             Delivery(S), Delivered(S), group.exists,
             log' = log, stream' = stream, charged' = charged
      PROVE  SettledRecorded(stream, group)' /\ (group.cursor <= Len(log))'
  <2>1. SettledRecorded(stream, group)'
    BY <1>6, DeliverySettles DEF AckInv, SettledRecorded, Recorded, Settled
  <2>2. PICK last \in S : group' = [group EXCEPT !.cursor = last, !.pel = @ \cup S]
    BY <1>6 DEF Delivered
  <2>3. last <= Len(log)
    BY DEF TypeOK, Unread
  <2> QED
    BY <1>6, <2>1, <2>2, <2>3 DEF TypeOK, Group
<1>7. ASSUME NEW w \in Worker, Read(w) PROVE AckInv'
  <2>1. PICK S \in SUBSET Unread :
          /\ Delivery(S) /\ Delivered(S)
          /\ batch' = [batch EXCEPT ![w] = S]
          /\ pc' = [pc EXCEPT ![w] = IF Invalid(S) # {} THEN "dlq" ELSE AfterDlq(S)]
    BY <1>7 DEF Read
  <2>2. SettledRecorded(stream, group)' /\ (group.cursor <= Len(log))'
    BY <1>6, <1>7, <2>1 DEF Read, postgres
  <2>3. \A v \in Worker : pc'[v] = "ack" => pc[v] = "ack" /\ batch'[v] = batch[v]
    BY <2>1 DEF TypeOK, AfterDlq, Delivery
  <2> QED
    BY <1>7, <2>2, <2>3 DEF Read, postgres, AckInv, SettledRecorded, Settled, Recorded
<1>8. ASSUME NEW w \in Worker, ReadReplyLost(w) PROVE AckInv'
  <2>1. SettledRecorded(stream, group)' /\ (group.cursor <= Len(log))'
    BY <1>6, <1>8 DEF ReadReplyLost, postgres
  <2> QED
    BY <1>8, <2>1 DEF ReadReplyLost, workers, postgres, AckInv, SettledRecorded, Settled, Recorded
<1>9. ASSUME NEW w \in Worker, ReadNothing(w) PROVE AckInv'
  BY <1>9, AckEndTurn DEF ReadNothing, redis, postgres, AckInv
<1>10. ASSUME NEW w \in Worker, ReadNoGroup(w) PROVE AckInv'
  <2>1. SettledRecorded(stream, group') /\ group'.cursor <= Len(log)
    BY <1>10, AckEnsure DEF ReadNoGroup, AckInv
  <2> QED
    BY <1>10, <2>1, AckEndTurn DEF ReadNoGroup, postgres
<1>11. ASSUME NEW w \in Worker, DeadLetter(w) PROVE AckInv'
  <2>1. \A v \in Worker : pc'[v] = "ack" =>
          pc[v] = "ack" \/ (v = w /\ Invalid(batch[w]) = batch[w])
    BY <1>11 DEF DeadLetter, AfterDlq, TypeOK
  <2>2. \A v \in Worker : pc'[v] = "ack" =>
          \A i \in batch'[v] : log[i] \in Event => Recorded(log[i])
    BY <1>11, <2>1, SetsAssumption DEF DeadLetter, Invalid, AckInv
  <2> QED
    BY <1>11, <2>2, AckSameRedis DEF DeadLetter, postgres
<1>12. ASSUME NEW w \in Worker, Commit(w), redis' = redis PROVE
         /\ SettledRecorded(stream, group)'
         /\ SettledRecorded(saved.stream, saved.group)'
         /\ (\A e \in usage_event : Recorded(e))'
         /\ (group.cursor <= Len(log))' /\ (saved.group.cursor <= Len(log))'
  <2>1. /\ \A e \in Event : charged'[e] >= charged[e]
        /\ \A e \in usage_event' : charged'[e] > 0
    BY <1>12, CommitRecords
  <2>2. SettledRecorded(stream, group)'
    BY <1>12, <2>1, SettledKept DEF redis, AckInv, SettledRecorded, Settled, Recorded
  <2>3. SettledRecorded(saved.stream, saved.group)'
    BY <1>12, <2>1, SettledKept DEF redis, AckInv, SettledRecorded, Settled, Recorded
  <2> QED
    BY <1>12, <2>1, <2>2, <2>3 DEF redis, AckInv, Recorded
<1>13. ASSUME NEW w \in Worker, Persist(w) PROVE AckInv'
  <2>1. \A v \in Worker : pc'[v] = "ack" => pc[v] = "ack" \/ v = w
    BY <1>13 DEF Persist, TypeOK
  <2>2. \A v \in Worker : pc'[v] = "ack" =>
          \A i \in batch[v] : log[i] \in Event => charged'[log[i]] > 0
    BY <1>13, <2>1, CommitRecords DEF Persist, AckInv, Recorded, TypeOK
  <2> QED
    BY <1>12, <1>13, <2>2 DEF Persist, AckInv, redis, Recorded
<1>14. ASSUME NEW w \in Worker, PersistRejected(w) PROVE AckInv'
  BY <1>14, AckEndTurn DEF PersistRejected, redis, postgres, AckInv
<1>15. ASSUME NEW w \in Worker, PersistFails(w) PROVE AckInv'
  BY <1>15, AckEndTurn DEF PersistFails, redis, postgres, AckInv
<1>16. ASSUME NEW w \in Worker, PersistReplyLost(w) PROVE AckInv'
  <2>1. \A v \in Worker : pc'[v] = "ack" => pc[v] = "ack" /\ batch'[v] = batch[v]
    BY <1>16 DEF PersistReplyLost, EndTurn, NextTurn, TypeOK
  <2>2. \A v \in Worker : pc'[v] = "ack" =>
          \A i \in batch'[v] : log[i] \in Event => charged'[log[i]] > 0
    BY <1>16, <2>1, CommitRecords DEF PersistReplyLost, AckInv, Recorded, TypeOK
  <2> QED
    BY <1>12, <1>16, <2>2 DEF PersistReplyLost, AckInv, redis, Recorded
<1>17. ASSUME NEW w \in Worker, Ack(w) PROVE AckInv'
  <2>1. PICK g : g = group' /\ g = [group EXCEPT !.pel = @ \ batch[w]]
    BY <1>17 DEF Ack
  <2>2. \A i \in DOMAIN log : Settled(stream, group', i) =>
          Settled(stream, group, i) \/ i \in batch[w]
    BY <2>1 DEF Settled, TypeOK, Group
  <2>3. SettledRecorded(stream, group')
    BY <1>17, <2>2 DEF Ack, SettledRecorded, AckInv
  <2>4. group'.cursor <= Len(log)
    BY <2>1 DEF AckInv, TypeOK, Group
  <2> QED
    BY <1>17, <2>3, <2>4, AckEndTurn DEF Ack, postgres
<1>18. ASSUME NEW w \in Worker, RedisError(w) PROVE AckInv'
  BY <1>18, AckEndTurn DEF RedisError, redis, postgres, AckInv
<1>19. ASSUME NEW w \in Worker, Stop(w) PROVE AckInv'
  BY <1>19, AckSameRedis DEF Stop, redis, postgres, AckInv
<1>20. ASSUME NEW w \in Worker, Crash(w) PROVE AckInv'
  <2>1. \A v \in Worker : pc'[v] = "ack" => pc[v] = "ack" /\ batch'[v] = batch[v]
    BY <1>20 DEF Crash, TypeOK
  <2> QED
    BY <1>20, <2>1, AckSameRedis DEF Crash, redis, postgres, AckInv
<1>21. CASE Retention
  BY <1>21, AckSameRedis DEF Retention, redis, workers, AckInv
<1>22. ASSUME NEW p \in Parent, DeleteParent(p) PROVE AckInv'
  BY <1>22, AckSameRedis DEF DeleteParent, redis, workers, AckInv
<1>23. CASE UNCHANGED vars
  BY <1>23, AckSameRedis DEF vars, AckInv
<1> QED
  BY <1>1, <1>2, <1>3, <1>4, <1>5, <1>7, <1>8, <1>9, <1>10, <1>11, <1>13, <1>14,
     <1>15, <1>16, <1>17, <1>18, <1>19, <1>20, <1>21, <1>22, <1>23 DEF Next

\* XACK never outruns the transaction: under crashes, lost replies, failed
\* transactions, Redis restarts and resent XADDs, an entry that is delivered
\* and no longer pending has been recorded.
THEOREM AcknowledgedIsRecorded == Spec => []AckedIsRecorded
<1>1. Init => AckInv
  BY DEF Init, AckInv, SettledRecorded, Settled, NoGroup
<1>2. TypeOK /\ TypeOK' /\ AckInv /\ [Next]_vars => AckInv'
  BY AckStep
<1>3. AckInv => AckedIsRecorded
  BY DEF AckInv, AckedIsRecorded, SettledRecorded
<1> QED
  BY <1>1, <1>2, <1>3, TypeCorrect, PTL DEF Spec

---------------------------------------------------------------------------
(* Rollups and refinement, when no XADD is sent twice *)

\* No event is in the log twice.
LogInjective == \A i, j \in DOMAIN log : log[i] = log[j] => i = j

\* A step either appends one payload or leaves the log alone.
LEMMA LogStep ==
  ASSUME [Next]_vars, "resend" \notin Faults
  PROVE  \/ log' = log
         \/ /\ \E p \in Payload : p \notin Published /\ log' = Append(log, p)
            /\ UNCHANGED <<usage_event, charged, pruned>>
<1>1. ASSUME NEW p \in Payload, Publish(p)
      PROVE  /\ p \notin Published /\ log' = Append(log, p)
             /\ UNCHANGED <<usage_event, charged, pruned>>
  BY <1>1 DEF Publish, XAdd, postgres
<1>2. ASSUME NEW p \in Payload, Resend(p) PROVE FALSE
  BY <1>2 DEF Resend, Fault
<1>3. CASE Fsync \/ RedisRestart \/ Retention
  BY <1>3 DEF Fsync, RedisRestart, Retention, redis
<1>4. ASSUME NEW w \in Worker,
             \/ Boot(w) \/ Read(w) \/ ReadReplyLost(w) \/ ReadNothing(w)
             \/ ReadNoGroup(w) \/ DeadLetter(w) \/ Persist(w) \/ PersistRejected(w)
             \/ PersistFails(w) \/ PersistReplyLost(w) \/ Ack(w) \/ RedisError(w)
             \/ Stop(w) \/ Crash(w)
      PROVE  log' = log
  BY <1>4 DEF Boot, Read, ReadReplyLost, ReadNothing, ReadNoGroup, DeadLetter, Persist,
              PersistRejected, PersistFails, PersistReplyLost, Ack, RedisError, Stop,
              Crash, redis
<1>5. ASSUME NEW p \in Parent, DeleteParent(p) PROVE log' = log
  BY <1>5 DEF DeleteParent, redis
<1>6. CASE UNCHANGED vars
  BY <1>6 DEF vars
<1> QED
  BY <1>1, <1>2, <1>3, <1>4, <1>5, <1>6 DEF Next

\* What a step does to the tables: a commit of some worker's batch, a pruning
\* of some rows, or nothing.
LEMMA TableStep ==
  ASSUME [Next]_vars
  PROVE  \/ UNCHANGED <<usage_event, charged, pruned, lastUsedAt>>
         \/ \E w \in Worker : Commit(w) /\ log' = log
         \/ \E S \in SUBSET usage_event :
              /\ usage_event' = usage_event \ S
              /\ pruned' = [e \in Event |-> IF e \in S THEN pruned[e] + 1 ELSE pruned[e]]
              /\ UNCHANGED <<charged, log, lastUsedAt>>
<1>1. ASSUME NEW p \in Payload, Publish(p) \/ Resend(p)
      PROVE  UNCHANGED <<usage_event, charged, pruned, lastUsedAt>>
  BY <1>1 DEF Publish, Resend, XAdd, postgres
<1>2. CASE Fsync \/ RedisRestart
  BY <1>2 DEF Fsync, RedisRestart, postgres
<1>3. ASSUME NEW w \in Worker,
             \/ Boot(w) \/ Read(w) \/ ReadReplyLost(w) \/ ReadNothing(w)
             \/ ReadNoGroup(w) \/ DeadLetter(w) \/ PersistRejected(w)
             \/ PersistFails(w) \/ Ack(w) \/ RedisError(w) \/ Stop(w) \/ Crash(w)
      PROVE  UNCHANGED <<usage_event, charged, pruned, lastUsedAt>>
  BY <1>3 DEF Boot, Read, ReadReplyLost, ReadNothing, ReadNoGroup, DeadLetter,
              PersistRejected, PersistFails, Ack, RedisError, Stop, Crash, postgres
<1>4. ASSUME NEW w \in Worker, Persist(w) \/ PersistReplyLost(w)
      PROVE  Commit(w) /\ log' = log
  BY <1>4 DEF Persist, PersistReplyLost, redis
<1>5. CASE Retention
  BY <1>5 DEF Retention, redis
<1>6. ASSUME NEW p \in Parent, DeleteParent(p)
      PROVE  UNCHANGED <<usage_event, charged, pruned, lastUsedAt>>
  BY <1>6 DEF DeleteParent
<1>7. CASE UNCHANGED vars
  BY <1>7 DEF vars
<1> QED
  BY <1>1, <1>2, <1>3, <1>4, <1>5, <1>6, <1>7 DEF Next

\* Without duplicates a commit adds each event it inserts exactly once.
LEMMA CopiesOnce ==
  ASSUME TypeOK, LogInjective, NEW w \in Worker, NEW e \in Event
  PROVE  Copies(w, e) = IF e \in Inserted(w) THEN 1 ELSE 0
<1>1. CASE e \in Inserted(w)
  <2>1. PICK i \in batch[w] : log[i] = e
    BY <1>1 DEF Inserted, EventsOf
  <2>2. {j \in batch[w] : log[j] = e} = {i}
    BY <2>1 DEF LogInjective, TypeOK
  <2> QED
    BY <1>1, <2>2, FS_Singleton DEF Copies
<1>2. CASE e \notin Inserted(w)
  BY <1>2 DEF Copies
<1> QED
  BY <1>1, <1>2

LEMMA InjectiveStep ==
  ASSUME TypeOK, LogInjective, [Next]_vars, "resend" \notin Faults
  PROVE  LogInjective'
<1>1. CASE log' = log
  BY <1>1 DEF LogInjective
<1>2. ASSUME NEW p \in Payload, p \notin Published, log' = Append(log, p)
      PROVE  LogInjective'
  BY <1>2, AppendLog DEF LogInjective, Published, TypeOK
<1> QED
  BY <1>1, <1>2, LogStep

LEMMA RollupStep ==
  ASSUME TypeOK, LogInjective, RollupsMatchRows, [Next]_vars
  PROVE  RollupsMatchRows'
<1>1. CASE UNCHANGED <<usage_event, charged, pruned>>
  BY <1>1 DEF RollupsMatchRows
<1>2. ASSUME NEW w \in Worker, Commit(w) PROVE RollupsMatchRows'
  <2>1. \A e \in Event : charged'[e] = charged[e] + (IF e \in Inserted(w) THEN 1 ELSE 0)
    BY <1>2, CopiesOnce DEF Commit
  <2>2. \A e \in Inserted(w) : e \notin usage_event
    BY DEF Inserted
  <2> QED
    BY <1>2, <2>1, <2>2 DEF RollupsMatchRows, Commit, TypeOK
<1>3. ASSUME NEW S \in SUBSET usage_event,
             usage_event' = usage_event \ S,
             pruned' = [e \in Event |-> IF e \in S THEN pruned[e] + 1 ELSE pruned[e]],
             UNCHANGED charged
      PROVE  RollupsMatchRows'
  BY <1>3 DEF RollupsMatchRows, TypeOK
<1> QED
  BY <1>1, <1>2, <1>3, TableStep

\* The invariant under which the tables are exact.
ExactInv == TypeOK /\ LogInjective /\ RollupsMatchRows

LEMMA ExactInvariant ==
  ASSUME "resend" \notin Faults
  PROVE  Spec => []ExactInv
<1>1. Init => ExactInv
  <2>1. Init => TypeOK
    BY SetsAssumption, BoundsAssumption DEF Init, TypeOK, NoGroup, Group
  <2>2. Init => LogInjective /\ RollupsMatchRows
    BY DEF Init, LogInjective, RollupsMatchRows
  <2> QED
    BY <2>1, <2>2 DEF ExactInv
<1>2. ExactInv /\ [Next]_vars => ExactInv'
  BY TypeStep, InjectiveStep, RollupStep DEF ExactInv
<1> QED
  BY <1>1, <1>2, PTL DEF Spec

\* The rollups are exact for any number of workers, redeliveries, restarts and
\* prunings, as long as no XADD is sent twice.
THEOREM RollupsExact ==
  ASSUME "resend" \notin Faults
  PROVE  Spec => []RollupsMatchRows
<1>1. ExactInv => RollupsMatchRows
  BY DEF ExactInv
<1> QED
  BY <1>1, ExactInvariant, PTL

\* A commit is one Record step of the ledger, or none when nothing is new.
LEMMA CommitRefines ==
  ASSUME ExactInv, NEW w \in Worker, Commit(w), log' = log
  PROVE  [Ledger!Next]_(Ledger!vars)
<1> DEFINE S == Inserted(w)
<1>1. /\ S \subseteq Event
      /\ S \subseteq (Published \cap Event) \ usage_event
  BY DEF Inserted, EventsOf, Published, ExactInv, TypeOK
<1>2. charged' = [e \in Event |-> IF e \in S THEN charged[e] + 1 ELSE charged[e]]
  <2>1. \A e \in Event : charged[e] + Copies(w, e) = IF e \in S THEN charged[e] + 1 ELSE charged[e]
    BY CopiesOnce DEF ExactInv, TypeOK
  <2> QED
    BY <2>1 DEF Commit
<1>3. usage_event' = usage_event \cup S
  BY DEF Commit
<1>4. Published' = Published
  BY DEF Published
<1>5. CASE S = {}
  <2>1. charged' = charged
    BY <1>2, <1>5 DEF ExactInv, TypeOK
  <2> QED
    BY <1>3, <1>4, <1>5, <2>1 DEF Ledger!vars
<1>6. CASE S # {}
  <2>1. Ledger!Record(S)
    BY <1>1, <1>2, <1>3, <1>4, <1>6 DEF Ledger!Record
  <2> QED
    BY <1>1, <2>1 DEF Ledger!Next
<1> QED
  BY <1>5, <1>6

\* An XADD publishes one event, or is invisible to the ledger.
LEMMA XAddRefines ==
  ASSUME ExactInv, NEW p \in Payload, log' = Append(log, p),
         UNCHANGED <<usage_event, charged>>
  PROVE  [Ledger!Next]_(Ledger!vars)
<1>1. Published' = Published \cup {p}
  BY AppendLog DEF Published, ExactInv, TypeOK
<1>2. CASE p \in Event
  <2>1. Ledger!Publish
    BY <1>1, <1>2 DEF Ledger!Publish
  <2> QED
    BY <2>1 DEF Ledger!Next
<1>3. CASE p \notin Event
  BY <1>1, <1>3 DEF Ledger!vars
<1> QED
  BY <1>2, <1>3

\* The ingest path implements the ledger of ADR-4 when no XADD is sent twice:
\* whatever order workers read, commit, fail and acknowledge in, the tables
\* change only as UsageLedger allows.
THEOREM IngestImplementsLedger ==
  ASSUME "resend" \notin Faults
  PROVE  Spec => LedgerSpec
<1>1. Init => Ledger!Init
  BY DEF Init, Ledger!Init, Published
<1>2. ExactInv /\ [Next]_vars => [Ledger!Next]_(Ledger!vars)
  <2> SUFFICES ASSUME ExactInv, [Next]_vars
               PROVE  [Ledger!Next]_(Ledger!vars)
    OBVIOUS
  <2>1. CASE UNCHANGED <<usage_event, charged, pruned>> /\ log' = log
    BY <2>1 DEF Ledger!vars, Published
  <2>2. ASSUME NEW w \in Worker, Commit(w), log' = log
        PROVE  [Ledger!Next]_(Ledger!vars)
    BY <2>2, CommitRefines
  <2>3. ASSUME NEW S \in SUBSET usage_event,
               usage_event' = usage_event \ S, UNCHANGED <<charged, log>>
        PROVE  [Ledger!Next]_(Ledger!vars)
    <3>1. Ledger!Prune(S)
      BY <2>3 DEF Ledger!Prune, Published
    <3>2. S \subseteq Event
      BY DEF ExactInv, TypeOK
    <3> QED
      BY <3>1, <3>2 DEF Ledger!Next
  <2>4. ASSUME NEW p \in Payload, log' = Append(log, p),
               UNCHANGED <<usage_event, charged>>
        PROVE  [Ledger!Next]_(Ledger!vars)
    BY <2>4, XAddRefines
  <2> QED
    BY <2>1, <2>2, <2>3, <2>4, LogStep, TableStep
<1> QED
  BY <1>1, <1>2, ExactInvariant, PTL DEF Spec, LedgerSpec, Ledger!Spec

---------------------------------------------------------------------------
(* lastUsedAt *)

\* A commit records what was recorded and what it inserts.
LEMMA CommitRecorded ==
  ASSUME TypeOK, NEW w \in Worker, Commit(w), NEW e \in Event
  PROVE  Recorded(e)' <=> Recorded(e) \/ e \in Inserted(w)
<1>1. charged'[e] = charged[e] + Copies(w, e) /\ charged[e] \in Nat
  BY DEF Commit, TypeOK
<1>2. Copies(w, e) \in Nat /\ (e \in Inserted(w) => Copies(w, e) > 0)
  BY CopiesNat
<1>3. e \notin Inserted(w) => Copies(w, e) = 0
  BY DEF Copies
<1> QED
  BY <1>1, <1>2, <1>3 DEF Recorded

\* The latest of what is stored and what is inserted is the latest recorded.
LEMMA CommitIsLatest ==
  ASSUME TypeOK, LastUsedIsLatest, NEW w \in Worker, Commit(w)
  PROVE  LastUsedIsLatest'
<1> SUFFICES ASSUME NEW k \in VirtualKey
             PROVE  /\ \A e \in Event : Recorded(e)' /\ KeyOf[e] = k => OccurredAt[e] <= lastUsedAt'[k]
                    /\ lastUsedAt'[k] # 0 =>
                         \E e \in Event : Recorded(e)' /\ KeyOf[e] = k /\ OccurredAt[e] = lastUsedAt'[k]
  BY DEF LastUsedIsLatest
<1>1. /\ \A e \in Event : Recorded(e) /\ KeyOf[e] = k => OccurredAt[e] <= lastUsedAt[k]
      /\ lastUsedAt[k] # 0 =>
           \E e \in Event : Recorded(e) /\ KeyOf[e] = k /\ OccurredAt[e] = lastUsedAt[k]
  BY DEF LastUsedIsLatest
<1>2. /\ lastUsedAt[k] <= lastUsedAt'[k]
      /\ \A e \in Inserted(w) : KeyOf[e] = k => OccurredAt[e] <= lastUsedAt'[k]
      /\ \/ lastUsedAt'[k] = lastUsedAt[k]
         \/ \E e \in Inserted(w) : KeyOf[e] = k /\ OccurredAt[e] = lastUsedAt'[k]
  <2>1. IsLatest(lastUsedAt'[k], k, Inserted(w))
    BY DEF Commit
  <2> QED
    BY <2>1 DEF IsLatest
<1>3. /\ lastUsedAt[k] \in Nat /\ lastUsedAt'[k] \in Nat
      /\ \A e \in Event : OccurredAt[e] \in Nat
  BY CommitType, SetsAssumption, FunctionsAssumption DEF TypeOK
<1>4. Inserted(w) \subseteq Event
  BY DEF Inserted, EventsOf
<1>5. \A e \in Event : Recorded(e)' /\ KeyOf[e] = k => OccurredAt[e] <= lastUsedAt'[k]
  BY <1>1, <1>2, <1>3, CommitRecorded
<1>6. lastUsedAt'[k] # 0 =>
        \E e \in Event : Recorded(e)' /\ KeyOf[e] = k /\ OccurredAt[e] = lastUsedAt'[k]
  BY <1>1, <1>2, <1>4, CommitRecorded
<1> QED
  BY <1>5, <1>6

\* virtual_key.lastUsedAt is the time of the latest event ever recorded for the
\* key, under every fault and in whatever order the batches of the workers commit
\* (touchVirtualKeys); retention does not set it back.
THEOREM LastUsedIsTheLatest == Spec => []LastUsedIsLatest
<1>1. Init => LastUsedIsLatest
  BY DEF Init, LastUsedIsLatest, Recorded
<1>2. TypeOK /\ LastUsedIsLatest /\ [Next]_vars => LastUsedIsLatest'
  <2> SUFFICES ASSUME TypeOK, LastUsedIsLatest, [Next]_vars PROVE LastUsedIsLatest'
    OBVIOUS
  <2>1. CASE UNCHANGED <<charged, lastUsedAt>>
    BY <2>1 DEF LastUsedIsLatest, Recorded
  <2>2. ASSUME NEW w \in Worker, Commit(w) PROVE LastUsedIsLatest'
    BY <2>2, CommitIsLatest
  <2> QED
    BY <2>1, <2>2, TableStep
<1> QED
  BY <1>1, <1>2, TypeCorrect, PTL DEF Spec

---------------------------------------------------------------------------
(* Poison messages, while Redis keeps its state *)

\* The inductive invariant behind PoisonIsDeadLettered: of a batch in hand the
\* poison entries that are not to do are dead-lettered, none is to do where the
\* batch is persisted or acknowledged, and the group is not ahead of the log.
DlqInv ==
  /\ PoisonIsDeadLettered
  /\ \A w \in Worker :
       /\ pc[w] \in {"persist", "ack"} => todo[w] = {}
       /\ \A i \in batch[w] : log[i] \in Poison => i \in dlq \cup todo[w]
  /\ group.cursor <= Len(log)

\* What a turn does with its batch, with the log and the stream as they were.
LEMMA DlqTurn ==
  ASSUME TypeOK, DlqInv, UNCHANGED <<log, stream>>, dlq \subseteq dlq',
         group'.cursor <= Len(log),
         \A i \in DOMAIN log : Settled(stream, group', i) =>
           Settled(stream, group, i) \/ (log[i] \in Poison => i \in dlq'),
         \A w \in Worker :
           /\ pc'[w] \in {"persist", "ack"} => todo'[w] = {}
           /\ \A i \in batch'[w] : log[i] \in Poison => i \in dlq' \cup todo'[w]
  PROVE  DlqInv'
  BY DEF DlqInv, PoisonIsDeadLettered

\* Nothing is in hand of a worker whose turn is over.
LEMMA DlqEndTurn ==
  ASSUME TypeOK, DlqInv, NEW w \in Worker, EndTurn(w), UNCHANGED <<log, stream, dlq>>,
         group'.cursor <= Len(log),
         \A i \in DOMAIN log : Settled(stream, group', i) =>
           Settled(stream, group, i) \/ (log[i] \in Poison => i \in dlq)
  PROVE  DlqInv'
<1>1. \A v \in Worker : /\ pc'[v] \in {"persist", "ack"} => todo'[v] = {}
                        /\ \A i \in batch'[v] : log[i] \in Poison => i \in dlq' \cup todo'[v]
  BY DEF DlqInv, EndTurn, NextTurn, TypeOK
<1> QED
  BY <1>1, DlqTurn

LEMMA DlqXAdd ==
  ASSUME TypeOK, DlqInv, NEW p \in Payload, XAdd(p)
  PROVE  DlqInv'
<1>1. /\ DOMAIN log' = DOMAIN log \cup {Len(log) + 1}
      /\ \A i \in DOMAIN log : log'[i] = log[i]
      /\ Len(log') = Len(log) + 1
  BY AppendLog DEF TypeOK, XAdd
<1>2. stream' \subseteq stream \cup {Len(log) + 1}
  BY DEF XAdd, Trimmed
<1>3. UNCHANGED <<group, dlq, pc, batch, todo>>
  BY DEF XAdd, workers
<1>4. group.cursor \in Nat /\ Len(log) \in Nat /\ \A w \in Worker : batch[w] \subseteq DOMAIN log
  BY DEF TypeOK, Group
<1>5. PoisonIsDeadLettered'
  BY <1>1, <1>2, <1>3, <1>4 DEF DlqInv, PoisonIsDeadLettered, Settled
<1> QED
  BY <1>1, <1>3, <1>4, <1>5 DEF DlqInv

\* A recreated group has settled nothing.
LEMMA DlqEnsure ==
  ASSUME TypeOK, DlqInv, EnsureConsumerGroup
  PROVE  /\ group'.cursor <= Len(log)
         /\ \A i \in DOMAIN log : Settled(stream, group', i) => Settled(stream, group, i)
<1>1. CASE group.exists
  BY <1>1 DEF DlqInv, EnsureConsumerGroup
<1>2. CASE ~group.exists
  <2>1. group'.cursor = 0
    BY <1>2 DEF EnsureConsumerGroup, NoGroup
  <2>2. \A i \in DOMAIN log : ~(i <= 0)
    BY DEF TypeOK
  <2> QED
    BY <2>1, <2>2 DEF Settled, TypeOK
<1> QED
  BY <1>1, <1>2

\* What is delivered is pending.
LEMMA DlqDelivery ==
  ASSUME TypeOK, NEW S \in SUBSET Unread, Delivery(S), Delivered(S), group.exists
  PROVE  /\ group'.cursor <= Len(log)
         /\ \A i \in DOMAIN log : Settled(stream, group', i) => Settled(stream, group, i)
<1>1. PICK last \in S : group' = [group EXCEPT !.cursor = last, !.pel = @ \cup S]
  BY DEF Delivered
<1>2. last <= Len(log)
  BY DEF TypeOK, Unread
<1> QED
  BY <1>1, <1>2, DeliverySettles DEF TypeOK, Group

LEMMA DlqStep ==
  ASSUME TypeOK, DlqInv, [Next]_vars, "restart" \notin Faults
  PROVE  DlqInv'
<1>0. group.cursor <= Len(log)
  BY DEF DlqInv
<1>1. ASSUME NEW p \in Payload, Publish(p) \/ Resend(p) PROVE DlqInv'
  BY <1>1, DlqXAdd DEF Publish, Resend
<1>2. CASE Fsync \/ RedisRestart
  BY <1>2 DEF Fsync, RedisRestart, Fault
<1>3. ASSUME NEW w \in Worker, Boot(w) PROVE DlqInv'
  <2>1. \A v \in Worker : /\ pc'[v] \in {"persist", "ack"} => todo'[v] = {}
                          /\ \A i \in batch'[v] : log[i] \in Poison => i \in dlq' \cup todo'[v]
    BY <1>3 DEF DlqInv, Boot, TypeOK
  <2> QED
    BY <1>3, <2>1, DlqEnsure, DlqTurn DEF Boot
<1>4. ASSUME NEW w \in Worker, Read(w) PROVE DlqInv'
  <2>1. PICK S \in SUBSET Unread :
          /\ Delivery(S) /\ Delivered(S)
          /\ batch' = [batch EXCEPT ![w] = S]
          /\ todo' = [todo EXCEPT ![w] = Invalid(S)]
          /\ pc' = [pc EXCEPT ![w] = IF Invalid(S) # {} THEN "dlq" ELSE AfterDlq(S)]
    BY <1>4 DEF Read
  <2>2. \A v \in Worker : /\ pc'[v] \in {"persist", "ack"} => todo'[v] = {}
                          /\ \A i \in batch'[v] : log[i] \in Poison => i \in dlq \cup todo'[v]
    BY <2>1 DEF DlqInv, TypeOK, Invalid
  <2> QED
    BY <1>4, <2>1, <2>2, DlqDelivery, DlqTurn DEF Read
<1>5. ASSUME NEW w \in Worker, ReadReplyLost(w) PROVE DlqInv'
  <2>1. \A v \in Worker : /\ pc'[v] \in {"persist", "ack"} => todo'[v] = {}
                          /\ \A i \in batch'[v] : log[i] \in Poison => i \in dlq' \cup todo'[v]
    BY <1>5 DEF DlqInv, ReadReplyLost, workers
  <2> QED
    BY <1>5, <2>1, DlqDelivery, DlqTurn DEF ReadReplyLost
<1>6. ASSUME NEW w \in Worker,
             ReadNothing(w) \/ PersistRejected(w) \/ PersistFails(w) \/ PersistReplyLost(w) \/ RedisError(w)
      PROVE  DlqInv'
  <2>1. EndTurn(w) /\ UNCHANGED <<log, stream, group, dlq>>
    BY <1>6 DEF ReadNothing, PersistRejected, PersistFails, PersistReplyLost, RedisError, redis
  <2> QED
    BY <1>0, <2>1, DlqEndTurn
<1>7. ASSUME NEW w \in Worker, ReadNoGroup(w) PROVE DlqInv'
  <2>1. /\ group'.cursor <= Len(log)
        /\ \A i \in DOMAIN log : Settled(stream, group', i) => Settled(stream, group, i)
    BY <1>0, <1>7, DlqEnsure DEF ReadNoGroup
  <2> QED
    BY <1>7, <2>1, DlqEndTurn DEF ReadNoGroup
<1>8. ASSUME NEW w \in Worker, DeadLetter(w) PROVE DlqInv'
  <2>1. PICK i \in todo[w] :
          /\ dlq' = dlq \cup {i}
          /\ todo' = [todo EXCEPT ![w] = @ \ {i}]
          /\ pc' = [pc EXCEPT ![w] = IF todo[w] = {i} THEN AfterDlq(batch[w]) ELSE "dlq"]
    BY <1>8 DEF DeadLetter
  <2>2. UNCHANGED <<log, stream, group, batch>>
    BY <1>8 DEF DeadLetter
  <2>3. \A v \in Worker : /\ pc'[v] \in {"persist", "ack"} => todo'[v] = {}
                          /\ \A j \in batch'[v] : log[j] \in Poison => j \in dlq' \cup todo'[v]
    BY <2>1, <2>2 DEF DlqInv, TypeOK
  <2> QED
    BY <1>0, <2>1, <2>2, <2>3, DlqTurn
<1>9. ASSUME NEW w \in Worker, Persist(w) \/ Stop(w) \/ Crash(w) PROVE DlqInv'
  <2>1. UNCHANGED <<log, stream, group, dlq>>
    BY <1>9 DEF Persist, Stop, Crash, redis
  <2>2. \A v \in Worker : /\ pc'[v] \in {"persist", "ack"} => todo'[v] = {}
                          /\ \A j \in batch'[v] : log[j] \in Poison => j \in dlq' \cup todo'[v]
    BY <1>9, <2>1 DEF DlqInv, TypeOK, Persist, Stop, Crash
  <2> QED
    BY <1>0, <2>1, <2>2, DlqTurn
<1>10. ASSUME NEW w \in Worker, Ack(w) PROVE DlqInv'
  <2>1. group' = [group EXCEPT !.pel = @ \ batch[w]] /\ EndTurn(w) /\ UNCHANGED <<log, stream, dlq>>
    BY <1>10 DEF Ack
  <2>2. group'.cursor = group.cursor
    BY <2>1 DEF TypeOK, Group
  <2>3. \A i \in DOMAIN log : Settled(stream, group', i) =>
          Settled(stream, group, i) \/ i \in batch[w]
    BY <2>1 DEF Settled, TypeOK, Group
  <2>4. \A i \in batch[w] : log[i] \in Poison => i \in dlq
    BY <1>10 DEF Ack, DlqInv
  <2> QED
    BY <1>0, <2>1, <2>2, <2>3, <2>4, DlqEndTurn
<1>11. ASSUME UNCHANGED <<redis, workers>> PROVE DlqInv'
  BY <1>11 DEF DlqInv, PoisonIsDeadLettered, redis, workers
<1>12. CASE Retention \/ (\E p \in Parent : DeleteParent(p)) \/ UNCHANGED vars
  BY <1>11, <1>12 DEF Retention, DeleteParent, vars, redis, workers
<1> QED
  BY <1>1, <1>2, <1>3, <1>4, <1>5, <1>6, <1>7, <1>8, <1>9, <1>10, <1>12 DEF Next

\* A poison entry is acknowledged only after its dead-letter copy, under crashes,
\* failed transactions, refused Redis commands and lost replies (decodeBatch and
\* the loop of startIngest); a Redis that comes back with an older state may lose
\* the copy and is excluded.
THEOREM PoisonIsKept ==
  ASSUME "restart" \notin Faults
  PROVE  Spec => []PoisonIsDeadLettered
<1>1. Init => DlqInv
  BY DEF Init, DlqInv, PoisonIsDeadLettered, NoGroup
<1>2. TypeOK /\ DlqInv /\ [Next]_vars => DlqInv'
  BY DlqStep
<1>3. DlqInv => PoisonIsDeadLettered
  BY DEF DlqInv
<1> QED
  BY <1>1, <1>2, <1>3, TypeCorrect, PTL DEF Spec
=============================================================================
