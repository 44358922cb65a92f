---------------------------- MODULE ExportsProofs ----------------------------
(***************************************************************************)
(* Proofs about Exports: an export that says DONE has its whole file, and    *)
(* DONE and FAILED are final, for any number of jobs, slots, events, faults  *)
(* and attempts and any size of a page.                                      *)
(***************************************************************************)
EXTENDS Exports, FiniteSetTheorems, TLAPS

(* Pages *)

\* The newer a row, the fewer rows come before it.
LEMMA NewerFalls ==
  ASSUME NEW S \in SUBSET Nat, IsFiniteSet(S), NEW x \in S, NEW y \in S, x < y
  PROVE  Newer(S, y) < Newer(S, x)
<1> DEFINE X == {z \in S : z > x}
           Y == {z \in S : z > y}
<1>1. IsFiniteSet(X) /\ Cardinality(X) \in Nat
  BY FS_Subset, FS_CardinalityType
<1>0. x \in Nat /\ y \in Nat /\ \A z \in S : z \in Nat
  OBVIOUS
<1>2. Y \in SUBSET X /\ y \in X /\ y \notin Y
  <2>1. \A z \in S : z > y => z > x
    BY <1>0
  <2>2. y > x /\ ~(y > y)
    BY <1>0
  <2>3. Y \in SUBSET X
    BY <2>1, Zenon
  <2> QED
    BY <2>2, <2>3
<1>3. IsFiniteSet(Y) /\ Cardinality(Y) \in Nat /\ Cardinality(Y) <= Cardinality(X) /\ Cardinality(X) # Cardinality(Y)
  <2> HIDE DEF X, Y
  <2> QED
    BY <1>1, <1>2, FS_Subset, FS_CardinalityType
<1> QED
  BY <1>1, <1>3 DEF Newer

LEMMA NewerType ==
  ASSUME NEW S \in SUBSET Nat, IsFiniteSet(S), NEW x \in S
  PROVE  Newer(S, x) \in 0..(Cardinality(S) - 1)
<1> DEFINE X == {z \in S : z > x}
<1>1. X \in SUBSET S /\ x \notin X
  OBVIOUS
<1> HIDE DEF X
<1>2. /\ Cardinality(S) \in Nat /\ IsFiniteSet(X) /\ Cardinality(X) \in Nat
      /\ Cardinality(X) <= Cardinality(S) /\ Cardinality(X) # Cardinality(S)
  BY <1>1, FS_Subset, FS_CardinalityType
<1>3. Newer(S, x) = Cardinality(X)
  BY DEF Newer, X
<1> QED
  BY <1>2, <1>3

\* Every place in the order is taken, and the order of places is that of rows.
LEMMA EveryPlaceIsTaken ==
  ASSUME NEW S \in SUBSET Nat, IsFiniteSet(S)
  PROVE  \A k \in 0..(Cardinality(S) - 1) : \E e \in S : Newer(S, e) = k
<1> DEFINE n == Cardinality(S)
           T == 0..(n - 1)
           f == [e \in S |-> Newer(S, e)]
<1>1. n \in Nat
  BY FS_CardinalityType
<1>2. IsFiniteSet(T) /\ Cardinality(T) = n
  <2>1. 0 \in Int /\ n - 1 \in Int
    BY <1>1
  <2>2. IsFiniteSet(T) /\ Cardinality(T) = IF 0 > n - 1 THEN 0 ELSE n - 1 - 0 + 1
    BY <2>1, FS_Interval
  <2> QED
    BY <1>1, <2>2
<1>3. f \in [S -> T]
  BY NewerType
<1>4. \A x, y \in S : f[x] = f[y] => x = y
  <2> SUFFICES ASSUME NEW x \in S, NEW y \in S, x # y PROVE Newer(S, x) # Newer(S, y)
    OBVIOUS
  <2>1. x \in Nat /\ y \in Nat /\ Newer(S, x) \in Nat /\ Newer(S, y) \in Nat
    <3>1. Newer(S, x) \in T /\ Newer(S, y) \in T
      BY NewerType
    <3> QED
      BY <3>1, <1>1
  <2>2. CASE x < y
    BY <2>1, <2>2, NewerFalls
  <2>3. CASE y < x
    BY <2>1, <2>3, NewerFalls
  <2> QED
    BY <2>1, <2>2, <2>3
<1> HIDE DEF n, T, f
<1>5. f \in Injection(S, T)
  BY <1>3, <1>4 DEF Injection, IsInjective
<1>6. f \in Surjection(S, T)
  BY <1>2, <1>5, FS_Injection DEF n
<1>7. \A k \in T : \E e \in S : f[e] = k
  BY <1>6 DEF Surjection
<1> QED
  BY <1>7 DEF f, T, n

\* What a page holds: rows below the cursor, newest first, and each row below
\* the cursor that it leaves out is older than all of it.  A short page leaves
\* none out, and the page is short when it is empty.
LEMMA PageLemma ==
  ASSUME NEW table \in SUBSET Event, NEW cursor \in Nat
  PROVE  LET p == PageOf(table, cursor)
             B == Below(table, cursor)
         IN  /\ p \in Seq(Event)
             /\ \A i \in 1..Len(p) : p[i] \in B
             /\ \A i, k \in 1..Len(p) : i < k => p[i] > p[k]
             /\ \A e \in B : \/ \E i \in 1..Len(p) : p[i] = e
                             \/ Len(p) = Batch /\ \A i \in 1..Len(p) : e < p[i]
<1> DEFINE p == PageOf(table, cursor)
           B == Below(table, cursor)
           n == IF Cardinality(B) < Batch THEN Cardinality(B) ELSE Batch
<1>1. B \in SUBSET Event /\ B \in SUBSET Nat /\ IsFiniteSet(B) /\ Batch \in Nat \ {0}
  <2>1. B \in SUBSET Event /\ Event \in SUBSET Nat /\ IsFiniteSet(Event) /\ Batch \in Nat \ {0}
    BY ExportsAssumption DEF Below
  <2> QED
    BY <2>1, FS_Subset
<1>2. Cardinality(B) \in Nat /\ n \in Nat /\ n <= Batch /\ n <= Cardinality(B)
  <2>1. Cardinality(B) \in Nat
    BY <1>1, FS_CardinalityType
  <2> QED
    BY <1>1, <2>1
<1>3. p = [i \in 1..n |-> CHOOSE e \in B : Newer(B, e) = i - 1]
  BY DEF PageOf
<1> HIDE DEF p, B
<1>4. ASSUME NEW i \in 1..n PROVE p[i] \in B /\ Newer(B, p[i]) = i - 1
  <2>1. i - 1 \in 0..(Cardinality(B) - 1)
    BY <1>2
  <2>2. \E e \in B : Newer(B, e) = i - 1
    BY <1>1, <2>1, EveryPlaceIsTaken
  <2>3. p[i] = CHOOSE e \in B : Newer(B, e) = i - 1
    BY <1>3
  <2> QED
    BY <2>2, <2>3
<1>5. p \in Seq(Event) /\ Len(p) = n
  <2>1. p \in [1..n -> Event]
    BY <1>1, <1>3, <1>4
  <2> HIDE DEF n
  <2> QED
    BY <1>2, <2>1
<1> HIDE DEF n
<1>6. ASSUME NEW i \in 1..n, NEW k \in 1..n, i < k PROVE p[i] > p[k]
  <2>1. p[i] \in B /\ p[k] \in B /\ p[i] \in Nat /\ p[k] \in Nat
    BY <1>1, <1>4
  <2>2. Newer(B, p[i]) = i - 1 /\ Newer(B, p[k]) = k - 1
    BY <1>4
  <2>3. i \in Nat /\ k \in Nat
    BY <1>2
  <2>4. p[i] # p[k]
    BY <1>6, <2>2, <2>3
  <2>5. ~(p[i] < p[k])
    <3> SUFFICES ASSUME p[i] < p[k] PROVE FALSE
      OBVIOUS
    <3>1. Newer(B, p[k]) < Newer(B, p[i])
      BY <1>1, <2>1, NewerFalls
    <3> QED
      BY <1>6, <2>2, <2>3, <3>1
  <2> QED
    BY <2>1, <2>4, <2>5
<1>7. ASSUME NEW e \in B
      PROVE  \/ \E i \in 1..n : p[i] = e
             \/ n = Batch /\ \A i \in 1..n : e < p[i]
  <2> DEFINE r == Newer(B, e)
  <2>1. r \in 0..(Cardinality(B) - 1)
    BY <1>1, NewerType
  <2> HIDE DEF r
  <2>0. r \in Nat /\ e \in Nat
    BY <1>1, <1>2, <2>1
  <2>2. CASE r < n
    <3>1. r + 1 \in 1..n
      BY <1>2, <2>0, <2>2
    <3>2. p[r + 1] \in B /\ Newer(B, p[r + 1]) = r
      BY <2>0, <3>1, <1>4
    <3>3. p[r + 1] \in Nat
      BY <1>1, <3>2
    <3>4. ~(p[r + 1] < e)
      <4> SUFFICES ASSUME p[r + 1] < e PROVE FALSE
        OBVIOUS
      <4>1. Newer(B, e) < Newer(B, p[r + 1])
        BY <1>1, <3>2, NewerFalls
      <4> QED
        BY <2>0, <3>2, <4>1 DEF r
    <3>5. ~(e < p[r + 1])
      <4> SUFFICES ASSUME e < p[r + 1] PROVE FALSE
        OBVIOUS
      <4>1. Newer(B, p[r + 1]) < Newer(B, e)
        BY <1>1, <3>2, NewerFalls
      <4> QED
        BY <2>0, <3>2, <4>1 DEF r
    <3>6. p[r + 1] = e
      BY <2>0, <3>3, <3>4, <3>5
    <3> QED
      BY <3>1, <3>6
  <2>3. CASE ~(r < n)
    <3>1. n = Batch
      BY <1>1, <1>2, <2>1, <2>3 DEF n
    <3>2. ASSUME NEW i \in 1..n PROVE e < p[i]
      <4>1. p[i] \in B /\ p[i] \in Nat /\ Newer(B, p[i]) = i - 1 /\ i \in 1..n
        BY <1>1, <1>4
      <4>2. i - 1 < r
        BY <1>2, <2>0, <2>3, <4>1
      <4>3. e # p[i]
        BY <1>2, <2>0, <4>1, <4>2 DEF r
      <4>4. ~(p[i] < e)
        <5> SUFFICES ASSUME p[i] < e PROVE FALSE
          OBVIOUS
        <5>1. Newer(B, e) < Newer(B, p[i])
          BY <1>1, <4>1, NewerFalls
        <5> QED
          BY <1>2, <2>0, <4>1, <4>2, <5>1 DEF r
      <4> QED
        BY <2>0, <4>1, <4>3, <4>4
    <3> QED
      BY <3>1, <3>2
  <2> QED
    BY <2>2, <2>3
<1> QED
  BY <1>4, <1>5, <1>6, <1>7 DEF p, B

\* Writing keeps the type of a file, and writing at the end of it appends.
LEMMA WrittenType ==
  ASSUME NEW D, NEW old \in Seq(D), NEW pos \in Nat, NEW data \in Seq(D), Hole \in D
  PROVE  Written(old, pos, data) \in Seq(D)
<1> DEFINE len == IF Len(old) > pos + Len(data) THEN Len(old) ELSE pos + Len(data)
           w(i) == IF i \in (pos + 1)..(pos + Len(data)) THEN data[i - pos]
                   ELSE IF i <= Len(old) THEN old[i] ELSE Hole
<1>1. Len(old) \in Nat /\ Len(data) \in Nat /\ len \in Nat
  OBVIOUS
<1>2. ASSUME NEW i \in 1..len PROVE w(i) \in D
  <2>1. CASE i \in (pos + 1)..(pos + Len(data))
    <3>1. i - pos \in 1..Len(data)
      BY <1>1, <2>1
    <3>2. w(i) = data[i - pos]
      BY <2>1
    <3> QED
      BY <3>1, <3>2
  <2>2. CASE ~(i \in (pos + 1)..(pos + Len(data))) /\ i <= Len(old)
    <3>1. i \in 1..Len(old)
      BY <1>1, <2>2
    <3>2. w(i) = old[i]
      BY <2>2
    <3> QED
      BY <3>1, <3>2
  <2>3. CASE ~(i \in (pos + 1)..(pos + Len(data))) /\ ~(i <= Len(old))
    BY <2>3
  <2> QED
    BY <2>1, <2>2, <2>3
<1>3. Written(old, pos, data) = [i \in 1..len |-> w(i)]
  BY DEF Written
<1> HIDE DEF len, w
<1> QED
  BY <1>1, <1>2, <1>3

LEMMA WrittenAppends ==
  ASSUME NEW D, NEW old \in Seq(D), NEW data \in Seq(D)
  PROVE  LET new == Written(old, Len(old), data)
         IN  /\ Len(new) = Len(old) + Len(data)
             /\ \A i \in 1..Len(old) : new[i] = old[i]
             /\ \A i \in 1..Len(data) : new[Len(old) + i] = data[i]
<1> DEFINE m == Len(old)
           k == Len(data)
           new == Written(old, m, data)
<1>1. m \in Nat /\ k \in Nat
  OBVIOUS
<1>2. new = [i \in 1..(m + k) |-> IF i \in (m + 1)..(m + k) THEN data[i - m]
                                  ELSE IF i <= m THEN old[i] ELSE Hole]
  BY <1>1 DEF Written
<1> HIDE DEF m, k, new
<1>3. Len(new) = m + k
  BY <1>1, <1>2
<1>4. ASSUME NEW i \in 1..m PROVE new[i] = old[i]
  BY <1>1, <1>2
<1>5. ASSUME NEW i \in 1..k PROVE new[m + i] = data[i]
  <2>1. m + i \in 1..(m + k) /\ m + i \in (m + 1)..(m + k) /\ (m + i) - m = i
    BY <1>1
  <2> QED
    BY <1>2, <2>1
<1> QED
  BY <1>3, <1>4, <1>5 DEF m, k, new

---------------------------------------------------------------------------
(* Type correctness *)

Row   == [status : {"none", "PENDING", "RUNNING", "DONE", "FAILED", "deleted"},
          dated : BOOLEAN, expired : BOOLEAN, rowCount : Nat]
Entry == [state : {"none", "waiting", "active", "completed", "failed"},
          tries : 0..Attempts, stalls : Nat]
Csv   == [there : BOOLEAN, old : BOOLEAN, data : Seq(Event \cup {Hole})]
Work  == [pc : {"idle", "find", "claim", "open", "page", "finish", "fail", "return"},
          job : Job, lock : BOOLEAN, cursor : Event \cup {0}, pos : Nat, unheard : BOOLEAN]

\* What bounds the attempts: an entry that may still be run has one left, the
\* slot with its lock is the only one and the entry is active, and nothing is
\* queued before its POST says so.
QueueInv ==
  \A j \in Job :
    /\ job[j].status = "none" => queue[j].state = "none" /\ j \notin posting
    /\ j \in posting => queue[j].state = "none"
    /\ queue[j].state \in {"none", "waiting", "active"} => queue[j].tries < Attempts
    /\ \A s \in Slot : Holds(s, j) /\ run[s].lock =>
         /\ queue[j].state = "active"
         /\ \A t \in Slot : Holds(t, j) /\ run[t].lock => s = t

LEMMA IdleType ==
  Idle \in Work /\ Idle.pc = "idle" /\ NoFile \in Csv /\ NoFile.there = FALSE
<1>1. (CHOOSE j \in Job : TRUE) \in Job
  BY ExportsAssumption
<1>2. <<>> \in Seq(Event \cup {Hole})
  OBVIOUS
<1> QED
  BY <1>1, <1>2 DEF Idle, Work, NoFile, Csv

LEMMA DoneRowType ==
  ASSUME NEW s \in Slot, run[s] \in Work
  PROVE  DoneRow(s) \in Row /\ DoneRow(s).status = "DONE" /\ DoneRow(s).expired = FALSE
         /\ DoneRow(s).dated = TRUE /\ DoneRow(s).rowCount = run[s].pos
PROOF BY DEF DoneRow, Row, Work

LEMMA LeaveType ==
  ASSUME TypeOK, QueueInv, NEW s \in Slot, NEW o, run[s].pc # "idle", Leave(s, o)
  PROVE  run' \in [Slot -> Work] /\ queue' \in [Job -> Entry]
<1> DEFINE j == run[s].job
           q == queue[j]
           r == IF o = "return" THEN [q EXCEPT !.state = "completed"]
                ELSE [q EXCEPT !.tries = q.tries + 1,
                               !.state = IF q.tries + 1 < Attempts THEN "waiting" ELSE "failed"]
<1>1. run' = [run EXCEPT ![s] = Idle] /\ queue' = IF ~run[s].lock THEN queue ELSE [queue EXCEPT ![j] = r]
  BY DEF Leave
<1>2. run \in [Slot -> Work] /\ queue \in [Job -> Entry] /\ j \in Job /\ q \in Entry /\ Attempts \in Nat
  BY ExportsAssumption DEF TypeOK, Work, Entry
<1>3. CASE ~run[s].lock
  BY <1>1, <1>2, <1>3, IdleType
<1>4. CASE run[s].lock
  <2>1. q.tries < Attempts
    BY <1>2, <1>4 DEF QueueInv, Holds
  <2>2. q.tries + 1 \in 0..Attempts
    BY <1>2, <2>1 DEF Entry
  <2>3. r \in Entry
    BY <1>2, <2>2 DEF Entry
  <2> HIDE DEF r, q, j
  <2> QED
    BY <1>1, <1>2, <1>4, <2>3, IdleType
<1> QED
  BY <1>3, <1>4

LEMMA TypeStep ==
  ASSUME TypeOK, QueueInv, [Next]_vars
  PROVE  TypeOK'
<1>0. /\ run \in [Slot -> Work] /\ queue \in [Job -> Entry] /\ file \in [Job -> Csv]
      /\ job \in [Job -> Row]
  BY DEF TypeOK, Work, Entry, Csv, Row
<1>00. MaxFaults \in Nat /\ Attempts \in Nat \ {0}
  BY ExportsAssumption
<1>f. ASSUME NEW kind, Fault(kind) PROVE faults' \in 0..MaxFaults
  BY <1>f, <1>00 DEF Fault, TypeOK
<1>1. ASSUME NEW j \in Job, Create(j) PROVE TypeOK'
  <2> DEFINE r == [job[j] EXCEPT !.status = "PENDING"]
  <2>1. r \in Row
    BY <1>0 DEF Row
  <2>2. job' = [job EXCEPT ![j] = r]
    BY <1>1 DEF Create
  <2> HIDE DEF r
  <2>3. job' \in [Job -> Row]
    BY <1>0, <2>1, <2>2
  <2> QED
    BY <1>1, <2>3 DEF Create, TypeOK, Row
<1>2. ASSUME NEW j \in Job, Enqueue(j) \/ TakeBack(j) PROVE TypeOK'
  <2>1. queue' \in [Job -> Entry]
    <3> DEFINE q == [queue[j] EXCEPT !.state = "waiting"]
    <3>1. q \in Entry
      BY <1>0 DEF Entry
    <3>3. Stalled(queue[j]) \in Entry
      <4> DEFINE a == IF queue[j].stalls < MaxStalled THEN "waiting" ELSE "failed"
                 n == queue[j].stalls + 1
      <4>1. queue[j] \in Entry
        BY <1>0
      <4>2. a \in {"waiting", "failed"} /\ n \in Nat
        BY <4>1 DEF Entry
      <4>3. Stalled(queue[j]) = [queue[j] EXCEPT !.stalls = n, !.state = a]
        BY DEF Stalled
      <4> HIDE DEF a, n
      <4> QED
        BY <4>1, <4>2, <4>3 DEF Entry
    <3>2. queue' = [queue EXCEPT ![j] = q] \/ queue' = [queue EXCEPT ![j] = Stalled(queue[j])]
      BY <1>2 DEF Enqueue, TakeBack
    <3> HIDE DEF q
    <3> QED
      BY <1>0, <3>1, <3>2, <3>3
  <2>2. posting' \subseteq Job
    BY <1>2 DEF Enqueue, TakeBack, TypeOK
  <2> QED
    BY <1>2, <2>1, <2>2 DEF Enqueue, TakeBack, TypeOK, Entry
<1>3. ASSUME NEW j \in Job, EnqueueLost(j) PROVE TypeOK'
  BY <1>3, <1>f DEF EnqueueLost, TypeOK
<1>4. ASSUME NEW j \in Job, DownloadFind(j) PROVE TypeOK'
  BY <1>4 DEF DownloadFind, TypeOK
<1>5. CASE DownloadOpen
  BY <1>5 DEF DownloadOpen, TypeOK
<1>6. ASSUME NEW s \in Slot, NEW j \in Job, Take(s, j) PROVE TypeOK'
  <2> DEFINE w == [Idle EXCEPT !.pc = "find", !.job = j, !.lock = TRUE]
  <2>1. w \in Work
    BY IdleType DEF Work
  <2> HIDE DEF w
  <2>2. run' \in [Slot -> Work]
    BY <1>0, <1>6, <2>1 DEF Take, w
  <2>3. queue' \in [Job -> Entry]
    BY <1>0, <1>6 DEF Take, Entry
  <2>4. doubled' \subseteq Job /\ UNCHANGED <<rows, job, posting, file, keeper, getter, owed, faults>>
    BY <1>6 DEF Take, TypeOK
  <2> QED
    BY <2>2, <2>3, <2>4 DEF TypeOK, Entry, Work
<1>7. ASSUME NEW s \in Slot, NEW o, run[s].pc # "idle", Leave(s, o), UNCHANGED <<rows, job, posting, file, keeper, getter, owed, doubled>>,
             faults' \in 0..MaxFaults
      PROVE  TypeOK'
  <2>1. run' \in [Slot -> Work] /\ queue' \in [Job -> Entry]
    BY <1>7, LeaveType
  <2> QED
    BY <1>7, <2>1 DEF TypeOK, Entry, Work
<1>8. ASSUME NEW s \in Slot, NEW pc \in {"claim", "open", "page", "finish", "fail", "return"}, Goto(s, pc)
      PROVE  run' \in [Slot -> Work]
  BY <1>0, <1>8 DEF Goto, Work
<1>9. ASSUME NEW s \in Slot, FindJob(s) PROVE TypeOK'
  <2>1. CASE LeftAlone(run[s].job)
    <3>1. Leave(s, "return") /\ run[s].pc # "idle" /\ faults' \in 0..MaxFaults
      BY <1>9, <2>1 DEF FindJob, TypeOK
    <3> QED
      BY <1>7, <1>9, <3>1 DEF FindJob
  <2>2. CASE ~LeftAlone(run[s].job)
    <3>1. run' \in [Slot -> Work]
      BY <1>8, <1>9, <2>2 DEF FindJob
    <3> QED
      BY <1>9, <2>2, <3>1 DEF FindJob, TypeOK, Work
  <2> QED
    BY <2>1, <2>2
<1>10. ASSUME NEW s \in Slot, Claim(s) PROVE TypeOK'
  <2>1. CASE Exists(run[s].job)
    <3>1. run' \in [Slot -> Work]
      BY <1>8, <1>10, <2>1 DEF Claim
    <3>2. job' \in [Job -> Row]
      BY <1>0, <1>10, <2>1 DEF Claim, Row
    <3> QED
      BY <1>10, <2>1, <3>1, <3>2 DEF Claim, TypeOK, Work, Row
  <2>2. CASE ~Exists(run[s].job)
    <3>1. Leave(s, "throw") /\ run[s].pc # "idle" /\ faults' \in 0..MaxFaults
      BY <1>10, <2>2 DEF Claim, TypeOK
    <3> QED
      BY <1>7, <1>10, <2>2, <3>1 DEF Claim
  <2> QED
    BY <2>1, <2>2
<1>11. ASSUME NEW s \in Slot, Open(s) PROVE TypeOK'
  <2>1. run' \in [Slot -> Work]
    BY <1>8, <1>11 DEF Open
  <2>2. file' \in [Job -> Csv]
    <3> DEFINE f == [there |-> TRUE, old |-> FALSE, data |-> <<>>]
    <3>1. f \in Csv
      BY DEF Csv
    <3> HIDE DEF f
    <3> QED
      BY <1>0, <1>11, <3>1 DEF Open, f
  <2>3. owed' \in [Job -> SUBSET Event]
    BY <1>11 DEF Open, TypeOK
  <2> QED
    BY <1>11, <2>1, <2>2, <2>3 DEF Open, TypeOK, Work, Csv
<1>12. ASSUME NEW s \in Slot, WritePage(s) PROVE TypeOK'
  <2> DEFINE j == run[s].job
             c == run[s].cursor
             p == PageOf(rows, c)
             w == [run[s] EXCEPT !.pc = IF Len(p) < Batch THEN "finish" ELSE "page",
                                 !.cursor = IF p = <<>> THEN c ELSE Last(p),
                                 !.pos = run[s].pos + Len(p)]
             d == Written(file[j].data, run[s].pos, p)
             f == [there |-> TRUE, old |-> FALSE, data |-> d]
  <2>0. run[s] \in Work /\ rows \in SUBSET Event /\ Event \subseteq Nat
    BY <1>0, ExportsAssumption DEF TypeOK
  <2>01. j \in Job /\ c \in Event \cup {0} /\ run[s].pos \in Nat
    BY <2>0 DEF Work
  <2>1. j \in Job /\ c \in Nat /\ c \in Event \cup {0} /\ run[s].pos \in Nat
    <3> HIDE DEF j, c
    <3> QED
      BY <2>0, <2>01
  <2>2. p \in Seq(Event)
    BY <2>0, <2>1, PageLemma
  <2>3. p \in Seq(Event \cup {Hole}) /\ Len(p) \in Nat
    BY <2>2
  <2>4. p # <<>> => Last(p) \in Event
    BY <2>2 DEF Last
  <2>5. file[j].data \in Seq(Event \cup {Hole}) /\ Hole \in Event \cup {Hole}
    BY <1>0, <2>1 DEF Csv
  <2>6. d \in Seq(Event \cup {Hole})
    BY <2>1, <2>3, <2>5, WrittenType
  <2>e. /\ run' = [run EXCEPT ![s] = w]
        /\ file' = [file EXCEPT ![j] = f] \/ file' = file
    BY <1>12 DEF WritePage
  <2> HIDE DEF p, d
  <2>7. w \in Work
    <3> DEFINE a == IF Len(p) < Batch THEN "finish" ELSE "page"
               b == IF p = <<>> THEN c ELSE Last(p)
               n == run[s].pos + Len(p)
    <3>1. a \in {"finish", "page"} /\ b \in Event \cup {0} /\ n \in Nat
      BY <2>1, <2>3, <2>4
    <3>2. w = [run[s] EXCEPT !.pc = a, !.cursor = b, !.pos = n]
      OBVIOUS
    <3> HIDE DEF a, b, n, w, j, c
    <3> QED
      BY <2>0, <3>1, <3>2 DEF Work
  <2>71. f \in Csv
    BY <2>6 DEF Csv
  <2> HIDE DEF w, j, c, f
  <2>8. file' \in [Job -> Csv]
    BY <1>0, <2>1, <2>71, <2>e
  <2>9. run' \in [Slot -> Work]
    BY <1>0, <2>7, <2>e
  <2> QED
    BY <1>12, <2>8, <2>9 DEF WritePage, TypeOK, Work, Csv
<1>13. ASSUME NEW s \in Slot, Finish(s) PROVE TypeOK'
  <2>1. run' \in [Slot -> Work]
    <3>1. Goto(s, "return") \/ Goto(s, "fail")
      BY <1>13 DEF Finish
    <3> QED
      BY <1>8, <3>1
  <2>2. job' \in [Job -> Row]
    <3>1. DoneRow(s) \in Row
      BY <1>0, DoneRowType
    <3>2. job' = [job EXCEPT ![run[s].job] = DoneRow(s)] \/ job' = job
      BY <1>13 DEF Finish
    <3> QED
      BY <1>0, <3>1, <3>2
  <2> QED
    BY <1>13, <2>1, <2>2 DEF Finish, TypeOK, Work, Row
<1>14. ASSUME NEW s \in Slot, Error(s) PROVE TypeOK'
  <2>1. run' \in [Slot -> Work]
    BY <1>8, <1>14 DEF Error
  <2> QED
    BY <1>14, <1>f, <2>1 DEF Error, TypeOK, Work
<1>15. ASSUME NEW s \in Slot, MarkFailed(s) PROVE TypeOK'
  <2>1. CASE Exists(run[s].job)
    <3>1. run' \in [Slot -> Work]
      BY <1>8, <1>15, <2>1 DEF MarkFailed
    <3>2. job' \in [Job -> Row]
      BY <1>0, <1>15, <2>1 DEF MarkFailed, Row
    <3> QED
      BY <1>15, <2>1, <3>1, <3>2 DEF MarkFailed, TypeOK, Work, Row
  <2>2. CASE ~Exists(run[s].job)
    <3>1. Leave(s, "throw") /\ run[s].pc # "idle" /\ faults' \in 0..MaxFaults
      BY <1>15, <2>2 DEF MarkFailed, TypeOK
    <3> QED
      BY <1>7, <1>15, <2>2, <3>1 DEF MarkFailed
  <2> QED
    BY <2>1, <2>2
<1>16. ASSUME NEW s \in Slot, Return(s) PROVE TypeOK'
  <2>1. Leave(s, "return") /\ run[s].pc # "idle" /\ faults' \in 0..MaxFaults
    BY <1>16 DEF Return, TypeOK
  <2> QED
    BY <1>7, <1>16, <2>1 DEF Return
<1>17. ASSUME NEW s \in Slot, Throw(s) PROVE TypeOK'
  <2>1. Leave(s, "throw") /\ run[s].pc # "idle" /\ faults' \in 0..MaxFaults
    BY <1>17, <1>f DEF Throw
  <2> QED
    BY <1>7, <1>17, <2>1 DEF Throw
<1>171. ASSUME NEW s \in Slot, FinishUnheard(s) PROVE TypeOK'
  <2>1. run' \in [Slot -> Work]
    <3> DEFINE w == [run[s] EXCEPT !.pc = "fail", !.unheard = TRUE]
    <3>1. w \in Work
      BY <1>0 DEF Work
    <3>2. run' = [run EXCEPT ![s] = w]
      BY <1>171 DEF FinishUnheard
    <3> HIDE DEF w
    <3> QED
      BY <1>0, <3>1, <3>2
  <2>2. job' \in [Job -> Row]
    <3>1. DoneRow(s) \in Row /\ job' = [job EXCEPT ![run[s].job] = DoneRow(s)]
      BY <1>0, <1>171, DoneRowType DEF FinishUnheard
    <3> QED
      BY <1>0, <3>1
  <2>3. faults' \in 0..MaxFaults
    BY <1>171, <1>f DEF FinishUnheard
  <2> QED
    BY <1>171, <2>1, <2>2, <2>3 DEF FinishUnheard, TypeOK, Work, Row
<1>172. ASSUME NEW s \in Slot, ThrowUnheard(s) PROVE TypeOK'
  <2>1. Leave(s, "throw") /\ run[s].pc # "idle" /\ faults' \in 0..MaxFaults
    BY <1>172, <1>f DEF ThrowUnheard
  <2>2. run' \in [Slot -> Work] /\ queue' \in [Job -> Entry]
    BY <2>1, LeaveType
  <2>3. job' \in [Job -> Row]
    <3> DEFINE r == [job[run[s].job] EXCEPT !.status = IF run[s].pc = "claim" THEN "RUNNING" ELSE "FAILED"]
    <3>1. r \in Row
      BY <1>0 DEF Row, Work
    <3>2. job' = [job EXCEPT ![run[s].job] = r]
      BY <1>172 DEF ThrowUnheard
    <3> HIDE DEF r
    <3> QED
      BY <1>0, <3>1, <3>2
  <2> QED
    BY <1>172, <2>1, <2>2, <2>3 DEF ThrowUnheard, TypeOK, Work, Entry, Row
<1>18. ASSUME NEW s \in Slot, Crash(s) \/ LockLapses(s) PROVE TypeOK'
  <2>1. run' \in [Slot -> Work]
    <3> DEFINE w == [run[s] EXCEPT !.lock = FALSE]
    <3>1. w \in Work
      BY <1>0 DEF Work
    <3>2. run' = [run EXCEPT ![s] = w] \/ run' = [run EXCEPT ![s] = Idle]
      BY <1>18 DEF Crash, LockLapses
    <3> HIDE DEF w
    <3> QED
      BY <1>0, <3>1, <3>2, IdleType
  <2>2. faults' \in 0..MaxFaults
    BY <1>18, <1>f DEF Crash, LockLapses
  <2>3. UNCHANGED <<rows, job, queue, posting, file, keeper, getter, owed, doubled>>
    BY <1>18 DEF Crash, LockLapses
  <2> QED
    BY <2>1, <2>2, <2>3 DEF TypeOK, Work
<1>19. ASSUME NEW j \in Job, Expire(j) \/ Age(j) PROVE TypeOK'
  <2>1. file' \in [Job -> Csv]
    <3> DEFINE u == [file[j] EXCEPT !.old = file[j].there]
               v == [file[j] EXCEPT !.old = TRUE]
    <3>1. u \in Csv /\ v \in Csv
      BY <1>0 DEF Csv
    <3>2. file' = [file EXCEPT ![j] = u] \/ file' = [file EXCEPT ![j] = v]
      BY <1>19 DEF Expire, Age
    <3> HIDE DEF u, v
    <3> QED
      BY <1>0, <3>1, <3>2
  <2>2. job' \in [Job -> Row]
    <3> DEFINE r == [job[j] EXCEPT !.expired = TRUE]
    <3>1. r \in Row
      BY <1>0 DEF Row
    <3>2. job' = [job EXCEPT ![j] = r] \/ job' = job
      BY <1>19 DEF Expire, Age
    <3> HIDE DEF r
    <3> QED
      BY <1>0, <3>1, <3>2
  <2> QED
    BY <1>19, <2>1, <2>2 DEF Expire, Age, TypeOK, Csv, Row
<1>20. ASSUME NEW e \in Event, Insert(e) PROVE TypeOK'
  BY <1>20 DEF Insert, TypeOK
<1>21. CASE PruneEvents \/ FindExpired \/ ListFiles \/ ReadKnown
  <2>1. keeper' \in [pc : {"idle", "find", "unlink", "delete", "list", "known", "sweep"},
                     expired : SUBSET Job, dir : SUBSET Job, known : SUBSET Job]
    <3>1. /\ {j \in Job : Exists(j) /\ job[j].expired} \in SUBSET Job
          /\ {j \in Job : file[j].there} \in SUBSET Job
          /\ {j \in keeper.dir : Exists(j)} \in SUBSET Job
      BY DEF TypeOK
    <3> DEFINE x == {j \in Job : Exists(j) /\ job[j].expired}
               d == {j \in Job : file[j].there}
               k == {j \in keeper.dir : Exists(j)}
    <3>2. \/ keeper' = [keeper EXCEPT !.pc = "find"]
          \/ keeper' = [keeper EXCEPT !.pc = "unlink", !.expired = x]
          \/ keeper' = [keeper EXCEPT !.pc = "known", !.dir = d]
          \/ keeper' = [keeper EXCEPT !.pc = "sweep", !.known = k]
      BY <1>21 DEF PruneEvents, FindExpired, ListFiles, ReadKnown, Keep
    <3> HIDE DEF x, d, k
    <3> QED
      BY <3>1, <3>2 DEF TypeOK, x, d, k
  <2>2. rows' \subseteq Event /\ owed' \in [Job -> SUBSET Event]
    BY <1>21 DEF PruneEvents, FindExpired, ListFiles, ReadKnown, TypeOK
  <2> QED
    BY <1>21, <2>1, <2>2 DEF PruneEvents, FindExpired, ListFiles, ReadKnown, TypeOK
<1>22. CASE UnlinkExpired \/ UnlinkFails
  <2>1. file' \in [Job -> Csv]
    BY <1>0, <1>22, IdleType DEF UnlinkExpired, UnlinkFails
  <2>2. faults' \in 0..MaxFaults
    BY <1>22, <1>f DEF UnlinkExpired, UnlinkFails, TypeOK
  <2> QED
    BY <1>22, <2>1, <2>2 DEF UnlinkExpired, UnlinkFails, Keep, TypeOK, Csv
<1>23. CASE DeleteExpired
  <2>1. job' \in [Job -> Row]
    BY <1>0, <1>23 DEF DeleteExpired, Row, NoJob
  <2> QED
    BY <1>23, <2>1 DEF DeleteExpired, TypeOK, Row
<1>24. CASE Sweep
  <2>1. file' \in [Job -> Csv]
    BY <1>0, <1>24, IdleType DEF Sweep
  <2> QED
    BY <1>24, <2>1 DEF Sweep, Rest, TypeOK, Csv
<1>25. CASE UNCHANGED vars
  BY <1>25 DEF vars, TypeOK
<1> QED
  BY <1>1, <1>2, <1>3, <1>4, <1>5, <1>6, <1>9, <1>10, <1>11, <1>12, <1>13, <1>14, <1>15, <1>16, <1>17,
     <1>171, <1>172, <1>18, <1>19, <1>20, <1>21, <1>22, <1>23, <1>24, <1>25 DEF Next, Process, Retention

LEMMA QueueFrame ==
  ASSUME QueueInv, queue' = queue, posting' \subseteq posting,
         \A j \in Job : job'[j].status = "none" => job[j].status = "none",
         \A s \in Slot : run'[s].pc # "idle" /\ run'[s].lock =>
                           run[s].pc # "idle" /\ run[s].lock /\ run'[s].job = run[s].job
  PROVE  QueueInv'
PROOF BY DEF QueueInv, Holds

\* A slot that has the lock is the only one; when it leaves, nobody has it.
LEMMA QueueLeave ==
  ASSUME TypeOK, QueueInv, NEW s \in Slot, NEW o, run[s].pc # "idle", Leave(s, o), posting' = posting,
         \A j \in Job : job'[j].status = "none" => job[j].status = "none"
  PROVE  QueueInv'
<1> DEFINE j == run[s].job
           q == queue[j]
           r == IF o = "return" THEN [q EXCEPT !.state = "completed"]
                ELSE [q EXCEPT !.tries = q.tries + 1,
                               !.state = IF q.tries + 1 < Attempts THEN "waiting" ELSE "failed"]
<1>1. run' = [run EXCEPT ![s] = Idle] /\ queue' = IF ~run[s].lock THEN queue ELSE [queue EXCEPT ![j] = r]
  BY DEF Leave
<1>2. j \in Job /\ q \in Entry /\ queue \in [Job -> Entry] /\ run \in [Slot -> Work]
  BY DEF TypeOK, Work, Entry
<1>3. \A t \in Slot : run'[t].pc # "idle" => t # s /\ run'[t] = run[t]
  BY <1>1, <1>2, IdleType
<1>4. CASE ~run[s].lock
  BY <1>1, <1>3, <1>4, QueueFrame
<1>5. CASE run[s].lock
  <2>1. q.state = "active" /\ j \notin posting /\ job[j].status # "none"
    BY <1>2, <1>5 DEF QueueInv, Holds
  <2>2. \A t \in Slot : run[t].pc # "idle" /\ run[t].lock /\ run[t].job = j => t = s
    BY <1>2, <1>5 DEF QueueInv, Holds
  <2>3. r.state \in {"completed", "failed"} \/ (r.state = "waiting" /\ r.tries < Attempts)
    <3>1. CASE o = "return"
      BY <1>2, <3>1 DEF Entry
    <3>2. CASE o # "return"
      BY <1>2, <3>2 DEF Entry
    <3> QED
      BY <3>1, <3>2
  <2>4. \A k \in Job : queue'[k] = IF k = j THEN r ELSE queue[k]
    BY <1>1, <1>2, <1>5
  <2> HIDE DEF j, q, r
  <2> SUFFICES ASSUME NEW k \in Job
               PROVE  /\ job'[k].status = "none" => queue'[k].state = "none" /\ k \notin posting
                      /\ k \in posting => queue'[k].state = "none"
                      /\ queue'[k].state \in {"none", "waiting", "active"} => queue'[k].tries < Attempts
                      /\ \A t \in Slot : run'[t].pc # "idle" /\ run'[t].job = k /\ run'[t].lock =>
                           /\ queue'[k].state = "active"
                           /\ \A u \in Slot : run'[u].pc # "idle" /\ run'[u].job = k /\ run'[u].lock => t = u
    BY DEF QueueInv, Holds
  <2>5. CASE k = j
    BY <1>3, <2>1, <2>2, <2>3, <2>4, <2>5
  <2>6. CASE k # j
    BY <1>3, <2>4, <2>6 DEF QueueInv, Holds
  <2> QED
    BY <2>5, <2>6
<1> QED
  BY <1>4, <1>5

LEMMA QueueStep ==
  ASSUME TypeOK, QueueInv, [Next]_vars
  PROVE  QueueInv'
<1>0. run \in [Slot -> Work] /\ queue \in [Job -> Entry] /\ job \in [Job -> Row]
  BY DEF TypeOK, Work, Entry, Row
<1>1. ASSUME NEW j \in Job, Create(j) PROVE QueueInv'
  BY <1>0, <1>1 DEF Create, QueueInv, Holds, Row
<1>2. ASSUME NEW j \in Job, Enqueue(j) PROVE QueueInv'
  BY <1>0, <1>2 DEF Enqueue, QueueInv, Holds, Entry
<1>3. ASSUME NEW j \in Job, TakeBack(j) PROVE QueueInv'
  <2>1. queue' = [queue EXCEPT ![j] = queue'[j]] /\ queue'[j].tries = queue[j].tries
        /\ queue'[j].state \in {"waiting", "failed"}
    BY <1>0, <1>3 DEF TakeBack, Stalled, Entry
  <2>2. queue[j].state = "active" /\ \A s \in Slot : Holds(s, j) => ~run[s].lock
    BY <1>3 DEF TakeBack
  <2>3. UNCHANGED <<job, posting, run>>
    BY <1>3 DEF TakeBack
  <2> QED
    BY <1>0, <2>1, <2>2, <2>3 DEF QueueInv, Holds
<1>4. ASSUME NEW s \in Slot, NEW j \in Job, Take(s, j) PROVE QueueInv'
  <2> DEFINE w == [Idle EXCEPT !.pc = "find", !.job = j, !.lock = TRUE]
  <2>1. w.pc = "find" /\ w.job = j /\ w.lock = TRUE
    BY IdleType DEF Work
  <2>2. run' = [run EXCEPT ![s] = w] /\ queue' = [queue EXCEPT ![j].state = "active"]
        /\ queue[j].state = "waiting" /\ run[s].pc = "idle" /\ UNCHANGED <<job, posting>>
    BY <1>4 DEF Take
  <2> HIDE DEF w
  <2>3. \A t \in Slot : t # s => run'[t] = run[t]
    BY <1>0, <2>2
  <2>4. run'[s] = w /\ queue'[j].state = "active" /\ queue'[j].tries = queue[j].tries
    BY <1>0, <2>2 DEF Entry
  <2>5. \A k \in Job : k # j => queue'[k] = queue[k]
    BY <1>0, <2>2
  <2>6. \A t \in Slot : ~(run[t].pc # "idle" /\ run[t].job = j /\ run[t].lock)
    BY <2>2 DEF QueueInv, Holds
  <2> SUFFICES ASSUME NEW k \in Job
               PROVE  /\ job[k].status = "none" => queue'[k].state = "none" /\ k \notin posting
                      /\ k \in posting => queue'[k].state = "none"
                      /\ queue'[k].state \in {"none", "waiting", "active"} => queue'[k].tries < Attempts
                      /\ \A t \in Slot : run'[t].pc # "idle" /\ run'[t].job = k /\ run'[t].lock =>
                           /\ queue'[k].state = "active"
                           /\ \A u \in Slot : run'[u].pc # "idle" /\ run'[u].job = k /\ run'[u].lock => t = u
    BY <2>2 DEF QueueInv, Holds
  <2>7. CASE k = j
    BY <2>1, <2>2, <2>3, <2>4, <2>6, <2>7 DEF QueueInv
  <2>8. CASE k # j
    BY <2>1, <2>3, <2>4, <2>5, <2>8 DEF QueueInv, Holds
  <2> QED
    BY <2>7, <2>8
<1>5. ASSUME NEW s \in Slot, run[s].pc # "idle", NEW o, Leave(s, o), posting' = posting,
             \A j \in Job : job'[j].status = "none" => job[j].status = "none"
      PROVE  QueueInv'
  BY <1>5, QueueLeave
<1>6. ASSUME NEW s \in Slot, NEW pc, run[s].pc # "idle", Goto(s, pc), queue' = queue, posting' = posting,
             \A j \in Job : job'[j].status = "none" => job[j].status = "none"
      PROVE  QueueInv'
  <2>1. \A t \in Slot : run'[t].lock = run[t].lock /\ run'[t].job = run[t].job /\ (run'[t].pc # "idle" => run[t].pc # "idle")
    BY <1>0, <1>6 DEF Goto, Work
  <2> QED
    BY <1>6, <2>1, QueueFrame
<1>7. ASSUME NEW s \in Slot, FindJob(s) PROVE QueueInv'
  <2>1. CASE LeftAlone(run[s].job)
    BY <1>5, <1>7, <2>1 DEF FindJob
  <2>2. CASE ~LeftAlone(run[s].job)
    BY <1>6, <1>7, <2>2 DEF FindJob
  <2> QED
    BY <2>1, <2>2
<1>8. ASSUME NEW s \in Slot, Claim(s) \/ MarkFailed(s) PROVE QueueInv'
  <2>1. CASE Exists(run[s].job)
    <3>1. \A j \in Job : job'[j].status = "none" => job[j].status = "none"
      BY <1>0, <1>8, <2>1 DEF Claim, MarkFailed, Row
    <3>2. (Goto(s, "open") \/ Goto(s, "return")) /\ run[s].pc # "idle" /\ queue' = queue /\ posting' = posting
      BY <1>8, <2>1 DEF Claim, MarkFailed
    <3> QED
      BY <1>6, <3>1, <3>2
  <2>2. CASE ~Exists(run[s].job)
    BY <1>5, <1>8, <2>2 DEF Claim, MarkFailed
  <2> QED
    BY <2>1, <2>2
<1>9. ASSUME NEW s \in Slot, Open(s) \/ Error(s) PROVE QueueInv'
  BY <1>6, <1>9 DEF Open, Error
<1>10. ASSUME NEW s \in Slot, WritePage(s) PROVE QueueInv'
  <2>1. \A t \in Slot : run'[t].lock = run[t].lock /\ run'[t].job = run[t].job /\ (run'[t].pc # "idle" => run[t].pc # "idle")
    BY <1>0, <1>10 DEF WritePage, Work
  <2> QED
    BY <1>10, <2>1, QueueFrame DEF WritePage
<1>11. ASSUME NEW s \in Slot, Finish(s) PROVE QueueInv'
  <2>1. \A j \in Job : job'[j].status = "none" => job[j].status = "none"
    BY <1>0, <1>11, DoneRowType DEF Finish, Row
  <2>2. (Goto(s, "return") \/ Goto(s, "fail")) /\ run[s].pc # "idle" /\ queue' = queue /\ posting' = posting
    BY <1>11 DEF Finish
  <2> QED
    BY <1>6, <2>1, <2>2
<1>12. ASSUME NEW s \in Slot, Return(s) \/ Throw(s) PROVE QueueInv'
  BY <1>5, <1>12 DEF Return, Throw
<1>121. ASSUME NEW s \in Slot, FinishUnheard(s) PROVE QueueInv'
  <2>1. \A j \in Job : job'[j].status = "none" => job[j].status = "none"
    BY <1>0, <1>121, DoneRowType DEF FinishUnheard, Row
  <2>2. \A t \in Slot : run'[t].lock = run[t].lock /\ run'[t].job = run[t].job /\ (run'[t].pc # "idle" => run[t].pc # "idle")
    BY <1>0, <1>121 DEF FinishUnheard, Work
  <2> QED
    BY <1>121, <2>1, <2>2, QueueFrame DEF FinishUnheard
<1>122. ASSUME NEW s \in Slot, ThrowUnheard(s) PROVE QueueInv'
  <2>1. \A j \in Job : job'[j].status = "none" => job[j].status = "none"
    BY <1>0, <1>122 DEF ThrowUnheard, Row
  <2> QED
    BY <1>5, <1>122, <2>1 DEF ThrowUnheard
<1>13. ASSUME NEW s \in Slot, Crash(s) \/ LockLapses(s) PROVE QueueInv'
  <2>1. \A t \in Slot : run'[t].pc # "idle" /\ run'[t].lock =>
                          run[t].pc # "idle" /\ run[t].lock /\ run'[t].job = run[t].job
    BY <1>0, <1>13, IdleType DEF Crash, LockLapses, Work
  <2> QED
    BY <1>13, <2>1, QueueFrame DEF Crash, LockLapses
<1>14. ASSUME UNCHANGED <<queue, run>>, posting' \subseteq posting,
              \A j \in Job : job'[j].status = "none" => job[j].status = "none"
       PROVE  QueueInv'
  BY <1>14, QueueFrame
<1>15. ASSUME NEW j \in Job, EnqueueLost(j) \/ DownloadFind(j) \/ Age(j) PROVE QueueInv'
  BY <1>14, <1>15 DEF EnqueueLost, DownloadFind, Age
<1>16. ASSUME NEW j \in Job, Expire(j) PROVE QueueInv'
  <2>1. \A k \in Job : job'[k].status = "none" => job[k].status = "none"
    BY <1>0, <1>16 DEF Expire, Row
  <2> QED
    BY <1>14, <1>16, <2>1 DEF Expire
<1>17. CASE DeleteExpired
  <2>1. \A k \in Job : job'[k].status = "none" => job[k].status = "none"
    BY <1>0, <1>17 DEF DeleteExpired, NoJob
  <2> QED
    BY <1>14, <1>17, <2>1 DEF DeleteExpired
<1>18. ASSUME NEW e \in Event, Insert(e) PROVE QueueInv'
  BY <1>14, <1>18 DEF Insert
<1>19. CASE PruneEvents \/ FindExpired \/ UnlinkExpired \/ UnlinkFails \/ ListFiles \/ ReadKnown \/ Sweep \/ DownloadOpen
  BY <1>14, <1>19 DEF PruneEvents, FindExpired, UnlinkExpired, UnlinkFails, ListFiles, ReadKnown, Sweep, DownloadOpen
<1>20. CASE UNCHANGED vars
  BY <1>14, <1>20 DEF vars
<1> QED
  BY <1>1, <1>2, <1>3, <1>4, <1>7, <1>8, <1>9, <1>10, <1>11, <1>12, <1>121, <1>122, <1>13, <1>15, <1>16, <1>17, <1>18, <1>19, <1>20
     DEF Next, Process, Retention

LEMMA TypeInit ==
  ASSUME Init
  PROVE  TypeOK /\ QueueInv
<1>1. Idle \in Work /\ NoFile \in Csv /\ (CHOOSE j \in Job : TRUE) \in Job
  BY IdleType, ExportsAssumption
<1>2. run \in [Slot -> Work] /\ file \in [Job -> Csv]
  BY <1>1 DEF Init
<1>3. /\ queue = [j \in Job |-> [state |-> "none", tries |-> 0, stalls |-> 0]]
      /\ job = [j \in Job |-> [status |-> "none", dated |-> FALSE, expired |-> FALSE, rowCount |-> 0]]
      /\ \A s \in Slot : run[s].pc = "idle"
  BY IdleType DEF Init, NoJob
<1>4. job \in [Job -> Row] /\ queue \in [Job -> Entry] /\ getter \in [pc : {"idle", "open"}, job : Job]
  <2>1. [status |-> "none", dated |-> FALSE, expired |-> FALSE, rowCount |-> 0] \in Row
    BY DEF Row
  <2>2. [state |-> "none", tries |-> 0, stalls |-> 0] \in Entry
    BY ExportsAssumption DEF Entry
  <2>3. getter \in [pc : {"idle", "open"}, job : Job]
    BY <1>1 DEF Init
  <2> QED
    BY <1>3, <2>1, <2>2, <2>3
<1>5. QueueInv
  BY <1>3, ExportsAssumption DEF Init, QueueInv, Holds
<1>6. TypeOK
  BY <1>2, <1>4, ExportsAssumption DEF Init, TypeOK, Work, Csv, Row, Entry, Rest
<1> QED
  BY <1>5, <1>6

\* Every variable of the exports keeps its type: in particular no entry of the
\* queue is attempted more often than it may be (opts.attempts), although locks
\* lapse and entries are taken back, and a file holds events and holes only.
THEOREM ExportTypes == Spec => []TypeOK
<1>1. Init => TypeOK /\ QueueInv
  BY TypeInit
<1>2. TypeOK /\ QueueInv /\ [Next]_vars => TypeOK' /\ QueueInv'
  BY TypeStep, QueueStep
<1> QED
  BY <1>1, <1>2, PTL DEF Spec

---------------------------------------------------------------------------
(* One slot at a time *)

\* Between the read of an unsettled row and its settling.
Live == {"claim", "open", "page", "finish", "fail"}

\* The row is unsettled, or the slot has settled it itself and not heard of it.
Due(s, j) ==
  \/ Polled(j)
  \/ run[s].pc = "fail" /\ run[s].unheard /\ job[j].status \in {"DONE", "deleted"}

\* A job that no two slots have worked on at once: one slot has it, the row is
\* unsettled as long as that slot may still write it, except for a DONE it has
\* not heard of, and only what is settled has an expiry and expires.
Alone(j) ==
  /\ \A s, t \in Slot : Holds(s, j) /\ Holds(t, j) => s = t
  /\ \A s \in Slot : Holds(s, j) /\ run[s].pc \in Live => Due(s, j)
  /\ job[j].dated \/ job[j].expired => Settled(j)

\* A row changes from unsettled to settled, by expiring, by being deleted, or
\* from a DONE that was not heard of to FAILED.
RowStep(j) ==
  \/ job'[j] = job[j]
  \/ /\ job[j].status \in {"none", "PENDING", "RUNNING"} /\ ~job[j].expired
     /\ job'[j].status \in {"PENDING", "RUNNING", "DONE", "FAILED"} /\ ~job'[j].expired
  \/ Settled(j) /\ job'[j].status = job[j].status /\ job'[j].expired
  \/ /\ Disowned(j) /\ job[j].status = "DONE" /\ job'[j].status = "FAILED"
     /\ job'[j].expired = job[j].expired
  \/ /\ keeper.pc = "delete" /\ j \in keeper.expired
     /\ job[j].expired /\ job'[j].status = "deleted" /\ ~job'[j].expired

\* A step that changes a row is that of the one slot that has it, or no slot is
\* about to write it.
LEMMA AloneStep ==
  ASSUME TypeOK, [Next]_vars, NEW j \in Job, j \notin doubled', Alone(j)
  PROVE  Alone(j)' /\ RowStep(j)
<1>0. /\ run \in [Slot -> Work] /\ queue \in [Job -> Entry] /\ file \in [Job -> Csv]
      /\ job \in [Job -> Row]
  BY DEF TypeOK, Work, Entry, Csv, Row
<1>r. job[j].expired \in BOOLEAN /\ job[j].dated \in BOOLEAN
      /\ job[j].status \in {"none", "PENDING", "RUNNING", "DONE", "FAILED", "deleted"}
  BY <1>0 DEF Row
<1>a. ASSUME job'[j] = job[j],
             \A t \in Slot : run'[t].pc # "idle" /\ run'[t].job = j =>
               /\ run[t].pc # "idle" /\ run[t].job = j
               /\ run'[t].pc \in Live =>
                    /\ run[t].pc \in Live
                    /\ run[t].pc = "fail" => run'[t].pc = "fail" /\ run'[t].unheard = run[t].unheard
      PROVE  Alone(j)' /\ RowStep(j)
  <2>1. \A t \in Slot : run'[t].pc # "idle" /\ run'[t].job = j /\ run'[t].pc \in Live => Due(t, j)'
    BY <1>a DEF Alone, Holds, Due, Polled
  <2> QED
    BY <1>a, <2>1 DEF Alone, Holds, Settled, RowStep
<1>l. ASSUME NEW s \in Slot, NEW o, Leave(s, o), job' = job PROVE Alone(j)' /\ RowStep(j)
  <2>1. \A t \in Slot : run'[t].pc # "idle" => run'[t] = run[t]
    BY <1>0, <1>l, IdleType DEF Leave
  <2> QED
    BY <1>a, <1>l, <2>1
<1>g. ASSUME NEW s \in Slot, NEW pc, Goto(s, pc)
      PROVE  /\ run'[s].pc = pc /\ run'[s].job = run[s].job
             /\ \A t \in Slot : t # s => run'[t] = run[t]
  BY <1>0, <1>g DEF Goto, Work
<1>1. ASSUME NEW k \in Job, Create(k) PROVE Alone(j)' /\ RowStep(j)
  <2>1. CASE k = j
    <3>1. job'[j].status = "PENDING" /\ job'[j].expired = job[j].expired /\ job'[j].dated = job[j].dated
          /\ job[j].status = "none" /\ run' = run
      BY <1>0, <1>1, <2>1 DEF Create, Row
    <3>2. ~job[j].expired /\ ~job[j].dated /\ ~job'[j].expired /\ ~job'[j].dated
      BY <1>r, <3>1 DEF Alone, Settled
    <3>3. RowStep(j)
      BY <3>1, <3>2 DEF RowStep
    <3>4. \A t \in Slot : Due(t, j)'
      BY <3>1 DEF Due, Polled
    <3> QED
      BY <3>1, <3>2, <3>3, <3>4 DEF Alone, Holds
  <2>2. CASE k # j
    BY <1>a, <1>0, <1>1, <2>2 DEF Create
  <2> QED
    BY <2>1, <2>2
<1>2. ASSUME NEW k \in Job, Enqueue(k) \/ EnqueueLost(k) \/ DownloadFind(k) \/ TakeBack(k) \/ Age(k)
      PROVE  Alone(j)' /\ RowStep(j)
  BY <1>a, <1>2 DEF Enqueue, EnqueueLost, DownloadFind, TakeBack, Age
<1>3. ASSUME NEW s \in Slot, NEW k \in Job, Take(s, k) PROVE Alone(j)' /\ RowStep(j)
  <2> DEFINE w == [Idle EXCEPT !.pc = "find", !.job = k, !.lock = TRUE]
  <2>1. w.pc = "find" /\ w.job = k
    BY IdleType DEF Work
  <2>2. run' = [run EXCEPT ![s] = w] /\ job' = job
        /\ doubled' = IF \E t \in Slot : Holds(t, k) THEN doubled \cup {k} ELSE doubled
    BY <1>3 DEF Take
  <2> HIDE DEF w
  <2>3. run'[s] = w /\ \A t \in Slot : t # s => run'[t] = run[t]
    BY <1>0, <2>2
  <2>4. CASE k # j
    <3>1. \A t \in Slot : run'[t].job = j => run'[t] = run[t]
      BY <2>1, <2>3, <2>4
    <3> QED
      BY <1>a, <2>2, <3>1
  <2>5. CASE k = j
    <3>1. \A t \in Slot : ~(run[t].pc # "idle" /\ run[t].job = j)
      BY <2>2, <2>5 DEF Holds
    <3>2. \A t \in Slot : run'[t].pc # "idle" /\ run'[t].job = j => t = s
      BY <2>3, <3>1
    <3>3. run'[s].pc \notin Live
      BY <2>1, <2>3 DEF Live
    <3> QED
      BY <2>2, <3>2, <3>3 DEF Alone, Holds, Settled, RowStep
  <2> QED
    BY <2>4, <2>5
<1>4. ASSUME NEW s \in Slot, FindJob(s) PROVE Alone(j)' /\ RowStep(j)
  <2>1. CASE LeftAlone(run[s].job)
    BY <1>l, <1>4, <2>1 DEF FindJob
  <2>2. CASE ~LeftAlone(run[s].job)
    <3>1. Goto(s, "claim") /\ job' = job /\ run[s].pc = "find"
      BY <1>4, <2>2 DEF FindJob
    <3>2. run'[s].pc = "claim" /\ run'[s].job = run[s].job /\ \A t \in Slot : t # s => run'[t] = run[t]
      BY <1>g, <3>1
    <3>3. run[s].job = j => Polled(j)
      BY <1>r, <2>2 DEF LeftAlone, Exists, Settled, Polled
    <3>4. \A t \in Slot : run'[t].pc # "idle" /\ run'[t].job = j => run[t].pc # "idle" /\ run[t].job = j
      BY <3>1, <3>2
    <3>5. \A t \in Slot : run'[t].pc # "idle" /\ run'[t].job = j /\ run'[t].pc \in Live => Due(t, j)'
      <4> SUFFICES ASSUME NEW t \in Slot, run'[t].pc # "idle", run'[t].job = j, run'[t].pc \in Live
                   PROVE  Due(t, j)'
        OBVIOUS
      <4>1. CASE t = s
        BY <3>1, <3>2, <3>3, <4>1 DEF Due, Polled
      <4>2. CASE t # s
        BY <3>1, <3>2, <4>2 DEF Alone, Holds, Due, Polled
      <4> QED
        BY <4>1, <4>2
    <3> QED
      BY <3>1, <3>4, <3>5 DEF Alone, Holds, Settled, RowStep
  <2> QED
    BY <2>1, <2>2
\* A slot writes its own row and stays Live or returns.
<1>w. ASSUME NEW s \in Slot, run[s].pc \in Live, \A t \in Slot : t # s => run'[t] = run[t],
             run'[s].pc = "idle" \/ run'[s].job = run[s].job,
             run'[s].pc \in Live /\ run[s].job = j => Due(s, j)',
             NEW r, job' = [job EXCEPT ![run[s].job] = r],
             \/ r.status = "DONE" /\ r.expired = FALSE /\ run[s].pc # "fail"
             \/ r.status = "RUNNING" /\ r.expired = job[run[s].job].expired
                /\ r.dated = job[run[s].job].dated /\ run[s].pc # "fail"
             \/ r.status = "FAILED" /\ r.expired = job[run[s].job].expired
                /\ job[run[s].job].status # "deleted"
      PROVE  Alone(j)' /\ RowStep(j)
  <2>1. run'[s].pc = "idle" \/ run'[s].job = run[s].job
    BY <1>w
  <2>2. run[s].pc # "idle"
    BY <1>w DEF Live
  <2>3. \A t \in Slot : run'[t].pc # "idle" /\ run'[t].job = j => run[t].pc # "idle" /\ run[t].job = j
    BY <1>w, <2>1, <2>2
  <2>4. CASE run[s].job = j
    <3>1. Due(s, j) /\ job'[j] = r
      BY <1>0, <1>w, <2>2, <2>4 DEF Alone, Holds
    <3>2. Polled(j) => ~job[j].expired /\ ~job[j].dated
      BY <1>r DEF Alone, Polled, Settled
    <3>3. RowStep(j)
      <4>1. CASE Polled(j)
        BY <1>w, <2>4, <3>1, <3>2, <4>1 DEF RowStep, Polled
      <4>2. CASE ~Polled(j)
        <5>1. Disowned(j) /\ job[j].status = "DONE" /\ r.status = "FAILED" /\ r.expired = job[j].expired
          BY <1>w, <2>2, <2>4, <3>1, <4>2 DEF Due, Disowned, Holds
        <5> QED
          BY <3>1, <5>1 DEF RowStep
      <4> QED
        BY <4>1, <4>2
    <3>4. \A t \in Slot : run[t].pc # "idle" /\ run[t].job = j => t = s
      BY <2>2, <2>4 DEF Alone, Holds
    <3>5. \A t \in Slot : run'[t].pc # "idle" /\ run'[t].job = j => t = s
      BY <2>3, <3>4
    <3>6. \A t \in Slot : run'[t].pc # "idle" /\ run'[t].job = j /\ run'[t].pc \in Live => Due(t, j)'
      BY <1>w, <2>4, <3>5
    <3>7. job'[j].dated \/ job'[j].expired => Settled(j)'
      <4>1. CASE r.status = "RUNNING"
        <5>1. Polled(j)
          BY <1>w, <3>1, <4>1 DEF Due
        <5> QED
          BY <1>w, <2>4, <3>1, <3>2, <4>1, <5>1
      <4>2. CASE r.status # "RUNNING"
        BY <1>w, <3>1, <4>2 DEF Settled
      <4> QED
        BY <4>1, <4>2
    <3> QED
      BY <3>3, <3>5, <3>6, <3>7 DEF Alone, Holds
  <2>5. CASE run[s].job # j
    <3>1. job'[j] = job[j]
      BY <1>0, <1>w, <2>5
    <3>2. \A t \in Slot : run'[t].pc # "idle" /\ run'[t].job = j => run'[t] = run[t]
      BY <1>w, <2>1, <2>5
    <3> QED
      BY <1>a, <2>3, <3>1, <3>2
  <2> QED
    BY <2>4, <2>5
<1>5. ASSUME NEW s \in Slot, Claim(s) \/ MarkFailed(s) PROVE Alone(j)' /\ RowStep(j)
  <2>1. CASE Exists(run[s].job)
    <3> DEFINE r == [job[run[s].job] EXCEPT !.status = IF run[s].pc = "claim" THEN "RUNNING" ELSE "FAILED"]
    <3>1. r.status = (IF run[s].pc = "claim" THEN "RUNNING" ELSE "FAILED")
          /\ r.expired = job[run[s].job].expired /\ r.dated = job[run[s].job].dated
      BY <1>0 DEF Row, Work
    <3>2. /\ run[s].pc \in Live /\ job' = [job EXCEPT ![run[s].job] = r]
          /\ \/ run[s].pc = "claim" /\ Goto(s, "open")
             \/ run[s].pc = "fail" /\ Goto(s, "return")
      BY <1>5, <2>1 DEF Claim, MarkFailed, Live
    <3>0. job[run[s].job].status # "deleted"
      BY <2>1 DEF Exists
    <3> HIDE DEF r
    <3>3. CASE run[s].pc = "fail" /\ Goto(s, "return")
      <4>1. run'[s].pc \notin Live /\ run'[s].job = run[s].job /\ \A t \in Slot : t # s => run'[t] = run[t]
        BY <1>g, <3>3 DEF Live
      <4> QED
        BY <1>w, <3>0, <3>1, <3>2, <3>3, <4>1
    <3>4. CASE run[s].pc = "claim" /\ Goto(s, "open")
      <4>1. run[s].job = j => Due(s, j)'
        BY <1>0, <3>1, <3>2, <3>4 DEF Due, Polled
      <4>2. run'[s].job = run[s].job /\ \A t \in Slot : t # s => run'[t] = run[t]
        BY <1>g, <3>4
      <4> QED
        BY <1>w, <3>1, <3>2, <3>4, <4>1, <4>2
    <3> QED
      BY <3>2, <3>3, <3>4
  <2>2. CASE ~Exists(run[s].job)
    BY <1>l, <1>5, <2>2 DEF Claim, MarkFailed
  <2> QED
    BY <2>1, <2>2
<1>51. ASSUME NEW s \in Slot, ThrowUnheard(s) PROVE Alone(j)' /\ RowStep(j)
  <2> DEFINE r == [job[run[s].job] EXCEPT !.status = IF run[s].pc = "claim" THEN "RUNNING" ELSE "FAILED"]
  <2>1. r.status = (IF run[s].pc = "claim" THEN "RUNNING" ELSE "FAILED")
        /\ r.expired = job[run[s].job].expired /\ r.dated = job[run[s].job].dated
    BY <1>0 DEF Row, Work
  <2>2. /\ run[s].pc \in Live /\ job' = [job EXCEPT ![run[s].job] = r]
        /\ run' = [run EXCEPT ![s] = Idle] /\ run[s].pc \in {"claim", "fail"}
        /\ job[run[s].job].status # "deleted"
    BY <1>51 DEF ThrowUnheard, Leave, Live, Exists
  <2> HIDE DEF r
  <2>3. run'[s].pc = "idle" /\ \A t \in Slot : t # s => run'[t] = run[t]
    BY <1>0, <2>2, IdleType
  <2>4. run'[s].pc \notin Live
    BY <2>3 DEF Live
  <2> QED
    BY <1>w, <2>1, <2>2, <2>3, <2>4
<1>6. ASSUME NEW s \in Slot, Finish(s) PROVE Alone(j)' /\ RowStep(j)
  <2>0. run[s].pc \in Live /\ run[s].pc # "idle" /\ run[s].pc # "fail"
    BY <1>6 DEF Finish, Live
  <2>1. CASE Exists(run[s].job)
    <3>1. DoneRow(s).status = "DONE" /\ DoneRow(s).expired = FALSE
      BY <1>0, DoneRowType
    <3>2. job' = [job EXCEPT ![run[s].job] = DoneRow(s)] /\ Goto(s, "return")
      BY <1>6, <2>1 DEF Finish
    <3>3. run'[s].pc \notin Live /\ run'[s].job = run[s].job /\ \A t \in Slot : t # s => run'[t] = run[t]
      BY <1>g, <3>2 DEF Live
    <3> QED
      BY <1>w, <2>0, <3>1, <3>2, <3>3
  <2>2. CASE ~Exists(run[s].job)
    <3>1. Goto(s, "fail") /\ job' = job
      BY <1>6, <2>2 DEF Finish
    <3>2. run'[s].job = run[s].job /\ \A t \in Slot : t # s => run'[t] = run[t]
      BY <1>g, <3>1
    <3> QED
      BY <1>a, <2>0, <3>1, <3>2
  <2> QED
    BY <2>1, <2>2
<1>61. ASSUME NEW s \in Slot, FinishUnheard(s) PROVE Alone(j)' /\ RowStep(j)
  <2>0. run[s].pc \in Live /\ run[s].pc # "idle" /\ run[s].pc # "fail"
    BY <1>61 DEF FinishUnheard, Live
  <2>1. DoneRow(s).status = "DONE" /\ DoneRow(s).expired = FALSE
    BY <1>0, DoneRowType
  <2>2. job' = [job EXCEPT ![run[s].job] = DoneRow(s)]
    BY <1>61 DEF FinishUnheard
  <2>3. run'[s].pc = "fail" /\ run'[s].unheard /\ run'[s].job = run[s].job /\ \A t \in Slot : t # s => run'[t] = run[t]
    BY <1>0, <1>61 DEF FinishUnheard, Work
  <2>4. run[s].job = j => Due(s, j)'
    BY <1>0, <2>1, <2>2, <2>3 DEF Due
  <2> QED
    BY <1>w, <2>0, <2>1, <2>2, <2>3, <2>4
<1>7. ASSUME NEW s \in Slot, Open(s) \/ Error(s) PROVE Alone(j)' /\ RowStep(j)
  <2>1. (Goto(s, "page") \/ Goto(s, "fail")) /\ job' = job /\ run[s].pc \in Live /\ run[s].pc # "idle"
        /\ run[s].pc # "fail"
    BY <1>7 DEF Open, Error, Live
  <2>2. run'[s].job = run[s].job /\ \A t \in Slot : t # s => run'[t] = run[t]
    BY <1>g, <2>1
  <2> QED
    BY <1>a, <2>1, <2>2
<1>8. ASSUME NEW s \in Slot, WritePage(s) PROVE Alone(j)' /\ RowStep(j)
  <2>1. job' = job /\ run[s].pc \in Live /\ run[s].pc # "idle" /\ run[s].pc # "fail"
    BY <1>8 DEF WritePage, Live
  <2>2. run'[s].job = run[s].job /\ \A t \in Slot : t # s => run'[t] = run[t]
    BY <1>0, <1>8 DEF WritePage, Work
  <2> QED
    BY <1>a, <2>1, <2>2
<1>9. ASSUME NEW s \in Slot, Return(s) \/ Throw(s) PROVE Alone(j)' /\ RowStep(j)
  BY <1>l, <1>9 DEF Return, Throw
<1>10. ASSUME NEW s \in Slot, Crash(s) \/ LockLapses(s) PROVE Alone(j)' /\ RowStep(j)
  <2>1. \A t \in Slot : run'[t].pc # "idle" =>
          run'[t].pc = run[t].pc /\ run'[t].job = run[t].job /\ run'[t].unheard = run[t].unheard
    BY <1>0, <1>10, IdleType DEF Crash, LockLapses, Work
  <2> QED
    BY <1>a, <1>10, <2>1 DEF Crash, LockLapses
<1>11. ASSUME NEW k \in Job, Expire(k) PROVE Alone(j)' /\ RowStep(j)
  <2>1. CASE k = j
    <3>1. job[j].dated /\ job'[j].status = job[j].status /\ job'[j].expired /\ run' = run
      BY <1>0, <1>11, <2>1 DEF Expire, Row
    <3>2. Settled(j) /\ Settled(j)'
      BY <3>1 DEF Alone, Settled
    <3>3. \A t \in Slot : Due(t, j) => Due(t, j)'
      BY <3>1 DEF Due, Polled
    <3> QED
      BY <3>1, <3>2, <3>3 DEF Alone, Holds, RowStep
  <2>2. CASE k # j
    BY <1>a, <1>0, <1>11, <2>2 DEF Expire
  <2> QED
    BY <2>1, <2>2
<1>12. CASE DeleteExpired
  <2>1. CASE j \in keeper.expired /\ job[j].expired
    <3>1. job'[j].status = "deleted" /\ ~job'[j].expired /\ ~job'[j].dated /\ run' = run /\ keeper.pc = "delete"
      BY <1>0, <1>12, <2>1 DEF DeleteExpired, NoJob
    <3>2. \A t \in Slot : Due(t, j) => Due(t, j)'
      <4>1. ~Polled(j)
        BY <2>1 DEF Alone, Settled, Polled
      <4> QED
        BY <3>1, <4>1 DEF Due
    <3> QED
      BY <2>1, <3>1, <3>2 DEF Alone, Holds, RowStep
  <2>2. CASE ~(j \in keeper.expired /\ job[j].expired)
    BY <1>a, <1>0, <1>12, <2>2 DEF DeleteExpired
  <2> QED
    BY <2>1, <2>2
<1>13. ASSUME NEW e \in Event, Insert(e) PROVE Alone(j)' /\ RowStep(j)
  BY <1>a, <1>13 DEF Insert
<1>14. CASE PruneEvents \/ FindExpired \/ UnlinkExpired \/ UnlinkFails \/ ListFiles \/ ReadKnown \/ Sweep \/ DownloadOpen
  BY <1>a, <1>14 DEF PruneEvents, FindExpired, UnlinkExpired, UnlinkFails, ListFiles, ReadKnown, Sweep, DownloadOpen
<1>15. CASE UNCHANGED vars
  BY <1>a, <1>15 DEF vars
<1> QED
  BY <1>1, <1>2, <1>3, <1>4, <1>5, <1>51, <1>6, <1>61, <1>7, <1>8, <1>9, <1>10, <1>11, <1>12, <1>13, <1>14, <1>15
     DEF Next, Process, Retention

LEMMA DoubledGrows ==
  ASSUME [Next]_vars
  PROVE  doubled \subseteq doubled'
PROOF BY DEF Next, vars, Process, Retention, Create, Enqueue, EnqueueLost, DownloadFind, DownloadOpen, Take,
         FindJob, Claim, Open, WritePage, Finish, FinishUnheard, MarkFailed, Return, Error, Throw, ThrowUnheard,
         Crash, LockLapses, TakeBack, Expire, Age, Insert, PruneEvents, FindExpired, UnlinkExpired, UnlinkFails,
         DeleteExpired, ListFiles, ReadKnown, Sweep

AloneInv == \A j \in Job \ doubled : Alone(j)

LEMMA AloneInvariant == Spec => [](TypeOK /\ AloneInv)
<1> DEFINE I == TypeOK /\ QueueInv /\ AloneInv
<1>1. Init => I
  <2> SUFFICES ASSUME Init PROVE AloneInv
    BY TypeInit
  <2>1. (\A s \in Slot : run[s].pc = "idle") /\ \A j \in Job : ~job[j].expired /\ ~job[j].dated
    BY IdleType DEF Init, NoJob
  <2> QED
    BY <2>1 DEF AloneInv, Alone, Holds
<1>2. I /\ [Next]_vars => I'
  <2> SUFFICES ASSUME I, [Next]_vars PROVE AloneInv'
    BY TypeStep, QueueStep
  <2> QED
    BY AloneStep, DoubledGrows DEF AloneInv
<1>3. I => TypeOK /\ AloneInv
  OBVIOUS
<1> HIDE DEF I
<1> QED
  BY <1>1, <1>2, <1>3, PTL DEF Spec

\* DONE and FAILED are final: runExportJob leaves a settled job alone, and an
\* attempt that is cut short, retried or late never takes one back, unless two
\* slots have worked on the job at once.  The attempt that wrote DONE and lost
\* the answer may still write FAILED over it, and no other.
THEOREM SettledForGood == Spec => SettledIsFinal
<1>1. TypeOK /\ AloneInv /\ [Next]_vars =>
        [\A j \in Job \ doubled' :
           Settled(j) => \/ job'[j].status \in {job[j].status, "deleted"}
                         \/ Disowned(j) /\ job[j].status = "DONE" /\ job'[j].status = "FAILED"]_vars
  <2> SUFFICES ASSUME TypeOK, AloneInv, [Next]_vars, NEW j \in Job \ doubled', Settled(j)
               PROVE  \/ job'[j].status \in {job[j].status, "deleted"}
                      \/ Disowned(j) /\ job[j].status = "DONE" /\ job'[j].status = "FAILED"
    OBVIOUS
  <2>1. RowStep(j)
    BY AloneStep, DoubledGrows DEF AloneInv
  <2> QED
    BY <2>1 DEF RowStep, Settled
<1> QED
  BY <1>1, AloneInvariant, PTL DEF Spec, SettledIsFinal

---------------------------------------------------------------------------
(* Files *)

\* What retention and a download have read of a job still means something:
\* what was expired stays so until it is deleted, a file has had a row, what is
\* about to be swept has lost it, and what is about to be sent was finished.
Kept(j) ==
  /\ j \in keeper.expired => job[j].expired \/ job[j].status = "deleted"
  /\ file[j].there => job[j].status # "none"
  /\ j \in keeper.dir => job[j].status # "none"
  /\ keeper.pc = "sweep" /\ j \in keeper.dir \ keeper.known => job[j].status = "deleted"
  /\ getter.pc = "open" /\ getter.job = j => job[j].status \in {"DONE", "FAILED", "deleted"}

\* The age of a file is not its contents.
LEMMA FileAges ==
  ASSUME TypeOK, NEW j \in Job, NEW k \in Job, Expire(k) \/ Age(k)
  PROVE  file'[j].there = file[j].there /\ file'[j].data = file[j].data
<1>0. file \in [Job -> Csv]
  BY DEF TypeOK, Csv
<1>1. PICK x : file' = [file EXCEPT ![k].old = x]
  BY DEF Expire, Age
<1>2. CASE k = j
  BY <1>0, <1>1, <1>2 DEF Csv
<1>3. CASE k # j
  BY <1>0, <1>1, <1>3
<1> QED
  BY <1>2, <1>3

LEMMA KeptStep ==
  ASSUME TypeOK, [Next]_vars, NEW j \in Job, j \notin doubled', Alone(j), Kept(j)
  PROVE  Kept(j)'
<1>0. /\ run \in [Slot -> Work] /\ file \in [Job -> Csv] /\ job \in [Job -> Row]
      /\ keeper \in [pc : {"idle", "find", "unlink", "delete", "list", "known", "sweep"},
                     expired : SUBSET Job, dir : SUBSET Job, known : SUBSET Job]
  BY DEF TypeOK, Work, Csv, Row
<1>1. RowStep(j)
  BY AloneStep
<1>r. job[j].status \in {"none", "PENDING", "RUNNING", "DONE", "FAILED", "deleted"}
  BY <1>0 DEF Row
<1>2. /\ job[j].expired \/ job[j].status = "deleted" => job'[j].expired \/ job'[j].status = "deleted"
      /\ job'[j].status = "none" => job[j].status = "none"
      /\ job[j].status = "deleted" => job'[j].status = "deleted"
      /\ job[j].status \in {"DONE", "FAILED", "deleted"} => job'[j].status \in {"DONE", "FAILED", "deleted"}
  BY <1>1 DEF RowStep, Alone, Settled
<1>k. ASSUME file'[j].there => file[j].there \/ job'[j].status # "none",
             keeper' = keeper \/ (keeper'.pc # "sweep" /\ keeper'.expired \subseteq keeper.expired
                                   /\ keeper'.dir \subseteq keeper.dir),
             getter' = getter \/ getter'.pc = "idle"
      PROVE  Kept(j)'
  BY <1>2, <1>k DEF Kept
<1>3. ASSUME NEW k \in Job, Create(k) \/ Enqueue(k) \/ EnqueueLost(k) \/ TakeBack(k) PROVE Kept(j)'
  BY <1>k, <1>3 DEF Create, Enqueue, EnqueueLost, TakeBack
<1>4. ASSUME NEW k \in Job, Expire(k) \/ Age(k) PROVE Kept(j)'
  <2>1. file'[j].there = file[j].there
    BY <1>4, FileAges
  <2> QED
    BY <1>k, <1>4, <2>1 DEF Expire, Age
<1>5. ASSUME NEW k \in Job, DownloadFind(k) PROVE Kept(j)'
  <2>1. getter' = [pc |-> "open", job |-> k] /\ job[k].status = "DONE" /\ UNCHANGED <<job, file, keeper>>
    BY <1>5 DEF DownloadFind, Downloadable
  <2> QED
    BY <2>1 DEF Kept
<1>6. CASE DownloadOpen
  <2>1. getter'.pc = "idle" /\ UNCHANGED <<job, file, keeper>>
    BY <1>6 DEF DownloadOpen, TypeOK
  <2> QED
    BY <1>k, <2>1
<1>7. ASSUME NEW s \in Slot, NEW k \in Job, Take(s, k) PROVE Kept(j)'
  BY <1>k, <1>7 DEF Take
<1>8. ASSUME NEW s \in Slot,
             \/ FindJob(s) \/ Claim(s) \/ Finish(s) \/ MarkFailed(s) \/ Return(s) \/ Error(s) \/ Throw(s)
             \/ FinishUnheard(s) \/ ThrowUnheard(s) \/ Crash(s) \/ LockLapses(s)
      PROVE  Kept(j)'
  BY <1>k, <1>8 DEF FindJob, Claim, Finish, MarkFailed, Return, Error, Throw, FinishUnheard, ThrowUnheard,
                    Crash, LockLapses
<1>9. ASSUME NEW s \in Slot, Open(s) PROVE Kept(j)'
  <2>1. CASE run[s].job = j
    <3>1. job[j].status # "none" /\ job' = job
      BY <1>9, <2>1 DEF Open, Alone, Holds, Live, Due, Polled
    <3> QED
      BY <1>k, <1>9, <3>1 DEF Open
  <2>2. CASE run[s].job # j
    <3>1. file'[j] = file[j]
      BY <1>0, <1>9, <2>2 DEF Open
    <3> QED
      BY <1>k, <1>9, <3>1 DEF Open
  <2> QED
    BY <2>1, <2>2
<1>10. ASSUME NEW s \in Slot, WritePage(s) PROVE Kept(j)'
  <2>1. file'[j].there = file[j].there
    BY <1>0, <1>10 DEF WritePage, Csv
  <2> QED
    BY <1>k, <1>10, <2>1 DEF WritePage
<1>11. ASSUME NEW e \in Event, Insert(e) PROVE Kept(j)'
  BY <1>k, <1>11 DEF Insert
<1>12. CASE PruneEvents \/ UnlinkFails \/ UnlinkExpired
  <2>1. keeper'.pc # "sweep" /\ keeper'.expired = keeper.expired /\ keeper'.dir = keeper.dir
    BY <1>0, <1>12 DEF PruneEvents, UnlinkFails, UnlinkExpired, Keep
  <2>2. file'[j].there => file[j].there
    BY <1>12, IdleType DEF PruneEvents, UnlinkFails, UnlinkExpired
  <2>3. getter' = getter
    BY <1>12 DEF PruneEvents, UnlinkFails, UnlinkExpired
  <2> QED
    BY <1>k, <2>1, <2>2, <2>3
<1>13. CASE FindExpired
  <2>1. keeper'.pc = "unlink" /\ keeper'.dir = keeper.dir
    BY <1>0, <1>13 DEF FindExpired
  <2>2. j \in keeper'.expired => job[j].expired
    BY <1>0, <1>13 DEF FindExpired
  <2> QED
    BY <1>13, <2>1, <2>2 DEF FindExpired, Kept
<1>14. CASE DeleteExpired
  <2>1. keeper'.pc = "list" /\ keeper'.expired = {} /\ keeper'.dir = keeper.dir
    BY <1>0, <1>14 DEF DeleteExpired
  <2> QED
    BY <1>k, <1>14, <2>1 DEF DeleteExpired
<1>15. CASE ListFiles
  <2>1. keeper'.pc = "known" /\ keeper'.expired = keeper.expired
    BY <1>0, <1>15 DEF ListFiles
  <2>2. j \in keeper'.dir => file[j].there
    BY <1>0, <1>15 DEF ListFiles
  <2> QED
    BY <1>15, <2>1, <2>2 DEF ListFiles, Kept
<1>16. CASE ReadKnown
  <2>1. keeper'.pc = "sweep" /\ keeper'.expired = keeper.expired /\ keeper'.dir = keeper.dir
    BY <1>0, <1>16 DEF ReadKnown
  <2>2. j \in keeper.dir /\ Exists(j) => j \in keeper'.known
    BY <1>0, <1>16 DEF ReadKnown
  <2> QED
    BY <1>16, <1>r, <2>1, <2>2 DEF ReadKnown, Kept, Exists
<1>17. CASE Sweep
  <2>1. keeper'.pc = "idle" /\ keeper'.expired = {} /\ keeper'.dir = {}
    BY <1>17 DEF Sweep, Rest
  <2>2. file'[j].there => file[j].there
    BY <1>17, IdleType DEF Sweep
  <2> QED
    BY <1>k, <1>17, <2>1, <2>2 DEF Sweep
<1>18. CASE UNCHANGED vars
  BY <1>k, <1>18 DEF vars
<1> QED
  BY <1>3, <1>4, <1>5, <1>6, <1>7, <1>8, <1>9, <1>10, <1>11, <1>12, <1>13, <1>14, <1>15, <1>16, <1>17, <1>18
     DEF Next, Process, Retention

\* An attempt starts at the beginning, and what a file must hold is in the table.
StartInv ==
  /\ \A s \in Slot : run[s].pc \in {"find", "claim", "open"} => run[s].cursor = 0 /\ run[s].pos = 0
  /\ \A j \in Job : owed[j] \subseteq rows

LEMMA StartStep ==
  ASSUME TypeOK, StartInv, [Next]_vars
  PROVE  StartInv'
<1>0. run \in [Slot -> Work] /\ owed \in [Job -> SUBSET Event]
  BY DEF TypeOK, Work
<1>a. ASSUME owed' = owed, rows \subseteq rows',
             \A s \in Slot : run'[s].pc \in {"find", "claim", "open"} =>
               \/ /\ run[s].pc \in {"find", "claim", "open"}
                  /\ run'[s].cursor = run[s].cursor /\ run'[s].pos = run[s].pos
               \/ run'[s].cursor = 0 /\ run'[s].pos = 0
      PROVE  StartInv'
  BY <1>a DEF StartInv
<1>1. ASSUME NEW s \in Slot, NEW k \in Job, Take(s, k) PROVE StartInv'
  <2> DEFINE w == [Idle EXCEPT !.pc = "find", !.job = k, !.lock = TRUE]
  <2>2. w.cursor = 0 /\ w.pos = 0
    BY DEF Idle
  <2>3. run' = [run EXCEPT ![s] = w]
    BY <1>1 DEF Take
  <2> HIDE DEF w
  <2>1. \A t \in Slot : run'[t] = run[t] \/ (run'[t].cursor = 0 /\ run'[t].pos = 0)
    BY <1>0, <2>2, <2>3
  <2> QED
    BY <1>a, <1>1, <2>1 DEF Take
<1>2. ASSUME NEW s \in Slot,
             \/ FindJob(s) \/ Claim(s) \/ Finish(s) \/ MarkFailed(s) \/ Return(s) \/ Error(s) \/ Throw(s)
             \/ ThrowUnheard(s) \/ Crash(s) \/ LockLapses(s)
      PROVE  StartInv'
  <2>1. owed' = owed /\ rows' = rows
    BY <1>2 DEF FindJob, Claim, Finish, MarkFailed, Return, Error, Throw, ThrowUnheard, Crash, LockLapses
  <2>2. CASE run' = [run EXCEPT ![s] = Idle]
    <3>1. \A t \in Slot : run'[t] = run[t] \/ run'[t].pc = "idle"
      BY <1>0, <2>2, IdleType
    <3> QED
      BY <1>a, <2>1, <3>1
  <2>3. CASE run' = [run EXCEPT ![s].lock = FALSE]
    <3>1. \A t \in Slot : run'[t].pc = run[t].pc /\ run'[t].cursor = run[t].cursor /\ run'[t].pos = run[t].pos
      BY <1>0, <2>3 DEF Work
    <3> QED
      BY <1>a, <2>1, <3>1
  <2>4. ASSUME NEW pc, Goto(s, pc), pc \in {"claim", "open"} => run[s].pc \in {"find", "claim"},
               pc \in {"claim", "open", "fail", "return"}
        PROVE  StartInv'
    <3>1. /\ \A t \in Slot : t # s => run'[t] = run[t]
          /\ run'[s].pc = pc /\ run'[s].cursor = run[s].cursor /\ run'[s].pos = run[s].pos
      BY <1>0, <2>4 DEF Goto, Work
    <3> QED
      BY <1>a, <2>1, <2>4, <3>1
  <2>5. \/ run' = [run EXCEPT ![s] = Idle] \/ run' = [run EXCEPT ![s].lock = FALSE]
        \/ (Goto(s, "claim") /\ run[s].pc = "find") \/ (Goto(s, "open") /\ run[s].pc = "claim")
        \/ Goto(s, "fail") \/ Goto(s, "return")
    BY <1>2 DEF FindJob, Claim, Finish, MarkFailed, Return, Error, Throw, ThrowUnheard, Crash, LockLapses, Leave
  <2> QED
    BY <2>2, <2>3, <2>4, <2>5
<1>21. ASSUME NEW s \in Slot, FinishUnheard(s) PROVE StartInv'
  <2>1. (\A t \in Slot : t # s => run'[t] = run[t]) /\ run'[s].pc = "fail"
    BY <1>0, <1>21 DEF FinishUnheard, Work
  <2> QED
    BY <1>a, <1>21, <2>1 DEF FinishUnheard
<1>3. ASSUME NEW s \in Slot, Open(s) PROVE StartInv'
  <2>1. \A t \in Slot : run'[t].pc \in {"find", "claim", "open"} => run'[t] = run[t]
    BY <1>0, <1>3 DEF Open, Goto, Work
  <2>2. \A j \in Job : owed'[j] \subseteq rows'
    BY <1>0, <1>3 DEF Open, StartInv
  <2> QED
    BY <2>1, <2>2 DEF StartInv
<1>4. ASSUME NEW s \in Slot, WritePage(s) PROVE StartInv'
  <2>1. \A t \in Slot : t # s => run'[t] = run[t]
    BY <1>0, <1>4 DEF WritePage
  <2>2. run'[s].pc \in {"page", "finish"}
    BY <1>0, <1>4 DEF WritePage, Work
  <2> QED
    BY <1>a, <1>4, <2>1, <2>2 DEF WritePage
<1>5. CASE PruneEvents
  BY <1>0, <1>5 DEF PruneEvents, StartInv
<1>6. ASSUME NEW e \in Event, Insert(e) PROVE StartInv'
  BY <1>a, <1>6 DEF Insert
<1>7. ASSUME NEW k \in Job,
             Create(k) \/ Enqueue(k) \/ EnqueueLost(k) \/ DownloadFind(k) \/ TakeBack(k) \/ Expire(k) \/ Age(k)
      PROVE  StartInv'
  BY <1>a, <1>7 DEF Create, Enqueue, EnqueueLost, DownloadFind, TakeBack, Expire, Age
<1>8. CASE FindExpired \/ UnlinkExpired \/ UnlinkFails \/ DeleteExpired \/ ListFiles \/ ReadKnown \/ Sweep \/ DownloadOpen
  BY <1>a, <1>8 DEF FindExpired, UnlinkExpired, UnlinkFails, DeleteExpired, ListFiles, ReadKnown, Sweep, DownloadOpen
<1>9. CASE UNCHANGED vars
  BY <1>a, <1>9 DEF vars
<1> QED
  BY <1>1, <1>2, <1>21, <1>3, <1>4, <1>5, <1>6, <1>7, <1>8, <1>9 DEF Next, Process, Retention

\* A file that is written down to a cursor: events only, none below the cursor,
\* newest first, and what it owes and lacks is below the cursor.
Down(data, c, owe) ==
  /\ \A i \in 1..Len(data) : data[i] # Hole /\ c # 0 /\ data[i] >= c
  /\ \A i \in 1..(Len(data) - 1) : data[i] > data[i + 1]
  /\ \A e \in owe : (\E i \in 1..Len(data) : data[i] = e) \/ c = 0 \/ e < c

\* A page appended to such a file makes it one down to the page's last row, and
\* a short page completes it.
Extends(table, old, c, owe) ==
  LET p   == PageOf(table, c)
      new == Written(old, Len(old), p)
  IN  /\ Len(new) = Len(old) + Len(p)
      /\ Down(new, IF p = <<>> THEN c ELSE Last(p), owe)
      /\ Len(p) < Batch => \A e \in owe : \E i \in 1..Len(new) : new[i] = e

LEMMA PageExtends ==
  ASSUME NEW table \in SUBSET Event, NEW old \in Seq(Event \cup {Hole}), NEW c \in Event \cup {0},
         NEW owe \in SUBSET table, Down(old, c, owe)
  PROVE  Extends(table, old, c, owe)
<1> DEFINE p == PageOf(table, c)
           B == Below(table, c)
           new == Written(old, Len(old), p)
           m == Len(old)
           k == Len(p)
           d == IF p = <<>> THEN c ELSE Last(p)
<1>0. Event \subseteq Nat \ {0} /\ Batch \in Nat \ {0} /\ Hole = 0
  BY ExportsAssumption DEF Hole
<1>00. c \in Nat /\ Hole \in Event \cup {Hole}
  BY <1>0
<1>1. /\ p \in Seq(Event)
      /\ \A i \in 1..k : p[i] \in B
      /\ \A i, l \in 1..k : i < l => p[i] > p[l]
      /\ \A e \in B : \/ \E i \in 1..k : p[i] = e
                      \/ k = Batch /\ \A i \in 1..k : e < p[i]
  BY <1>00, PageLemma
<1>2. m \in Nat /\ k \in Nat /\ p \in Seq(Event \cup {Hole})
  BY <1>1
<1>3. /\ Len(new) = m + k
      /\ \A i \in 1..m : new[i] = old[i]
      /\ \A i \in 1..k : new[m + i] = p[i]
  BY <1>2, WrittenAppends
<1>4. \A e \in B : e \in table /\ e \in Nat \ {0} /\ (c # 0 => e < c)
  BY <1>0 DEF Below
<1>5. k # 0 => p # <<>> /\ d = p[k] /\ k \in 1..k
  BY <1>2 DEF Last
<1>6. k = 0 => p = <<>> /\ d = c
  BY <1>1
<1>o. \A i \in 1..m : old[i] # Hole /\ c # 0 /\ old[i] >= c /\ old[i] \in Nat
  <2>1. \A i \in 1..m : old[i] # Hole /\ c # 0 /\ old[i] >= c
    BY DEF Down
  <2>2. \A i \in 1..m : old[i] \in Event \cup {Hole}
    OBVIOUS
  <2>3. Event \cup {Hole} \subseteq Nat
    BY <1>0
  <2> HIDE DEF m
  <2> QED
    BY <2>1, <2>2, <2>3
<1>od. \A i \in 1..(m - 1) : old[i] > old[i + 1]
  BY DEF Down
<1>oo. \A e \in owe : (\E i \in 1..m : old[i] = e) \/ c = 0 \/ e < c
  BY DEF Down
<1> HIDE DEF p, B, new, m, k, d
<1>d. d \in Nat /\ (c # 0 => d # 0 /\ d <= c) /\ (k # 0 => d # 0)
  <2>1. CASE k = 0
    BY <1>00, <1>6, <2>1
  <2>2. CASE k # 0
    <3>1. d \in B
      BY <1>1, <1>5, <2>2
    <3> QED
      BY <1>00, <1>4, <3>1
  <2> QED
    BY <2>1, <2>2
<1>7. ASSUME NEW i \in 1..Len(new) PROVE new[i] # Hole /\ d # 0 /\ new[i] >= d
  <2>1. CASE i \in 1..m
    <3>1. new[i] = old[i] /\ c # 0 /\ old[i] >= c /\ old[i] \in Nat /\ old[i] # Hole
      BY <1>3, <1>o, <2>1
    <3> QED
      BY <1>00, <1>d, <3>1
  <2>2. CASE i \notin 1..m
    <3>1. i - m \in 1..k /\ i = m + (i - m) /\ k # 0
      BY <1>2, <1>3, <2>2
    <3>2. new[i] = p[i - m]
      BY <1>3, <3>1
    <3>3. p[i - m] \in B
      BY <1>1, <3>1
    <3>4. p[i - m] \in Nat \ {0}
      BY <1>4, <3>3
    <3>5. p[i - m] >= d
      <4>1. CASE i - m = k
        BY <1>5, <1>d, <3>1, <3>4, <4>1
      <4>2. CASE i - m # k
        <5>1. i - m < k
          BY <1>2, <3>1, <4>2
        <5>2. p[i - m] > p[k]
          BY <1>1, <1>5, <3>1, <5>1
        <5> QED
          BY <1>5, <1>d, <3>1, <3>4, <5>2
      <4> QED
        BY <4>1, <4>2
    <3> QED
      BY <1>0, <1>d, <3>1, <3>2, <3>4, <3>5
  <2> QED
    BY <2>1, <2>2
<1>8. ASSUME NEW i \in 1..(Len(new) - 1) PROVE new[i] > new[i + 1]
  <2>1. CASE i < m
    <3>1. i \in 1..m /\ i + 1 \in 1..m /\ i \in 1..(m - 1)
      BY <1>2, <1>3, <2>1
    <3> QED
      BY <1>3, <1>od, <3>1
  <2>2. CASE i = m
    <3>1. m \in 1..m /\ 1 \in 1..k /\ i + 1 = m + 1
      BY <1>2, <1>3, <2>2
    <3>2. new[i] = old[m] /\ new[i + 1] = p[1]
      BY <1>3, <2>2, <3>1
    <3>3. p[1] \in B
      BY <1>1, <3>1
    <3>4. p[1] \in Nat /\ (c # 0 => p[1] < c)
      BY <1>4, <3>3
    <3>5. c # 0 /\ old[m] >= c /\ old[m] \in Nat
      BY <1>o, <3>1
    <3> QED
      BY <1>00, <3>2, <3>4, <3>5
  <2>3. CASE i > m
    <3>1. i - m \in 1..k /\ (i - m) + 1 \in 1..k /\ i - m < (i - m) + 1
          /\ i = m + (i - m) /\ i + 1 = m + ((i - m) + 1)
      BY <1>2, <1>3, <2>3
    <3>2. p[i - m] > p[(i - m) + 1]
      BY <1>1, <3>1
    <3>3. new[i] = p[i - m] /\ new[i + 1] = p[(i - m) + 1]
      BY <1>3, <3>1
    <3> QED
      BY <3>2, <3>3
  <2> QED
    BY <1>2, <1>3, <2>1, <2>2, <2>3
<1>9. ASSUME NEW e \in owe
      PROVE  (\E i \in 1..Len(new) : new[i] = e) \/ (k = Batch /\ e < d)
  <2>1. CASE \E i \in 1..m : old[i] = e
    <3>1. PICK i \in 1..m : old[i] = e
      BY <2>1
    <3>2. i \in 1..Len(new) /\ new[i] = e
      BY <1>2, <1>3, <3>1
    <3> QED
      BY <3>2
  <2>2. CASE ~\E i \in 1..m : old[i] = e
    <3>1. c = 0 \/ e < c
      BY <1>oo, <2>2
    <3>2. e \in B
      BY <3>1 DEF B, Below
    <3>3. CASE \E i \in 1..k : p[i] = e
      <4>1. PICK i \in 1..k : p[i] = e
        BY <3>3
      <4>2. m + i \in 1..Len(new) /\ new[m + i] = e
        BY <1>2, <1>3, <4>1
      <4> QED
        BY <4>2
    <3>4. CASE k = Batch /\ \A i \in 1..k : e < p[i]
      BY <1>0, <1>5, <3>4
    <3> QED
      BY <1>1, <3>2, <3>3, <3>4
  <2> QED
    BY <2>1, <2>2
<1>10. Down(new, d, owe)
  BY <1>7, <1>8, <1>9 DEF Down
<1>11. k < Batch => \A e \in owe : \E i \in 1..Len(new) : new[i] = e
  BY <1>0, <1>2, <1>9
<1> QED
  BY <1>3, <1>10, <1>11 DEF Extends, p, new, m, k, d

---------------------------------------------------------------------------
(* Finished exports *)

\* The file of an attempt under way is written down to the attempt's cursor,
\* and before the row is finished nothing is missing.
Paged(s, j) ==
  /\ file[j].there
  /\ Len(file[j].data) = run[s].pos
  /\ Down(file[j].data, run[s].cursor, owed[j])
  /\ run[s].pc = "finish" =>
       \A e \in owed[j] : \E i \in 1..Len(file[j].data) : file[j].data[i] = e

Paging(j) ==
  \A s \in Slot : Holds(s, j) /\ run[s].pc \in {"page", "finish"} => Paged(s, j)

Finished(j) ==
  /\ Downloadable(j) => /\ file[j].there
                        /\ Complete(j, file[j].data)
                        /\ Len(file[j].data) = job[j].rowCount
  /\ getter.pc = "open" /\ getter.job = j /\ file[j].there => Complete(j, file[j].data)

\* The inductive invariant behind FinishedIsComplete.
FileInv ==
  /\ TypeOK /\ QueueInv /\ StartInv
  /\ \A j \in Job \ doubled : Alone(j) /\ Kept(j) /\ Paging(j) /\ Finished(j)

LEMMA DownIsComplete ==
  ASSUME NEW j \in Job, NEW data \in Seq(Event \cup {Hole}), NEW c, Down(data, c, owed[j]),
         \A e \in owed[j] : \E i \in 1..Len(data) : data[i] = e
  PROVE  Complete(j, data)
<1>1. DOMAIN data = 1..Len(data)
  OBVIOUS
<1>2. owed[j] \subseteq ToSet(data)
  BY <1>1 DEF ToSet
<1> QED
  BY <1>1, <1>2 DEF Complete, Down

\* Less owed, less to hold.
LEMMA OwedLess ==
  ASSUME NEW j \in Job, owed'[j] \subseteq owed[j], NEW s \in Slot,
         file'[j].there = file[j].there, file'[j].data = file[j].data
  PROVE  /\ Complete(j, file[j].data) => Complete(j, file[j].data)'
         /\ Paged(s, j) /\ run'[s].pc = run[s].pc /\ run'[s].cursor = run[s].cursor /\ run'[s].pos = run[s].pos
              => Paged(s, j)'
PROOF BY DEF Complete, Paged, Down

LEMMA FinishedFrame ==
  ASSUME NEW j \in Job, Finished(j),
         file'[j].there = file[j].there, file'[j].data = file[j].data, owed'[j] \subseteq owed[j],
         Downloadable(j)' => Downloadable(j) /\ job'[j].rowCount = job[j].rowCount,
         getter'.pc = "open" /\ getter'.job = j => getter.pc = "open" /\ getter.job = j
  PROVE  Finished(j)'
<1>1. Complete(j, file[j].data) => Complete(j, file[j].data)'
  BY DEF Complete
<1> QED
  BY <1>1 DEF Finished

LEMMA DataStep ==
  ASSUME TypeOK, StartInv, [Next]_vars, NEW j \in Job, j \notin doubled',
         Alone(j), Kept(j), Paging(j), Finished(j)
  PROVE  Paging(j)' /\ Finished(j)'
<1>0. /\ run \in [Slot -> Work] /\ file \in [Job -> Csv] /\ job \in [Job -> Row]
      /\ owed \in [Job -> SUBSET Event] /\ rows \in SUBSET Event
  BY DEF TypeOK, Work, Csv, Row
<1>1. RowStep(j)
  BY AloneStep
\* Steps that leave the file, its row and its slots as they are.
<1>a. ASSUME file'[j].there = file[j].there, file'[j].data = file[j].data, owed'[j] \subseteq owed[j],
             Downloadable(j)' => Downloadable(j) /\ job'[j].rowCount = job[j].rowCount,
             getter' = getter \/ getter'.pc = "idle",
             \A t \in Slot : run'[t].pc \in {"page", "finish"} /\ run'[t].job = j =>
               run[t].pc = run'[t].pc /\ run[t].job = j /\ run'[t].cursor = run[t].cursor /\ run'[t].pos = run[t].pos
      PROVE  Paging(j)' /\ Finished(j)'
  <2>1. Finished(j)'
    BY <1>a, FinishedFrame
  <2>2. ASSUME NEW t \in Slot, run'[t].pc \in {"page", "finish"}, run'[t].job = j PROVE Paged(t, j)'
    <3>1. run[t].pc = run'[t].pc /\ run[t].job = j /\ run'[t].cursor = run[t].cursor /\ run'[t].pos = run[t].pos
      BY <1>a, <2>2
    <3>2. Paged(t, j)
      BY <2>2, <3>1 DEF Paging, Holds
    <3> QED
      BY <1>a, <3>1, <3>2, OwedLess
  <2> QED
    BY <2>1, <2>2 DEF Paging, Holds
\* Steps that remove the file of an export that is expired or deleted.
<1>u. ASSUME UNCHANGED <<job, run, getter>>, ~file'[j].there, job[j].expired \/ job[j].status = "deleted"
      PROVE  Paging(j)' /\ Finished(j)'
  <2>1. ~Polled(j) /\ ~Downloadable(j)
    BY <1>u DEF Alone, Settled, Polled, Downloadable
  <2>2. \A t \in Slot : ~(run[t].pc \in {"page", "finish"} /\ run[t].job = j)
    BY <2>1 DEF Alone, Holds, Live, Due
  <2>3. Paging(j)'
    BY <1>u, <2>2 DEF Paging, Holds
  <2>4. Finished(j)'
    BY <1>u, <2>1 DEF Finished, Downloadable
  <2> QED
    BY <2>3, <2>4
\* Steps of the slot that has the job, while the row is unsettled.
<1>s. ASSUME NEW s \in Slot, run[s].pc \in Live, run[s].pc # "fail", run[s].job = j
      PROVE  /\ \A t \in Slot : run[t].pc # "idle" /\ run[t].job = j => t = s
             /\ ~Downloadable(j) /\ ~(getter.pc = "open" /\ getter.job = j)
  <2>1. run[s].pc # "idle" /\ Polled(j)
    BY <1>s DEF Alone, Holds, Live, Due
  <2> QED
    BY <1>s, <2>1 DEF Alone, Kept, Holds, Polled, Downloadable
<1>g. ASSUME NEW s \in Slot, NEW pc, Goto(s, pc)
      PROVE  /\ run'[s].pc = pc /\ run'[s].job = run[s].job /\ run'[s].cursor = run[s].cursor /\ run'[s].pos = run[s].pos
             /\ \A t \in Slot : t # s => run'[t] = run[t]
  BY <1>0, <1>g DEF Goto, Work
<1>2. ASSUME NEW k \in Job, Enqueue(k) \/ EnqueueLost(k) \/ TakeBack(k) PROVE Paging(j)' /\ Finished(j)'
  BY <1>a, <1>2 DEF Enqueue, EnqueueLost, TakeBack, Downloadable
<1>3. ASSUME NEW k \in Job, Create(k) PROVE Paging(j)' /\ Finished(j)'
  <2>1. job'[j] = job[j] \/ job'[j].status = "PENDING"
    BY <1>0, <1>3 DEF Create, Row
  <2>2. UNCHANGED <<file, owed, getter, run>>
    BY <1>3 DEF Create
  <2> QED
    BY <1>a, <2>1, <2>2 DEF Downloadable
<1>4. ASSUME NEW k \in Job, Expire(k) \/ Age(k) PROVE Paging(j)' /\ Finished(j)'
  <2>1. file'[j].there = file[j].there /\ file'[j].data = file[j].data
    BY <1>4, FileAges
  <2>2. Downloadable(j)' => job'[j] = job[j]
    BY <1>0, <1>4 DEF Expire, Age, Row, Downloadable
  <2>3. UNCHANGED <<owed, getter, run>>
    BY <1>4 DEF Expire, Age
  <2> QED
    BY <1>a, <2>1, <2>2, <2>3 DEF Downloadable
<1>5. ASSUME NEW k \in Job, DownloadFind(k) PROVE Paging(j)' /\ Finished(j)'
  <2>1. getter' = [pc |-> "open", job |-> k] /\ Downloadable(k) /\ UNCHANGED <<job, file, owed, run>>
    BY <1>5 DEF DownloadFind
  <2>2. Complete(j, file[j].data)' <=> Complete(j, file[j].data)
    BY <2>1 DEF Complete
  <2>3. Finished(j)'
    BY <2>1, <2>2 DEF Finished, Downloadable
  <2>4. Paging(j)'
    BY <2>1 DEF Paging, Paged, Holds, Down
  <2> QED
    BY <2>3, <2>4
<1>6. CASE DownloadOpen
  <2>1. getter'.pc = "idle" /\ UNCHANGED <<job, file, owed, run>>
    BY <1>6 DEF DownloadOpen, TypeOK
  <2> QED
    BY <1>a, <2>1 DEF Downloadable
<1>7. ASSUME NEW s \in Slot, NEW k \in Job, Take(s, k) PROVE Paging(j)' /\ Finished(j)'
  <2> DEFINE w == [Idle EXCEPT !.pc = "find", !.job = k, !.lock = TRUE]
  <2>1. w.pc = "find"
    BY IdleType DEF Work
  <2>2. run' = [run EXCEPT ![s] = w] /\ UNCHANGED <<job, file, owed, getter>>
    BY <1>7 DEF Take
  <2> HIDE DEF w
  <2>3. \A t \in Slot : run'[t].pc # "find" => run'[t] = run[t]
    BY <1>0, <2>1, <2>2
  <2> QED
    BY <1>a, <2>2, <2>3 DEF Downloadable
<1>8. ASSUME NEW s \in Slot, NEW o, Leave(s, o), UNCHANGED <<file, owed, getter>>, Downloadable(j)' => job'[j] = job[j]
      PROVE  Paging(j)' /\ Finished(j)'
  <2>1. \A t \in Slot : run'[t].pc # "idle" => run'[t] = run[t]
    BY <1>0, <1>8, IdleType DEF Leave
  <2> QED
    BY <1>a, <1>8, <2>1 DEF Downloadable
<1>9. ASSUME NEW s \in Slot, NEW pc, Goto(s, pc), pc \notin {"page", "finish"},
             UNCHANGED <<file, owed, getter>>, Downloadable(j)' => job'[j] = job[j]
      PROVE  Paging(j)' /\ Finished(j)'
  <2>1. \A t \in Slot : run'[t].pc \in {"page", "finish"} => run'[t] = run[t]
    BY <1>g, <1>9
  <2> QED
    BY <1>a, <1>9, <2>1 DEF Downloadable
<1>10. ASSUME NEW s \in Slot, FindJob(s) PROVE Paging(j)' /\ Finished(j)'
  <2>1. CASE LeftAlone(run[s].job)
    BY <1>8, <1>10, <2>1 DEF FindJob
  <2>2. CASE ~LeftAlone(run[s].job)
    BY <1>9, <1>10, <2>2 DEF FindJob
  <2> QED
    BY <2>1, <2>2
<1>11. ASSUME NEW s \in Slot, Claim(s) \/ MarkFailed(s) PROVE Paging(j)' /\ Finished(j)'
  <2>1. CASE Exists(run[s].job)
    <3>1. Downloadable(j)' => job'[j] = job[j]
      BY <1>0, <1>11, <2>1 DEF Claim, MarkFailed, Row, Downloadable
    <3>2. (Goto(s, "open") \/ Goto(s, "return")) /\ UNCHANGED <<file, owed, getter>>
      BY <1>11, <2>1 DEF Claim, MarkFailed
    <3> QED
      BY <1>9, <3>1, <3>2
  <2>2. CASE ~Exists(run[s].job)
    BY <1>8, <1>11, <2>2 DEF Claim, MarkFailed
  <2> QED
    BY <2>1, <2>2
<1>12. ASSUME NEW s \in Slot, Return(s) \/ Throw(s) PROVE Paging(j)' /\ Finished(j)'
  BY <1>8, <1>12 DEF Return, Throw
<1>121. ASSUME NEW s \in Slot, ThrowUnheard(s) PROVE Paging(j)' /\ Finished(j)'
  <2>1. Downloadable(j)' => job'[j] = job[j]
    BY <1>0, <1>121 DEF ThrowUnheard, Row, Downloadable
  <2> QED
    BY <1>8, <1>121, <2>1 DEF ThrowUnheard
<1>13. ASSUME NEW s \in Slot, Error(s) PROVE Paging(j)' /\ Finished(j)'
  BY <1>9, <1>13 DEF Error
<1>14. ASSUME NEW s \in Slot, Crash(s) \/ LockLapses(s) PROVE Paging(j)' /\ Finished(j)'
  <2>1. \A t \in Slot : run'[t].pc # "idle" =>
          run'[t].pc = run[t].pc /\ run'[t].job = run[t].job /\ run'[t].cursor = run[t].cursor /\ run'[t].pos = run[t].pos
    BY <1>0, <1>14, IdleType DEF Crash, LockLapses, Work
  <2>2. UNCHANGED <<job, file, owed, getter>>
    BY <1>14 DEF Crash, LockLapses
  <2> QED
    BY <1>a, <2>1, <2>2 DEF Downloadable
<1>15. ASSUME NEW s \in Slot, Finish(s) \/ FinishUnheard(s) PROVE Paging(j)' /\ Finished(j)'
  <2>0. run[s].pc = "finish" /\ run[s].pc \in Live /\ run[s].pc # "idle" /\ UNCHANGED <<file, owed, getter>>
    BY <1>15 DEF Finish, FinishUnheard, Live
  <2>r. (\A t \in Slot : t # s => run'[t] = run[t]) /\ run'[s].pc \in {"return", "fail"}
    <3>1. CASE Finish(s)
      <4>1. Goto(s, "return") \/ Goto(s, "fail")
        BY <3>1 DEF Finish
      <4> QED
        BY <1>g, <4>1
    <3>2. CASE FinishUnheard(s)
      BY <1>0, <3>2 DEF FinishUnheard, Work
    <3> QED
      BY <1>15, <3>1, <3>2
  <2>1. CASE Exists(run[s].job) /\ run[s].job = j
    <3>1. job'[j].rowCount = run[s].pos
      BY <1>0, <1>15, <2>1, DoneRowType DEF Finish, FinishUnheard
    <3>2. Paged(s, j)
      BY <2>0, <2>1 DEF Paging, Holds
    <3>3. file[j].data \in Seq(Event \cup {Hole})
      BY <1>0 DEF Csv
    <3>4. Complete(j, file[j].data)
      BY <2>0, <3>2, <3>3, DownIsComplete DEF Paged
    <3>5. Complete(j, file[j].data)'
      BY <2>0, <3>4 DEF Complete
    <3>6. Finished(j)'
      BY <2>0, <3>1, <3>2, <3>5 DEF Finished, Paged
    <3>7. \A t \in Slot : run'[t].pc \in {"page", "finish"} => t # s /\ run'[t] = run[t]
      BY <2>r
    <3>8. \A t \in Slot : run[t].pc # "idle" /\ run[t].job = j => t = s
      BY <1>s, <2>0, <2>1
    <3>9. Paging(j)'
      BY <3>7, <3>8 DEF Paging, Holds
    <3> QED
      BY <3>6, <3>9
  <2>2. CASE ~(Exists(run[s].job) /\ run[s].job = j)
    <3>1. job'[j] = job[j]
      BY <1>0, <1>15, <2>2 DEF Finish, FinishUnheard
    <3>2. \A t \in Slot : run'[t].pc \in {"page", "finish"} => run'[t] = run[t]
      BY <2>r
    <3> QED
      BY <1>a, <2>0, <3>1, <3>2 DEF Downloadable
  <2> QED
    BY <2>1, <2>2
<1>16. ASSUME NEW s \in Slot, Open(s) PROVE Paging(j)' /\ Finished(j)'
  <2>0. /\ run[s].pc = "open" /\ run[s].pc \in Live /\ UNCHANGED <<job, getter>> /\ Goto(s, "page")
        /\ file' = [file EXCEPT ![run[s].job] = [there |-> TRUE, old |-> FALSE, data |-> <<>>]]
        /\ owed' = [owed EXCEPT ![run[s].job] = rows]
    BY <1>16 DEF Open, Live
  <2>1. /\ run'[s].pc = "page" /\ run'[s].job = run[s].job /\ run'[s].cursor = run[s].cursor /\ run'[s].pos = run[s].pos
        /\ \A t \in Slot : t # s => run'[t] = run[t]
    BY <1>g, <2>0
  <2>2. CASE run[s].job # j
    <3>1. file'[j] = file[j] /\ owed'[j] = owed[j]
      BY <1>0, <2>0, <2>2
    <3>2. \A t \in Slot : run'[t].job = j => run'[t] = run[t]
      BY <2>1, <2>2
    <3> QED
      BY <1>a, <2>0, <3>1, <3>2 DEF Downloadable
  <2>3. CASE run[s].job = j
    <3>1. /\ \A t \in Slot : run[t].pc # "idle" /\ run[t].job = j => t = s
          /\ ~Downloadable(j) /\ ~(getter.pc = "open" /\ getter.job = j)
      BY <1>s, <2>0, <2>3
    <3>2. file'[j].there /\ file'[j].data = <<>> /\ Len(file'[j].data) = 0
      BY <1>0, <2>0, <2>3
    <3>3. run'[s].cursor = 0 /\ run'[s].pos = 0
      BY <2>0, <2>1 DEF StartInv
    <3>4. Down(file'[j].data, 0, owed'[j])
      BY <3>2 DEF Down
    <3>5. Paged(s, j)'
      BY <2>1, <3>2, <3>3, <3>4 DEF Paged, Down
    <3>6. \A t \in Slot : run'[t].pc # "idle" /\ run'[t].job = j => t = s
      BY <2>1, <3>1
    <3>7. Paging(j)'
      BY <3>5, <3>6 DEF Paging, Holds
    <3>8. Finished(j)'
      BY <2>0, <3>1 DEF Finished, Downloadable
    <3> QED
      BY <3>7, <3>8
  <2> QED
    BY <2>2, <2>3
<1>17. ASSUME NEW s \in Slot, WritePage(s) PROVE Paging(j)' /\ Finished(j)'
  <2> DEFINE p == PageOf(rows, run[s].cursor)
             d == IF p = <<>> THEN run[s].cursor ELSE Last(p)
             new == Written(file[run[s].job].data, run[s].pos, p)
             w == [run[s] EXCEPT !.pc = IF Len(p) < Batch THEN "finish" ELSE "page",
                                 !.cursor = d, !.pos = run[s].pos + Len(p)]
             f == [there |-> TRUE, old |-> FALSE, data |-> new]
  <2>0. run[s].pc = "page" /\ run[s].pc \in Live /\ run[s].pc # "idle" /\ UNCHANGED <<job, getter, owed>>
    BY <1>17 DEF WritePage, Live
  <2>e. /\ run' = [run EXCEPT ![s] = w]
        /\ file' = IF ~file[run[s].job].there THEN file ELSE [file EXCEPT ![run[s].job] = f]
    BY <1>17 DEF WritePage
  <2>w. /\ w.job = run[s].job /\ w.cursor = d /\ w.pos = run[s].pos + Len(p)
        /\ w.pc = IF Len(p) < Batch THEN "finish" ELSE "page"
    <3>1. run[s] \in Work
      BY <1>0
    <3> HIDE DEF d, p
    <3> QED
      BY <3>1 DEF Work
  <2>f. f.there = TRUE /\ f.data = new
    OBVIOUS
  <2> HIDE DEF w, f, new, d, p
  <2>1. run'[s] = w /\ \A t \in Slot : t # s => run'[t] = run[t]
    BY <1>0, <2>e
  <2>2. CASE run[s].job # j
    <3>1. file'[j] = file[j]
      BY <1>0, <2>e, <2>2
    <3>2. \A t \in Slot : run'[t].job = j => run'[t] = run[t]
      BY <2>1, <2>2, <2>w
    <3> QED
      BY <1>a, <2>0, <3>1, <3>2 DEF Downloadable
  <2>3. CASE run[s].job = j
    <3>1. /\ \A t \in Slot : run[t].pc # "idle" /\ run[t].job = j => t = s
          /\ ~Downloadable(j) /\ ~(getter.pc = "open" /\ getter.job = j)
      BY <1>s, <2>0, <2>3
    <3>2. /\ file[j].there /\ Len(file[j].data) = run[s].pos
          /\ Down(file[j].data, run[s].cursor, owed[j])
      BY <2>0, <2>3 DEF Paging, Holds, Paged
    <3>3. file[j].data \in Seq(Event \cup {Hole}) /\ run[s].cursor \in Event \cup {0} /\ owed[j] \in SUBSET rows
      BY <1>0 DEF Csv, Work, StartInv
    <3>4. new = Written(file[j].data, Len(file[j].data), p)
      BY <2>3, <3>2 DEF new
    <3>5. /\ Len(new) = run[s].pos + Len(p)
          /\ Down(new, d, owed[j])
          /\ Len(p) < Batch => \A e \in owed[j] : \E i \in 1..Len(new) : new[i] = e
      <4> DEFINE old == file[j].data
                 c == run[s].cursor
                 owe == owed[j]
      <4>1. old \in Seq(Event \cup {Hole}) /\ c \in Event \cup {0} /\ owe \in SUBSET rows /\ Down(old, c, owe)
            /\ rows \in SUBSET Event
        BY <1>0, <3>2, <3>3
      <4>2. p = PageOf(rows, c) /\ d = IF p = <<>> THEN c ELSE Last(p)
        BY DEF p, d
      <4>3. new = Written(old, Len(old), p) /\ Len(old) = run[s].pos
        BY <3>2, <3>4
      <4> HIDE DEF old, c, owe
      <4>5. /\ Len(new) = Len(old) + Len(p)
            /\ Down(new, d, owe)
            /\ Len(p) < Batch => \A e \in owe : \E i \in 1..Len(new) : new[i] = e
        <5>1. Extends(rows, old, c, owe)
          BY <4>1, PageExtends
        <5> QED
          BY <4>2, <4>3, <5>1 DEF Extends
      <4> QED
        BY <4>3, <4>5 DEF owe
    <3>6. file'[j] = f
      BY <1>0, <2>e, <2>3, <3>2
    <3>7. Paged(s, j)'
      <4>1. file'[j].there /\ file'[j].data = new /\ run'[s].cursor = d /\ run'[s].pos = Len(new) /\ owed'[j] = owed[j]
        BY <2>0, <2>1, <2>f, <2>w, <3>5, <3>6
      <4>2. run'[s].pc = "finish" => Len(p) < Batch
        BY <2>1, <2>w
      <4>3. Down(file'[j].data, run'[s].cursor, owed'[j])
        BY <3>5, <4>1
      <4>4. Down(file[j].data, run[s].cursor, owed[j])'
        BY <4>3 DEF Down
      <4> QED
        BY <3>5, <4>1, <4>2, <4>4 DEF Paged
    <3>8. \A t \in Slot : run'[t].pc # "idle" /\ run'[t].job = j => t = s
      BY <2>1, <3>1
    <3>9. Paging(j)'
      BY <3>7, <3>8 DEF Paging, Holds
    <3>10. Finished(j)'
      BY <2>0, <3>1 DEF Finished, Downloadable
    <3> QED
      BY <3>9, <3>10
  <2> QED
    BY <2>2, <2>3
<1>18. ASSUME NEW e \in Event, Insert(e) PROVE Paging(j)' /\ Finished(j)'
  BY <1>a, <1>18 DEF Insert, Downloadable
<1>19. CASE PruneEvents
  <2>1. owed'[j] \subseteq owed[j] /\ UNCHANGED <<job, file, run, getter>>
    BY <1>19 DEF PruneEvents
  <2> QED
    BY <1>a, <2>1 DEF Downloadable
<1>20. CASE UnlinkExpired
  <2>1. CASE j \in keeper.expired
    BY <1>u, <1>20, <2>1, IdleType DEF UnlinkExpired, Kept
  <2>2. CASE j \notin keeper.expired
    BY <1>a, <1>20, <2>2 DEF UnlinkExpired, Downloadable
  <2> QED
    BY <2>1, <2>2
<1>21. CASE Sweep
  <2>1. CASE j \in Orphans(keeper)
    <3>1. job[j].status = "deleted"
      BY <1>21, <2>1 DEF Sweep, Orphans, Kept
    <3> QED
      BY <1>u, <1>21, <2>1, <3>1, IdleType DEF Sweep
  <2>2. CASE j \notin Orphans(keeper)
    BY <1>a, <1>21, <2>2 DEF Sweep, Downloadable
  <2> QED
    BY <2>1, <2>2
<1>22. CASE DeleteExpired
  <2>1. Downloadable(j)' => job'[j] = job[j]
    BY <1>22 DEF DeleteExpired, NoJob, Downloadable
  <2> QED
    BY <1>a, <1>22, <2>1 DEF DeleteExpired, Downloadable
<1>23. CASE FindExpired \/ UnlinkFails \/ ListFiles \/ ReadKnown
  BY <1>a, <1>23 DEF FindExpired, UnlinkFails, ListFiles, ReadKnown, Downloadable
<1>24. CASE UNCHANGED vars
  BY <1>a, <1>24 DEF vars, Downloadable
<1> QED
  BY <1>2, <1>3, <1>4, <1>5, <1>6, <1>7, <1>10, <1>11, <1>12, <1>121, <1>13, <1>14, <1>15, <1>16, <1>17, <1>18,
     <1>19, <1>20, <1>21, <1>22, <1>23, <1>24 DEF Next, Process, Retention

\* An export that says DONE and has not expired has its file, whole, in order
\* and as long as rowCount says, and a download that has passed the test of the
\* row sends such a file or none: for any number of rows, pages, slots, attempts
\* and faults, unless two slots have worked on the job at once.
THEOREM FinishedFilesAreComplete == Spec => []FinishedIsComplete
<1>1. Init => FileInv
  <2> SUFFICES ASSUME Init PROVE FileInv
    OBVIOUS
  <2>1. /\ \A s \in Slot : run[s].pc = "idle"
        /\ \A j \in Job : job[j].status = "none" /\ ~job[j].expired /\ ~job[j].dated /\ ~file[j].there /\ owed[j] = {}
        /\ keeper.expired = {} /\ keeper.dir = {} /\ getter.pc = "idle"
    BY IdleType DEF Init, NoJob, Rest
  <2>2. TypeOK /\ QueueInv
    BY TypeInit
  <2>3. StartInv
    BY <2>1 DEF StartInv
  <2>4. ASSUME NEW j \in Job PROVE Alone(j) /\ Kept(j) /\ Paging(j) /\ Finished(j)
    BY <2>1 DEF Alone, Kept, Paging, Finished, Downloadable, Holds
  <2> QED
    BY <2>2, <2>3, <2>4 DEF FileInv
<1>2. FileInv /\ [Next]_vars => FileInv'
  <2> SUFFICES ASSUME FileInv, [Next]_vars PROVE FileInv'
    OBVIOUS
  <2>1. TypeOK' /\ QueueInv' /\ StartInv'
    BY TypeStep, QueueStep, StartStep DEF FileInv
  <2>2. ASSUME NEW j \in Job, j \notin doubled' PROVE (Alone(j) /\ Kept(j) /\ Paging(j) /\ Finished(j))'
    <3>1. Alone(j) /\ Kept(j) /\ Paging(j) /\ Finished(j) /\ TypeOK /\ StartInv
      BY <2>2, DoubledGrows DEF FileInv
    <3>2. Alone(j)'
      BY <2>2, <3>1, AloneStep
    <3>3. Kept(j)'
      BY <2>2, <3>1, KeptStep
    <3>4. Paging(j)' /\ Finished(j)'
      BY <2>2, <3>1, DataStep
    <3> QED
      BY <3>2, <3>3, <3>4
  <2> QED
    BY <2>1, <2>2 DEF FileInv
<1>3. FileInv => FinishedIsComplete
  BY DEF FileInv, Finished, FinishedIsComplete, Downloadable
<1> QED
  BY <1>1, <1>2, <1>3, PTL DEF Spec

=============================================================================
