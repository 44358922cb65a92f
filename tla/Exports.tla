------------------------------- MODULE Exports -------------------------------
(***************************************************************************)
(* CSV exports.  The API writes a row and queues a job                       *)
(* (apps/api/src/modules/exports.ts); a worker slot runs runExportJob, which *)
(* pages through usage_event into a file and then finishes the row           *)
(* (apps/worker/src/jobs/export-csv.ts); the daily retention job deletes old *)
(* events, expired exports and orphaned files (jobs/retention.ts); the       *)
(* console polls and downloads.  BullMQ runs a job again when an attempt     *)
(* throws and when the lock of the slot that has it lapses, which it does    *)
(* when the process dies and also when a live process is merely late.        *)
(***************************************************************************)
EXTENDS Integers, FiniteSets, Sequences, SequencesExt

CONSTANTS
  Job,         \* export jobs: id of the row, of the queue entry and of the file
  Slot,        \* slots of the export workers (concurrency of createWorker)
  Event,       \* usage events, as integers in the order (occurredAt, id)
  Old,         \* the events past the retention window
  Batch,       \* BATCH, rows of a page
  Attempts,    \* attempts of a queue entry
  MaxStalled,  \* how often BullMQ takes a stalled entry back (its default is 1)
  Faults,      \* which faults happen, of "crash", "stall", "error", "unlink"
  MaxFaults    \* how many faults happen

ASSUME ExportsAssumption ==
  /\ Job # {}
  /\ Event \subseteq Nat \ {0} /\ IsFiniteSet(Event)
  /\ Old \subseteq Event
  /\ Batch \in Nat \ {0}
  /\ Attempts \in Nat \ {0}
  /\ MaxStalled \in Nat
  /\ MaxFaults \in Nat

VARIABLES
  rows,     \* usage_event: the events that match the filters of the exports
  job,      \* rows of export_job; dated: with expiresAt, expired: with one that is past
  queue,    \* entries of the export queue
  posting,  \* jobs whose POST has written the row and not yet queued the job
  file,     \* files of the exports directory, and whether older than a day
  run,      \* what each slot is doing; unheard is history: it committed DONE and
            \* the answer was lost
  keeper,   \* where the retention job is, and what it has read
  getter,   \* one download: whether it has seen the row, and its job
  owed,     \* history: rows there when the file was opened and not pruned since
  doubled,  \* history: jobs that two slots have worked on at the same time
  faults    \* faults left

vars == <<rows, job, queue, posting, file, run, keeper, getter, owed, doubled, faults>>

Hole   == 0                       \* bytes that nobody wrote
NoFile == [there |-> FALSE, old |-> FALSE, data |-> <<>>]
NoJob  == [status |-> "none", dated |-> FALSE, expired |-> FALSE, rowCount |-> 0]
Idle   == [pc |-> "idle", job |-> CHOOSE j \in Job : TRUE, lock |-> FALSE,
           cursor |-> 0, pos |-> 0, unheard |-> FALSE]
Rest   == [pc |-> "idle", expired |-> {}, dir |-> {}, known |-> {}]

Init ==
  /\ rows \in SUBSET Event
  /\ job = [j \in Job |-> NoJob]
  /\ queue = [j \in Job |-> [state |-> "none", tries |-> 0, stalls |-> 0]]
  /\ posting = {}
  /\ file = [j \in Job |-> NoFile]
  /\ run = [s \in Slot |-> Idle]
  /\ keeper = Rest
  /\ getter = [pc |-> "idle", job |-> CHOOSE j \in Job : TRUE]
  /\ owed = [j \in Job |-> {}]
  /\ doubled = {}
  /\ faults = MaxFaults

Exists(j)  == job[j].status \notin {"none", "deleted"}
Settled(j) == job[j].status \in {"DONE", "FAILED"}
Holds(s, j) == run[s].pc # "idle" /\ run[s].job = j

Fault(kind) ==
  /\ kind \in Faults
  /\ faults > 0
  /\ faults' = faults - 1

---------------------------------------------------------------------------
(* The API *)

\* POST /exports: the row is written with status PENDING ...
Create(j) ==
  /\ job[j].status = "none"
  /\ job' = [job EXCEPT ![j].status = "PENDING"]
  /\ posting' = posting \cup {j}
  /\ UNCHANGED <<rows, queue, file, run, keeper, getter, owed, doubled, faults>>

\* ... and then the job is queued under the id of the row.
Enqueue(j) ==
  /\ j \in posting
  /\ posting' = posting \ {j}
  /\ queue' = [queue EXCEPT ![j].state = "waiting"]
  /\ UNCHANGED <<rows, job, file, run, keeper, getter, owed, doubled, faults>>

\* The API dies in between: the row stays.
EnqueueLost(j) ==
  /\ Fault("crash")
  /\ j \in posting
  /\ posting' = posting \ {j}
  /\ UNCHANGED <<rows, job, queue, file, run, keeper, getter, owed, doubled>>

Downloadable(j) == job[j].status = "DONE" /\ ~job[j].expired

\* GET /exports/:id/download: the row must be finished and not expired ...
DownloadFind(j) ==
  /\ getter.pc = "idle"
  /\ Downloadable(j)
  /\ getter' = [pc |-> "open", job |-> j]
  /\ UNCHANGED <<rows, job, queue, posting, file, run, keeper, owed, doubled, faults>>

\* ... and the file is opened and sent, or the answer is 404.
DownloadOpen ==
  /\ getter.pc = "open"
  /\ getter' = [getter EXCEPT !.pc = "idle"]
  /\ UNCHANGED <<rows, job, queue, posting, file, run, keeper, owed, doubled, faults>>

---------------------------------------------------------------------------
(* The queue and runExportJob *)

\* A free slot takes a waiting job.
Take(s, j) ==
  /\ run[s].pc = "idle"
  /\ queue[j].state = "waiting"
  /\ queue' = [queue EXCEPT ![j].state = "active"]
  /\ run' = [run EXCEPT ![s] = [Idle EXCEPT !.pc = "find", !.job = j, !.lock = TRUE]]
  /\ doubled' = IF \E t \in Slot : Holds(t, j) THEN doubled \cup {j} ELSE doubled
  /\ UNCHANGED <<rows, job, posting, file, keeper, getter, owed, faults>>

Goto(s, pc) == run' = [run EXCEPT ![s].pc = pc]

\* The processor returns or throws: BullMQ completes the entry, or lets it
\* wait again while attempts are left.  Without its lock it changes nothing.
Leave(s, outcome) ==
  LET j == run[s].job
      q == queue[j]
  IN  /\ run' = [run EXCEPT ![s] = Idle]
      /\ queue' = IF ~run[s].lock THEN queue
                  ELSE [queue EXCEPT ![j] =
                          IF outcome = "return" THEN [q EXCEPT !.state = "completed"]
                          ELSE [q EXCEPT !.tries = q.tries + 1,
                                         !.state = IF q.tries + 1 < Attempts
                                                   THEN "waiting" ELSE "failed"]]

\* Faulty variant: a finished job is run once more by a retry.
LeftAloneIfGone(j) == ~Exists(j)

LeftAlone(j) == ~Exists(j) \/ Settled(j)

\* The row is read; a job that vanished or is settled is left alone.
FindJob(s) ==
  LET j == run[s].job
  IN  /\ run[s].pc = "find"
      /\ IF LeftAlone(j)
         THEN Leave(s, "return")
         ELSE Goto(s, "claim") /\ UNCHANGED queue
      /\ UNCHANGED <<rows, job, posting, file, keeper, getter, owed, doubled, faults>>

\* status := RUNNING, before the try block: a row that is gone throws.
Claim(s) ==
  LET j == run[s].job
  IN  /\ run[s].pc = "claim"
      /\ IF Exists(j)
         THEN /\ job' = [job EXCEPT ![j].status = "RUNNING"]
              /\ Goto(s, "open") /\ UNCHANGED queue
         ELSE /\ Leave(s, "throw") /\ UNCHANGED job
      /\ UNCHANGED <<rows, posting, file, keeper, getter, owed, doubled, faults>>

\* createWriteStream truncates the file; writing starts at its beginning.
Open(s) ==
  LET j == run[s].job
  IN  /\ run[s].pc = "open"
      /\ file' = [file EXCEPT ![j] = [there |-> TRUE, old |-> FALSE, data |-> <<>>]]
      /\ owed' = [owed EXCEPT ![j] = rows]
      /\ Goto(s, "page")
      /\ UNCHANGED <<rows, job, queue, posting, keeper, getter, doubled, faults>>

\* Faulty variant: the next page starts one row too far.
BelowByTwo(table, cursor) == {e \in table : cursor = 0 \/ e + 1 < cursor}

Below(table, cursor) == {e \in table : cursor = 0 \/ e < cursor}

\* How many rows of a set come before one of them, newest first.
Newer(set, e) == Cardinality({x \in set : x > e})

\* The rows of a page, newest first: the Batch newest ones below the cursor.
PageOf(table, cursor) ==
  LET below == Below(table, cursor)
      limit == IF Cardinality(below) < Batch THEN Cardinality(below) ELSE Batch
  IN  [i \in 1..limit |-> CHOOSE e \in below : Newer(below, e) = i - 1]

\* What is in a file after data is written at an offset of it.
Written(old, pos, data) ==
  LET len == IF Len(old) > pos + Len(data) THEN Len(old) ELSE pos + Len(data)
  IN  [i \in 1..len |-> IF i \in (pos + 1)..(pos + Len(data)) THEN data[i - pos]
                        ELSE IF i <= Len(old) THEN old[i] ELSE Hole]

\* writeUsageEvents: one page is read and written; a short page is the last.
\* A file that retention has unlinked keeps no name, so nothing more is seen.
WritePage(s) ==
  LET j == run[s].job
      r == run[s]
      page == PageOf(rows, r.cursor)
  IN  /\ r.pc = "page"
      /\ file' = IF ~file[j].there THEN file
                 ELSE [file EXCEPT ![j] = [there |-> TRUE, old |-> FALSE,
                                           data |-> Written(file[j].data, r.pos, page)]]
      /\ run' = [run EXCEPT ![s] = [r EXCEPT
                   !.pc = IF Len(page) < Batch THEN "finish" ELSE "page",
                   !.cursor = IF page = <<>> THEN r.cursor ELSE Last(page),
                   !.pos = r.pos + Len(page)]]
      /\ UNCHANGED <<rows, job, queue, posting, keeper, getter, owed, doubled, faults>>

\* The row after the last update: DONE, rowCount and the expiry.
DoneRow(s) == [status |-> "DONE", dated |-> TRUE, expired |-> FALSE, rowCount |-> run[s].pos]

\* The file is complete.  An update of a row that is gone throws into the catch
\* block.
Finish(s) ==
  LET j == run[s].job
  IN  /\ run[s].pc = "finish"
      /\ IF Exists(j)
         THEN /\ job' = [job EXCEPT ![j] = DoneRow(s)]
              /\ Goto(s, "return")
         ELSE /\ Goto(s, "fail") /\ UNCHANGED job
      /\ UNCHANGED <<rows, queue, posting, file, keeper, getter, owed, doubled, faults>>

\* A query, the disk or the last update fails inside the try block ...
Error(s) ==
  /\ Fault("error")
  /\ run[s].pc \in {"open", "page", "finish"}
  /\ Goto(s, "fail")
  /\ UNCHANGED <<rows, job, queue, posting, file, keeper, getter, owed, doubled>>

\* (or the last update is committed and its answer lost) ...
FinishUnheard(s) ==
  LET j == run[s].job
  IN  /\ Fault("error")
      /\ run[s].pc = "finish" /\ Exists(j)
      /\ job' = [job EXCEPT ![j] = DoneRow(s)]
      /\ run' = [run EXCEPT ![s] = [@ EXCEPT !.pc = "fail", !.unheard = TRUE]]
      /\ UNCHANGED <<rows, queue, posting, file, keeper, getter, owed, doubled>>

\* ... and the catch block records FAILED.
MarkFailed(s) ==
  LET j == run[s].job
  IN  /\ run[s].pc = "fail"
      /\ IF Exists(j)
         THEN /\ job' = [job EXCEPT ![j].status = "FAILED"]
              /\ Goto(s, "return") /\ UNCHANGED queue
         ELSE /\ Leave(s, "throw") /\ UNCHANGED job
      /\ UNCHANGED <<rows, posting, file, keeper, getter, owed, doubled, faults>>

\* The processor has settled the row and the entry is completed.
Return(s) ==
  /\ run[s].pc = "return"
  /\ Leave(s, "return")
  /\ UNCHANGED <<rows, job, posting, file, keeper, getter, owed, doubled, faults>>

\* A statement outside the try block fails: the attempt throws.
Throw(s) ==
  /\ Fault("error")
  /\ run[s].pc \in {"find", "claim", "fail"}
  /\ Leave(s, "throw")
  /\ UNCHANGED <<rows, job, posting, file, keeper, getter, owed, doubled>>

\* An update outside the try block is committed and its answer lost: the same.
ThrowUnheard(s) ==
  LET j == run[s].job
  IN  /\ Fault("error")
      /\ run[s].pc \in {"claim", "fail"} /\ Exists(j)
      /\ job' = [job EXCEPT ![j].status = IF run[s].pc = "claim" THEN "RUNNING" ELSE "FAILED"]
      /\ Leave(s, "throw")
      /\ UNCHANGED <<rows, posting, file, keeper, getter, owed, doubled>>

\* The process dies; the entry stays active without a slot.
Crash(s) ==
  /\ Fault("crash")
  /\ run[s].pc # "idle"
  /\ run' = [run EXCEPT ![s] = Idle]
  /\ UNCHANGED <<rows, job, queue, posting, file, keeper, getter, owed, doubled>>

\* A live process is late to renew its lock, and goes on regardless.
LockLapses(s) ==
  /\ Fault("stall")
  /\ run[s].pc # "idle" /\ run[s].lock
  /\ run' = [run EXCEPT ![s].lock = FALSE]
  /\ UNCHANGED <<rows, job, queue, posting, file, keeper, getter, owed, doubled>>

\* Faulty variant: a stalled entry is not run again.
StalledIsDone(q) == [q EXCEPT !.state = "completed"]

Stalled(q) == [q EXCEPT !.stalls = q.stalls + 1,
                        !.state = IF q.stalls < MaxStalled THEN "waiting" ELSE "failed"]

\* BullMQ's check for stalled entries.
TakeBack(j) ==
  /\ queue[j].state = "active"
  /\ \A s \in Slot : Holds(s, j) => ~run[s].lock
  /\ queue' = [queue EXCEPT ![j] = Stalled(@)]
  /\ UNCHANGED <<rows, job, posting, file, run, keeper, getter, owed, doubled, faults>>

---------------------------------------------------------------------------
(* Time, ingest and retention *)

\* expiresAt, 24 hours after the export finished.
Expire(j) ==
  /\ job[j].dated /\ ~job[j].expired
  /\ job' = [job EXCEPT ![j].expired = TRUE]
  /\ file' = [file EXCEPT ![j].old = file[j].there]
  /\ UNCHANGED <<rows, queue, posting, run, keeper, getter, owed, doubled, faults>>

\* Ingest commits a row, at any place in the order.
Insert(e) ==
  /\ e \notin rows \cup Old
  /\ rows' = rows \cup {e}
  /\ UNCHANGED <<job, queue, posting, file, run, keeper, getter, owed, doubled, faults>>

Keep(pc) == keeper' = [keeper EXCEPT !.pc = pc]

\* runRetention: the events past the window go first ...
PruneEvents ==
  /\ keeper.pc = "idle"
  /\ rows' = rows \ Old
  /\ owed' = [j \in Job |-> owed[j] \ Old]
  /\ Keep("find")
  /\ UNCHANGED <<job, queue, posting, file, run, getter, doubled, faults>>

\* ... then the expired exports are read ...
FindExpired ==
  /\ keeper.pc = "find"
  /\ keeper' = [keeper EXCEPT !.pc = "unlink",
                              !.expired = {j \in Job : Exists(j) /\ job[j].expired}]
  /\ UNCHANGED <<rows, job, queue, posting, file, run, getter, owed, doubled, faults>>

\* ... their files unlinked ...
UnlinkExpired ==
  /\ keeper.pc = "unlink"
  /\ file' = [j \in Job |-> IF j \in keeper.expired THEN NoFile ELSE file[j]]
  /\ Keep("delete")
  /\ UNCHANGED <<rows, job, queue, posting, run, getter, owed, doubled, faults>>

\* (an unlink that fails is ignored) ...
UnlinkFails ==
  /\ Fault("unlink")
  /\ keeper.pc = "unlink" /\ keeper.expired # {}
  /\ Keep("delete")
  /\ UNCHANGED <<rows, job, queue, posting, file, run, getter, owed, doubled>>

\* ... and their rows deleted, if they are still expired.
DeleteExpired ==
  /\ keeper.pc = "delete"
  /\ job' = [j \in Job |-> IF j \in keeper.expired /\ job[j].expired
                           THEN [NoJob EXCEPT !.status = "deleted"] ELSE job[j]]
  /\ keeper' = [keeper EXCEPT !.pc = "list", !.expired = {}]
  /\ UNCHANGED <<rows, queue, posting, file, run, getter, owed, doubled, faults>>

\* sweepOrphanFiles: the directory is listed ...
ListFiles ==
  /\ keeper.pc = "list"
  /\ keeper' = [keeper EXCEPT !.pc = "known", !.dir = {j \in Job : file[j].there}]
  /\ UNCHANGED <<rows, job, queue, posting, file, run, getter, owed, doubled, faults>>

\* ... the ids that have a row are read ...
ReadKnown ==
  /\ keeper.pc = "known"
  /\ keeper' = [keeper EXCEPT !.pc = "sweep", !.known = {j \in keeper.dir : Exists(j)}]
  /\ UNCHANGED <<rows, job, queue, posting, file, run, getter, owed, doubled, faults>>

\* Faulty variant: the test of the age is the wrong way round.
OrphansYoung(k) == {j \in k.dir \ k.known : ~file[j].old}

Orphans(k) == {j \in k.dir \ k.known : file[j].old}

\* ... and files without a row that are older than a day are removed.
Sweep ==
  /\ keeper.pc = "sweep"
  /\ file' = [j \in Job |-> IF j \in Orphans(keeper) THEN NoFile ELSE file[j]]
  /\ keeper' = Rest
  /\ UNCHANGED <<rows, job, queue, posting, run, getter, owed, doubled, faults>>

\* A day later.
Age(j) ==
  /\ file[j].there /\ ~file[j].old
  /\ \A s \in Slot : ~Holds(s, j)
  /\ file' = [file EXCEPT ![j].old = TRUE]
  /\ UNCHANGED <<rows, job, queue, posting, run, keeper, getter, owed, doubled, faults>>

---------------------------------------------------------------------------
Retention ==
  \/ PruneEvents \/ FindExpired \/ UnlinkExpired \/ DeleteExpired
  \/ ListFiles \/ ReadKnown \/ Sweep

Process(s) ==
  FindJob(s) \/ Claim(s) \/ Open(s) \/ WritePage(s) \/ Finish(s)
  \/ MarkFailed(s) \/ Return(s)

Next ==
  \/ \E j \in Job : Create(j) \/ Enqueue(j) \/ EnqueueLost(j) \/ DownloadFind(j)
  \/ DownloadOpen
  \/ \E s \in Slot, j \in Job : Take(s, j)
  \/ \E s \in Slot : \/ Process(s) \/ Error(s) \/ FinishUnheard(s)
                    \/ Throw(s) \/ ThrowUnheard(s) \/ Crash(s) \/ LockLapses(s)
  \/ \E j \in Job : TakeBack(j) \/ Expire(j) \/ Age(j)
  \/ \E e \in Event : Insert(e)
  \/ Retention \/ UnlinkFails

Spec == Init /\ [][Next]_vars

\* The API answers, slots take waiting jobs and go on, the check for stalled
\* entries and the daily retention job run, and time passes.
Fairness ==
  /\ \A j \in Job : /\ WF_vars(Enqueue(j))
                    /\ WF_vars(\E s \in Slot : Take(s, j))
                    /\ WF_vars(TakeBack(j)) /\ WF_vars(Age(j))
  /\ \A s \in Slot : WF_vars(Process(s))
  /\ WF_vars(Retention)

FairSpec == Spec /\ Fairness

---------------------------------------------------------------------------
(* Properties *)

\* Every variable keeps its type.
TypeOK ==
  /\ rows \subseteq Event
  /\ job \in [Job -> [status : {"none", "PENDING", "RUNNING", "DONE", "FAILED", "deleted"},
                      dated : BOOLEAN, expired : BOOLEAN, rowCount : Nat]]
  /\ queue \in [Job -> [state : {"none", "waiting", "active", "completed", "failed"},
                        tries : 0..Attempts, stalls : Nat]]
  /\ posting \subseteq Job
  /\ file \in [Job -> [there : BOOLEAN, old : BOOLEAN, data : Seq(Event \cup {Hole})]]
  /\ run \in [Slot -> [pc : {"idle", "find", "claim", "open", "page", "finish", "fail", "return"},
                       job : Job, lock : BOOLEAN, cursor : Event \cup {0}, pos : Nat,
                       unheard : BOOLEAN]]
  /\ keeper \in [pc : {"idle", "find", "unlink", "delete", "list", "known", "sweep"},
                 expired : SUBSET Job, dir : SUBSET Job, known : SUBSET Job]
  /\ getter \in [pc : {"idle", "open"}, job : Job]
  /\ owed \in [Job -> SUBSET Event]
  /\ doubled \subseteq Job
  /\ faults \in 0..MaxFaults

\* A file that holds the export of j: each event once, newest first, none of
\* those that were in the table all the while left out.
Complete(j, data) ==
  /\ \A i \in DOMAIN data : data[i] # Hole
  /\ \A i \in 1..(Len(data) - 1) : data[i] > data[i + 1]
  /\ owed[j] \subseteq ToSet(data)

\* An export that says DONE and has not expired has its file, complete and as
\* long as rowCount says, although the table changes while it is paged
\* through, attempts are cut short and retried, and retention runs beside it.
\* A download that passed the test of the row sends a complete file or a 404,
\* whatever retention does between the test and the opening.  Jobs that two
\* slots have worked on at once are excepted: the second one truncates the file
\* under the first.
FinishedIsComplete ==
  \A j \in Job \ doubled :
    /\ (job[j].status = "DONE" /\ ~job[j].expired) =>
         /\ file[j].there
         /\ Complete(j, file[j].data)
         /\ Len(file[j].data) = job[j].rowCount
    /\ (getter.pc = "open" /\ getter.job = j /\ file[j].there) => Complete(j, file[j].data)

\* The slot that has j committed DONE in this attempt without learning of it, and
\* is about to record that the export failed.
Disowned(j) == \E s \in Slot : Holds(s, j) /\ run[s].pc = "fail" /\ run[s].unheard

\* Settled is final: neither a retry nor a late attempt takes an export back from
\* DONE or FAILED, unless two slots have worked on it at once.  The one change
\* left is made by the attempt that settled the row itself: when the answer to
\* its DONE is lost, its catch block writes FAILED over it.
SettledIsFinal ==
  [][\A j \in Job \ doubled' :
       Settled(j) => \/ job'[j].status \in {job[j].status, "deleted"}
                     \/ Disowned(j) /\ job[j].status = "DONE" /\ job'[j].status = "FAILED"]_vars

\* What the list of exports in the console polls for (ExportsDrawer).
Polled(j) == job[j].status \in {"PENDING", "RUNNING"}

\* A queued export settles, and the console stops polling, unless BullMQ gave
\* its entry up.
ExportSettles ==
  \A j \in Job : (queue[j].state = "waiting") ~> (~Polled(j) \/ queue[j].state = "failed")

\* A file that lost its row, because its unlink failed, is removed in the end.
OrphansAreSwept ==
  \A j \in Job : (job[j].status = "deleted") ~> ~file[j].there
=============================================================================
