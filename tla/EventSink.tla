----------------------------- MODULE EventSink -----------------------------
(***************************************************************************)
(* The gateway's RedisStreamSink (apps/gateway/src/sink.ts): emit starts an *)
(* XADD off the response path; a refused XADD puts its event in a bounded   *)
(* retry buffer that one flush loop empties; beyond the bound events are    *)
(* dropped and counted.  The Redis client is created with                   *)
(* maxRetriesPerRequest null (packages/queue), so a lost connection rejects *)
(* nothing: commands wait in the client and are sent again afterwards.      *)
(***************************************************************************)
EXTENDS Naturals, Sequences, FiniteSets

CONSTANTS
  Event,      \* usage events
  MaxBuffer,  \* bound of the retry buffer
  Faults,     \* the faults that may happen
  MaxFaults   \* how many of them

ASSUME BoundAssumption == MaxBuffer \in Nat \ {0} /\ MaxFaults \in Nat

ASSUME FaultsAssumption == Faults \subseteq {"refuse", "disconnect", "reply_lost", "exit"}

VARIABLES
  emitted,   \* events the request handlers have emitted
  inflight,  \* events whose first XADD has not been answered
  buffer,    \* the retry buffer
  flusher,   \* the flush loop: not running, awaiting an XADD, or sleeping
  dropped,   \* the loss counter
  stream,    \* how many entries of the stream hold each event
  mode,      \* Redis answers, refuses writes, or cannot be reached
  proc,      \* the gateway process
  budget,    \* faults that may still happen
  lostReplies \* history: how often Redis ran an XADD of the event and the answer was lost

vars == <<emitted, inflight, buffer, flusher, dropped, stream, mode, proc, budget, lostReplies>>

Init ==
  /\ emitted = {}
  /\ inflight = {}
  /\ buffer = <<>>
  /\ flusher = "idle"
  /\ dropped = 0
  /\ stream = [e \in Event |-> 0]
  /\ mode = "ok"
  /\ proc = "up"
  /\ budget = MaxFaults
  /\ lostReplies = [e \in Event |-> 0]

Fault(f) == /\ f \in Faults
            /\ budget > 0
            /\ budget' = budget - 1

Buffered == {buffer[i] : i \in DOMAIN buffer}

\* emit: publishUsageEvent is started and not awaited.
Emit(e) ==
  /\ proc = "up"
  /\ e \notin emitted
  /\ emitted' = emitted \cup {e}
  /\ inflight' = inflight \cup {e}
  /\ UNCHANGED <<buffer, flusher, dropped, stream, mode, proc, budget, lostReplies>>

PublishAccepted(e) ==
  /\ mode = "ok"
  /\ e \in inflight
  /\ inflight' = inflight \ {e}
  /\ stream' = [stream EXCEPT ![e] = @ + 1]
  /\ UNCHANGED <<emitted, buffer, flusher, dropped, mode, proc, budget, lostReplies>>

\* Faulty variants: no count, no flush loop.
BufferEventUncounted(e) ==
  IF Len(buffer) >= MaxBuffer
  THEN UNCHANGED <<buffer, flusher, dropped>>
  ELSE /\ buffer' = Append(buffer, e)
       /\ flusher' = IF flusher = "idle" THEN "publish" ELSE flusher
       /\ UNCHANGED dropped

BufferEventUnflushed(e) ==
  IF Len(buffer) >= MaxBuffer
  THEN dropped' = dropped + 1 /\ UNCHANGED <<buffer, flusher>>
  ELSE buffer' = Append(buffer, e) /\ UNCHANGED <<flusher, dropped>>

\* bufferEvent: count a loss when the buffer is full, else keep the event and
\* see that the flush loop runs.
BufferEvent(e) ==
  IF Len(buffer) >= MaxBuffer
  THEN /\ dropped' = dropped + 1
       /\ UNCHANGED <<buffer, flusher>>
  ELSE /\ buffer' = Append(buffer, e)
       /\ flusher' = IF flusher = "idle" THEN "publish" ELSE flusher
       /\ UNCHANGED dropped

\* The catch of emit: the XADD was refused.
PublishRefused(e) ==
  /\ mode = "refusing"
  /\ e \in inflight
  /\ inflight' = inflight \ {e}
  /\ BufferEvent(e)
  /\ UNCHANGED <<emitted, stream, mode, proc, budget, lostReplies>>

\* flushLoop: the head goes out and is shifted; the loop ends when the buffer
\* is empty.
FlushAccepted ==
  /\ mode = "ok"
  /\ flusher = "publish"
  /\ stream' = [stream EXCEPT ![Head(buffer)] = @ + 1]
  /\ buffer' = Tail(buffer)
  /\ flusher' = IF Len(buffer) > 1 THEN "publish" ELSE "idle"
  /\ UNCHANGED <<emitted, inflight, dropped, mode, proc, budget, lostReplies>>

\* Faulty variant: the event that is refused again is also appended again.
FlushRefusedAppended ==
  /\ mode = "refusing"
  /\ flusher = "publish"
  /\ flusher' = "sleep"
  /\ buffer' = IF Len(buffer) >= MaxBuffer THEN buffer ELSE Append(buffer, Head(buffer))
  /\ UNCHANGED <<emitted, inflight, dropped, stream, mode, proc, budget, lostReplies>>

FlushRefused ==
  /\ mode = "refusing"
  /\ flusher = "publish"
  /\ flusher' = "sleep"
  /\ UNCHANGED <<emitted, inflight, buffer, dropped, stream, mode, proc, budget, lostReplies>>

\* Faulty variant: the loop only resumes when another event was dropped.
FlushAgainOnLoss ==
  /\ flusher = "sleep"
  /\ dropped > 0
  /\ flusher' = "publish"
  /\ UNCHANGED <<emitted, inflight, buffer, dropped, stream, mode, proc, budget, lostReplies>>

\* One second later the loop tries the head again.
FlushAgain ==
  /\ flusher = "sleep"
  /\ flusher' = "publish"
  /\ UNCHANGED <<emitted, inflight, buffer, dropped, stream, mode, proc, budget, lostReplies>>

---------------------------------------------------------------------------
(* Redis and the process *)

\* Writes are refused (maxmemory with noeviction, loading, read-only replica).
Refuse ==
  /\ Fault("refuse")
  /\ mode' = "refusing"
  /\ UNCHANGED <<emitted, inflight, buffer, flusher, dropped, stream, proc, lostReplies>>

Disconnect ==
  /\ Fault("disconnect")
  /\ mode' = "down"
  /\ UNCHANGED <<emitted, inflight, buffer, flusher, dropped, stream, proc, lostReplies>>

\* The events whose XADD the client has not been answered.
Unanswered == inflight \cup (IF flusher = "publish" THEN {Head(buffer)} ELSE {})

\* The connection drops after Redis ran some of the XADDs and before the
\* answers: the client will send those commands again.
ReplyLost ==
  /\ Fault("reply_lost")
  /\ mode = "ok"
  /\ \E S \in SUBSET Unanswered \ {{}} :
       /\ stream' = [e \in Event |-> IF e \in S THEN stream[e] + 1 ELSE stream[e]]
       /\ lostReplies' = [e \in Event |-> IF e \in S THEN lostReplies[e] + 1 ELSE lostReplies[e]]
  /\ mode' = "down"
  /\ UNCHANGED <<emitted, inflight, buffer, flusher, dropped, proc>>

Recover ==
  /\ mode # "ok"
  /\ mode' = "ok"
  /\ UNCHANGED <<emitted, inflight, buffer, flusher, dropped, stream, proc, budget, lostReplies>>

\* SIGTERM: app.close(), redis.disconnect(), process.exit(0).  What is in
\* memory goes with the process.
Shutdown ==
  /\ Fault("exit")
  /\ proc = "up"
  /\ proc' = "exited"
  /\ inflight' = {}
  /\ buffer' = <<>>
  /\ flusher' = "idle"
  /\ UNCHANGED <<emitted, dropped, stream, mode, lostReplies>>

---------------------------------------------------------------------------
Next ==
  \/ \E e \in Event : Emit(e) \/ PublishAccepted(e) \/ PublishRefused(e)
  \/ FlushAccepted \/ FlushRefused \/ FlushAgain
  \/ Refuse \/ Disconnect \/ ReplyLost \/ Recover
  \/ Shutdown

Spec == Init /\ [][Next]_vars

\* Redis answers commands and comes back after an outage; the event loop runs
\* the continuations and the timer.
Fairness ==
  /\ \A e \in Event : WF_vars(PublishAccepted(e) \/ PublishRefused(e))
  /\ WF_vars(FlushAccepted \/ FlushRefused)
  /\ WF_vars(FlushAgain)
  /\ WF_vars(Recover)

FairSpec == Spec /\ Fairness

---------------------------------------------------------------------------
(* Properties *)

\* Every variable keeps its type; the flush loop awaits an XADD, sleeps or
\* has ended, and never dies half way.
TypeOK ==
  /\ emitted \subseteq Event
  /\ inflight \subseteq Event
  /\ buffer \in Seq(Event)
  /\ flusher \in {"idle", "publish", "sleep"}
  /\ dropped \in Nat
  /\ stream \in [Event -> Nat]
  /\ mode \in {"ok", "refusing", "down"}
  /\ proc \in {"up", "exited"}
  /\ budget \in Nat
  /\ lostReplies \in [Event -> Nat]

\* Events that are neither in the stream nor on their way there.
Lost == {e \in emitted : e \notin inflight \cup Buffered /\ stream[e] = 0}

\* Every loss is counted (comment of RedisStreamSink) while the process lives:
\* the counter is never below the number of emitted events that are gone.  It
\* can be above it, when an XADD whose answer was lost is refused the second
\* time.  A shutdown discards what is in memory and counts nothing.
EveryLossCounted == proc = "up" => Cardinality(Lost) <= dropped

\* The flag flushing agrees with the retry buffer through refusals, retries,
\* reconnections and shutdown: the buffer is never left without a loop that
\* empties it, and no loop holds the flag with nothing left to send.
FlusherRuns == (flusher # "idle") <=> (buffer # <<>>)

\* The copies of e that are still to be sent: the first XADD or slots of the
\* buffer.
Waiting(e) ==
  Cardinality({i \in DOMAIN buffer : buffer[i] = e}) + (IF e \in inflight THEN 1 ELSE 0)

\* An event is handed from the first XADD to the buffer and never kept by
\* both, and the sink itself never duplicates one: each entry in the stream
\* beyond the first, present or still to come, stands for an answer to an XADD
\* of that very event that was lost.
NoDuplicates ==
  \A e \in Event : /\ Waiting(e) <= 1
                    /\ Waiting(e) + stream[e] <= 1 + lostReplies[e]

\* An emitted event reaches the stream or is counted as lost.
EmittedIsSettled ==
  \A e \in Event : (e \in emitted) ~> (stream[e] > 0 \/ e \in Lost)
=============================================================================
