--------------------------- MODULE GatewayRequest ---------------------------
(***************************************************************************)
(* Requests through the gateways (apps/gateway/src/proxy): both handlers,   *)
(* /gw/{provider}/* and /gw/v1/chat/completions, go through the same        *)
(* stages: key, allowlists, rate limit, credential, upstream, response; and *)
(* an EventFinalizer emits the usage event.  RedisRateLimiter counts the    *)
(* requests of a key in fixed windows, shared by all gateways; one key is   *)
(* followed here.  Time is counted in windows.                              *)
(***************************************************************************)
EXTENDS Naturals, FiniteSets

CONSTANTS
  Request,    \* requests made with the key
  RpmLimit,   \* its rpmLimit
  KeyTTL,     \* EXPIRE of a window's counter, in windows
  MaxWindow,  \* the last window
  Faults      \* what may fail

ASSUME GatewayAssumption ==
  /\ RpmLimit \in Nat \ {0}
  /\ KeyTTL \in Nat \ {0}
  /\ MaxWindow \in Nat
  /\ Faults \subseteq {"refuse", "disconnect", "upstream", "body"}

VARIABLES
  pc,        \* the stage each request is in
  window,    \* the window its limiter check belongs to
  counted,   \* the counter let the request through
  answered,  \* the status of the provider's answer, "none" without one
  event,     \* the status of its usage event, "none" before finalize
  counter,   \* Redis: rl:vk:<id>:<window>, with 0 for no time to live
  now,       \* the current window
  mode,      \* Redis answers, refuses commands, or cannot be reached
  late       \* history: windows for which an INCR ran KeyTTL or more windows later

redis == <<counter, now, mode, late>>
vars  == <<pc, window, counted, answered, event, redis>>

Window == 0..MaxWindow
Stage  == {"new", "lookup", "cached", "incr", "expire", "credential", "upstream",
           "stream", "body", "done"}
Status == {"none", "OK", "PROVIDER_ERROR", "BLOCKED_RATELIMIT"}

NoCounter == [n |-> 0, ttl |-> 0]

Init ==
  /\ pc = [r \in Request |-> "new"]
  /\ window = [r \in Request |-> 0]
  /\ counted = [r \in Request |-> FALSE]
  /\ answered = [r \in Request |-> "none"]
  /\ event = [r \in Request |-> "none"]
  /\ counter = [w \in Window |-> NoCounter]
  /\ now = 0
  /\ mode = "ok"
  /\ late = {}

Goto(r, stage) == pc' = [pc EXCEPT ![r] = stage]

\* EventFinalizer.finalize: the first call emits the event, later ones nothing.
Finalize(r, status) ==
  event' = [event EXCEPT ![r] = IF @ = "none" THEN status ELSE @]

StatusOf(answer) == IF answer = "error" THEN "PROVIDER_ERROR" ELSE "OK"

---------------------------------------------------------------------------
(* Key and allowlists *)

\* A request with a key comes in; its context is in the gateway's memory, or
\* has to be looked up.
Arrive(r) ==
  /\ pc[r] = "new"
  /\ Goto(r, "cached") \/ Goto(r, "lookup")
  /\ UNCHANGED <<window, counted, answered, event, redis>>

\* keyStore.resolve returns, from memory or by way of Redis, which it waits
\* for; a key with a limit goes to the limiter, which takes the time now.
Resolved(r) == pc[r] = "cached" \/ (pc[r] = "lookup" /\ mode # "down")

Authorize(r) ==
  /\ Resolved(r)
  /\ \/ Goto(r, "incr") /\ window' = [window EXCEPT ![r] = now]
     \/ Goto(r, "credential") /\ UNCHANGED window
  /\ UNCHANGED <<counted, answered, event, redis>>

\* Unknown, revoked or expired key, provider or model not allowed, a body that
\* cannot be read: an error and no event.
Refuse(r) ==
  /\ Resolved(r)
  /\ Goto(r, "done")
  /\ UNCHANGED <<window, counted, answered, event, redis>>

---------------------------------------------------------------------------
(* RedisRateLimiter.check *)

\* Faulty variant: the 429 is recorded and never sent.
DecideUnanswered(r, n) ==
  IF n <= RpmLimit
  THEN /\ counted' = [counted EXCEPT ![r] = TRUE]
       /\ Goto(r, "credential")
       /\ UNCHANGED event
  ELSE /\ Finalize(r, "BLOCKED_RATELIMIT")
       /\ Goto(r, "blocked")
       /\ UNCHANGED counted

\* Allowed: go on.  Not allowed: 429, recorded as BLOCKED_RATELIMIT.
Decide(r, n) ==
  IF n <= RpmLimit
  THEN /\ counted' = [counted EXCEPT ![r] = TRUE]
       /\ Goto(r, "credential")
       /\ UNCHANGED event
  ELSE /\ Finalize(r, "BLOCKED_RATELIMIT")
       /\ Goto(r, "done")
       /\ UNCHANGED counted

\* INCR rl:vk:<id>:<window>; the request that starts the counter goes on to
\* set its time to live.
LimiterIncr(r) ==
  LET n == counter[window[r]].n + 1
  IN  /\ pc[r] = "incr"
      /\ mode = "ok"
      /\ counter' = [counter EXCEPT ![window[r]].n = n]
      /\ IF n = 1 THEN Goto(r, "expire") /\ UNCHANGED <<counted, event>>
                  ELSE Decide(r, n)
      /\ late' = IF now < window[r] + KeyTTL THEN late ELSE late \cup {window[r]}
      /\ UNCHANGED <<window, answered, now, mode>>

\* Faulty variant: the counter lives for one window less.
LimiterExpireShort(r) ==
  /\ pc[r] = "expire"
  /\ mode = "ok"
  /\ counter' = [counter EXCEPT ![window[r]].ttl = KeyTTL - 1]
  /\ Decide(r, 1)
  /\ UNCHANGED <<window, answered, now, mode, late>>

LimiterExpire(r) ==
  /\ pc[r] = "expire"
  /\ mode = "ok"
  /\ counter' = [counter EXCEPT ![window[r]].ttl =
                   IF counter[window[r]].n = 0 THEN 0 ELSE KeyTTL]
  /\ Decide(r, 1)
  /\ UNCHANGED <<window, answered, now, mode, late>>

\* A refused command: the catch block lets the request through.
LimiterFailsOpen(r) ==
  /\ pc[r] \in {"incr", "expire"}
  /\ mode = "refusing"
  /\ Goto(r, "credential")
  /\ counted' = [counted EXCEPT ![r] = pc[r] = "expire"]
  /\ UNCHANGED <<window, answered, event, redis>>

---------------------------------------------------------------------------
(* Credential, upstream and response *)

\* getDefault finds an active credential, or none, or throws: 404, no event.
FindCredential(r) ==
  /\ pc[r] = "credential"
  /\ Goto(r, "upstream") \/ Goto(r, "done")
  /\ UNCHANGED <<window, counted, answered, event, redis>>

\* The provider's headers arrive: a stream is piped through, anything else and
\* every error is buffered.
UpstreamAnswers(r) ==
  /\ pc[r] = "upstream"
  /\ \/ Goto(r, "stream") /\ answered' = [answered EXCEPT ![r] = "ok"]
     \/ Goto(r, "body") /\ \E a \in {"ok", "error"} : answered' = [answered EXCEPT ![r] = a]
  /\ UNCHANGED <<window, counted, event, redis>>

\* Unreachable, or no headers within headersTimeout: 502.
UpstreamFails(r) ==
  /\ "upstream" \in Faults
  /\ pc[r] = "upstream"
  /\ Finalize(r, "PROVIDER_ERROR")
  /\ Goto(r, "done")
  /\ UNCHANGED <<window, counted, answered, redis>>

\* The callback of the stream pipeline: the stream ended, the client went away
\* or the provider dropped it; the usage so far is recorded in each case.
StreamEnds(r) ==
  /\ pc[r] = "stream"
  /\ Finalize(r, "OK")
  /\ Goto(r, "done")
  /\ UNCHANGED <<window, counted, answered, redis>>

\* readAll has the whole body: record, then send.
BodyEnds(r) ==
  /\ pc[r] = "body"
  /\ Finalize(r, StatusOf(answered[r]))
  /\ Goto(r, "done")
  /\ UNCHANGED <<window, counted, answered, redis>>

\* readAll throws (provider drops, bodyTimeout, body too large): the handler
\* ends with an error and records nothing.
BodyFails(r) ==
  /\ "body" \in Faults
  /\ pc[r] = "body"
  /\ Goto(r, "done")
  /\ UNCHANGED <<window, counted, answered, event, redis>>

---------------------------------------------------------------------------
(* Redis and time *)

RedisRefuses ==
  /\ "refuse" \in Faults
  /\ mode' = "refusing"
  /\ UNCHANGED <<pc, window, counted, answered, event, counter, now, late>>

\* The connection is lost: commands wait in the client (maxRetriesPerRequest
\* null) and are sent when it is back.
RedisDisconnects ==
  /\ "disconnect" \in Faults
  /\ mode' = "down"
  /\ UNCHANGED <<pc, window, counted, answered, event, counter, now, late>>

RedisRecovers ==
  /\ mode # "ok"
  /\ mode' = "ok"
  /\ UNCHANGED <<pc, window, counted, answered, event, counter, now, late>>

Aged(c) == IF c.ttl = 1 THEN NoCounter
           ELSE IF c.ttl > 1 THEN [c EXCEPT !.ttl = @ - 1] ELSE c

\* The next window begins, whoever is still waiting for a command of an earlier
\* one; counters whose time is up go.
Tick ==
  /\ now < MaxWindow
  /\ now' = now + 1
  /\ counter' = [w \in Window |-> Aged(counter[w])]
  /\ UNCHANGED <<pc, window, counted, answered, event, mode, late>>

---------------------------------------------------------------------------
Next ==
  \/ \E r \in Request :
       \/ Arrive(r) \/ Authorize(r) \/ Refuse(r)
       \/ LimiterIncr(r) \/ LimiterExpire(r) \/ LimiterFailsOpen(r)
       \/ FindCredential(r)
       \/ UpstreamAnswers(r) \/ UpstreamFails(r)
       \/ StreamEnds(r) \/ BodyEnds(r) \/ BodyFails(r)
  \/ RedisRefuses \/ RedisDisconnects \/ RedisRecovers
  \/ Tick

Spec == Init /\ [][Next]_vars

\* The event loop runs every handler that can go on, and commands that wait
\* for Redis are sent whenever the connection is back; providers answer or run
\* into headersTimeout and bodyTimeout.  Clients owe nothing.
Handlers ==
  \A r \in Request :
    SF_vars(\/ Authorize(r) \/ Refuse(r)
            \/ LimiterIncr(r) \/ LimiterExpire(r) \/ LimiterFailsOpen(r)
            \/ FindCredential(r)
            \/ UpstreamAnswers(r) \/ UpstreamFails(r)
            \/ StreamEnds(r) \/ BodyEnds(r) \/ BodyFails(r))

\* Outages of Redis end.
Fairness == Handlers /\ WF_vars(RedisRecovers)

FairSpec == Spec /\ Fairness

---------------------------------------------------------------------------
(* Properties *)

\* Every variable keeps its type.
TypeOK ==
  /\ pc \in [Request -> Stage]
  /\ window \in [Request -> Window]
  /\ counted \in [Request -> BOOLEAN]
  /\ answered \in [Request -> {"none", "ok", "error"}]
  /\ event \in [Request -> Status]
  /\ counter \in [Window -> [n : Nat, ttl : 0..KeyTTL]]
  /\ now \in Window
  /\ mode \in {"ok", "refusing", "down"}
  /\ late \subseteq Window

\* In each window the counter lets at most rpmLimit requests of the key
\* through, however INCR and EXPIRE of several gateways interleave, lag behind
\* the window they count for, or fail half way.  Windows in late are excepted:
\* an INCR that waited in the client for the life of a counter (an outage) finds
\* the counter expired and starts another one.  A shorter wait does no harm, and
\* neither does an EXPIRE of any age.
AllowedPerWindow ==
  \A w \in Window \ late : Cardinality({r \in Request : counted[r] /\ window[r] = w}) <= RpmLimit

\* Every request is answered in the end when outages of Redis pass, and what is
\* streamed is recorded, aborted streams included.
RequestsAreAnswered ==
  \A r \in Request : /\ (pc[r] # "new") ~> (pc[r] = "done")
                     /\ (pc[r] = "stream") ~> (event[r] # "none")
=============================================================================
