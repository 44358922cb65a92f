--------------------------- MODULE GatewayProofs ---------------------------
(***************************************************************************)
(* Proofs about GatewayRequest: the rate limit of a key holds in every      *)
(* window, for any number of requests through any number of gateways, any   *)
(* limit and any lag of the limiter's commands, except windows for which an *)
(* INCR came after the life of the counter.  And about Metering, for tables, conversations and streams of   *)
(* any length: an event has the best price, a conversation survives its     *)
(* translation, and neither the usage nor what the client sees depends on   *)
(* how the stream is cut, but for characters that two chunks share.         *)
(***************************************************************************)
EXTENDS Gateway, FiniteSetTheorems, WellFoundedInduction, TLAPS

Counter == [n : Nat, ttl : 0..KeyTTL]

LEMMA NoCounterType == NoCounter \in Counter /\ NoCounter.n = 0 /\ NoCounter.ttl = 0
  BY GatewayAssumption DEF NoCounter, Counter

LEMMA AgedCounter ==
  ASSUME NEW c \in Counter
  PROVE  /\ Aged(c) \in Counter
         /\ Aged(c).n = c.n \/ c.ttl = 1
         /\ Aged(c).ttl > 0 => c.ttl = Aged(c).ttl + 1
<1>0. c.ttl \in 0..KeyTTL /\ KeyTTL \in Nat
  BY GatewayAssumption DEF Counter
<1>1. CASE c.ttl = 1
  BY <1>1, NoCounterType DEF Aged
<1>2. CASE c.ttl = 0
  BY <1>0, <1>2 DEF Aged
<1>3. CASE c.ttl > 1
  <2>1. Aged(c) = [c EXCEPT !.ttl = @ - 1]
    BY <1>0, <1>3 DEF Aged
  <2> QED
    BY <1>0, <1>3, <2>1 DEF Counter
<1> QED
  BY <1>0, <1>1, <1>2, <1>3

\* What a decision of the limiter does to the request.
LEMMA DecideType ==
  ASSUME TypeOK, NEW r \in Request, NEW n \in Nat, Decide(r, n)
  PROVE  /\ pc' \in [Request -> Stage] /\ counted' \in [Request -> BOOLEAN]
         /\ event' \in [Request -> Status]
         /\ pc' = [pc EXCEPT ![r] = pc'[r]] /\ pc'[r] \in {"credential", "done"}
         /\ \/ n <= RpmLimit /\ counted' = [counted EXCEPT ![r] = TRUE]
            \/ ~(n <= RpmLimit) /\ counted' = counted
<1>1. CASE n <= RpmLimit
  BY <1>1 DEF TypeOK, Decide, Goto, Stage
<1>2. CASE ~(n <= RpmLimit)
  <2>1. event' \in [Request -> Status]
    BY <1>2 DEF TypeOK, Decide, Finalize, Status
  <2> QED
    BY <1>2, <2>1 DEF TypeOK, Decide, Goto, Stage
<1> QED
  BY <1>1, <1>2

---------------------------------------------------------------------------
(* Type correctness *)

LEMMA GatewayTypeStep ==
  ASSUME TypeOK, [Next]_vars
  PROVE  TypeOK'
<1>0. counter \in [Window -> Counter]
  BY DEF TypeOK, Counter
<1>1. ASSUME NEW r \in Request, Arrive(r) \/ Authorize(r) \/ Refuse(r) \/ FindCredential(r) PROVE TypeOK'
  <2>1. CASE Arrive(r)
    BY <2>1 DEF TypeOK, Arrive, Goto, Stage, redis
  <2>2. CASE Authorize(r)
    <3>1. window' \in [Request -> Window] /\ \E stage \in {"incr", "credential"} : Goto(r, stage)
      BY <2>2 DEF TypeOK, Authorize, redis
    <3>2. pc' \in [Request -> Stage]
      BY <3>1 DEF TypeOK, Goto, Stage
    <3>3. UNCHANGED <<counted, answered, event, redis>>
      BY <2>2 DEF Authorize
    <3> QED
      BY <3>1, <3>2, <3>3 DEF TypeOK, redis
  <2>3. CASE Refuse(r)
    BY <2>3 DEF TypeOK, Refuse, Goto, Stage, redis
  <2>4. CASE FindCredential(r)
    BY <2>4 DEF TypeOK, FindCredential, Goto, Stage, redis
  <2> QED
    BY <1>1, <2>1, <2>2, <2>3, <2>4
<1>2. ASSUME NEW r \in Request, LimiterIncr(r) PROVE TypeOK'
  <2> DEFINE n == counter[window[r]].n + 1
             c == [counter[window[r]] EXCEPT !.n = n]
  <2>1. window[r] \in Window /\ n \in Nat /\ c \in Counter
    BY <1>0 DEF TypeOK, Counter
  <2>2. counter' = [counter EXCEPT ![window[r]] = c]
    BY <1>2 DEF LimiterIncr
  <2>3. /\ pc' \in [Request -> Stage] /\ counted' \in [Request -> BOOLEAN]
        /\ event' \in [Request -> Status]
    <3>1. CASE n = 1
      BY <1>2, <3>1 DEF LimiterIncr, Goto, TypeOK, Stage
    <3>2. CASE n # 1
      BY <1>2, <2>1, <3>2, DecideType DEF LimiterIncr
    <3> QED
      BY <3>1, <3>2
  <2>4. counter' \in [Window -> Counter]
    BY <1>0, <2>1, <2>2
  <2> QED
    BY <1>2, <2>3, <2>4 DEF TypeOK, LimiterIncr, Counter
<1>3. ASSUME NEW r \in Request, LimiterExpire(r) PROVE TypeOK'
  <2> DEFINE t == IF counter[window[r]].n = 0 THEN 0 ELSE KeyTTL
             c == [counter[window[r]] EXCEPT !.ttl = t]
  <2>1. window[r] \in Window /\ t \in 0..KeyTTL
    BY GatewayAssumption DEF TypeOK
  <2>2. c \in Counter
    BY <1>0, <2>1 DEF Counter
  <2>3. counter' = [counter EXCEPT ![window[r]] = c]
    BY <1>3 DEF LimiterExpire
  <2>4. counter' \in [Window -> Counter]
    BY <1>0, <2>1, <2>2, <2>3
  <2> QED
    BY <1>3, <2>4, DecideType DEF TypeOK, LimiterExpire, Counter
<1>4. ASSUME NEW r \in Request, LimiterFailsOpen(r) PROVE TypeOK'
  BY <1>4 DEF TypeOK, LimiterFailsOpen, Goto, Stage, redis
<1>5. ASSUME NEW r \in Request, UpstreamAnswers(r) PROVE TypeOK'
  BY <1>5 DEF TypeOK, UpstreamAnswers, Goto, Stage, redis
<1>6. ASSUME NEW r \in Request, UpstreamFails(r) \/ StreamEnds(r) \/ BodyEnds(r) \/ BodyFails(r) PROVE TypeOK'
  BY <1>6 DEF TypeOK, UpstreamFails, StreamEnds, BodyEnds, BodyFails, Finalize, StatusOf, Status,
              Goto, Stage, redis
<1>7. CASE RedisRefuses \/ RedisDisconnects \/ RedisRecovers
  BY <1>7 DEF TypeOK, RedisRefuses, RedisDisconnects, RedisRecovers
<1>8. CASE Tick
  <2>1. counter' \in [Window -> Counter]
    BY <1>0, <1>8, AgedCounter DEF Tick
  <2>2. now' \in Window
    BY <1>8, GatewayAssumption DEF Tick, TypeOK, Window
  <2> QED
    BY <1>8, <2>1, <2>2 DEF TypeOK, Tick, Counter
<1>9. CASE UNCHANGED vars
  BY <1>9 DEF TypeOK, vars, redis
<1> QED
  BY <1>1, <1>2, <1>3, <1>4, <1>5, <1>6, <1>7, <1>8, <1>9 DEF Next

\* Every request is in a stage of its handler, in every reachable state.
THEOREM GatewayTypes == Spec => []TypeOK
<1>1. Init => TypeOK
  <2> SUFFICES ASSUME Init PROVE TypeOK
    OBVIOUS
  <2>1. 0 \in Window
    BY GatewayAssumption DEF Window
  <2>2. counter \in [Window -> Counter]
    BY NoCounterType DEF Init
  <2> QED
    BY <2>1, <2>2 DEF Init, TypeOK, Counter, Stage, Status
<1>2. TypeOK /\ [Next]_vars => TypeOK'
  BY GatewayTypeStep
<1> QED
  BY <1>1, <1>2, PTL DEF Spec

---------------------------------------------------------------------------
(* The rate limit *)

\* The requests that the counter of a window let through, or will: the one that
\* started it is still to set its time to live.
LetThrough(w) == {r \in Request : window[r] = w /\ (counted[r] \/ pc[r] = "expire")}

\* The commands of the limiter are for windows that have begun, nobody is counted
\* before them, and a counter lives KeyTTL windows from its own at least.
LimiterOnTime ==
  /\ \A r \in Request :
       /\ pc[r] \in {"incr", "expire"} => window[r] <= now
       /\ counted[r] => pc[r] \notin {"new", "lookup", "cached", "incr", "expire"}
  /\ \A w \in Window : counter[w].ttl > 0 => w + KeyTTL <= now + counter[w].ttl

\* The inductive invariant behind AllowedPerWindow: as long as an INCR for a
\* window is not late, its counter covers the requests that passed.
Covered(w) ==
  /\ Cardinality(LetThrough(w)) <= RpmLimit
  /\ now < w + KeyTTL => Cardinality(LetThrough(w)) <= counter[w].n

LimiterCounts ==
  \A w \in Window : IsFiniteSet(LetThrough(w)) /\ (w \notin late => Covered(w))

LimiterInv == LimiterOnTime /\ LimiterCounts

\* A step that lets nobody pass, and neither resets nor delays anything.
LEMMA LimiterStill ==
  ASSUME TypeOK, LimiterInv, UNCHANGED <<counter, now, late>>,
         \A r \in Request :
           /\ pc'[r] \in {"incr", "expire"} =>
                \/ pc[r] \in {"incr", "expire"} /\ window'[r] = window[r]
                \/ window'[r] = now
           /\ counted'[r] => pc'[r] \notin {"new", "lookup", "cached", "incr", "expire"}
           /\ counted'[r] \/ pc'[r] = "expire" =>
                window'[r] = window[r] /\ (counted[r] \/ pc[r] = "expire")
  PROVE  LimiterInv'
<1>1. now \in Nat
  BY GatewayAssumption DEF TypeOK, Window
<1>2. LimiterOnTime'
  BY <1>1 DEF LimiterInv, LimiterOnTime
<1>3. ASSUME NEW w \in Window
      PROVE  IsFiniteSet(LetThrough(w))' /\ (w \notin late' => Covered(w)')
  <2>1. LetThrough(w)' \subseteq LetThrough(w)
    BY DEF LetThrough
  <2>2. IsFiniteSet(LetThrough(w)) /\ (w \notin late => Covered(w))
    BY DEF LimiterInv, LimiterCounts
  <2>3. IsFiniteSet(LetThrough(w)') /\ Cardinality(LetThrough(w)') <= Cardinality(LetThrough(w))
    BY <2>1, <2>2, FS_Subset
  <2>4. Cardinality(LetThrough(w)') \in Nat /\ Cardinality(LetThrough(w)) \in Nat
    BY <2>2, <2>3, FS_CardinalityType
  <2>5. counter[w].n \in Nat /\ RpmLimit \in Nat
    BY GatewayAssumption DEF TypeOK
  <2> QED
    BY <2>2, <2>3, <2>4, <2>5 DEF Covered
<1> QED
  BY <1>2, <1>3 DEF LimiterInv, LimiterCounts

\* INCR: the request passes if the counter was below the limit.
LEMMA LimiterIncrStep ==
  ASSUME TypeOK, LimiterInv, NEW r \in Request, LimiterIncr(r)
  PROVE  LimiterInv'
<1> DEFINE v == window[r]
           n == counter[v].n + 1
<1>0. /\ v \in Window /\ v \in Nat /\ now \in Nat /\ KeyTTL \in Nat /\ RpmLimit \in Nat \ {0}
      /\ n \in Nat /\ counter \in [Window -> Counter] /\ \A w \in Window : counter[w].n \in Nat
      /\ counted \in [Request -> BOOLEAN] /\ pc \in [Request -> Stage]
  BY GatewayAssumption DEF TypeOK, Window, Counter
<1>1. /\ counter' = [counter EXCEPT ![v] = [counter[v] EXCEPT !.n = n]]
      /\ UNCHANGED <<window, now>> /\ pc[r] = "incr"
      /\ late' = IF now < v + KeyTTL THEN late ELSE late \cup {v}
  BY <1>0 DEF LimiterIncr
<1>2. counter'[v].n = n /\ \A w \in Window : /\ w # v => counter'[w] = counter[w]
                                             /\ counter'[w].ttl = counter[w].ttl
  BY <1>0, <1>1 DEF Counter
<1>3. v <= now /\ ~counted[r]
  BY <1>0, <1>1 DEF LimiterInv, LimiterOnTime
<1>4. /\ pc' = [pc EXCEPT ![r] = pc'[r]] /\ pc'[r] \in {"expire", "credential", "done"}
      /\ \/ pc'[r] = "expire" /\ n = 1 /\ counted' = counted
         \/ pc'[r] # "expire" /\ n <= RpmLimit /\ counted' = [counted EXCEPT ![r] = TRUE]
         \/ pc'[r] # "expire" /\ counted' = counted
  <2>1. CASE n = 1
    BY <1>0, <2>1 DEF LimiterIncr, Goto
  <2>2. CASE n # 1
    <3>1. Decide(r, n)
      BY <2>2 DEF LimiterIncr
    <3> QED
      BY <1>0, <3>1, DecideType
  <2> QED
    BY <2>1, <2>2
<1> HIDE DEF n, v
<1>5. \A q \in Request : q # r => pc'[q] = pc[q] /\ counted'[q] = counted[q]
  BY <1>0, <1>4
<1>6. counted'[r] => pc'[r] \in {"credential", "done"}
  BY <1>0, <1>3, <1>4
<1>7. LimiterOnTime'
  <2>1. \A q \in Request :
          /\ pc'[q] \in {"incr", "expire"} => window'[q] <= now'
          /\ counted'[q] => pc'[q] \notin {"new", "lookup", "cached", "incr", "expire"}
    BY <1>0, <1>1, <1>3, <1>5, <1>6 DEF LimiterInv, LimiterOnTime, v
  <2> QED
    BY <1>1, <1>2, <2>1 DEF LimiterInv, LimiterOnTime
<1>8. ASSUME NEW w \in Window
      PROVE  IsFiniteSet(LetThrough(w))' /\ (w \notin late' => Covered(w)')
  <2>1. /\ IsFiniteSet(LetThrough(w)) /\ Cardinality(LetThrough(w)) \in Nat
        /\ w \notin late => Covered(w)
    BY FS_CardinalityType DEF LimiterInv, LimiterCounts
  <2>2. r \notin LetThrough(w)
    BY <1>1, <1>3 DEF LetThrough
  <2>3. CASE w # v
    <3>1. LetThrough(w)' = LetThrough(w)
      BY <1>1, <1>5, <2>2, <2>3 DEF LetThrough, v
    <3> QED
      BY <1>1, <1>2, <2>1, <2>3, <3>1 DEF Covered
  <2>4. CASE w = v /\ ~counted'[r] /\ pc'[r] # "expire"
    <3>1. LetThrough(w)' = LetThrough(w)
      BY <1>1, <1>5, <2>2, <2>4 DEF LetThrough
    <3>2. counter'[w].n = counter[w].n + 1
      BY <1>2, <2>4 DEF n
    <3> QED
      BY <1>0, <1>1, <2>1, <2>4, <3>1, <3>2 DEF Covered
  <2>5. CASE w = v /\ (counted'[r] \/ pc'[r] = "expire")
    <3>1. LetThrough(w)' = LetThrough(w) \cup {r}
      BY <1>1, <1>5, <2>5 DEF LetThrough, v
    <3>2. IsFiniteSet(LetThrough(w) \cup {r}) /\ Cardinality(LetThrough(w) \cup {r}) = Cardinality(LetThrough(w)) + 1
      BY <2>1, <2>2, FS_AddElement
    <3>3. counter'[w].n = n /\ n = counter[w].n + 1
      BY <1>2, <2>5 DEF n
    <3>4. n <= RpmLimit
      BY <1>0, <1>3, <1>4, <2>5
    <3>5. IsFiniteSet(LetThrough(w))' /\ Cardinality(LetThrough(w))' = Cardinality(LetThrough(w)) + 1
      BY <3>1, <3>2
    <3>6. w \notin late' => Cardinality(LetThrough(w)) <= counter[w].n
      BY <1>1, <2>1, <2>5 DEF Covered
    <3>7. PICK c, d : c = Cardinality(LetThrough(w)) /\ d = counter[w].n
      OBVIOUS
    <3>8. c \in Nat /\ d \in Nat /\ n = d + 1 /\ n \in Nat /\ RpmLimit \in Nat /\ n <= RpmLimit
      BY <1>0, <2>1, <3>3, <3>4, <3>7
    <3>9. c <= d => c + 1 <= n /\ c + 1 <= RpmLimit
      BY <3>8
    <3> QED
      BY <3>3, <3>5, <3>6, <3>7, <3>9 DEF Covered
  <2> QED
    BY <2>3, <2>4, <2>5
<1> QED
  BY <1>7, <1>8 DEF LimiterInv, LimiterCounts

\* EXPIRE: who started the counter has passed already, and the counter outlives
\* the commands for its window that are not late.
LEMMA LimiterExpireStep ==
  ASSUME TypeOK, LimiterInv, NEW r \in Request, LimiterExpire(r)
  PROVE  LimiterInv'
<1> DEFINE v == window[r]
           t == IF counter[v].n = 0 THEN 0 ELSE KeyTTL
<1>0. /\ v \in Window /\ v \in Nat /\ now \in Nat /\ KeyTTL \in Nat
      /\ RpmLimit \in Nat \ {0} /\ counter \in [Window -> Counter]
      /\ counted \in [Request -> BOOLEAN] /\ pc \in [Request -> Stage]
  BY GatewayAssumption DEF TypeOK, Window, Counter
<1>1. /\ counter' = [counter EXCEPT ![v] = [counter[v] EXCEPT !.ttl = t]]
      /\ UNCHANGED <<window, now, late>> /\ pc[r] = "expire" /\ Decide(r, 1)
  BY <1>0 DEF LimiterExpire
<1>2. /\ pc' = [pc EXCEPT ![r] = pc'[r]] /\ pc'[r] \in {"credential", "done"}
      /\ counted' = [counted EXCEPT ![r] = TRUE]
  BY <1>0, <1>1, DecideType
<1>3. v <= now
  BY <1>0, <1>1 DEF LimiterInv, LimiterOnTime
<1>4. \A w \in Window : /\ counter'[w].n = counter[w].n
                        /\ counter'[w].ttl = (IF w = v THEN t ELSE counter[w].ttl)
  BY <1>0, <1>1 DEF Counter
<1> HIDE DEF v
<1>5. \A q \in Request : q # r => pc'[q] = pc[q] /\ counted'[q] = counted[q]
  BY <1>0, <1>2
<1>6. LimiterOnTime'
  <2>1. \A w \in Window : counter'[w].ttl > 0 => w + KeyTTL <= now' + counter'[w].ttl
    BY <1>0, <1>1, <1>3, <1>4 DEF LimiterInv, LimiterOnTime
  <2>2. \A q \in Request :
          /\ pc'[q] \in {"incr", "expire"} => window'[q] <= now'
          /\ counted'[q] => pc'[q] \notin {"new", "lookup", "cached", "incr", "expire"}
    BY <1>1, <1>2, <1>5 DEF LimiterInv, LimiterOnTime
  <2> QED
    BY <2>1, <2>2 DEF LimiterOnTime
<1>7. \A w \in Window : LetThrough(w)' = LetThrough(w)
  <2>1. counted'[r] /\ pc[r] = "expire"
    BY <1>0, <1>1, <1>2
  <2> QED
    BY <1>1, <1>5, <2>1 DEF LetThrough
<1> QED
  BY <1>1, <1>4, <1>6, <1>7 DEF LimiterInv, LimiterCounts, Covered

\* The next window: every INCR for the window of a counter that expires is late.
LEMMA LimiterTick ==
  ASSUME TypeOK, LimiterInv, Tick
  PROVE  LimiterInv'
<1>0. /\ now \in Nat /\ KeyTTL \in Nat
      /\ counter \in [Window -> Counter] /\ \A r \in Request : window[r] \in Nat
      /\ Window \subseteq Nat /\ \A w \in Window : counter[w].n \in Nat
  BY GatewayAssumption DEF TypeOK, Window, Counter
<1>1. /\ now' = now + 1 /\ UNCHANGED <<pc, window, counted, late>>
      /\ \A w \in Window : counter'[w] = Aged(counter[w])
  BY DEF Tick
<1>2. \A w \in Window : /\ counter'[w].n = counter[w].n \/ counter[w].ttl = 1
                        /\ counter'[w].ttl > 0 => counter[w].ttl = counter'[w].ttl + 1
                        /\ counter'[w].ttl \in Nat
  <2> SUFFICES ASSUME NEW w \in Window
               PROVE  /\ counter'[w].n = counter[w].n \/ counter[w].ttl = 1
                      /\ counter'[w].ttl > 0 => counter[w].ttl = counter'[w].ttl + 1
                      /\ counter'[w].ttl \in Nat
    OBVIOUS
  <2>1. counter[w] \in Counter /\ counter'[w] = Aged(counter[w])
    BY <1>0, <1>1
  <2>2. Aged(counter[w]).ttl \in Nat
    BY <1>0, <2>1, AgedCounter DEF Counter
  <2> QED
    BY <2>1, <2>2, AgedCounter
<1>3. LimiterOnTime'
  <2>1. \A w \in Window : counter'[w].ttl > 0 => w + KeyTTL <= now' + counter'[w].ttl
    BY <1>0, <1>1, <1>2 DEF LimiterInv, LimiterOnTime
  <2>2. \A r \in Request :
          /\ pc'[r] \in {"incr", "expire"} => window'[r] <= now'
          /\ counted'[r] => pc'[r] \notin {"new", "lookup", "cached", "incr", "expire"}
    BY <1>0, <1>1 DEF LimiterInv, LimiterOnTime
  <2> QED
    BY <2>1, <2>2 DEF LimiterOnTime
<1>4. \A w \in Window : LetThrough(w)' = LetThrough(w)
  BY <1>1 DEF LetThrough
<1>5. ASSUME NEW w \in Window, now' < w + KeyTTL
      PROVE  counter'[w].n = counter[w].n /\ now < w + KeyTTL
  <2>1. counter[w].ttl = 1 => w + KeyTTL <= now + 1
    BY DEF LimiterInv, LimiterOnTime
  <2> QED
    BY <1>0, <1>1, <1>2, <1>5, <2>1
<1> QED
  BY <1>1, <1>3, <1>4, <1>5 DEF LimiterInv, LimiterCounts, Covered

LEMMA LimiterStep ==
  ASSUME TypeOK, LimiterInv, [Next]_vars
  PROVE  LimiterInv'
<1>0. \A r \in Request : counted[r] => pc[r] \notin {"new", "lookup", "cached", "incr", "expire"}
  BY DEF LimiterInv, LimiterOnTime
<1>1. ASSUME NEW r \in Request, Arrive(r) \/ Authorize(r) \/ Refuse(r) PROVE LimiterInv'
  BY <1>0, <1>1, LimiterStill
  DEF Arrive, Authorize, Refuse, Resolved, Goto, redis, TypeOK
<1>2. ASSUME NEW r \in Request, LimiterFailsOpen(r) PROVE LimiterInv'
  <2>1. counted' = [counted EXCEPT ![r] = pc[r] = "expire"] /\ pc' = [pc EXCEPT ![r] = "credential"]
        /\ UNCHANGED <<counter, now, late, window>>
    BY <1>2 DEF LimiterFailsOpen, Goto, redis
  <2>2. counted'[r] <=> pc[r] = "expire"
    BY <2>1, Zenon DEF TypeOK
  <2>3. pc'[r] = "credential" /\ \A q \in Request : q # r => pc'[q] = pc[q] /\ counted'[q] = counted[q]
    BY <2>1 DEF TypeOK
  <2> QED
    BY <1>0, <2>1, <2>2, <2>3, LimiterStill
<1>3. ASSUME NEW r \in Request,
             \/ FindCredential(r) \/ UpstreamAnswers(r) \/ UpstreamFails(r)
             \/ StreamEnds(r) \/ BodyEnds(r) \/ BodyFails(r)
      PROVE  LimiterInv'
  <2>1. UNCHANGED <<counter, now, late, window, counted>>
    BY <1>3 DEF FindCredential, UpstreamAnswers, UpstreamFails, StreamEnds, BodyEnds, BodyFails, redis
  <2>2. \A q \in Request : pc'[q] = pc[q] \/ pc'[q] \in {"upstream", "done", "stream", "body"}
    BY <1>3 DEF FindCredential, UpstreamAnswers, UpstreamFails, StreamEnds, BodyEnds, BodyFails,
                Goto, TypeOK
  <2> QED
    BY <1>0, <2>1, <2>2, LimiterStill
<1>4. CASE RedisRefuses \/ RedisDisconnects \/ RedisRecovers \/ UNCHANGED vars
  BY <1>0, <1>4, LimiterStill DEF RedisRefuses, RedisDisconnects, RedisRecovers, vars, redis
<1> QED
  BY <1>1, <1>2, <1>3, <1>4, LimiterIncrStep, LimiterExpireStep, LimiterTick DEF Next

\* In each window the counter lets at most rpmLimit requests of a key through,
\* however many gateways share it and however INCR and EXPIRE interleave, lag or
\* fail half way (RedisRateLimiter.check), unless an INCR for that window came when
\* its counter could already have expired; requests that Redis refuses to count
\* are let through and not counted.
THEOREM RateLimitHolds == Spec => []AllowedPerWindow
<1>1. Init => LimiterInv
  <2> SUFFICES ASSUME Init PROVE LimiterInv
    OBVIOUS
  <2>1. LimiterOnTime
    BY NoCounterType DEF Init, LimiterOnTime
  <2>2. \A w \in Window : LetThrough(w) = {} /\ counter[w].n = 0
    BY NoCounterType DEF Init, LetThrough
  <2>3. LimiterCounts
    BY <2>2, FS_EmptySet, GatewayAssumption DEF LimiterCounts, Covered
  <2> QED
    BY <2>1, <2>3 DEF LimiterInv
<1>2. TypeOK /\ LimiterInv /\ [Next]_vars => LimiterInv'
  BY LimiterStep
<1>3. LimiterInv => AllowedPerWindow
  <2> SUFFICES ASSUME LimiterInv, NEW w \in Window \ late
               PROVE  Cardinality({r \in Request : counted[r] /\ window[r] = w}) <= RpmLimit
    BY DEF AllowedPerWindow
  <2> DEFINE C == {r \in Request : counted[r] /\ window[r] = w}
  <2>1. IsFiniteSet(LetThrough(w)) /\ Cardinality(LetThrough(w)) <= RpmLimit
    BY DEF LimiterInv, LimiterCounts, Covered
  <2>2. C \subseteq LetThrough(w)
    BY DEF LetThrough
  <2>3. IsFiniteSet(C) /\ Cardinality(C) <= Cardinality(LetThrough(w))
    BY <2>1, <2>2, FS_Subset
  <2>4. Cardinality(C) \in Nat /\ Cardinality(LetThrough(w)) \in Nat
    BY <2>1, <2>3, FS_CardinalityType
  <2> HIDE DEF C
  <2>5. Cardinality(C) <= RpmLimit
    BY <2>1, <2>3, <2>4, GatewayAssumption
  <2> QED
    BY <2>5 DEF C
<1> QED
  BY <1>1, <1>2, <1>3, GatewayTypes, PTL DEF Spec
---------------------------------------------------------------------------
(* Loops: a function that is defined step by step over 0..n *)

\* What holds at 0 and is kept by a step holds up to n.
LEMMA UpTo ==
  ASSUME NEW n \in Nat, NEW P, 0 \in P, \A k \in 0..(n - 1) : k \in P => k + 1 \in P
  PROVE  \A k \in 0..n : k \in P
<1> DEFINE S == {k \in Nat : k <= n /\ k \notin P}
<1> SUFFICES ASSUME S # {} PROVE FALSE
  OBVIOUS
<1>1. PICK m \in S : \A k \in S : ~(<<k, m>> \in OpToRel(<, Nat))
  BY NatLessThanWellFounded, WFMin, Zenon
<1>2. \A k \in S : ~(k < m)
  BY <1>1 DEF OpToRel
<1>3. m \in Nat /\ m <= n /\ m \notin P
  OBVIOUS
<1>4. m - 1 \in 0..(n - 1)
  BY <1>3
<1>5. m - 1 \in P
  BY <1>2, <1>3, <1>4
<1> QED
  BY <1>3, <1>4, <1>5

\* f starts with base and goes on with g.
Iterates(f, n, base, g) == f[0] = base /\ \A k \in 1..n : f[k] = g[<<f[k - 1], k>>]

\* A recursive definition over 0..n defines a function.
LEMMA Recursion ==
  ASSUME NEW n \in Nat, NEW T, NEW base \in T, NEW g \in [T \X (1..n) -> T]
  PROVE  \E f \in [0..n -> T] : Iterates(f, n, base, g)
<1> DEFINE Has(m) == \E f \in [0..m -> T] : Iterates(f, m, base, g)
           P == {m \in 0..n : Has(m)}
<1> USE DEF Iterates
<1>1. 0 \in P
  <2> DEFINE f == [k \in 0..0 |-> base]
  <2>1. f \in [0..0 -> T] /\ f[0] = base /\ \A k \in 1..0 : f[k] = g[<<f[k - 1], k>>]
    OBVIOUS
  <2> HIDE DEF f
  <2>2. Has(0)
    BY <2>1
  <2> QED
    BY <2>2
<1>2. ASSUME NEW m \in 0..(n - 1), m \in P PROVE m + 1 \in P
  <2>1. PICK f \in [0..m -> T] : f[0] = base /\ \A k \in 1..m : f[k] = g[<<f[k - 1], k>>]
    BY <1>2
  <2> DEFINE h == [k \in 0..(m + 1) |-> IF k <= m THEN f[k] ELSE g[<<f[m], m + 1>>]]
  <2>2. m \in Nat /\ m + 1 \in 1..n /\ m + 1 \in 0..n
    OBVIOUS
  <2>3. f[m] \in T /\ g[<<f[m], m + 1>>] \in T
    BY <2>2
  <2>4. h \in [0..(m + 1) -> T]
    BY <2>2, <2>3
  <2>5. h[0] = base /\ h[m + 1] = g[<<f[m], m + 1>>] /\ \A k \in 0..m : h[k] = f[k]
    BY <2>1, <2>2
  <2>6. ASSUME NEW k \in 1..(m + 1) PROVE h[k] = g[<<h[k - 1], k>>]
    <3>1. CASE k = m + 1
      <4>1. m \in 0..m /\ k - 1 = m
        BY <2>2, <3>1
      <4> QED
        BY <2>5, <3>1, <4>1
    <3>2. CASE k # m + 1
      <4>1. k \in 1..m /\ k \in 0..m /\ k - 1 \in 0..m
        BY <2>2, <3>2
      <4> QED
        BY <2>1, <2>5, <4>1
    <3> QED
      BY <3>1, <3>2
  <2> HIDE DEF h
  <2>7. Has(m + 1)
    BY <2>4, <2>5, <2>6
  <2> QED
    BY <2>2, <2>7
<1> HIDE DEF P
<1>3. n \in P
  BY <1>1, <1>2, UpTo
<1> QED
  BY <1>3 DEF P
---------------------------------------------------------------------------
(* The price of an event *)

\* What the loop of findIn has found after k entries.
LoopOf(f, entries, model) ==
  /\ f[0] = <<>>
  /\ \A k \in 1..Len(entries) :
       f[k] = IF entries[k].provider = call.provider /\ Longer(f[k - 1], entries[k], model)
              THEN <<entries[k]>> ELSE f[k - 1]

\* The entries of the provider that name the model, and those that are a prefix.
Exact(entries, model) ==
  {i \in 1..Len(entries) : entries[i].provider = call.provider
                           /\ ~entries[i].star /\ entries[i].pattern = model}
Candidates(entries, model, k) ==
  {i \in 1..k : entries[i].provider = call.provider
                /\ entries[i].star /\ IsPrefix(entries[i].pattern, model)}

\* FindIn is the first exact entry or what its loop has found.
LEMMA FindInLoops ==
  ASSUME NEW E, NEW entries \in Seq(E), NEW model
  PROVE  \E f : /\ LoopOf(f, entries, model)
                /\ FindIn(entries, model) = IF Exact(entries, model) # {}
                                            THEN <<entries[Min(Exact(entries, model))]>>
                                            ELSE f[Len(entries)]
<1> DEFINE n == Len(entries)
           own == {i \in DOMAIN entries : entries[i].provider = call.provider}
           T == {<<>>} \cup {<<entries[i]>> : i \in 1..n}
           Step(t, k) == IF k \in own /\ Longer(t, entries[k], model) THEN <<entries[k]>> ELSE t
           g == [x \in T \X (1..n) |-> Step(x[1], x[2])]
           best == CHOOSE f : f = [k \in 0..n |->
                     IF k = 0 THEN <<>>
                     ELSE IF k \in own /\ Longer(f[k - 1], entries[k], model) THEN <<entries[k]>>
                     ELSE f[k - 1]]
<1>0. n \in Nat /\ <<>> \in T /\ DOMAIN entries = 1..n
  OBVIOUS
<1>1. \A t \in T, k \in 1..n : Step(t, k) \in T
  OBVIOUS
<1>2. FindIn(entries, model) = IF Exact(entries, model) # {}
                               THEN <<entries[Min(Exact(entries, model))]>> ELSE best[n]
  <2> DEFINE exact == {i \in own : ~entries[i].star /\ entries[i].pattern = model}
  <2>1. FindIn(entries, model) = IF exact # {} THEN <<entries[Min(exact)]>> ELSE best[n]
    BY DEF FindIn
  <2>2. exact = Exact(entries, model)
    BY <1>0 DEF Exact
  <2> HIDE DEF exact, best
  <2> QED
    BY <2>1, <2>2
<1>3. \E f : f = [k \in 0..n |-> IF k = 0 THEN <<>> ELSE Step(f[k - 1], k)]
  <2> HIDE DEF T, Step, n, best
  <2>0. g \in [T \X (1..n) -> T]
    BY <1>1
  <2>1. \A t \in T, k \in 1..n : g[<<t, k>>] = Step(t, k)
    OBVIOUS
  <2> HIDE DEF g
  <2>2. PICK f \in [0..n -> T] : Iterates(f, n, <<>>, g)
    BY <1>0, <2>0, Recursion, Zenon
  <2>3. ASSUME NEW k \in 0..n PROVE f[k] = IF k = 0 THEN <<>> ELSE Step(f[k - 1], k)
    <3>1. CASE k # 0
      <4>1. k \in 1..n /\ k - 1 \in 0..n
        BY <1>0, <3>1
      <4> QED
        BY <2>1, <2>2, <3>1, <4>1 DEF Iterates
    <3> QED
      BY <2>2, <3>1 DEF Iterates
  <2> QED
    BY <2>3
<1>4. best = [k \in 0..n |-> IF k = 0 THEN <<>> ELSE Step(best[k - 1], k)]
  BY <1>3, Zenon
<1> HIDE DEF best
<1>5. LoopOf(best, entries, model)
  <2>1. best[0] = <<>> /\ \A k \in 1..n : best[k] = Step(best[k - 1], k)
    <3> HIDE DEF Step
    <3> QED
      BY <1>0, <1>4
  <2> QED
    BY <1>0, <2>1 DEF LoopOf
<1> QED
  BY <1>2, <1>5

LEMMA EntryFields ==
  ASSUME NEW e \in PriceEntry
  PROVE  e.star \in BOOLEAN /\ Len(e.pattern) \in Nat
<1>1. e.star \in BOOLEAN
  BY Zenon DEF PriceEntry
<1>2. e.pattern \in Seq(STRING)
  BY DEF PriceEntry
<1> QED
  BY <1>1, <1>2

\* What the loop has found after k entries: a longest prefix, if it has met any.
FoundLongest(f, entries, model, k) ==
  LET met == Candidates(entries, model, k)
  IN  \/ met = {} /\ f[k] = <<>>
      \/ \E i \in met : /\ f[k] = <<entries[i]>>
                        /\ \A j \in met : Len(entries[i].pattern) >= Len(entries[j].pattern)

\* The loop finds a prefix of the model that no prefix it has met exceeds.
LEMMA LoopFindsLongest ==
  ASSUME NEW entries \in Seq(PriceEntry), NEW model, NEW f, LoopOf(f, entries, model)
  PROVE  \A k \in 0..Len(entries) : FoundLongest(f, entries, model, k)
<1> DEFINE n == Len(entries)
           P == {k \in 0..n : FoundLongest(f, entries, model, k)}
<1> USE DEF FoundLongest
<1>0. n \in Nat /\ \A i \in 1..n : Len(entries[i].pattern) \in Nat
  BY EntryFields
<1>1. 0 \in P
  <2>1. Candidates(entries, model, 0) = {}
    BY DEF Candidates
  <2> QED
    BY <1>0, <2>1 DEF LoopOf
<1>2. ASSUME NEW m \in 0..(n - 1), m \in P PROVE m + 1 \in P
  <2> DEFINE k == m + 1
             met == Candidates(entries, model, m)
             now1 == Candidates(entries, model, k)
  <2>1. k \in 1..n /\ k \in 0..n /\ k - 1 = m /\ met \subseteq 1..n
    BY <1>0 DEF Candidates
  <2>2. f[k] = IF entries[k].provider = call.provider /\ Longer(f[m], entries[k], model)
               THEN <<entries[k]>> ELSE f[m]
    BY <2>1 DEF LoopOf
  <2>3. \/ met = {} /\ f[m] = <<>>
        \/ \E i \in met : /\ f[m] = <<entries[i]>>
                          /\ \A j \in met : Len(entries[i].pattern) >= Len(entries[j].pattern)
    BY <1>2
  <2>4. CASE ~(entries[k].provider = call.provider /\ entries[k].star /\ IsPrefix(entries[k].pattern, model))
    <3>1. now1 = met
      BY <2>1, <2>4 DEF Candidates
    <3>2. f[k] = f[m]
      BY <2>2, <2>4 DEF Longer
    <3> HIDE DEF k, met, now1
    <3> QED
      BY <2>1, <2>3, <3>1, <3>2 DEF k, met, now1
  <2>5. CASE entries[k].provider = call.provider /\ entries[k].star /\ IsPrefix(entries[k].pattern, model)
    <3>1. now1 = met \cup {k}
      BY <2>1, <2>5 DEF Candidates
    <3>2. CASE met = {} /\ f[m] = <<>>
      <4>1. f[k] = <<entries[k]>> /\ now1 = {k}
        BY <2>2, <2>5, <3>1, <3>2 DEF Longer
      <4> QED
        BY <1>0, <2>1, <4>1
    <3>3. ASSUME NEW i \in met, f[m] = <<entries[i]>>,
                 \A j \in met : Len(entries[i].pattern) >= Len(entries[j].pattern)
          PROVE  k \in P
      <4>0. Longer(f[m], entries[k], model) <=> Len(entries[k].pattern) > Len(entries[i].pattern)
        BY <2>5, <3>3 DEF Longer
      <4>1. CASE Len(entries[k].pattern) > Len(entries[i].pattern)
        <5>1. f[k] = <<entries[k]>>
          BY <2>2, <2>5, <4>0, <4>1
        <5>2. \A j \in now1 : Len(entries[k].pattern) >= Len(entries[j].pattern)
          <6>1. ASSUME NEW j \in met PROVE Len(entries[k].pattern) >= Len(entries[j].pattern)
            <7>1. /\ Len(entries[i].pattern) \in Nat /\ Len(entries[j].pattern) \in Nat
                  /\ Len(entries[k].pattern) \in Nat /\ Len(entries[i].pattern) >= Len(entries[j].pattern)
              BY <1>0, <2>1, <3>3
            <7> DEFINE x == Len(entries[i].pattern)
                       y == Len(entries[j].pattern)
                       z == Len(entries[k].pattern)
            <7>2. x \in Nat /\ y \in Nat /\ z \in Nat /\ x >= y /\ z > x
              BY <4>1, <7>1
            <7> HIDE DEF x, y, z
            <7>3. z >= y
              BY <7>2
            <7> QED
              BY <7>3 DEF y, z
          <6>2. Len(entries[k].pattern) >= Len(entries[k].pattern)
            BY <1>0, <2>1
          <6> QED
            BY <3>1, <6>1, <6>2
        <5> QED
          BY <2>1, <3>1, <5>1, <5>2
      <4>2. CASE ~(Len(entries[k].pattern) > Len(entries[i].pattern))
        <5>1. f[k] = <<entries[i]>>
          BY <2>2, <3>3, <4>0, <4>2
        <5>2. \A j \in now1 : Len(entries[i].pattern) >= Len(entries[j].pattern)
          BY <1>0, <2>1, <3>1, <3>3, <4>2
        <5> QED
          BY <2>1, <3>1, <3>3, <5>1, <5>2
      <4> QED
        BY <4>1, <4>2
    <3> QED
      BY <2>3, <3>2, <3>3
  <2> QED
    BY <2>4, <2>5
<1> HIDE DEF P
<1>3. \A k \in 0..n : k \in P
  BY <1>0, <1>1, <1>2, UpTo
<1> QED
  BY <1>3 DEF P

LEMMA LeastIn ==
  ASSUME NEW S \in SUBSET Nat, S # {}
  PROVE  Min(S) \in S
<1>1. PICK m \in S : \A k \in S : ~(<<k, m>> \in OpToRel(<, Nat))
  BY NatLessThanWellFounded, WFMin, Zenon
<1>2. \A k \in S : ~(k < m)
  BY <1>1 DEF OpToRel
<1>3. \E x \in S : \A y \in S : x <= y
  BY <1>2
<1> QED
  BY <1>3 DEF Min

\* The entries that fit a model, and which of two is the better one.
Fitting(list, model) ==
  {e \in ToSet(list) : /\ e.provider = call.provider
                       /\ IF e.star THEN IsPrefix(e.pattern, model) ELSE e.pattern = model}
AsGood(p, e) ==
  \/ ~p.star /\ e.star
  \/ p.star = e.star /\ Len(p.pattern) >= Len(e.pattern)

\* findIn finds the best of a list, if there is any.
LEMMA FindsTheBest ==
  ASSUME NEW entries \in Seq(PriceEntry), NEW model
  PROVE  \/ Fitting(entries, model) = {} /\ FindIn(entries, model) = <<>>
         \/ \E p \in Fitting(entries, model) :
              /\ FindIn(entries, model) = <<p>>
              /\ \A e \in Fitting(entries, model) : AsGood(p, e)
<1> DEFINE n == Len(entries)
           X == Exact(entries, model)
           C == Candidates(entries, model, n)
<1>0. /\ n \in Nat /\ DOMAIN entries = 1..n
      /\ \A i \in 1..n : entries[i].star \in BOOLEAN /\ Len(entries[i].pattern) \in Nat
  BY EntryFields
<1>1. PICK f : /\ LoopOf(f, entries, model)
               /\ FindIn(entries, model) = IF X # {} THEN <<entries[Min(X)]>> ELSE f[n]
  BY FindInLoops
<1>2. \/ C = {} /\ f[n] = <<>>
      \/ \E i \in C : /\ f[n] = <<entries[i]>>
                      /\ \A j \in C : Len(entries[i].pattern) >= Len(entries[j].pattern)
  <2>1. n \in 0..Len(entries)
    BY <1>0
  <2>2. FoundLongest(f, entries, model, n)
    BY <1>1, <2>1, LoopFindsLongest
  <2> QED
    BY <2>2, Zenon DEF FoundLongest
<1>3. Fitting(entries, model) = {entries[i] : i \in X \cup C}
  BY <1>0 DEF Fitting, Exact, Candidates, ToSet
<1>4. X \subseteq 1..n /\ C \subseteq 1..n
  BY DEF Exact, Candidates
<1>5. /\ \A i \in X : ~entries[i].star /\ entries[i].pattern = model
      /\ \A i \in C : entries[i].star
  BY DEF Exact, Candidates
<1> HIDE DEF X, C, n
<1>6. CASE X # {}
  <2>1. Min(X) \in X
    BY <1>0, <1>4, <1>6, LeastIn
  <2>2. ASSUME NEW i \in X \cup C PROVE AsGood(entries[Min(X)], entries[i])
    <3>1. CASE i \in X
      <4>1. entries[i].pattern = entries[Min(X)].pattern /\ Len(entries[i].pattern) \in Nat
        BY <1>0, <1>4, <1>5, <2>1, <3>1
      <4>2. entries[i].star = entries[Min(X)].star
        BY <1>0, <1>4, <1>5, <2>1, <3>1
      <4> QED
        BY <4>1, <4>2 DEF AsGood
    <3>2. CASE i \in C
      BY <1>5, <2>1, <3>2 DEF AsGood
    <3> QED
      BY <3>1, <3>2
  <2> QED
    BY <1>1, <1>3, <1>6, <2>1, <2>2
<1>7. CASE X = {} /\ C = {}
  BY <1>1, <1>2, <1>3, <1>7
<1>8. CASE X = {} /\ C # {}
  <2>1. PICK i \in C : /\ f[n] = <<entries[i]>>
                       /\ \A j \in C : Len(entries[i].pattern) >= Len(entries[j].pattern)
    BY <1>2, <1>8
  <2>2. \A j \in X \cup C : AsGood(entries[i], entries[j])
    BY <1>0, <1>4, <1>5, <1>8, <2>1 DEF AsGood
  <2> QED
    BY <1>1, <1>3, <1>8, <2>1, <2>2
<1> QED
  BY <1>6, <1>7, <1>8

\* A record carries the price that matches the model it names.
LEMMA RecordHasItsPrice ==
  ASSUME NEW x, NEW known, NEW aborted
  PROVE  /\ Record(x, known, aborted) # <<>>
         /\ Record(x, known, aborted)[1].price = MatchPrice(Record(x, known, aborted)[1].model)
  BY DEF Record

\* The inductive invariant behind PriceIsBest: the snapshot is one of lists, and
\* a request that has not started has no event.
PricedInv ==
  /\ prices \in [catalog : Catalogs, overrides : Overrides]
  /\ phase = "new" => recorded = <<>>
  /\ PriceIsBest

\* The event that a step finalizes has the best price.
LEMMA FinalizedAtBest ==
  ASSUME PricedInv, NEW x, NEW known, NEW aborted, recorded' = Record(x, known, aborted),
         UNCHANGED <<call, prices>>
  PROVE  PriceIsBest'
<1> DEFINE model == recorded'[1].model
           price == recorded'[1].price
           own == Fitting(prices.overrides, model)
           best == IF own # {} THEN own ELSE Fitting(prices.catalog, model)
<1>1. price = MatchPrice(model)
  BY RecordHasItsPrice
<1>2. prices.overrides \in Seq(PriceEntry) /\ prices.catalog \in Seq(PriceEntry)
  BY MeteringAssumption DEF PricedInv
<1> HIDE DEF model, price
<1>3. \/ best = {} /\ price = <<>>
      \/ \E p \in best : price = <<p>> /\ \A e \in best : AsGood(p, e)
  BY <1>1, <1>2, FindsTheBest DEF MatchPrice
<1>4. \A e \in best : e.star \in BOOLEAN /\ Len(e.pattern) \in Nat
  <2>1. \A list \in Seq(PriceEntry) : ToSet(list) \subseteq PriceEntry
    BY DEF ToSet
  <2>2. best \subseteq PriceEntry
    BY <1>2, <2>1 DEF Fitting
  <2> QED
    BY <2>2, EntryFields
<1>5. (price = <<>>) <=> (best = {})
  <2> HIDE DEF best
  <2>1. ASSUME NEW p PROVE <<p>> # <<>>
    OBVIOUS
  <2> QED
    BY <1>3, <2>1, Zenon
<1>6. best # {} => /\ price[1] \in best
                   /\ \A e \in best :
                        LET r == IF price[1].star THEN 0 ELSE 1
                            s == IF e.star THEN 0 ELSE 1
                        IN  r > s \/ (r = s /\ Len(price[1].pattern) >= Len(e.pattern))
  BY <1>3, <1>4 DEF AsGood
<1> QED
  BY <1>5, <1>6 DEF PriceIsBest, Fitting, model, price

\* However the rows of the price tables are ordered, whatever they hold and
\* whatever model the client or the provider names, the price of an event is the
\* best: an override before the catalog, an exact entry before a prefix, a longer
\* prefix before a shorter one (matchPrice, findIn).
THEOREM EventsHaveTheBestPrice == GatewaySpec => []PriceIsBest
<1>1. GatewayInit => PricedInv
  BY DEF GatewayInit, MeterInit, PricedInv, PriceIsBest
<1>2. PricedInv /\ [GatewayNext]_gatewayVars => PricedInv'
  <2> SUFFICES ASSUME PricedInv, [GatewayNext]_gatewayVars PROVE PricedInv'
    OBVIOUS
  <2>1. ASSUME NEW json \in BOOLEAN, NEW m \in Messages, Forward(json, m) PROVE PricedInv'
    BY <2>1 DEF PricedInv, PriceIsBest, Forward
  <2>2. CASE UNCHANGED <<call, prices, phase, recorded>>
    BY <2>2 DEF PricedInv, PriceIsBest
  <2>3. ASSUME NEW x, NEW known, NEW aborted, recorded' = Record(x, known, aborted),
               UNCHANGED <<call, prices>>, phase' # "new"
        PROVE  PricedInv'
    BY <2>3, FinalizedAtBest DEF PricedInv
  <2>4. ASSUME NEW n \in 1..Len(Bytes), Chunk(n) PROVE PricedInv'
    BY <2>2, <2>4 DEF Chunk
  <2>5. CASE End
    BY <2>3, <2>5 DEF End
  <2>6. CASE Abort
    BY <2>3, <2>6 DEF Abort
  <2>7. ASSUME NEW json \in BOOLEAN, Reply(json) PROVE PricedInv'
    BY <2>3, <2>7 DEF Reply
  <2>8. CASE UNCHANGED meterVars
    BY <2>2, <2>8 DEF meterVars
  <2> QED
    BY <2>1, <2>4, <2>5, <2>6, <2>7, <2>8 DEF GatewayNext, gatewayVars, MeterNext
<1>3. PricedInv => PriceIsBest
  BY DEF PricedInv
<1> QED
  BY <1>1, <1>2, <1>3, PTL DEF GatewaySpec

---------------------------------------------------------------------------
(* The turns of a conversation *)

Turn == [role : STRING, n : Nat]

\* A sequence with the messages of these roles among the first k, in order.
Filters(s, messages, roles, k) ==
  /\ s \in Seq(Turn)
  /\ \A i, j \in 1..Len(s) : i < j => s[i].n < s[j].n
  /\ {s[i].n : i \in 1..Len(s)} = {i \in 1..k : messages[i] \in roles}

\* A filter goes on with the next message.
LEMMA FilterStep ==
  ASSUME NEW messages \in Seq(STRING), NEW roles, NEW k \in 1..Len(messages), NEW s,
         Filters(s, messages, roles, k - 1), NEW t,
         t = IF messages[k] \in roles THEN Append(s, [role |-> messages[k], n |-> k]) ELSE s
  PROVE  Filters(t, messages, roles, k)
<1> DEFINE x == [role |-> messages[k], n |-> k]
<1>0. /\ Len(messages) \in Nat /\ k \in Nat /\ s \in Seq(Turn) /\ Len(s) \in Nat
      /\ x \in Turn /\ x.n = k
  BY DEF Filters, Turn
<1>1. CASE messages[k] \notin roles
  <2>1. {i \in 1..k : messages[i] \in roles} = {i \in 1..(k - 1) : messages[i] \in roles}
    BY <1>0, <1>1
  <2> QED
    BY <1>1, <2>1 DEF Filters
<1>2. CASE messages[k] \in roles
  <2> HIDE DEF x
  <2>1. t = Append(s, x)
    BY <1>2 DEF x
  <2>2. /\ t \in Seq(Turn) /\ Len(t) = Len(s) + 1 /\ t[Len(s) + 1] = x
        /\ \A i \in 1..Len(s) : t[i] = s[i]
    BY <1>0, <2>1
  <2>3. {i \in 1..k : messages[i] \in roles} = {i \in 1..(k - 1) : messages[i] \in roles} \cup {k}
    BY <1>0, <1>2
  <2>4. \A i \in 1..Len(s) : s[i].n \in 1..(k - 1)
    BY DEF Filters
  <2>5. 1..Len(t) = 1..Len(s) \cup {Len(s) + 1}
    BY <1>0, <2>2
  <2>6. ASSUME NEW i \in 1..Len(t), NEW j \in 1..Len(t), i < j PROVE t[i].n < t[j].n
    <3>1. i \in 1..Len(s)
      BY <1>0, <2>2, <2>6
    <3>2. CASE j \in 1..Len(s)
      BY <2>2, <2>6, <3>1, <3>2 DEF Filters
    <3>3. CASE j = Len(s) + 1
      <4>1. t[i].n \in 1..(k - 1) /\ t[j].n = k
        BY <1>0, <2>2, <2>4, <3>1, <3>3
      <4> QED
        BY <1>0, <4>1
    <3> QED
      BY <2>5, <3>2, <3>3
  <2>7. {t[i].n : i \in 1..Len(t)} = {s[i].n : i \in 1..Len(s)} \cup {k}
    BY <1>0, <2>2, <2>5
  <2> QED
    BY <2>2, <2>3, <2>6, <2>7 DEF Filters
<1> QED
  BY <1>1, <1>2

LEMMA NothingFiltered ==
  ASSUME NEW messages, NEW roles
  PROVE  Filters(<<>>, messages, roles, 0)
  BY DEF Filters, Turn

LEMMA NumberedTurns ==
  ASSUME NEW messages \in Seq(STRING)
  PROVE  /\ Numbered(messages) \in Seq(Turn) /\ Len(Numbered(messages)) = Len(messages)
         /\ \A k \in 1..Len(messages) : Numbered(messages)[k] = [role |-> messages[k], n |-> k]
<1> DEFINE m == Numbered(messages)
<1>1. Len(messages) \in Nat /\ DOMAIN messages = 1..Len(messages)
  OBVIOUS
<1>2. m = [k \in 1..Len(messages) |-> [role |-> messages[k], n |-> k]]
  BY <1>1 DEF Numbered
<1>3. \A k \in 1..Len(messages) : m[k] = [role |-> messages[k], n |-> k] /\ m[k] \in Turn
  BY <1>1, <1>2 DEF Turn
<1>4. DOMAIN m = 1..Len(messages)
  BY <1>2
<1>5. m \in [1..Len(messages) -> Turn]
  BY <1>2, <1>3
<1> HIDE DEF m
<1>6. m \in Seq(Turn) /\ Len(m) = Len(messages)
  BY <1>1, <1>5
<1> QED
  BY <1>3, <1>6 DEF m

\* What Filter has kept of the first k items.
FilterLoop(f, s, places) ==
  /\ f[0] = <<>>
  /\ \A k \in 1..Len(s) : f[k] = IF k \in places THEN Append(f[k - 1], s[k]) ELSE f[k - 1]

LEMMA FilterLoops ==
  ASSUME NEW T, NEW s \in Seq(T), NEW places
  PROVE  /\ Filter(s, places) \in Seq(T)
         /\ \E f : FilterLoop(f, s, places) /\ Filter(s, places) = f[Len(s)]
<1> DEFINE n == Len(s)
           V == Seq(T)
           Step(t, k) == IF k \in places THEN Append(t, s[k]) ELSE t
           g == [x \in V \X (1..n) |-> Step(x[1], x[2])]
           list == CHOOSE f : f = [k \in 0..Len(s) |->
                     IF k = 0 THEN <<>> ELSE IF k \in places THEN Append(f[k - 1], s[k]) ELSE f[k - 1]]
<1>0. n \in Nat /\ \A k \in 1..n : s[k] \in T
  OBVIOUS
<1>1. Filter(s, places) = list[n]
  BY DEF Filter
<1>2. <<>> \in V /\ \A t \in V, k \in 1..n : Step(t, k) \in V
  BY <1>0
<1>3. \E f : f = [k \in 0..Len(s) |-> IF k = 0 THEN <<>> ELSE Step(f[k - 1], k)]
  <2> HIDE DEF V, Step, list, n
  <2>0. g \in [V \X (1..n) -> V]
    BY <1>2
  <2>1. \A t \in V, k \in 1..n : g[<<t, k>>] = Step(t, k)
    OBVIOUS
  <2> HIDE DEF g
  <2>2. PICK f \in [0..n -> V] : Iterates(f, n, <<>>, g)
    BY <1>0, <1>2, <2>0, Recursion, Zenon
  <2>3. ASSUME NEW k \in 0..n PROVE f[k] = IF k = 0 THEN <<>> ELSE Step(f[k - 1], k)
    <3>1. CASE k # 0
      <4>1. k \in 1..n /\ k - 1 \in 0..n
        BY <1>0, <3>1
      <4> QED
        BY <2>1, <2>2, <3>1, <4>1 DEF Iterates
    <3> QED
      BY <2>2, <3>1 DEF Iterates
  <2> QED
    BY <2>3 DEF n
<1>4. list = [k \in 0..Len(s) |-> IF k = 0 THEN <<>> ELSE Step(list[k - 1], k)]
  BY <1>3, Zenon
<1> HIDE DEF list
<1>5. list[0] = <<>> /\ \A k \in 1..n : list[k] = Step(list[k - 1], k)
  <2> HIDE DEF Step
  <2> QED
    BY <1>0, <1>4
<1> DEFINE P == {k \in 0..n : list[k] \in V}
<1>6. 0 \in P
  <2> HIDE DEF Step, V, n
  <2> QED
    BY <1>0, <1>2, <1>5
<1>7. ASSUME NEW k \in 0..(n - 1), k \in P PROVE k + 1 \in P
  <2> HIDE DEF Step, V
  <2>1. k + 1 \in 1..n /\ k + 1 \in 0..n /\ (k + 1) - 1 = k
    BY <1>0
  <2> QED
    BY <1>2, <1>5, <1>7, <2>1
<1> HIDE DEF P
<1>8. \A k \in 0..n : k \in P
  BY <1>0, <1>6, <1>7, UpTo
<1>9. list[n] \in V
  BY <1>0, <1>8 DEF P
<1> QED
  BY <1>1, <1>5, <1>9 DEF FilterLoop

\* messages.filter keeps the messages of the roles and their order.
LEMMA OfRolesFilters ==
  ASSUME NEW messages \in Seq(STRING), NEW roles
  PROVE  Filters(OfRoles(Numbered(messages), roles), messages, roles, Len(messages))
<1> DEFINE m == Numbered(messages)
           n == Len(messages)
           places == {i \in DOMAIN m : m[i].role \in roles}
<1>0. /\ n \in Nat /\ m \in Seq(Turn) /\ Len(m) = n
      /\ \A k \in 1..n : m[k] = [role |-> messages[k], n |-> k]
  BY NumberedTurns
<1>1. OfRoles(m, roles) = Filter(m, places)
  BY DEF OfRoles
<1> HIDE DEF m, n
<1>2. DOMAIN m = 1..n /\ \A k \in 1..n : k \in places <=> messages[k] \in roles
  BY <1>0
<1> HIDE DEF places
<1>a. PICK f : FilterLoop(f, m, places) /\ Filter(m, places) = f[Len(m)]
  BY <1>0, FilterLoops
<1>3. /\ f[0] = <<>> /\ Filter(m, places) = f[Len(m)]
      /\ \A k \in 1..n : f[k] = IF k \in places THEN Append(f[k - 1], m[k]) ELSE f[k - 1]
  BY <1>0, <1>a DEF FilterLoop
<1> DEFINE P == {k \in 0..n : Filters(f[k], messages, roles, k)}
<1>6. 0 \in P
  BY <1>0, <1>3, NothingFiltered
<1>7. ASSUME NEW k \in 0..(n - 1), k \in P PROVE k + 1 \in P
  <2>1. k + 1 \in 1..n /\ k + 1 \in 0..n /\ (k + 1) - 1 = k
    BY <1>0
  <2>2. f[k + 1] = IF messages[k + 1] \in roles
                   THEN Append(f[k], [role |-> messages[k + 1], n |-> k + 1]) ELSE f[k]
    BY <1>0, <1>2, <1>3, <2>1
  <2>3. Filters(f[k], messages, roles, (k + 1) - 1)
    BY <1>7, <2>1
  <2>4. Filters(f[k + 1], messages, roles, k + 1)
    BY <2>1, <2>2, <2>3, FilterStep DEF n
  <2> QED
    BY <2>1, <2>4
<1> HIDE DEF P
<1>8. \A k \in 0..n : k \in P
  BY <1>0, <1>6, <1>7, UpTo
<1>9. n \in P
  BY <1>0, <1>8
<1> QED
  BY <1>0, <1>1, <1>3, <1>9 DEF P, m, n

\* What TurnsSurvive says of the body that a provider is sent.
Survives(b, provider, messages) ==
  LET OfRole(rs) == {i \in DOMAIN messages : messages[i] \in rs}
      System     == IF provider \in {"ANTHROPIC", "GEMINI"} THEN OfRole({"system"}) ELSE {}
      sent       == {b.turns[i].n : i \in DOMAIN b.turns}
  IN  /\ \A i, j \in DOMAIN b.turns : i < j => b.turns[i].n < b.turns[j].n
      /\ OfRole({"user", "assistant"}) \subseteq sent
      /\ {m.n : m \in ToSet(b.system)} = System
      /\ System # {} => System \cap sent = {}

LEMMA AnthropicTurnsSurvive ==
  ASSUME NEW messages \in Seq(STRING), NEW provider \in {"ANTHROPIC", "GEMINI"}
  PROVE  /\ Survives(AnthropicTurns(Numbered(messages)), provider, messages)
         /\ AnthropicTurns(Numbered(messages)).turns \in Seq(Turn)
<1> DEFINE s == OfRoles(Numbered(messages), {"system"})
           t == OfRoles(Numbered(messages), {"user", "assistant"})
           b == AnthropicTurns(Numbered(messages))
           n == Len(messages)
           OfRole(rs) == {i \in DOMAIN messages : messages[i] \in rs}
<1>1. b.system = s /\ b.turns = t
  BY DEF AnthropicTurns
<1>2. DOMAIN messages = 1..n
  OBVIOUS
<1>3. /\ s \in Seq(Turn) /\ DOMAIN s = 1..Len(s)
      /\ {s[i].n : i \in 1..Len(s)} = OfRole({"system"})
  BY <1>2, OfRolesFilters DEF Filters
<1>4. /\ t \in Seq(Turn) /\ DOMAIN t = 1..Len(t)
      /\ \A i, j \in 1..Len(t) : i < j => t[i].n < t[j].n
      /\ {t[i].n : i \in 1..Len(t)} = OfRole({"user", "assistant"})
  BY <1>2, OfRolesFilters DEF Filters
<1>5. OfRole({"system"}) \cap OfRole({"user", "assistant"}) = {}
  OBVIOUS
<1> HIDE DEF s, t, b, n, OfRole
<1>6. {m.n : m \in ToSet(s)} = {s[i].n : i \in 1..Len(s)}
  BY <1>3 DEF ToSet
<1>7. {t[i].n : i \in DOMAIN t} = OfRole({"user", "assistant"})
  BY <1>4
<1>8. Survives(b, provider, messages)
  <2>1. \A i, j \in DOMAIN b.turns : i < j => b.turns[i].n < b.turns[j].n
    BY <1>1, <1>4
  <2>2. {m.n : m \in ToSet(b.system)} = OfRole({"system"})
    BY <1>1, <1>3, <1>6
  <2>3. {b.turns[i].n : i \in DOMAIN b.turns} = OfRole({"user", "assistant"})
    BY <1>1, <1>7
  <2> QED
    BY <1>5, <2>1, <2>2, <2>3 DEF Survives, OfRole
<1> QED
  BY <1>1, <1>4, <1>8 DEF b

\* The roles of Gemini are other names for the same turns.
LEMMA GeminiTurnsSurvive ==
  ASSUME NEW messages \in Seq(STRING)
  PROVE  Survives(GeminiTurns(Numbered(messages)), "GEMINI", messages)
<1> DEFINE a == AnthropicTurns(Numbered(messages))
           b == GeminiTurns(Numbered(messages))
           u == [i \in DOMAIN a.turns |->
                   IF a.turns[i].role = "assistant" THEN [a.turns[i] EXCEPT !.role = "model"] ELSE a.turns[i]]
<1>1. Survives(a, "GEMINI", messages) /\ a.turns \in Seq(Turn)
  BY AnthropicTurnsSurvive
<1>2. b.system = a.system /\ b.turns = u
  BY DEF GeminiTurns, AnthropicTurns
<1>3. \A i \in DOMAIN a.turns : a.turns[i] \in Turn
  BY <1>1
<1> HIDE DEF a, b
<1>4. \A i \in DOMAIN a.turns : u[i].n = a.turns[i].n
  BY <1>3 DEF Turn
<1>5. DOMAIN b.turns = DOMAIN a.turns /\ \A i \in DOMAIN a.turns : b.turns[i].n = a.turns[i].n
  BY <1>2, <1>4
<1>6. {b.turns[i].n : i \in DOMAIN b.turns} = {a.turns[i].n : i \in DOMAIN a.turns}
  BY <1>5
<1> HIDE DEF u
<1>7. Survives(b, "GEMINI", messages)
  BY <1>1, <1>2, <1>5, <1>6 DEF Survives
<1> QED
  BY <1>7 DEF b

\* Where nothing is translated the messages go upstream as they are.
LEMMA PlainTurnsSurvive ==
  ASSUME NEW messages \in Seq(STRING), NEW provider, provider \notin {"ANTHROPIC", "GEMINI"}
  PROVE  Survives([system |-> <<>>, turns |-> Numbered(messages)], provider, messages)
<1> DEFINE m == Numbered(messages)
           b == [system |-> <<>>, turns |-> m]
<1>1. /\ DOMAIN m = 1..Len(messages) /\ DOMAIN messages = 1..Len(messages) /\ Len(messages) \in Nat
      /\ \A k \in 1..Len(messages) : m[k].n = k
  <2>1. m \in Seq(Turn) /\ Len(m) = Len(messages)
    BY NumberedTurns
  <2>2. \A k \in 1..Len(messages) : m[k] = [role |-> messages[k], n |-> k]
    BY NumberedTurns
  <2> HIDE DEF m, b
  <2>3. ASSUME NEW k \in 1..Len(messages) PROVE m[k].n = k
    <3>1. m[k] = [role |-> messages[k], n |-> k]
      BY <2>2
    <3>2. [role |-> messages[k], n |-> k].n = k
      OBVIOUS
    <3> QED
      BY <3>1, <3>2
  <2>4. DOMAIN m = 1..Len(m)
    BY <2>1
  <2>5. DOMAIN messages = 1..Len(messages) /\ Len(messages) \in Nat
    OBVIOUS
  <2> QED
    BY <2>1, <2>3, <2>4, <2>5
<1>2. b.turns = m /\ b.system = <<>>
  OBVIOUS
<1> HIDE DEF m, b
<1>3. \A i, j \in DOMAIN b.turns : i < j => b.turns[i].n < b.turns[j].n
  BY <1>1, <1>2
<1>4. {b.turns[i].n : i \in DOMAIN b.turns} = DOMAIN messages
  BY <1>1, <1>2
<1>5. {x.n : x \in ToSet(b.system)} = {}
  BY <1>2 DEF ToSet
<1>6. Survives(b, provider, messages)
  BY <1>3, <1>4, <1>5 DEF Survives
<1> QED
  BY <1>6 DEF b, m

\* The inductive invariant behind TurnsSurvive: before it is sent a request is as
\* the client wrote it.
TurnsInv == (phase = "new" => call \in Calls) /\ TurnsSurvive

LEMMA ForwardKeepsTurns ==
  ASSUME TurnsInv, NEW json \in BOOLEAN, NEW messages \in Messages, Forward(json, messages)
  PROVE  TurnsInv'
<1>1. /\ phase = "new" /\ phase' # "new"
      /\ call' = [call EXCEPT !.json = json, !.messages = messages]
  BY DEF Forward
<1>2. {"provider", "unified", "messages"} \subseteq DOMAIN call
  <2>1. call \in ProxyCall
    BY <1>1, MeteringAssumption DEF TurnsInv
  <2> QED
    BY <2>1 DEF ProxyCall
<1>3. call'.provider = call.provider /\ call'.unified = call.unified /\ call'.messages = messages
  BY <1>1, <1>2
<1>4. messages \in Seq(STRING)
  BY MeteringAssumption
<1>5. call.unified => Survives(body', call.provider, messages)
  <2> SUFFICES ASSUME call.unified PROVE Survives(body', call.provider, messages)
    OBVIOUS
  <2>1. CASE call.provider = "ANTHROPIC"
    BY <1>4, <2>1, AnthropicTurnsSurvive DEF Forward
  <2>2. CASE call.provider = "GEMINI"
    BY <1>4, <2>2, GeminiTurnsSurvive DEF Forward
  <2>3. CASE call.provider \notin {"ANTHROPIC", "GEMINI"}
    BY <1>4, <2>3, PlainTurnsSurvive DEF Forward
  <2> QED
    BY <2>1, <2>2, <2>3
<1>6. TurnsSurvive'
  BY <1>3, <1>5 DEF TurnsSurvive, Survives
<1> QED
  BY <1>1, <1>6 DEF TurnsInv

\* A conversation of any length that the unified endpoint translates reaches the
\* provider with every turn in order and every system message, once, and in its
\* place (openaiToAnthropicRequest, openaiToGeminiRequest).
THEOREM ConversationsSurvive == GatewaySpec => []TurnsSurvive
<1>1. GatewayInit => TurnsInv
  BY DEF GatewayInit, MeterInit, TurnsInv, TurnsSurvive
<1>2. TurnsInv /\ [GatewayNext]_gatewayVars => TurnsInv'
  <2> SUFFICES ASSUME TurnsInv, [GatewayNext]_gatewayVars PROVE TurnsInv'
    OBVIOUS
  <2>1. ASSUME NEW json \in BOOLEAN, NEW m \in Messages, Forward(json, m) PROVE TurnsInv'
    BY <2>1, ForwardKeepsTurns
  <2>2. CASE UNCHANGED <<call, body>> /\ phase # "new" /\ phase' # "new"
    BY <2>2 DEF TurnsInv, TurnsSurvive
  <2>3. ASSUME NEW n \in 1..Len(Bytes), Chunk(n) PROVE TurnsInv'
    BY <2>2, <2>3 DEF Chunk
  <2>4. CASE End \/ Abort
    BY <2>2, <2>4 DEF End, Abort
  <2>5. ASSUME NEW json \in BOOLEAN, Reply(json) PROVE TurnsInv'
    BY <2>2, <2>5 DEF Reply
  <2>6. CASE UNCHANGED meterVars
    BY <2>6 DEF TurnsInv, TurnsSurvive, meterVars
  <2> QED
    BY <2>1, <2>3, <2>4, <2>5, <2>6 DEF GatewayNext, gatewayVars, MeterNext
<1>3. TurnsInv => TurnsSurvive
  BY DEF TurnsInv
<1> QED
  BY <1>1, <1>2, <1>3, PTL DEF GatewaySpec

---------------------------------------------------------------------------
(* The loops of the metering *)

\* What the first frames say is said frame by frame.
LEMMA SaysLoops ==
  ASSUME Len(stream) \in Nat
  PROVE  /\ Says[0] = NoMeter
         /\ \A k \in 1..Len(stream) :
              Says[k] = IF HasPayload(call, stream[k]) THEN OnFrame(Says[k - 1], stream[k]) ELSE Says[k - 1]
<1> DEFINE n == Len(stream)
           Step(x, k) == IF HasPayload(call, stream[k]) THEN OnFrame(x, stream[k]) ELSE x
           Has(m) == \E f : f = [k \in 0..m |-> IF k = 0 THEN NoMeter ELSE Step(f[k - 1], k)]
           P == {m \in 0..n : Has(m)}
<1>1. 0 \in P
  <2> HIDE DEF Step
  <2> DEFINE f == [k \in 0..0 |-> NoMeter]
  <2>1. f = [k \in 0..0 |-> IF k = 0 THEN NoMeter ELSE Step(f[k - 1], k)]
    OBVIOUS
  <2> HIDE DEF f
  <2>2. Has(0)
    BY <2>1
  <2> QED
    BY <2>2
<1>2. ASSUME NEW m \in 0..(n - 1), m \in P PROVE m + 1 \in P
  <2> HIDE DEF Step
  <2>1. PICK f : f = [k \in 0..m |-> IF k = 0 THEN NoMeter ELSE Step(f[k - 1], k)]
    BY <1>2
  <2> DEFINE h == [k \in 0..(m + 1) |-> IF k <= m THEN f[k] ELSE Step(f[m], m + 1)]
  <2>2. m \in Nat /\ m + 1 \in 0..n
    OBVIOUS
  <2>3. h[m + 1] = Step(f[m], m + 1) /\ \A k \in 0..m : h[k] = f[k]
    BY <2>2
  <2>4. h = [k \in 0..(m + 1) |-> h[k]]
    OBVIOUS
  <2> HIDE DEF h
  <2>5. ASSUME NEW k \in 0..(m + 1) PROVE h[k] = IF k = 0 THEN NoMeter ELSE Step(h[k - 1], k)
    <3>1. CASE k = m + 1
      <4>1. m \in 0..m /\ k - 1 = m /\ k # 0
        BY <2>2, <3>1
      <4> QED
        BY <2>3, <3>1, <4>1
    <3>2. CASE k # m + 1
      <4>1. k \in 0..m /\ (k # 0 => k - 1 \in 0..m)
        BY <2>2, <3>2
      <4> QED
        BY <2>1, <2>3, <4>1
    <3> QED
      BY <3>1, <3>2
  <2>6. Has(m + 1)
    BY <2>4, <2>5
  <2> QED
    BY <2>2, <2>6
<1> HIDE DEF P
<1>3. \A k \in 0..n : k \in P
  BY <1>1, <1>2, UpTo
<1>4. Has(n)
  <2> HIDE DEF Has
  <2>1. n \in P
    BY <1>3
  <2> QED
    BY <2>1 DEF P
<1>5. Says = [k \in 0..n |-> IF k = 0 THEN NoMeter ELSE Step(Says[k - 1], k)]
  BY <1>4, Zenon DEF Says
<1>6. Says[0] = NoMeter /\ \A k \in 1..n : Says[k] = Step(Says[k - 1], k)
  <2> HIDE DEF Step
  <2> QED
    BY <1>5
<1> QED
  BY <1>6

\* The frames are tapped one by one.
LEMMA TapsLoop ==
  ASSUME NEW frames, Len(frames) \in Nat
  PROVE  \E f : /\ f[0] = [meter |-> meter, started |-> started, out |-> out]
                /\ \A k \in 1..Len(frames) : f[k] = Tap(f[k - 1], frames[k])
                /\ TapAll(frames) = f[Len(frames)]
<1> DEFINE n == Len(frames)
           start == [meter |-> meter, started |-> started, out |-> out]
           Step(x, k) == Tap(x, frames[k])
           t == CHOOSE f : f = [k \in 0..n |-> IF k = 0 THEN start ELSE Step(f[k - 1], k)]
           Has(m) == \E f : f = [k \in 0..m |-> IF k = 0 THEN start ELSE Step(f[k - 1], k)]
           P == {m \in 0..n : Has(m)}
<1>1. 0 \in P
  <2> HIDE DEF Step, start, t
  <2> DEFINE f == [k \in 0..0 |-> start]
  <2>1. f = [k \in 0..0 |-> IF k = 0 THEN start ELSE Step(f[k - 1], k)]
    OBVIOUS
  <2> HIDE DEF f
  <2>2. Has(0)
    BY <2>1
  <2> QED
    BY <2>2
<1>2. ASSUME NEW m \in 0..(n - 1), m \in P PROVE m + 1 \in P
  <2> HIDE DEF Step, start, t
  <2>1. PICK f : f = [k \in 0..m |-> IF k = 0 THEN start ELSE Step(f[k - 1], k)]
    BY <1>2
  <2> DEFINE h == [k \in 0..(m + 1) |-> IF k <= m THEN f[k] ELSE Step(f[m], m + 1)]
  <2>2. m \in Nat /\ m + 1 \in 0..n
    OBVIOUS
  <2>3. h[m + 1] = Step(f[m], m + 1) /\ \A k \in 0..m : h[k] = f[k]
    BY <2>2
  <2>4. h = [k \in 0..(m + 1) |-> h[k]]
    OBVIOUS
  <2> HIDE DEF h
  <2>5. ASSUME NEW k \in 0..(m + 1) PROVE h[k] = IF k = 0 THEN start ELSE Step(h[k - 1], k)
    <3>1. CASE k = m + 1
      <4>1. m \in 0..m /\ k - 1 = m /\ k # 0
        BY <2>2, <3>1
      <4> QED
        BY <2>3, <3>1, <4>1
    <3>2. CASE k # m + 1
      <4>1. k \in 0..m /\ (k # 0 => k - 1 \in 0..m)
        BY <2>2, <3>2
      <4> QED
        BY <2>1, <2>3, <4>1
    <3> QED
      BY <3>1, <3>2
  <2>6. Has(m + 1)
    BY <2>4, <2>5
  <2> QED
    BY <2>2, <2>6
<1> HIDE DEF P
<1>3. \A k \in 0..n : k \in P
  BY <1>1, <1>2, UpTo
<1>4. Has(n)
  <2> HIDE DEF Has
  <2>1. n \in P
    BY <1>3
  <2> QED
    BY <2>1 DEF P
<1>5. t = [k \in 0..n |-> IF k = 0 THEN start ELSE Step(t[k - 1], k)]
  BY <1>4, Zenon
<1>6. TapAll(frames) = t[n]
  BY DEF TapAll
<1> HIDE DEF t
<1>7. t[0] = start /\ \A k \in 1..n : t[k] = Step(t[k - 1], k)
  <2> HIDE DEF Step, start
  <2> QED
    BY <1>5
<1> QED
  BY <1>6, <1>7

\* What the loop of _transform has cut off after k bytes.
CutLoop(f, text) ==
  LET d == Len(Delimiter)
  IN  /\ f[0] = [frames |-> <<>>, from |-> 1]
      /\ \A k \in 1..Len(text) :
           f[k] = IF k - d + 1 >= f[k - 1].from /\ SubSeq(text, k - d + 1, k) = Delimiter
                  THEN [frames |-> Append(f[k - 1].frames, SubSeq(text, f[k - 1].from, k - d)), from |-> k + 1]
                  ELSE f[k - 1]

\* The text is cut byte by byte.
LEMMA CutLoops ==
  ASSUME NEW text, Len(text) \in Nat
  PROVE  \E f : CutLoop(f, text) /\ Cut(text) = [frames |-> f[Len(text)].frames,
                                                   pending |-> Rest(text, f[Len(text)].from)]
<1> DEFINE n == Len(text)
           start == [frames |-> <<>>, from |-> 1]
           d == Len(Delimiter)
           Step(p, k) == IF k - d + 1 >= p.from /\ SubSeq(text, k - d + 1, k) = Delimiter
                         THEN [frames |-> Append(p.frames, SubSeq(text, p.from, k - d)), from |-> k + 1]
                         ELSE p
           c == CHOOSE f : f = [k \in 0..n |-> IF k = 0 THEN start ELSE Step(f[k - 1], k)]
           Has(m) == \E f : f = [k \in 0..m |-> IF k = 0 THEN start ELSE Step(f[k - 1], k)]
           P == {m \in 0..n : Has(m)}
<1>1. 0 \in P
  <2> HIDE DEF Step, start, c
  <2> DEFINE f == [k \in 0..0 |-> start]
  <2>1. f = [k \in 0..0 |-> IF k = 0 THEN start ELSE Step(f[k - 1], k)]
    OBVIOUS
  <2> HIDE DEF f
  <2>2. Has(0)
    BY <2>1
  <2> QED
    BY <2>2
<1>2. ASSUME NEW m \in 0..(n - 1), m \in P PROVE m + 1 \in P
  <2> HIDE DEF Step, start, c
  <2>1. PICK f : f = [k \in 0..m |-> IF k = 0 THEN start ELSE Step(f[k - 1], k)]
    BY <1>2
  <2> DEFINE h == [k \in 0..(m + 1) |-> IF k <= m THEN f[k] ELSE Step(f[m], m + 1)]
  <2>2. m \in Nat /\ m + 1 \in 0..n
    OBVIOUS
  <2>3. h[m + 1] = Step(f[m], m + 1) /\ \A k \in 0..m : h[k] = f[k]
    BY <2>2
  <2>4. h = [k \in 0..(m + 1) |-> h[k]]
    OBVIOUS
  <2> HIDE DEF h
  <2>5. ASSUME NEW k \in 0..(m + 1) PROVE h[k] = IF k = 0 THEN start ELSE Step(h[k - 1], k)
    <3>1. CASE k = m + 1
      <4>1. m \in 0..m /\ k - 1 = m /\ k # 0
        BY <2>2, <3>1
      <4> QED
        BY <2>3, <3>1, <4>1
    <3>2. CASE k # m + 1
      <4>1. k \in 0..m /\ (k # 0 => k - 1 \in 0..m)
        BY <2>2, <3>2
      <4> QED
        BY <2>1, <2>3, <4>1
    <3> QED
      BY <3>1, <3>2
  <2>6. Has(m + 1)
    BY <2>4, <2>5
  <2> QED
    BY <2>2, <2>6
<1> HIDE DEF P
<1>3. \A k \in 0..n : k \in P
  BY <1>1, <1>2, UpTo
<1>4. Has(n)
  <2> HIDE DEF Has
  <2>1. n \in P
    BY <1>3
  <2> QED
    BY <2>1 DEF P
<1>5. c = [k \in 0..n |-> IF k = 0 THEN start ELSE Step(c[k - 1], k)]
  BY <1>4, Zenon
<1>6. Cut(text) = [frames |-> c[n].frames, pending |-> Rest(text, c[n].from)]
  BY DEF Cut
<1> HIDE DEF c
<1>7. c[0] = start /\ \A k \in 1..n : c[k] = Step(c[k - 1], k)
  <2> HIDE DEF Step, start
  <2> QED
    BY <1>5
<1> QED
  BY <1>6, <1>7 DEF CutLoop

---------------------------------------------------------------------------
(* Frames and chunks *)

Byte == Nat \X Nat

\* A text that was decoded from the bytes after the first a frames, in whatever
\* chunks they came.
Reads(text, a) ==
  /\ text \in Seq(Byte)
  /\ \A d \in Nat, q \in 1..Width : d * Width + q <= Len(text) =>
       IF q <= 2 THEN text[d * Width + q] \in {<<a + d + 1, q>>, <<a + d + 1, 3>>}
                 ELSE text[d * Width + q] = NL

LEMMA Delimiters ==
  \/ Delimiter = <<NL, NL>> /\ Len(Delimiter) = 2 /\ Width = 4
  \/ Delimiter = <<NL>> /\ Len(Delimiter) = 1 /\ Width = 3
  BY DEF Delimiter, Width

LEMMA Widths == Width \in {3, 4} /\ Width \in Nat /\ Len(Delimiter) = Width - 2
<1>1. CASE Len(Delimiter) = 2 /\ Width = 4
  BY <1>1
<1>2. CASE Len(Delimiter) = 1 /\ Width = 3
  BY <1>2
<1> QED
  BY <1>1, <1>2, Delimiters, Zenon

LEMMA Times ==
  ASSUME NEW d \in Nat
  PROVE  d * Width \in Nat /\ (d + 1) * Width = d * Width + Width
<1>1. CASE Width = 3
  BY <1>1
<1>2. CASE Width = 4
  BY <1>2
<1> QED
  BY <1>1, <1>2, Widths

LEMMA Piece ==
  ASSUME NEW s \in Seq(Byte), NEW h \in Nat, NEW n \in Nat, h + n <= Len(s)
  PROVE  /\ SubSeq(s, h + 1, h + n) \in Seq(Byte) /\ Len(SubSeq(s, h + 1, h + n)) = n
         /\ \A j \in 1..n : SubSeq(s, h + 1, h + n)[j] = s[h + j]
<1> DEFINE p == SubSeq(s, h + 1, h + n)
<1>1. p \in Seq(Byte) /\ Len(p) = n
  OBVIOUS
<1>2. ASSUME NEW j \in 1..n PROVE p[j] = s[h + j]
  OBVIOUS
<1> QED
  BY <1>1, <1>2

LEMMA OneByte ==
  ASSUME NEW text \in Seq(Byte), NEW i \in 1..Len(text)
  PROVE  SubSeq(text, i, i) = <<text[i]>>
<1> DEFINE s == SubSeq(text, i, i)
<1>1. i \in Nat /\ Len(text) \in Nat /\ text[i] \in Byte
  OBVIOUS
<1>2. s \in Seq(Byte) /\ Len(s) = 1 /\ s[1] = text[i]
  BY <1>1
<1> HIDE DEF s
<1>3. s = <<text[i]>>
  BY <1>1, <1>2
<1> QED
  BY <1>3 DEF s

LEMMA OneMore ==
  ASSUME NEW T, NEW s \in Seq(T), NEW x \in T
  PROVE  /\ Append(s, x) \in Seq(T) /\ Len(Append(s, x)) = Len(s) + 1
         /\ Append(s, x)[Len(s) + 1] = x /\ \A j \in 1..Len(s) : Append(s, x)[j] = s[j]
  OBVIOUS

LEMMA TwoBytes ==
  ASSUME NEW text \in Seq(Byte), NEW i \in 1..Len(text), i + 1 <= Len(text)
  PROVE  SubSeq(text, i, i + 1) = <<text[i], text[i + 1]>>
<1> DEFINE s == SubSeq(text, i, i + 1)
<1>1. i \in Nat /\ Len(text) \in Nat /\ text[i] \in Byte /\ text[i + 1] \in Byte
  OBVIOUS
<1>2. s \in Seq(Byte) /\ Len(s) = 2 /\ s[1] = text[i] /\ s[2] = text[i + 1]
  BY <1>1
<1> HIDE DEF s
<1>3. s = <<text[i], text[i + 1]>>
  BY <1>1, <1>2
<1> QED
  BY <1>3 DEF s

\* After k bytes the loop has cut off d frames and is q bytes into the next.
CutAt(f, text, k, d, q) ==
  /\ d \in Nat /\ q \in 0..(Width - 1) /\ k = d * Width + q
  /\ f[k].from = d * Width + 1
  /\ f[k].frames \in Seq(Seq(Byte)) /\ Len(f[k].frames) = d
  /\ \A j \in 1..d : f[k].frames[j] = <<text[(j - 1) * Width + 1], text[(j - 1) * Width + 2]>>

\* Inside a frame or its delimiter nothing is cut off.
LEMMA CutGoesOn ==
  ASSUME NEW f, NEW text, NEW a \in Nat, NEW k \in 0..(Len(text) - 1), NEW d, NEW q,
         Reads(text, a), CutLoop(f, text), CutAt(f, text, k, d, q), q + 1 < Width
  PROVE  CutAt(f, text, k + 1, d, q + 1)
<1> DEFINE L == Len(Delimiter)
<1>0. /\ d \in Nat /\ q \in 0..(Width - 1) /\ k \in Nat /\ k = d * Width + q /\ Width \in Nat
      /\ text \in Seq(Byte) /\ Len(text) \in Nat /\ k + 1 \in 1..Len(text) /\ q + 1 \in 1..Width
      /\ f[k].from = d * Width + 1
  <2>1. d \in Nat /\ k = d * Width + q /\ f[k].from = d * Width + 1 /\ q \in 0..(Width - 1)
    BY DEF CutAt
  <2>2. text \in Seq(Byte) /\ Len(text) \in Nat
    BY DEF Reads
  <2>4. k \in Nat /\ k + 1 \in 1..Len(text)
    BY <2>2
  <2>5. Width \in Nat /\ q + 1 \in 1..Width
    BY <2>1, Widths
  <2> QED
    BY <2>1, <2>2, <2>4, <2>5
<1>1. f[k + 1] = IF (k + 1) - L + 1 >= f[k].from /\ SubSeq(text, (k + 1) - L + 1, k + 1) = Delimiter
                 THEN [frames |-> Append(f[k].frames, SubSeq(text, f[k].from, (k + 1) - L)), from |-> (k + 1) + 1]
                 ELSE f[k]
  <2>1. (k + 1) - 1 = k
    BY <1>0
  <2> QED
    BY <1>0, <2>1 DEF CutLoop
<1>2. ~((k + 1) - L + 1 >= f[k].from /\ SubSeq(text, (k + 1) - L + 1, k + 1) = Delimiter)
  <2>1. ASSUME NEW p \in 1..2, d * Width + p <= Len(text) PROVE text[d * Width + p] # NL
    <3>1. p \in 1..Width /\ p <= 2
      BY Delimiters
    <3>2. text[d * Width + p] \in {<<a + d + 1, p>>, <<a + d + 1, 3>>}
      BY <1>0, <2>1, <3>1 DEF Reads
    <3> QED
      BY <1>0, <3>2 DEF NL
  <2>2. CASE Delimiter = <<NL>> /\ L = 1 /\ Width = 3
    <3>1. SubSeq(text, (k + 1) - L + 1, k + 1) = <<text[k + 1]>>
      BY <1>0, <2>2, OneByte
    <3>2. text[k + 1] # NL
      <4>1. q + 1 \in 1..2 /\ k + 1 = d * Width + (q + 1)
        BY <1>0, <2>2
      <4> QED
        BY <1>0, <2>1, <4>1
    <3> QED
      BY <2>2, <3>1, <3>2
  <2>3. CASE Delimiter = <<NL, NL>> /\ L = 2 /\ Width = 4
    <3> SUFFICES ASSUME k >= f[k].from PROVE SubSeq(text, k, k + 1) # <<NL, NL>>
      BY <1>0, <2>3
    <3>1. SubSeq(text, k, k + 1) = <<text[k], text[k + 1]>>
      BY <1>0, TwoBytes
    <3>2. text[k] # NL \/ text[k + 1] # NL
      <4>1. CASE q = 1
        <5>1. k = d * Width + 1 /\ d * Width + 1 <= Len(text)
          BY <1>0, <4>1
        <5> QED
          BY <2>1, <5>1
      <4>2. CASE q = 2
        <5>1. k = d * Width + 2 /\ d * Width + 2 <= Len(text)
          BY <1>0, <4>2
        <5> QED
          BY <2>1, <5>1
      <4>3. q \in {1, 2}
        BY <1>0, <2>3
      <4> QED
        BY <4>1, <4>2, <4>3
    <3> QED
      BY <3>1, <3>2
  <2> QED
    BY <2>2, <2>3, Delimiters
<1>3. f[k + 1] = f[k]
  BY <1>1, <1>2
<1> DEFINE m == d * Width
<1>4. m \in Nat /\ k = m + q
  BY <1>0, Times
<1> HIDE DEF m
<1>5. q + 1 \in 0..(Width - 1) /\ k + 1 = m + (q + 1)
  BY <1>0, <1>4
<1>6. /\ f[k].frames \in Seq(Seq(Byte)) /\ Len(f[k].frames) = d
      /\ \A j \in 1..d : f[k].frames[j] = <<text[(j - 1) * Width + 1], text[(j - 1) * Width + 2]>>
  BY Zenon DEF CutAt
<1> QED
  BY <1>0, <1>3, <1>5, <1>6, Zenon DEF CutAt, m

\* At the end of a delimiter a frame is cut off.
LEMMA CutCuts ==
  ASSUME NEW f, NEW text, NEW a \in Nat, NEW k \in 0..(Len(text) - 1), NEW d, NEW q,
         Reads(text, a), CutLoop(f, text), CutAt(f, text, k, d, q), q + 1 = Width
  PROVE  CutAt(f, text, k + 1, d + 1, 0)
<1> DEFINE L == Len(Delimiter)
           m == d * Width
           frame == <<text[m + 1], text[m + 2]>>
<1>0. /\ d \in Nat /\ q \in Nat /\ k \in Nat /\ k = m + q /\ Width \in Nat /\ m \in Nat
      /\ text \in Seq(Byte) /\ Len(text) \in Nat /\ k + 1 \in 1..Len(text)
      /\ f[k].from = m + 1
  <2>1. d \in Nat /\ k = d * Width + q /\ f[k].from = d * Width + 1 /\ q \in 0..(Width - 1)
    BY DEF CutAt
  <2>2. text \in Seq(Byte) /\ Len(text) \in Nat
    BY DEF Reads
  <2>3. d * Width \in Nat
    BY <2>1, Times
  <2>4. k \in Nat /\ k + 1 \in 1..Len(text)
    BY <2>2
  <2>5. Width \in Nat /\ q \in Nat
    BY <2>1, Widths
  <2> QED
    BY <2>1, <2>2, <2>3, <2>4, <2>5, Zenon DEF m
<1>1. f[k + 1] = IF (k + 1) - L + 1 >= f[k].from /\ SubSeq(text, (k + 1) - L + 1, k + 1) = Delimiter
                 THEN [frames |-> Append(f[k].frames, SubSeq(text, f[k].from, (k + 1) - L)), from |-> (k + 1) + 1]
                 ELSE f[k]
  <2>1. (k + 1) - 1 = k
    BY <1>0
  <2> QED
    BY <1>0, <2>1 DEF CutLoop
<1>2. k + 1 = m + Width /\ (d + 1) * Width = m + Width
  <2>1. (d + 1) * Width = m + Width
    BY <1>0, Times
  <2> HIDE DEF m
  <2>2. k + 1 = m + Width
    BY <1>0
  <2> QED
    BY <2>1, <2>2
<1>3. ASSUME NEW p \in 3..Width PROVE text[m + p] = NL
  <2>1. p \in 1..Width /\ m + p <= Len(text) /\ ~(p <= 2)
    <3> HIDE DEF m
    <3>1. Width \in Nat /\ m \in Nat /\ m + Width <= Len(text)
      BY <1>0, <1>2
    <3> QED
      BY <3>1
  <2> QED
    BY <1>0, <2>1 DEF Reads
<1> HIDE DEF m
<1>4. (k + 1) - L + 1 >= f[k].from /\ SubSeq(text, (k + 1) - L + 1, k + 1) = Delimiter
  <2>1. CASE Delimiter = <<NL>> /\ L = 1 /\ Width = 3
    <3>1. SubSeq(text, (k + 1) - L + 1, k + 1) = <<text[k + 1]>>
      BY <1>0, <2>1, OneByte
    <3>2. text[k + 1] = NL
      BY <1>2, <1>3, <2>1
    <3> QED
      BY <1>0, <1>2, <2>1, <3>1, <3>2
  <2>2. CASE Delimiter = <<NL, NL>> /\ L = 2 /\ Width = 4
    <3>1. k \in 1..Len(text) /\ k + 1 <= Len(text) /\ k = m + 3 /\ k + 1 = m + 4
      BY <1>0, <1>2, <2>2
    <3>2. SubSeq(text, k, k + 1) = <<text[k], text[k + 1]>>
      BY <1>0, <3>1, TwoBytes
    <3>3. text[k] = NL /\ text[k + 1] = NL
      BY <1>3, <2>2, <3>1
    <3>4. (k + 1) - L + 1 = k
      BY <1>0, <2>2
    <3> QED
      BY <1>0, <2>2, <3>1, <3>2, <3>3, <3>4
  <2> QED
    BY <2>1, <2>2, Delimiters
<1>5. SubSeq(text, f[k].from, (k + 1) - L) = frame /\ frame \in Seq(Byte)
  <2>1. (k + 1) - L = (m + 1) + 1 /\ m + 1 \in 1..Len(text) /\ (m + 1) + 1 <= Len(text) /\ (m + 1) + 1 = m + 2
    <3>1. L = Width - 2 /\ Width \in {3, 4}
      BY Widths
    <3> HIDE DEF L
    <3>2. k + 1 = m + Width /\ m \in Nat /\ m + Width <= Len(text) /\ Len(text) \in Nat
      BY <1>0, <1>2
    <3> QED
      BY <3>1, <3>2
  <2>2. text[m + 1] \in Byte /\ text[m + 2] \in Byte
    BY <1>0, <2>1
  <2>3. SubSeq(text, m + 1, (m + 1) + 1) = <<text[m + 1], text[(m + 1) + 1]>>
    BY <1>0, <2>1, TwoBytes, Zenon
  <2>4. frame \in Seq(Byte)
    BY <2>2
  <2>5. text[(m + 1) + 1] = text[m + 2]
    BY <2>1
  <2> QED
    BY <1>0, <2>1, <2>3, <2>4, <2>5, Zenon
<1> HIDE DEF frame
<1>6. f[k + 1].from = (k + 1) + 1 /\ f[k + 1].frames = Append(f[k].frames, frame)
  <2> DEFINE more == Append(f[k].frames, frame)
             next == (k + 1) + 1
  <2>1. f[k + 1] = [frames |-> more, from |-> next]
    BY <1>1, <1>4, <1>5, Zenon
  <2> HIDE DEF more, next
  <2>2. f[k + 1].frames = more /\ f[k + 1].from = next
    BY <2>1
  <2> QED
    BY <2>2 DEF more, next
<1>7. /\ f[k + 1].frames \in Seq(Seq(Byte)) /\ Len(f[k + 1].frames) = d + 1
      /\ f[k + 1].frames[d + 1] = frame /\ \A j \in 1..d : f[k + 1].frames[j] = f[k].frames[j]
  <2>1. f[k].frames \in Seq(Seq(Byte)) /\ Len(f[k].frames) = d
    BY DEF CutAt
  <2>2. frame \in Seq(Byte)
    BY <1>5
  <2> DEFINE old == f[k].frames
             new == Append(old, frame)
  <2> HIDE DEF old
  <2>3. /\ new \in Seq(Seq(Byte)) /\ Len(new) = Len(old) + 1
        /\ new[Len(old) + 1] = frame /\ \A j \in 1..Len(old) : new[j] = old[j]
    <3>1. old \in Seq(Seq(Byte))
      BY <2>1 DEF old
    <3> QED
      BY <2>2, <3>1, OneMore
  <2> HIDE DEF new
  <2>4. /\ new \in Seq(Seq(Byte)) /\ Len(new) = d + 1
        /\ new[d + 1] = frame /\ \A j \in 1..d : new[j] = old[j]
    BY <2>1, <2>3 DEF old
  <2> QED
    BY <1>6, <2>4 DEF old, new
<1>8. ASSUME NEW j \in 1..(d + 1)
      PROVE  f[k + 1].frames[j] = <<text[(j - 1) * Width + 1], text[(j - 1) * Width + 2]>>
  <2>1. CASE j = d + 1
    <3>1. j - 1 = d
      BY <1>0, <2>1
    <3> QED
      BY <1>7, <2>1, <3>1 DEF frame, m
  <2>2. CASE j # d + 1
    <3>1. j \in 1..d
      BY <1>0, <2>2
    <3> QED
      BY <1>7, <3>1 DEF CutAt
  <2> QED
    BY <2>1, <2>2
<1>9. d + 1 \in Nat /\ 0 \in 0..(Width - 1) /\ k + 1 = (d + 1) * Width + 0 /\ f[k + 1].from = (d + 1) * Width + 1
  <2>1. d + 1 \in Nat /\ 0 \in 0..(Width - 1)
    BY <1>0, Widths
  <2> DEFINE v == (d + 1) * Width
  <2>2. v = m + Width
    BY <1>2
  <2> HIDE DEF v
  <2>3. v \in Nat /\ k + 1 = v
    BY <1>0, <1>2, <2>2
  <2>4. k + 1 = v + 0 /\ f[k + 1].from = v + 1
    BY <1>6, <2>3
  <2> QED
    BY <2>1, <2>4 DEF v
<1> QED
  BY <1>7, <1>8, <1>9 DEF CutAt

LEMMA Sums ==
  ASSUME NEW d \in Nat, NEW e \in Nat
  PROVE  (d + e) * Width = d * Width + e * Width /\ (d <= e => d * Width <= e * Width)
<1>1. CASE Width = 3
  BY <1>1
<1>2. CASE Width = 4
  BY <1>2
<1> QED
  BY <1>1, <1>2, Widths

\* A cut of a text: d frames, and q bytes that stay pending.
IsCut(cut, text, d, q) ==
  /\ d \in Nat /\ q \in 0..(Width - 1) /\ Len(text) = d * Width + q
  /\ cut.frames \in Seq(Seq(Byte)) /\ Len(cut.frames) = d
  /\ \A j \in 1..d : cut.frames[j] = <<text[(j - 1) * Width + 1], text[(j - 1) * Width + 2]>>
  /\ cut.pending = SubSeq(text, d * Width + 1, Len(text))

\* _transform cuts a text at its delimiters, and nowhere else.
LEMMA CutIsCut ==
  ASSUME NEW text, NEW a \in Nat, Reads(text, a)
  PROVE  \E d, q : IsCut(Cut(text), text, d, q)
<1> DEFINE n == Len(text)
<1>0. text \in Seq(Byte) /\ n \in Nat
  BY DEF Reads
<1>1. PICK f : /\ CutLoop(f, text)
               /\ Cut(text) = [frames |-> f[Len(text)].frames, pending |-> Rest(text, f[Len(text)].from)]
  BY <1>0, CutLoops
<1> DEFINE P == {k \in 0..n : \E d, q : CutAt(f, text, k, d, q)}
<1>2. 0 \in P
  <2>1. f[0] = [frames |-> <<>>, from |-> 1]
    BY <1>1 DEF CutLoop
  <2>2. 0 * Width = 0 /\ 0 \in 0..(Width - 1)
    BY Widths
  <2>3. CutAt(f, text, 0, 0, 0)
    BY <2>1, <2>2 DEF CutAt
  <2> QED
    BY <1>0, <2>3
<1>3. ASSUME NEW k \in 0..(n - 1), k \in P PROVE k + 1 \in P
  <2>1. PICK d, q : CutAt(f, text, k, d, q)
    BY <1>3
  <2>2. q \in 0..(Width - 1)
    BY <2>1 DEF CutAt
  <2>3. CASE q + 1 < Width
    BY <1>0, <1>1, <2>1, <2>3, CutGoesOn
  <2>4. CASE q + 1 = Width
    BY <1>0, <1>1, <2>1, <2>4, CutCuts
  <2> QED
    BY <2>2, <2>3, <2>4, Widths
<1> HIDE DEF P
<1>4. \A k \in 0..n : k \in P
  BY <1>0, <1>2, <1>3, UpTo
<1>5. PICK d, q : CutAt(f, text, n, d, q)
  BY <1>0, <1>4 DEF P
<1>6. IsCut(Cut(text), text, d, q)
  <2>1. Cut(text).frames = f[n].frames /\ Cut(text).pending = Rest(text, f[n].from)
    <3> DEFINE frames == f[n].frames
               rest == Rest(text, f[n].from)
    <3>1. Cut(text) = [frames |-> frames, pending |-> rest]
      BY <1>1
    <3> HIDE DEF frames, rest
    <3>2. Cut(text).frames = frames /\ Cut(text).pending = rest
      BY <3>1
    <3> QED
      BY <3>2 DEF frames, rest
  <2>2. Cut(text).pending = SubSeq(text, f[n].from, Len(text))
    BY <2>1 DEF Rest
  <2> QED
    BY <1>5, <2>1, <2>2 DEF IsCut, CutAt
<1> QED
  BY <1>6

\* A text of a whole frame, garbled or not.
LEMMA ReadsFrame ==
  ASSUME NEW b1, NEW b2, NEW i \in Nat \ {0}, b1 \in {<<i, 1>>, <<i, 3>>}, b2 \in {<<i, 2>>, <<i, 3>>}
  PROVE  IsFrame(<<b1, b2>>) /\ <<b1, b2>>[1][1] = i
<1>1. b1[1] = i /\ b2[1] = i /\ b1[2] \in {1, 3} /\ b2[2] \in {2, 3}
  OBVIOUS
<1> QED
  BY <1>1 DEF IsFrame

\* The frames that are cut off are the next ones of the stream.
LEMMA CutFrames ==
  ASSUME NEW text, NEW a \in Nat, Reads(text, a), NEW cut, NEW d, NEW q, IsCut(cut, text, d, q),
         NEW j \in 1..d
  PROVE  IsFrame(cut.frames[j]) /\ cut.frames[j][1][1] = a + j
<1> DEFINE m == (j - 1) * Width
<1>0. /\ d \in Nat /\ j \in Nat /\ j - 1 \in Nat /\ q \in Nat
      /\ Len(text) = d * Width + q /\ cut.frames[j] = <<text[m + 1], text[m + 2]>>
  <2>1. /\ d \in Nat /\ q \in 0..(Width - 1) /\ Len(text) = d * Width + q
        /\ cut.frames[j] = <<text[m + 1], text[m + 2]>>
    BY DEF IsCut
  <2>2. q \in Nat
    BY <2>1, Widths
  <2> QED
    BY <2>1, <2>2
<1>1. m + Width <= d * Width /\ m \in Nat /\ d * Width \in Nat
  <2>1. ((j - 1) + 1) * Width = m + Width /\ m \in Nat
    BY <1>0, Times
  <2>2. (j - 1) + 1 \in Nat /\ (j - 1) + 1 <= d
    BY <1>0
  <2>3. ((j - 1) + 1) * Width <= d * Width
    BY <1>0, <2>2, Sums
  <2> QED
    BY <1>0, <2>1, <2>3, Times
<1> HIDE DEF m
<1>2. ASSUME NEW p \in 1..2 PROVE text[m + p] \in {<<a + j, p>>, <<a + j, 3>>}
  <2>1. p \in 1..Width /\ m + p <= Len(text) /\ a + (j - 1) + 1 = a + j
    BY <1>0, <1>1, Widths
  <2>2. text[m + p] \in {<<a + (j - 1) + 1, p>>, <<a + (j - 1) + 1, 3>>}
    BY <1>0, <2>1 DEF Reads, m
  <2> QED
    BY <2>1, <2>2
<1>3. text[m + 1] \in {<<a + j, 1>>, <<a + j, 3>>} /\ text[m + 2] \in {<<a + j, 2>>, <<a + j, 3>>}
  BY <1>2
<1>4. a + j \in Nat \ {0}
  BY <1>0
<1> QED
  BY <1>0, <1>3, <1>4, ReadsFrame

\* What stays pending reads on from there.
LEMMA RestReads ==
  ASSUME NEW text, NEW a \in Nat, Reads(text, a), NEW cut, NEW d, NEW q, IsCut(cut, text, d, q)
  PROVE  Reads(cut.pending, a + d) /\ Len(cut.pending) = q
<1> DEFINE m == d * Width
           rest == SubSeq(text, m + 1, Len(text))
<1>0. /\ d \in Nat /\ q \in Nat /\ m \in Nat /\ Len(text) = m + q /\ text \in Seq(Byte)
      /\ cut.pending = rest
  <2>1. d \in Nat /\ q \in 0..(Width - 1) /\ Len(text) = m + q /\ cut.pending = rest
    BY DEF IsCut
  <2>2. text \in Seq(Byte)
    BY DEF Reads
  <2>3. q \in Nat
    BY <2>1, Widths
  <2>4. m \in Nat
    BY <2>1, Times
  <2> QED
    BY <2>1, <2>2, <2>3, <2>4
<1> HIDE DEF m
<1>1. rest \in Seq(Byte) /\ Len(rest) = q /\ \A k \in 1..q : rest[k] = text[m + k]
  <2>1. m + q <= Len(text) /\ rest = SubSeq(text, m + 1, m + q)
    BY <1>0
  <2> HIDE DEF rest
  <2> QED
    BY <1>0, <2>1, Piece
<1> HIDE DEF rest
<1>2. ASSUME NEW e \in Nat, NEW p \in 1..Width, e * Width + p <= Len(rest)
      PROVE  IF p <= 2 THEN rest[e * Width + p] \in {<<a + d + e + 1, p>>, <<a + d + e + 1, 3>>}
                       ELSE rest[e * Width + p] = NL
  <2>1. e * Width \in Nat /\ (d + e) * Width = m + e * Width /\ d + e \in Nat /\ p \in Nat
    BY <1>0, Times, Sums, Widths DEF m
  <2>2. /\ e * Width + p \in 1..q /\ (d + e) * Width + p <= Len(text)
        /\ rest[e * Width + p] = text[(d + e) * Width + p]
    <3> DEFINE v == e * Width
               w == (d + e) * Width
               x == v + p
    <3>0. v \in Nat /\ w = m + v /\ v + p <= q /\ p \in 1..Width /\ Width \in Nat
      BY <1>1, <1>2, <2>1, Widths
    <3> HIDE DEF v, w
    <3>1. x \in 1..q /\ m + x = w + p /\ w + p <= Len(text)
      BY <1>0, <3>0
    <3> HIDE DEF x
    <3>2. rest[x] = text[w + p]
      BY <1>1, <3>1
    <3> QED
      BY <3>1, <3>2 DEF v, w, x
  <2>3. a + (d + e) + 1 = a + d + e + 1
    BY <1>0
  <2> QED
    BY <2>1, <2>2, <2>3 DEF Reads
<1> QED
  BY <1>0, <1>1, <1>2 DEF Reads

\* The bytes of the stream, frame by frame.
LEMMA BytesOfFrames ==
  ASSUME stream \in Seq(StreamFrame)
  PROVE  /\ Len(Bytes) \in Nat /\ Bytes \in Seq(Byte)
         /\ \/ Len(Bytes) = Len(stream) * Width
            \/ Len(stream) > 0 /\ Len(Bytes) = (Len(stream) - 1) * Width + 2
         /\ \A p \in 1..Len(Bytes) :
              LET b == ((p - 1) % Width) + 1
              IN  Bytes[p] = IF b <= 2 THEN <<((p - 1) \div Width) + 1, b>> ELSE NL
<1> DEFINE s == Len(stream)
           open == IF call.open /\ stream # <<>> THEN Len(Delimiter) ELSE 0
           n == s * Width - open
           At(p) == IF ((p - 1) % Width) + 1 <= 2 THEN <<((p - 1) \div Width) + 1, ((p - 1) % Width) + 1>> ELSE NL
           all == [p \in 1..n |-> At(p)]
<1>1. Bytes = all
  BY DEF Bytes
<1>2. n \in Nat /\ (n = s * Width \/ (s > 0 /\ n = (s - 1) * Width + 2))
  <2>1. s \in Nat /\ (stream # <<>> => s > 0)
    OBVIOUS
  <2>2. CASE open = 0
    <3>1. s * Width \in Nat
      BY <2>1, Times
    <3>2. n = s * Width
      BY <2>2, <3>1
    <3> QED
      BY <3>1, <3>2
  <2>3. CASE open = Len(Delimiter) /\ stream # <<>>
    <3>1. s - 1 \in Nat /\ (s - 1) + 1 = s
      BY <2>1, <2>3
    <3>2. (s - 1) * Width \in Nat /\ s * Width = (s - 1) * Width + Width
      BY <3>1, Times
    <3>3. n = (s - 1) * Width + 2
      BY <2>3, <3>2, Widths
    <3> QED
      BY <2>1, <2>3, <3>2, <3>3
  <2> QED
    BY <2>2, <2>3
<1>3. ASSUME NEW p \in 1..n PROVE At(p) \in Byte
  <2>1. p - 1 \in Nat
    BY <1>2
  <2>2. (p - 1) % Width \in Nat /\ (p - 1) \div Width \in Nat
    <3>1. CASE Width = 3
      BY <2>1, <3>1
    <3>2. CASE Width = 4
      BY <2>1, <3>2
    <3> QED
      BY <3>1, <3>2, Widths
  <2> QED
    BY <2>2 DEF Byte, NL
<1> HIDE DEF At, n
<1>4. all \in Seq(Byte) /\ Len(all) = n /\ \A p \in 1..n : all[p] = At(p)
  BY <1>2, <1>3
<1> HIDE DEF all
<1>5. Len(Bytes) = n /\ \A p \in 1..Len(Bytes) : Bytes[p] = At(p)
  BY <1>1, <1>4
<1> QED
  BY <1>1, <1>2, <1>4, <1>5 DEF At

\* The q-th byte after the first a frames.
LEMMA ByteAt ==
  ASSUME stream \in Seq(StreamFrame), NEW a \in Nat, NEW q \in 1..Width, a * Width + q <= Len(Bytes)
  PROVE  Bytes[a * Width + q] = IF q <= 2 THEN <<a + 1, q>> ELSE NL
<1> DEFINE p == a * Width + q
<1>1. p \in 1..Len(Bytes) /\ p - 1 = a * Width + (q - 1)
  <2>1. q \in Nat /\ q > 0
    BY Widths
  <2>2. a * Width \in Nat
    BY Times
  <2> QED
    BY <2>1, <2>2, BytesOfFrames
<1>2. (p - 1) % Width = q - 1 /\ (p - 1) \div Width = a
  <2>1. CASE Width = 3
    BY <1>1, <2>1
  <2>2. CASE Width = 4
    BY <1>1, <2>2
  <2> QED
    BY <2>1, <2>2, Widths
<1>3. (q - 1) + 1 = q
  BY Widths
<1> HIDE DEF p
<1>4. Bytes[p] = IF q <= 2 THEN <<a + 1, q>> ELSE NL
  BY <1>1, <1>2, <1>3, BytesOfFrames
<1> QED
  BY <1>4 DEF p

\* A chunk is decoded byte by byte, and garbled at most where a character is cut.
LEMMA Decoded ==
  ASSUME NEW chunk \in Seq(Byte)
  PROVE  /\ Decode(chunk) \in Seq(Byte) /\ Len(Decode(chunk)) = Len(chunk)
         /\ \A j \in 1..Len(chunk) :
              /\ Decode(chunk)[j] \in {chunk[j], <<chunk[j][1], 3>>}
              /\ chunk[j] = NL => Decode(chunk)[j] = NL
<1> DEFINE D(j) == IF Halved(chunk, chunk[j]) THEN <<chunk[j][1], 3>> ELSE chunk[j]
           all == [j \in 1..Len(chunk) |-> D(j)]
<1>1. Decode(chunk) = all
  BY DEF Decode
<1>2. ASSUME NEW j \in 1..Len(chunk)
      PROVE  D(j) \in Byte /\ D(j) \in {chunk[j], <<chunk[j][1], 3>>} /\ (chunk[j] = NL => D(j) = NL)
  <2>1. chunk[j] \in Byte
    OBVIOUS
  <2>2. chunk[j] = NL => ~Halved(chunk, chunk[j])
    BY DEF Halved, NL
  <2> QED
    BY <2>1, <2>2 DEF Byte
<1> HIDE DEF D
<1>3. all \in Seq(Byte) /\ Len(all) = Len(chunk) /\ \A j \in 1..Len(chunk) : all[j] = D(j)
  BY <1>2
<1> HIDE DEF all
<1> QED
  BY <1>1, <1>2, <1>3

LEMMA Joined ==
  ASSUME NEW s \in Seq(Byte), NEW t \in Seq(Byte)
  PROVE  /\ s \o t \in Seq(Byte) /\ Len(s \o t) = Len(s) + Len(t)
         /\ \A j \in 1..Len(s) : (s \o t)[j] = s[j]
         /\ \A j \in 1..Len(t) : (s \o t)[Len(s) + j] = t[j]
<1>1. s \o t \in Seq(Byte) /\ Len(s \o t) = Len(s) + Len(t)
  OBVIOUS
<1>2. ASSUME NEW j \in 1..Len(s) PROVE (s \o t)[j] = s[j]
  OBVIOUS
<1>3. ASSUME NEW j \in 1..Len(t) PROVE (s \o t)[Len(s) + j] = t[j]
  OBVIOUS
<1> QED
  BY <1>1, <1>2, <1>3

LEMMA BeyondLeft ==
  ASSUME NEW v \in Nat, NEW w \in Nat, NEW q \in Nat, NEW l \in Nat, NEW n \in Nat, NEW k \in Nat,
         NEW h, h = v + l, k = w + q, k > l, k <= l + n
  PROVE  k - l \in 1..n /\ k = l + (k - l) /\ (v + w) + q = h + (k - l)
  OBVIOUS

\* The text that the n bytes after the first h make with what is left of before.
Onward(left, h, n) == left \o Decode(SubSeq(Bytes, h + 1, h + n))

\* What is left begins with frame a + 1 and ends with byte h.
EndsAt(left, a, h) == h = a * Width + Len(left)

\* A chunk is read on from what is pending.
LEMMA ReadsOn ==
  ASSUME stream \in Seq(StreamFrame), NEW a \in Nat, NEW left, Reads(left, a), NEW n \in Nat, NEW h \in Nat,
         EndsAt(left, a, h), h + n <= Len(Bytes)
  PROVE  Reads(Onward(left, h, n), a) /\ Len(Onward(left, h, n)) = Len(left) + n
<1> DEFINE chunk == SubSeq(Bytes, h + 1, h + n)
           more == Decode(chunk)
           text == left \o more
           l == Len(left)
<1>0. left \in Seq(Byte) /\ l \in Nat /\ Bytes \in Seq(Byte) /\ Len(Bytes) \in Nat /\ a * Width \in Nat
  <2>1. left \in Seq(Byte)
    BY DEF Reads
  <2>2. l \in Nat
    BY <2>1
  <2> QED
    BY <2>1, <2>2, BytesOfFrames, Times
<1>1. chunk \in Seq(Byte) /\ Len(chunk) = n /\ \A j \in 1..n : chunk[j] = Bytes[h + j]
  BY <1>0, Piece
<1> HIDE DEF chunk
<1>2. /\ more \in Seq(Byte) /\ Len(more) = n
      /\ \A j \in 1..n : /\ more[j] \in {chunk[j], <<chunk[j][1], 3>>}
                         /\ chunk[j] = NL => more[j] = NL
  BY <1>1, Decoded
<1> HIDE DEF more
<1>3. /\ text \in Seq(Byte) /\ Len(text) = l + n
      /\ \A k \in 1..l : text[k] = left[k]
      /\ \A k \in 1..n : text[l + k] = more[k]
  <2>1. more \in Seq(Byte) /\ Len(more) = n
    BY <1>2
  <2>2. /\ text \in Seq(Byte) /\ Len(text) = Len(left) + Len(more)
        /\ \A k \in 1..Len(left) : text[k] = left[k]
        /\ \A k \in 1..Len(more) : text[Len(left) + k] = more[k]
    BY <1>0, <2>1, Joined
  <2> QED
    BY <2>1, <2>2, Zenon
<1> HIDE DEF text
<1>4. ASSUME NEW d \in Nat, NEW q \in 1..Width, d * Width + q <= Len(text)
      PROVE  IF q <= 2 THEN text[d * Width + q] \in {<<a + d + 1, q>>, <<a + d + 1, 3>>}
                       ELSE text[d * Width + q] = NL
  <2> DEFINE v == a * Width
             w == d * Width
             k == w + q
  <2>0. v \in Nat /\ w \in Nat /\ q \in Nat /\ q > 0 /\ (a + d) * Width = v + w /\ a + d \in Nat /\ h = v + l
    <3>1. v \in Nat /\ w \in Nat /\ (a + d) * Width = v + w
      BY Times, Sums
    <3>2. q \in Nat /\ q > 0 /\ a + d \in Nat
      BY Widths
    <3>3. h = v + l
      BY DEF EndsAt
    <3> QED
      BY <3>1, <3>2, <3>3
  <2>1. k \in Nat /\ k > 0 /\ k <= l + n
    <3>1. w + q <= l + n
      BY <1>3, <1>4
    <3> HIDE DEF v, w
    <3> QED
      BY <1>0, <2>0, <3>1
  <2> HIDE DEF v, w
  <2>2. CASE k <= l
    <3> HIDE DEF k
    <3>1. k \in 1..l
      <4> HIDE DEF l
      <4> QED
        BY <1>0, <2>1, <2>2
    <3>2. text[k] = left[k]
      BY <1>3, <3>1
    <3> QED
      BY <2>2, <3>2 DEF Reads, k, w
  <2>3. CASE k > l
    <3> DEFINE j == k - l
    <3>0. k = w + q
      OBVIOUS
    <3>1. j \in 1..n /\ k = l + j /\ (v + w) + q = h + j
      <4> HIDE DEF k, l
      <4> QED
        BY <1>0, <2>0, <2>1, <2>3, <3>0, BeyondLeft
    <3>2. (a + d) * Width + q = h + j
      BY <2>0, <3>1
    <3> HIDE DEF j, k
    <3>3. text[k] = more[j] /\ chunk[j] = Bytes[(a + d) * Width + q] /\ (a + d) * Width + q <= Len(Bytes)
      <4>1. text[k] = more[j]
        BY <1>3, <3>1
      <4>2. chunk[j] = Bytes[h + j]
        BY <1>1, <3>1
      <4>3. h + j <= Len(Bytes)
        BY <1>0, <3>1
      <4> QED
        BY <3>2, <4>1, <4>2, <4>3
    <3>4. chunk[j] = IF q <= 2 THEN <<(a + d) + 1, q>> ELSE NL
      BY <2>0, <3>3, ByteAt
    <3>5. text[k] \in {chunk[j], <<chunk[j][1], 3>>} /\ (chunk[j] = NL => text[k] = NL)
      BY <1>2, <3>1, <3>3
    <3>6. CASE q <= 2
      <4>1. chunk[j] = <<a + d + 1, q>> /\ chunk[j][1] = a + d + 1
        BY <3>4, <3>6
      <4>2. text[k] \in {<<a + d + 1, q>>, <<a + d + 1, 3>>}
        BY <3>5, <4>1
      <4> QED
        BY <3>6, <4>2 DEF k, w
    <3>7. CASE ~(q <= 2)
      <4>1. text[k] = NL
        BY <3>4, <3>5, <3>7
      <4> QED
        BY <3>7, <4>1 DEF k, w
    <3> QED
      BY <3>6, <3>7
  <2>4. k <= l \/ k > l
    BY <1>0, <2>1
  <2> QED
    BY <2>2, <2>3, <2>4
<1>5. Reads(text, a) /\ Len(text) = Len(left) + n
  BY <1>3, <1>4 DEF Reads
<1> QED
  BY <1>5 DEF text, more, chunk, Onward

---------------------------------------------------------------------------
(* What the frames say *)

\* f[k] is what the first k frames of the stream say.
SaysLoop(f) ==
  /\ f[0] = NoMeter
  /\ \A k \in 1..Len(stream) :
       f[k] = IF HasPayload(call, stream[k]) THEN OnFrame(f[k - 1], stream[k]) ELSE f[k - 1]

LEMMA TapOfFrame ==
  ASSUME NEW s, NEW text, IsFrame(text), NEW i, text[1][1] = i
  PROVE  Tap(s, text).meter = IF HasPayload(call, stream[i]) THEN OnFrame(s.meter, stream[i]) ELSE s.meter
  BY DEF Tap

\* The frames after the first a are said after what these have said.
LEMMA TapsSay ==
  ASSUME stream \in Seq(StreamFrame), NEW f, SaysLoop(f), NEW a \in Nat, meter = f[a],
         NEW frames, Len(frames) \in Nat, a + Len(frames) <= Len(stream),
         \A j \in 1..Len(frames) : IsFrame(frames[j]) /\ frames[j][1][1] = a + j
  PROVE  TapAll(frames).meter = f[a + Len(frames)]
<1> DEFINE n == Len(frames)
<1>1. PICK t : /\ t[0] = [meter |-> meter, started |-> started, out |-> out]
               /\ \A k \in 1..Len(frames) : t[k] = Tap(t[k - 1], frames[k])
               /\ TapAll(frames) = t[Len(frames)]
  BY TapsLoop
<1> DEFINE P == {k \in 0..n : t[k].meter = f[a + k]}
<1>2. 0 \in P
  <2>1. t[0].meter = meter /\ a + 0 = a
    BY <1>1
  <2> QED
    BY <2>1
<1>3. ASSUME NEW k \in 0..(n - 1), k \in P PROVE k + 1 \in P
  <2>1. k \in Nat /\ k + 1 \in 1..n /\ k + 1 \in 0..n /\ (k + 1) - 1 = k
    OBVIOUS
  <2>2. a + (k + 1) \in 1..Len(stream) /\ (a + (k + 1)) - 1 = a + k
    BY <2>1
  <2>3. t[k + 1] = Tap(t[k], frames[k + 1])
    BY <1>1, <2>1
  <2>4. IsFrame(frames[k + 1]) /\ frames[k + 1][1][1] = a + (k + 1)
    BY <2>1
  <2> DEFINE g == stream[a + (k + 1)]
  <2>5. t[k + 1].meter = IF HasPayload(call, g) THEN OnFrame(t[k].meter, g) ELSE t[k].meter
    <3>1. Tap(t[k], frames[k + 1]).meter = IF HasPayload(call, g) THEN OnFrame(t[k].meter, g) ELSE t[k].meter
      BY <2>4, TapOfFrame, Zenon
    <3> QED
      BY <2>3, <3>1
  <2>6. f[a + (k + 1)] = IF HasPayload(call, g) THEN OnFrame(f[a + k], g) ELSE f[a + k]
    BY <2>2 DEF SaysLoop
  <2>7. t[k].meter = f[a + k]
    BY <1>3
  <2> HIDE DEF g
  <2>8. t[k + 1].meter = f[a + (k + 1)]
    BY <2>5, <2>6, <2>7
  <2> QED
    BY <2>1, <2>8
<1> HIDE DEF P
<1>4. \A k \in 0..n : k \in P
  BY <1>2, <1>3, UpTo
<1>5. t[n].meter = f[a + n]
  BY <1>4 DEF P
<1> QED
  BY <1>1, <1>5

\* The first a frames have been tapped, and what is pending is of the next one.
ReadUpTo(a) ==
  /\ a \in Nat /\ a <= Len(stream)
  /\ at = a * Width + Len(pending) /\ Len(pending) < Width /\ Reads(pending, a)
  /\ \A f : SaysLoop(f) => meter = f[a]

\* Invariant: a stream has been read up to some frame, and to the last one when
\* it is done.
MeteredInv ==
  /\ phase \in {"new", "open", "whole", "done", "aborted"}
  /\ phase = "new" => call \in Calls /\ at = 0 /\ pending = <<>> /\ meter = NoMeter
  /\ phase # "new" => stream \in Seq(StreamFrame)
  /\ phase = "whole" => ~call.streamed
  /\ phase \in {"open", "aborted"} => \E a : ReadUpTo(a)
  /\ (phase = "done" /\ call.streamed) => /\ at = Len(Bytes)
                                          /\ \A f : SaysLoop(f) => meter = f[Len(stream)]

\* No more frames fit into so many bytes.
LEMMA FramesFit ==
  ASSUME stream \in Seq(StreamFrame), NEW a \in Nat, a * Width <= Len(Bytes)
  PROVE  a <= Len(stream)
<1> DEFINE s == Len(stream)
<1>0. s \in Nat /\ Len(Bytes) \in Nat
  BY BytesOfFrames
<1>1. Len(Bytes) <= s * Width
  <2>1. CASE Len(Bytes) = s * Width
    BY <2>1
  <2>2. CASE s > 0 /\ Len(Bytes) = (s - 1) * Width + 2
    <3>1. CASE Width = 3
      BY <1>0, <2>2, <3>1
    <3>2. CASE Width = 4
      BY <1>0, <2>2, <3>2
    <3> QED
      BY <3>1, <3>2, Widths
  <2> QED
    BY <2>1, <2>2, BytesOfFrames
<1>2. CASE Width = 3
  BY <1>0, <1>1, <1>2
<1>3. CASE Width = 4
  BY <1>0, <1>1, <1>3
<1> QED
  BY <1>2, <1>3, Widths

\* What a chunk does: its frames are tapped, and the rest is pending.
LEMMA ChunkTaps ==
  ASSUME stream \in Seq(StreamFrame), NEW a, ReadUpTo(a), NEW n \in 1..Len(Bytes), at + n <= Len(Bytes)
  PROVE  LET cut == Cut(pending \o Decode(SubSeq(Bytes, at + 1, at + n)))
         IN  \E b \in Nat : /\ b <= Len(stream) /\ at + n = b * Width + Len(cut.pending)
                            /\ Len(cut.pending) < Width /\ Reads(cut.pending, b)
                            /\ \A f : SaysLoop(f) => TapAll(cut.frames).meter = f[b]
<1> DEFINE text == pending \o Decode(SubSeq(Bytes, at + 1, at + n))
           cut == Cut(text)
           l == Len(pending)
<1>0. /\ a \in Nat /\ Reads(pending, a) /\ at = a * Width + Len(pending)
      /\ l \in Nat /\ n \in Nat /\ Len(Bytes) \in Nat /\ Len(stream) \in Nat
  <2>1. a \in Nat /\ Reads(pending, a) /\ at = a * Width + Len(pending)
    BY DEF ReadUpTo
  <2>2. l \in Nat
    BY <2>1 DEF Reads
  <2> QED
    BY <2>1, <2>2, BytesOfFrames
<1>1. at \in Nat
  <2> DEFINE v == a * Width
  <2>1. v \in Nat /\ at = v + l
    BY <1>0, Times
  <2> HIDE DEF v, l
  <2> QED
    BY <1>0, <2>1
<1>2. Reads(text, a) /\ Len(text) = l + n
  <2>1. EndsAt(pending, a, at) /\ at + n <= Len(Bytes)
    BY <1>0, Zenon DEF EndsAt
  <2>2. Reads(pending, a) /\ a \in Nat /\ n \in Nat
    BY <1>0
  <2>3. Reads(Onward(pending, at, n), a) /\ Len(Onward(pending, at, n)) = Len(pending) + n
    BY <1>1, <2>1, <2>2, ReadsOn
  <2> QED
    BY <2>3, Zenon DEF Onward
<1> HIDE DEF text
<1>3. PICK d, q : IsCut(cut, text, d, q)
  BY <1>0, <1>2, CutIsCut
<1> HIDE DEF cut
<1>4. /\ d \in Nat /\ q \in 0..(Width - 1) /\ Len(text) = d * Width + q
      /\ Len(cut.frames) = d
  BY <1>3 DEF IsCut
<1>5. Reads(cut.pending, a + d) /\ Len(cut.pending) = q
  BY <1>0, <1>2, <1>3, RestReads
<1>6. a + d \in Nat /\ at + n = (a + d) * Width + q /\ q < Width /\ q \in Nat
  <2> DEFINE v == a * Width
             w == d * Width
  <2>1. (a + d) * Width = v + w /\ v \in Nat /\ w \in Nat
    BY <1>0, <1>4, Sums, Times
  <2>2. at = v + l /\ l + n = w + q
    BY <1>0, <1>2, <1>4
  <2>3. q < Width /\ q \in Nat
    BY <1>4, Widths
  <2> HIDE DEF v, w, l
  <2>4. at + n = (v + w) + q
    BY <1>0, <2>1, <2>2, <2>3
  <2>5. a + d \in Nat
    BY <1>0, <1>4
  <2> QED
    BY <2>1, <2>3, <2>4, <2>5
<1>7. a + d <= Len(stream)
  <2>1. (a + d) * Width \in Nat
    BY <1>6, Times
  <2>2. (a + d) * Width <= Len(Bytes)
    <3> DEFINE v == (a + d) * Width
    <3> HIDE DEF v
    <3>1. v \in Nat /\ at + n = v + q
      BY <1>6, <2>1 DEF v
    <3>2. v <= Len(Bytes)
      BY <1>0, <1>6, <3>1
    <3> QED
      BY <3>2 DEF v
  <2> QED
    BY <1>6, <2>2, FramesFit
<1>8. ASSUME NEW f, SaysLoop(f) PROVE TapAll(cut.frames).meter = f[a + d]
  <2>1. meter = f[a]
    BY <1>8 DEF ReadUpTo
  <2>2. \A j \in 1..d : IsFrame(cut.frames[j]) /\ cut.frames[j][1][1] = a + j
    BY <1>0, <1>2, <1>3, CutFrames
  <2> DEFINE frames == cut.frames
  <2>3. Len(frames) = d /\ \A j \in 1..d : IsFrame(frames[j]) /\ frames[j][1][1] = a + j
    BY <1>4, <2>2
  <2> HIDE DEF frames
  <2>4. TapAll(frames).meter = f[a + Len(frames)]
    <3>1. Len(frames) \in Nat /\ a + Len(frames) <= Len(stream)
      BY <1>4, <1>7, <2>3
    <3>2. \A j \in 1..Len(frames) : IsFrame(frames[j]) /\ frames[j][1][1] = a + j
      BY <2>3
    <3>3. a \in Nat
      BY <1>0
    <3> QED
      BY <1>8, <2>1, <3>1, <3>2, <3>3, TapsSay, Zenon
  <2> QED
    BY <2>3, <2>4 DEF frames
<1>9. \E b \in Nat : /\ b <= Len(stream) /\ at + n = b * Width + Len(cut.pending)
                     /\ Len(cut.pending) < Width /\ Reads(cut.pending, b)
                     /\ \A f : SaysLoop(f) => TapAll(cut.frames).meter = f[b]
  BY <1>5, <1>6, <1>7, <1>8, Zenon
<1> QED
  BY <1>9 DEF cut, text

\* The last frame of a stream ends with a delimiter, or the stream with the frame.
LEMMA LastFrame ==
  ASSUME NEW w \in {3, 4}, NEW a \in Nat, NEW s \in Nat, NEW l \in Nat, l < w, a <= s,
         a * w + l = s * w \/ (s > 0 /\ a * w + l = (s - 1) * w + 2)
  PROVE  (l = 0 /\ a = s) \/ (l = 2 /\ a + 1 = s)
<1>1. CASE w = 3
  BY <1>1
<1>2. CASE w = 4
  BY <1>2
<1> QED
  BY <1>1, <1>2

\* What the end of the stream does: a frame without a delimiter is tapped.
LEMMA EndTaps ==
  ASSUME stream \in Seq(StreamFrame), NEW a, ReadUpTo(a), at = Len(Bytes), NEW f, SaysLoop(f)
  PROVE  TapAll(IF pending # <<>> THEN <<pending>> ELSE <<>>).meter = f[Len(stream)]
<1> DEFINE s == Len(stream)
           l == Len(pending)
           frames == IF pending # <<>> THEN <<pending>> ELSE <<>>
<1>0. /\ a \in Nat /\ a <= s /\ Reads(pending, a) /\ at = a * Width + l /\ l < Width /\ meter = f[a]
      /\ pending \in Seq(Byte) /\ l \in Nat /\ Len(Bytes) \in Nat /\ s \in Nat
  <2>1. a \in Nat /\ a <= s /\ Reads(pending, a) /\ at = a * Width + l /\ l < Width /\ meter = f[a]
    BY DEF ReadUpTo
  <2>2. pending \in Seq(Byte)
    BY <2>1 DEF Reads
  <2>3. l \in Nat
    BY <2>2
  <2> QED
    BY <2>1, <2>2, <2>3, BytesOfFrames
<1>1. (l = 0 /\ a = s) \/ (l = 2 /\ a + 1 = s)
  <2>1. a * Width + l = s * Width \/ (s > 0 /\ a * Width + l = (s - 1) * Width + 2)
    BY <1>0, BytesOfFrames
  <2> HIDE DEF l, s
  <2> QED
    BY <1>0, <2>1, Widths, LastFrame
<1>2. CASE l = 0 /\ a = s
  <2>1. frames = <<>> /\ Len(frames) = 0
    BY <1>0, <1>2
  <2> HIDE DEF frames
  <2>2. TapAll(frames).meter = f[a + Len(frames)]
    BY <1>0, <2>1, TapsSay
  <2>3. a + Len(frames) = s
    BY <1>0, <1>2, <2>1
  <2> QED
    BY <2>2, <2>3 DEF frames
<1>3. CASE l = 2 /\ a + 1 = s
  <2>1. pending = <<pending[1], pending[2]>>
    BY <1>0, <1>3
  <2>2. pending[1] \in {<<a + 1, 1>>, <<a + 1, 3>>} /\ pending[2] \in {<<a + 1, 2>>, <<a + 1, 3>>}
    <3>1. ASSUME NEW p \in 1..2 PROVE pending[p] \in {<<a + 1, p>>, <<a + 1, 3>>}
      <4>1. 0 * Width + p = p /\ p <= l /\ p \in 1..Width /\ 0 \in Nat /\ a + 0 + 1 = a + 1
        BY <1>0, <1>3, Widths
      <4>2. pending[0 * Width + p] \in {<<a + 0 + 1, p>>, <<a + 0 + 1, 3>>}
        BY <1>0, <4>1 DEF Reads
      <4> QED
        BY <4>1, <4>2
    <3> QED
      BY <3>1
  <2>3. IsFrame(pending) /\ pending[1][1] = a + 1
    <3>1. a + 1 \in Nat \ {0}
      BY <1>0
    <3>2. IsFrame(<<pending[1], pending[2]>>) /\ <<pending[1], pending[2]>>[1][1] = a + 1
      BY <2>2, <3>1, ReadsFrame
    <3> QED
      BY <2>1, <3>2
  <2>4. frames = <<pending>> /\ Len(frames) = 1 /\ frames[1] = pending
    <3>1. pending # <<>>
      <4>1. Len(pending) # Len(<<>>)
        BY <1>3
      <4> QED
        BY <4>1
    <3>2. frames = <<pending>>
      BY <3>1
    <3> HIDE DEF frames
    <3> QED
      BY <3>2
  <2> HIDE DEF frames
  <2>5. TapAll(frames).meter = f[a + Len(frames)]
    <3>1. \A j \in 1..Len(frames) : IsFrame(frames[j]) /\ frames[j][1][1] = a + j
      BY <2>3, <2>4
    <3>2. Len(frames) \in Nat /\ a + Len(frames) <= s
      BY <1>0, <1>3, <2>4
    <3> QED
      BY <1>0, <3>1, <3>2, TapsSay
  <2>6. a + Len(frames) = s
    BY <1>3, <2>4
  <2> QED
    BY <2>5, <2>6 DEF frames
<1> QED
  BY <1>1, <1>2, <1>3

\* What a step that leaves the request and its answer alone cannot change.
LEMMA SameStream ==
  ASSUME UNCHANGED <<call, stream>>
  PROVE  /\ Width' = Width /\ Bytes' = Bytes
         /\ \A f : SaysLoop(f)' <=> SaysLoop(f)
         /\ \A t, a : Reads(t, a)' <=> Reads(t, a)
<1>1. Width' = Width
  BY DEF Width, Delimiter
<1>2. Bytes' = Bytes
  BY <1>1 DEF Bytes, Delimiter
<1>3. ASSUME NEW f PROVE SaysLoop(f)' <=> SaysLoop(f)
  BY DEF SaysLoop, HasPayload, Foreign, OnFrame
<1>4. ASSUME NEW t, NEW a PROVE Reads(t, a)' <=> Reads(t, a)
  BY <1>1 DEF Reads
<1> QED
  BY <1>1, <1>2, <1>3, <1>4

LEMMA ForwardMeters ==
  ASSUME MeteredInv, NEW json \in BOOLEAN, NEW messages \in Messages, Forward(json, messages)
  PROVE  MeteredInv'
<1>0. phase = "new" /\ call \in ProxyCall /\ at = 0 /\ pending = <<>> /\ meter = NoMeter
  BY MeteringAssumption DEF MeteredInv, Forward
<1>1. /\ phase' \in {"open", "whole"} /\ (phase' = "whole" => ~call.streamed)
      /\ call' = [call EXCEPT !.json = json, !.messages = messages]
      /\ at' = 0 /\ pending' = <<>> /\ meter' = NoMeter
  BY <1>0 DEF Forward
<1>2. call'.streamed = call.streamed
  BY <1>0, <1>1 DEF ProxyCall
<1>3. stream' \in Seq(StreamFrame)
  <2>1. call.frames \in Seq(StreamFrame)
    BY <1>0 DEF ProxyCall
  <2> DEFINE frames == call.frames
             places == {i \in DOMAIN frames : frames[i].onRequest => AsksForUsage(call.provider, json)}
  <2>2. stream' = Filter(frames, places)
    BY DEF Forward, Sent
  <2> HIDE DEF places, frames
  <2>3. frames \in Seq(StreamFrame)
    BY <2>1 DEF frames
  <2> QED
    BY <2>2, <2>3, FilterLoops
<1>4. ReadUpTo(0)'
  <2>1. Width' \in Nat /\ Width' > 0
    <3>1. Delimiter' \in {<<NL, NL>>, <<NL>>}
      BY DEF Delimiter, NL
    <3>2. Len(Delimiter') \in {1, 2}
      BY <3>1
    <3> QED
      BY <3>2 DEF Width
  <2> DEFINE w == Width'
  <2> HIDE DEF w
  <2>2. w \in Nat /\ w > 0
    BY <2>1 DEF w
  <2>3. 0 * w = 0 /\ Len(<<>>) = 0
    BY <2>2
  <2>4. Reads(<<>>, 0)'
    <3>1. ASSUME NEW d \in Nat, NEW q \in 1..w PROVE ~(d * w + q <= 0)
      <4>1. d * w \in Nat
        BY <2>2
      <4> QED
        BY <2>2, <4>1
    <3>2. <<>> \in Seq(Byte)
      OBVIOUS
    <3> QED
      BY <2>3, <3>1, <3>2 DEF Reads, w
  <2>5. ASSUME NEW f, SaysLoop(f)' PROVE meter' = f[0]
    BY <1>1, <2>5 DEF SaysLoop
  <2>6. 0 <= Len(stream')
    BY <1>3
  <2> QED
    BY <1>1, <2>2, <2>3, <2>4, <2>5, <2>6 DEF ReadUpTo, w
<1> QED
  BY <1>1, <1>2, <1>3, <1>4 DEF MeteredInv

LEMMA ChunkMeters ==
  ASSUME MeteredInv, NEW n \in 1..Len(Bytes), Chunk(n)
  PROVE  MeteredInv'
<1> DEFINE cut == Cut(pending \o Decode(SubSeq(Bytes, at + 1, at + n)))
<1>0. /\ phase = "open" /\ phase' = "open" /\ UNCHANGED <<call, stream>> /\ at + n <= Len(Bytes)
      /\ at' = at + n /\ pending' = cut.pending /\ meter' = TapAll(cut.frames).meter
  BY DEF Chunk
<1>1. stream \in Seq(StreamFrame)
  BY <1>0 DEF MeteredInv
<1>2. PICK a : ReadUpTo(a)
  BY <1>0 DEF MeteredInv
<1>3. PICK b \in Nat : /\ b <= Len(stream) /\ at + n = b * Width + Len(cut.pending)
                       /\ Len(cut.pending) < Width /\ Reads(cut.pending, b)
                       /\ \A f : SaysLoop(f) => TapAll(cut.frames).meter = f[b]
  BY <1>0, <1>1, <1>2, ChunkTaps, Zenon
<1> HIDE DEF cut
<1>4. PICK rest : rest = cut.pending
  OBVIOUS
<1>5. Reads(pending, b)'
  <2>1. Reads(rest, b)'
    BY <1>0, <1>3, <1>4, SameStream
  <2>2. pending' = rest
    BY <1>0, <1>4
  <2> QED
    BY <2>1, <2>2, Zenon DEF Reads
<1>6. Width' = Width /\ \A f : SaysLoop(f)' => meter' = f[b]
  <2>1. \A f : SaysLoop(f)' => SaysLoop(f)
    BY <1>0, SameStream
  <2> QED
    BY <1>0, <1>3, <2>1, SameStream, Zenon
<1>7. /\ b <= Len(stream') /\ at' = b * Width' + Len(pending') /\ Len(pending') < Width'
  BY <1>0, <1>3, <1>6
<1>8. ReadUpTo(b)'
  BY <1>5, <1>6, <1>7 DEF ReadUpTo
<1> QED
  BY <1>0, <1>1, <1>8 DEF MeteredInv

LEMMA EndMeters ==
  ASSUME MeteredInv, End
  PROVE  MeteredInv'
<1> DEFINE t == TapAll(IF pending # <<>> THEN <<pending>> ELSE <<>>)
<1>0. /\ phase = "open" /\ phase' = "done" /\ UNCHANGED <<call, stream, at>> /\ at = Len(Bytes)
      /\ meter' = t.meter
  BY DEF End
<1>1. stream \in Seq(StreamFrame)
  BY <1>0 DEF MeteredInv
<1>2. PICK a : ReadUpTo(a)
  BY <1>0 DEF MeteredInv
<1>3. ASSUME NEW f, SaysLoop(f) PROVE t.meter = f[Len(stream)]
  BY <1>0, <1>1, <1>2, <1>3, EndTaps, Zenon
<1> HIDE DEF t
<1>4. at' = Len(Bytes') /\ \A f : SaysLoop(f)' => meter' = f[Len(stream')]
  BY <1>0, <1>3, SameStream
<1> QED
  BY <1>0, <1>1, <1>4 DEF MeteredInv

LEMMA AbortMeters ==
  ASSUME MeteredInv, Abort
  PROVE  MeteredInv'
<1>0. phase = "open" /\ phase' = "aborted" /\ UNCHANGED <<call, stream, at, pending, meter>>
  BY DEF Abort
<1>2. PICK a : ReadUpTo(a)
  BY <1>0 DEF MeteredInv
<1>3. ReadUpTo(a)'
  BY <1>0, <1>2, SameStream DEF ReadUpTo
<1> QED
  BY <1>0, <1>3 DEF MeteredInv

LEMMA ReplyMeters ==
  ASSUME MeteredInv, NEW json, Reply(json)
  PROVE  MeteredInv'
<1>1. phase = "whole" /\ phase' = "done" /\ UNCHANGED <<call, stream>>
  BY DEF Reply
<1> QED
  BY <1>1 DEF MeteredInv

LEMMA IdleMeters ==
  ASSUME MeteredInv, UNCHANGED meterVars
  PROVE  MeteredInv'
<1>1. UNCHANGED <<call, stream, phase, at, pending, meter>>
  BY DEF meterVars
<1>2. \A a : ReadUpTo(a) => ReadUpTo(a)'
  BY <1>1, SameStream DEF ReadUpTo
<1> QED
  BY <1>1, <1>2, SameStream DEF MeteredInv

\* How many frames are complete.
LEMMA ArrivedFrames ==
  ASSUME MeteredInv, call.streamed
  PROVE  /\ phase = "done" => Cardinality(Arrived) = Len(stream)
         /\ phase \in {"open", "aborted"} => \A a : ReadUpTo(a) => Cardinality(Arrived) = a
<1>1. phase # "new" => stream \in Seq(StreamFrame) /\ Len(stream) \in Nat /\ DOMAIN stream = 1..Len(stream)
  BY DEF MeteredInv
<1>2. ASSUME phase = "done" PROVE Cardinality(Arrived) = Len(stream)
  <2>1. at = Len(Bytes)
    BY <1>2 DEF MeteredInv
  <2>2. Arrived = 1..Len(stream)
    BY <1>1, <1>2, <2>1 DEF Arrived
  <2> DEFINE n == Len(stream)
  <2>3. n \in Nat /\ Arrived = 1..n
    BY <1>1, <1>2, <2>2
  <2> HIDE DEF n
  <2>4. Cardinality(1..n) = IF 1 > n THEN 0 ELSE n - 1 + 1
    BY <2>3, FS_Interval
  <2>5. Cardinality(1..n) = n
    BY <2>3, <2>4
  <2> QED
    BY <2>3, <2>5 DEF n
<1>3. ASSUME phase \in {"open", "aborted"}, NEW a, ReadUpTo(a) PROVE Cardinality(Arrived) = a
  <2>1. /\ a \in Nat /\ a <= Len(stream) /\ at = a * Width + Len(pending) /\ Len(pending) < Width
    BY <1>3 DEF ReadUpTo
  <2>2. Len(pending) \in Nat
    BY <1>3 DEF ReadUpTo, Reads
  <2>3. ASSUME NEW i \in Nat PROVE i * Width <= at <=> i <= a
    <3> DEFINE l == Len(pending)
    <3> HIDE DEF l
    <3>0. at = a * Width + l /\ l < Width /\ l \in Nat
      BY <2>1, <2>2 DEF l
    <3>1. CASE Width = 3
      BY <2>1, <3>0, <3>1
    <3>2. CASE Width = 4
      BY <2>1, <3>0, <3>2
    <3> QED
      BY <3>1, <3>2, Widths
  <2>4. Arrived = {i \in 1..Len(stream) : i * Width <= at}
    BY <1>1, <1>3 DEF Arrived, Width
  <2>5. {i \in 1..Len(stream) : i * Width <= at} = 1..a
    <3>1. ASSUME NEW i \in 1..Len(stream) PROVE i * Width <= at <=> i \in 1..a
      BY <1>1, <1>3, <2>1, <2>3
    <3>2. 1..a \subseteq 1..Len(stream)
      BY <1>1, <1>3, <2>1
    <3> QED
      BY <3>1, <3>2, Zenon
  <2>6. Cardinality(1..a) = IF 1 > a THEN 0 ELSE a - 1 + 1
    BY <2>1, FS_Interval
  <2>7. Cardinality(1..a) = a
    BY <2>1, <2>6
  <2> QED
    BY <2>4, <2>5, <2>7
<1> QED
  BY <1>2, <1>3

\* However the stream of a request is cut into chunks, and wherever it is aborted,
\* the usage extractor has seen the frames that arrived complete, each once and
\* in order, and nothing of the others (FrameTap).
THEOREM UsageMetered == GatewaySpec => []UsageIsWhatArrived
<1>1. GatewayInit => MeteredInv
  BY DEF GatewayInit, MeterInit, MeteredInv
<1>2. MeteredInv /\ [GatewayNext]_gatewayVars => MeteredInv'
  <2> SUFFICES ASSUME MeteredInv, [GatewayNext]_gatewayVars PROVE MeteredInv'
    OBVIOUS
  <2>1. ASSUME NEW json \in BOOLEAN, NEW m \in Messages, Forward(json, m) PROVE MeteredInv'
    BY <2>1, ForwardMeters
  <2>2. ASSUME NEW n \in 1..Len(Bytes), Chunk(n) PROVE MeteredInv'
    BY <2>2, ChunkMeters
  <2>3. CASE End
    BY <2>3, EndMeters
  <2>4. CASE Abort
    BY <2>4, AbortMeters
  <2>5. ASSUME NEW json \in BOOLEAN, Reply(json) PROVE MeteredInv'
    BY <2>5, ReplyMeters
  <2>6. CASE UNCHANGED meterVars
    BY <2>6, IdleMeters
  <2> QED
    BY <2>1, <2>2, <2>3, <2>4, <2>5, <2>6 DEF GatewayNext, gatewayVars, MeterNext
<1>3. MeteredInv => UsageIsWhatArrived
  <2> SUFFICES ASSUME MeteredInv, call.streamed, phase # "new" PROVE meter = Says[Cardinality(Arrived)]
    BY DEF UsageIsWhatArrived
  <2>1. SaysLoop(Says)
    <3>1. Len(stream) \in Nat
      BY DEF MeteredInv
    <3> QED
      BY <3>1, SaysLoops DEF SaysLoop
  <2>2. CASE phase = "done"
    <3>1. meter = Says[Len(stream)]
      BY <2>1, <2>2 DEF MeteredInv
    <3> QED
      BY <2>2, <3>1, ArrivedFrames
  <2>3. CASE phase \in {"open", "aborted"}
    <3>1. PICK a : ReadUpTo(a)
      BY <2>3 DEF MeteredInv
    <3>2. meter = Says[a]
      BY <2>1, <3>1 DEF ReadUpTo
    <3> QED
      BY <2>3, <3>1, <3>2, ArrivedFrames
  <2> QED
    BY <2>2, <2>3 DEF MeteredInv
<1> QED
  BY <1>1, <1>2, <1>3, PTL DEF GatewaySpec

---------------------------------------------------------------------------
(* What the client is shown *)

\* The translation goes frame by frame.
LEMMA ShowsLoops ==
  ASSUME Len(stream) \in Nat
  PROVE  /\ Shows[0] = <<>>
         /\ \A k \in 1..Len(stream) :
              Shows[k] = Shows[k - 1] \o
                Translate(\E j \in 1..(k - 1) : stream[j].type = "message_start", k, k \notin split)
<1> DEFINE n == Len(stream)
           Step(x, k) == x \o Translate(\E j \in 1..(k - 1) : stream[j].type = "message_start", k, k \notin split)
           Has(m) == \E f : f = [k \in 0..m |-> IF k = 0 THEN <<>> ELSE Step(f[k - 1], k)]
           P == {m \in 0..n : Has(m)}
<1>1. 0 \in P
  <2> HIDE DEF Step
  <2> DEFINE f == [k \in 0..0 |-> <<>>]
  <2>1. f = [k \in 0..0 |-> IF k = 0 THEN <<>> ELSE Step(f[k - 1], k)]
    OBVIOUS
  <2> HIDE DEF f
  <2>2. Has(0)
    BY <2>1
  <2> QED
    BY <2>2
<1>2. ASSUME NEW m \in 0..(n - 1), m \in P PROVE m + 1 \in P
  <2> HIDE DEF Step
  <2>1. PICK f : f = [k \in 0..m |-> IF k = 0 THEN <<>> ELSE Step(f[k - 1], k)]
    BY <1>2
  <2> DEFINE h == [k \in 0..(m + 1) |-> IF k <= m THEN f[k] ELSE Step(f[m], m + 1)]
  <2>2. m \in Nat /\ m + 1 \in 0..n
    OBVIOUS
  <2>3. h[m + 1] = Step(f[m], m + 1) /\ \A k \in 0..m : h[k] = f[k]
    BY <2>2
  <2>4. h = [k \in 0..(m + 1) |-> h[k]]
    OBVIOUS
  <2> HIDE DEF h
  <2>5. ASSUME NEW k \in 0..(m + 1) PROVE h[k] = IF k = 0 THEN <<>> ELSE Step(h[k - 1], k)
    <3>1. CASE k = m + 1
      <4>1. m \in 0..m /\ k - 1 = m /\ k # 0
        BY <2>2, <3>1
      <4> QED
        BY <2>3, <3>1, <4>1
    <3>2. CASE k # m + 1
      <4>1. k \in 0..m /\ (k # 0 => k - 1 \in 0..m)
        BY <2>2, <3>2
      <4> QED
        BY <2>1, <2>3, <4>1
    <3> QED
      BY <3>1, <3>2
  <2>6. Has(m + 1)
    BY <2>4, <2>5
  <2> QED
    BY <2>2, <2>6
<1> HIDE DEF P
<1>3. \A k \in 0..n : k \in P
  BY <1>1, <1>2, UpTo
<1>4. Has(n)
  <2> HIDE DEF Has
  <2>1. n \in P
    BY <1>3
  <2> QED
    BY <2>1 DEF P
<1>5. Shows = [k \in 0..n |-> IF k = 0 THEN <<>> ELSE Step(Shows[k - 1], k)]
  BY <1>4, Zenon DEF Shows
<1>6. Shows[0] = <<>> /\ \A k \in 1..n : Shows[k] = Step(Shows[k - 1], k)
  <2> HIDE DEF Step
  <2> QED
    BY <1>5
<1> QED
  BY <1>6

\* The bytes of the marked frames are garbled, and no others.
Marks(text, a, marks) ==
  \A d \in Nat, q \in 1..2 : d * Width + q <= Len(text) =>
    (text[d * Width + q][2] = 3 <=> a + d + 1 \in marks)

\* The marked frames are some that have begun to arrive and whose character is
\* wide; one of which only the first byte has arrived is among them.
SplitAt(marks, h) ==
  /\ marks \subseteq Nat \ {0}
  /\ \A i \in marks : stream[i].wide /\ (i - 1) * Width < h
  /\ \A i \in Nat \ {0} : (stream[i].wide /\ h = (i - 1) * Width + 1) => i \in marks

\* The q-th byte of frame i is in the chunk of n bytes after the first h.
Within(i, q, h, n) == h < (i - 1) * Width + q /\ (i - 1) * Width + q <= h + n

LEMMA Place ==
  ASSUME NEW w \in {3, 4}, NEW p \in Nat \ {0}, NEW i \in Nat \ {0}, NEW q \in 1..2
  PROVE  (((p - 1) \div w) + 1 = i /\ ((p - 1) % w) + 1 = q) <=> p = (i - 1) * w + q
<1>1. CASE w = 3
  BY <1>1
<1>2. CASE w = 4
  BY <1>2
<1> QED
  BY <1>1, <1>2

LEMMA InChunk ==
  ASSUME stream \in Seq(StreamFrame), NEW h \in Nat, NEW n \in Nat, h + n <= Len(Bytes),
         NEW i \in Nat \ {0}, NEW q \in 1..2
  PROVE  <<i, q>> \in ToSet(SubSeq(Bytes, h + 1, h + n)) <=> Within(i, q, h, n)
<1> DEFINE chunk == SubSeq(Bytes, h + 1, h + n)
           At(p) == IF ((p - 1) % Width) + 1 <= 2 THEN <<((p - 1) \div Width) + 1, ((p - 1) % Width) + 1>> ELSE NL
<1>0. Len(Bytes) \in Nat /\ Bytes \in Seq(Byte) /\ \A p \in 1..Len(Bytes) : Bytes[p] = At(p)
  BY BytesOfFrames
<1>1. chunk \in Seq(Byte) /\ Len(chunk) = n /\ \A j \in 1..n : chunk[j] = Bytes[h + j]
  BY <1>0, Piece
<1> HIDE DEF chunk
<1>2. ToSet(chunk) = {chunk[j] : j \in 1..n}
  <2>1. DOMAIN chunk = 1..n
    BY <1>1
  <2> QED
    BY <2>1 DEF ToSet
<1>3. ASSUME NEW j \in 1..n PROVE chunk[j] = <<i, q>> <=> h + j = (i - 1) * Width + q
  <2> DEFINE p == h + j
  <2>1. p \in 1..Len(Bytes) /\ p \in Nat \ {0}
    BY <1>0
  <2>2. chunk[j] = At(p)
    BY <1>0, <1>1, <2>1
  <2> HIDE DEF p
  <2> DEFINE r == ((p - 1) % Width) + 1
             e == ((p - 1) \div Width) + 1
  <2>3. At(p) = <<i, q>> <=> (e = i /\ r = q)
    <3>1. At(p) = IF r <= 2 THEN <<e, r>> ELSE NL
      OBVIOUS
    <3> HIDE DEF r, e
    <3> QED
      BY <3>1 DEF NL
  <2>4. (e = i /\ r = q) <=> p = (i - 1) * Width + q
    BY <2>1, Widths, Place
  <2> QED
    BY <2>2, <2>3, <2>4 DEF p
<1>4. ASSUME <<i, q>> \in ToSet(chunk) PROVE Within(i, q, h, n)
  <2>1. PICK j \in 1..n : chunk[j] = <<i, q>>
    BY <1>2, <1>4
  <2>2. h + j = (i - 1) * Width + q
    BY <1>3, <2>1
  <2>3. h < h + j /\ h + j <= h + n
    OBVIOUS
  <2> QED
    BY <2>2, <2>3, Zenon DEF Within
<1>5. ASSUME Within(i, q, h, n) PROVE <<i, q>> \in ToSet(chunk)
  <2> DEFINE p == (i - 1) * Width + q
  <2>1. p \in Nat
    <3>1. i - 1 \in Nat
      OBVIOUS
    <3>2. (i - 1) * Width \in Nat
      BY <3>1, Times
    <3> QED
      BY <3>2
  <2>2. h < p /\ p <= h + n
    BY <1>5 DEF Within
  <2> HIDE DEF p
  <2>3. p - h \in 1..n /\ h + (p - h) = p
    BY <2>1, <2>2
  <2>4. chunk[p - h] = <<i, q>>
    BY <1>3, <2>3 DEF p
  <2> QED
    BY <1>2, <2>3, <2>4
<1> QED
  BY <1>4, <1>5 DEF chunk

\* The chunk has one byte of the frame's character, but not both.
Half(i, h, n) ==
  /\ i \in Nat \ {0} /\ stream[i].wide
  /\ Within(i, 1, h, n) \/ Within(i, 2, h, n)
  /\ ~(Within(i, 1, h, n) /\ Within(i, 2, h, n))

\* The frames that a chunk adds to split.
Added(h, n) ==
  LET chunk == SubSeq(Bytes, h + 1, h + n)
  IN  {b[1] : b \in {b \in ToSet(chunk) : Halved(chunk, b)}}

LEMMA HalvedByte ==
  ASSUME stream \in Seq(StreamFrame), NEW h \in Nat, NEW n \in Nat, h + n <= Len(Bytes),
         NEW i \in Nat \ {0}, NEW q \in 1..2
  PROVE  Halved(SubSeq(Bytes, h + 1, h + n), <<i, q>>) <=>
           (stream[i].wide /\ ~(Within(i, 1, h, n) /\ Within(i, 2, h, n)))
<1> DEFINE S == ToSet(SubSeq(Bytes, h + 1, h + n))
<1>1. (<<i, 1>> \in S <=> Within(i, 1, h, n)) /\ (<<i, 2>> \in S <=> Within(i, 2, h, n))
  <2>1. 1 \in 1..2 /\ 2 \in 1..2
    OBVIOUS
  <2> QED
    BY <2>1, InChunk, Zenon
<1>2. Halved(SubSeq(Bytes, h + 1, h + n), <<i, q>>) <=>
        (<<i, q>>[1] > 0 /\ stream[<<i, q>>[1]].wide
           /\ ~({<<<<i, q>>[1], 1>>, <<<<i, q>>[1], 2>>} \subseteq S))
  BY Zenon DEF Halved
<1> HIDE DEF S
<1>3. <<i, q>>[1] = i /\ i > 0
  OBVIOUS
<1>4. ({<<i, 1>>, <<i, 2>>} \subseteq S) <=> (<<i, 1>> \in S /\ <<i, 2>> \in S)
  BY Zenon
<1> QED
  BY <1>1, <1>2, <1>3, <1>4, Zenon

LEMMA AddedHalf ==
  ASSUME stream \in Seq(StreamFrame), NEW h \in Nat, NEW n \in Nat, h + n <= Len(Bytes), NEW i
  PROVE  i \in Added(h, n) <=> Half(i, h, n)
<1> DEFINE chunk == SubSeq(Bytes, h + 1, h + n)
<1>1. ASSUME i \in Added(h, n) PROVE Half(i, h, n)
  <2>1. PICK b \in ToSet(chunk) : Halved(chunk, b) /\ i = b[1]
    BY <1>1, Zenon DEF Added
  <2>2. PICK q \in 1..2 : i \in Nat \ {0} /\ b = <<i, q>>
    <3>1. Len(Bytes) \in Nat /\ Bytes \in Seq(Byte)
      BY BytesOfFrames
    <3>2. chunk \in Seq(Byte) /\ Len(chunk) = n /\ \A j \in 1..n : chunk[j] = Bytes[h + j]
      BY <3>1, Piece
    <3>3. PICK j \in 1..n : b = Bytes[h + j]
      <4> HIDE DEF chunk
      <4>1. DOMAIN chunk = 1..n
        BY <3>2
      <4> QED
        BY <2>1, <3>2, <4>1 DEF ToSet
    <3> DEFINE p == h + j
               r == ((p - 1) % Width) + 1
               e == ((p - 1) \div Width) + 1
    <3>4. p \in 1..Len(Bytes) /\ p - 1 \in Nat
      BY <3>1
    <3>5. b = IF r <= 2 THEN <<e, r>> ELSE NL
      BY <3>3, <3>4, BytesOfFrames
    <3>6. r \in Nat \ {0} /\ e \in Nat \ {0}
      <4> HIDE DEF p
      <4>1. CASE Width = 3
        BY <3>4, <4>1
      <4>2. CASE Width = 4
        BY <3>4, <4>2
      <4> QED
        BY <4>1, <4>2, Widths
    <3>7. b[1] > 0
      BY <2>1 DEF Halved
    <3> HIDE DEF r, e
    <3>8. r <= 2 /\ b = <<e, r>>
      <4>1. NL[1] = 0
        BY DEF NL
      <4> QED
        BY <3>5, <3>7, <4>1
    <3>9. r \in 1..2 /\ i = e
      BY <2>1, <3>6, <3>8
    <3> QED
      BY <3>6, <3>8, <3>9
  <2>3. Within(i, q, h, n)
    BY <2>1, <2>2, InChunk, Zenon
  <2>4. stream[i].wide /\ ~(Within(i, 1, h, n) /\ Within(i, 2, h, n))
    BY <2>1, <2>2, HalvedByte, Zenon
  <2>5. q = 1 \/ q = 2
    OBVIOUS
  <2> QED
    BY <2>2, <2>3, <2>4, <2>5, Zenon DEF Half
<1>2. ASSUME Half(i, h, n) PROVE i \in Added(h, n)
  <2>1. PICK q \in 1..2 : Within(i, q, h, n)
    <3>1. 1 \in 1..2 /\ 2 \in 1..2
      OBVIOUS
    <3> QED
      BY <1>2, <3>1, Zenon DEF Half
  <2>2. i \in Nat \ {0} /\ stream[i].wide /\ ~(Within(i, 1, h, n) /\ Within(i, 2, h, n))
    BY <1>2, Zenon DEF Half
  <2>3. <<i, q>> \in ToSet(chunk)
    BY <2>1, <2>2, InChunk, Zenon
  <2>4. Halved(chunk, <<i, q>>)
    BY <2>2, HalvedByte, Zenon
  <2>5. <<i, q>>[1] = i
    OBVIOUS
  <2> QED
    BY <2>3, <2>4, <2>5, Zenon DEF Added
<1> QED
  BY <1>1, <1>2

\* The frames marked after a chunk are again as SplitAt says.
LEMMA SplitGoesOn ==
  ASSUME stream \in Seq(StreamFrame), NEW h \in Nat, NEW n \in Nat \ {0}, h + n <= Len(Bytes),
         NEW marks, SplitAt(marks, h)
  PROVE  SplitAt(marks \cup Added(h, n), h + n)
<1> DEFINE new == marks \cup Added(h, n)
<1>1. ASSUME NEW i PROVE i \in new <=> i \in marks \/ Half(i, h, n)
  BY AddedHalf, Zenon
<1> HIDE DEF new
<1>2. ASSUME NEW i \in new PROVE i \in Nat \ {0} /\ stream[i].wide /\ (i - 1) * Width < h + n
  <2>1. i \in Nat \ {0} /\ stream[i].wide
    BY <1>1, <1>2, Zenon DEF Half, SplitAt
  <2> DEFINE v == (i - 1) * Width
  <2>2. v \in Nat
    <3>1. i - 1 \in Nat
      BY <2>1
    <3> QED
      BY <3>1, Times
  <2>3. CASE i \in marks
    <3>1. v < h
      BY <2>3 DEF SplitAt
    <3> HIDE DEF v
    <3>2. v < h + n
      BY <2>2, <3>1
    <3> QED
      BY <2>1, <3>2 DEF v
  <2>4. CASE Half(i, h, n)
    <3>1. v + 1 <= h + n \/ v + 2 <= h + n
      BY <2>4 DEF Half, Within
    <3> HIDE DEF v
    <3>2. v < h + n
      BY <2>2, <3>1
    <3> QED
      BY <2>1, <3>2 DEF v
  <2> QED
    BY <1>1, <1>2, <2>3, <2>4
<1>3. ASSUME NEW i \in Nat \ {0}, stream[i].wide, h + n = (i - 1) * Width + 1 PROVE i \in new
  <2> DEFINE v == (i - 1) * Width
  <2>1. v \in Nat
    <3>1. i - 1 \in Nat
      OBVIOUS
    <3> QED
      BY <3>1, Times
  <2>2. h + n = v + 1
    BY <1>3
  <2>3. h < v + 1 /\ v + 1 <= h + n /\ ~(v + 2 <= h + n)
    <3> HIDE DEF v
    <3> QED
      BY <2>1, <2>2
  <2>4. Half(i, h, n)
    BY <1>3, <2>3, Zenon DEF Half, Within
  <2> QED
    BY <1>1, <2>4
<1> QED
  BY <1>2, <1>3 DEF SplitAt, new

\* A frame that is complete is marked for good.
LEMMA MarkedForGood ==
  ASSUME stream \in Seq(StreamFrame), NEW h \in Nat, NEW n \in Nat, h + n <= Len(Bytes),
         NEW a \in Nat, a * Width <= h, NEW i \in 1..a, NEW marks
  PROVE  i \in marks \cup Added(h, n) <=> i \in marks
<1> SUFFICES ASSUME Half(i, h, n) PROVE FALSE
  BY AddedHalf, Zenon
<1> DEFINE v == (i - 1) * Width
           u == a * Width
<1>1. v \in Nat /\ u \in Nat /\ v + Width <= u
  <2>1. i - 1 \in Nat /\ (i - 1) + 1 = i /\ i \in Nat /\ i <= a
    OBVIOUS
  <2>2. i * Width = v + Width /\ v \in Nat
    BY <2>1, Times
  <2>3. i * Width <= a * Width
    BY <2>1, Sums
  <2> QED
    BY <2>2, <2>3, Times
<1>2. h < v + 1 \/ h < v + 2
  BY DEF Half, Within
<1>3. u <= h
  OBVIOUS
<1> HIDE DEF v, u
<1> QED
  BY <1>1, <1>2, <1>3, Widths

\* What is pending and a decoded chunk together are marked as split says then.
LEMMA MarksOn ==
  ASSUME stream \in Seq(StreamFrame), NEW a \in Nat, NEW left, Reads(left, a), NEW n \in Nat, NEW h \in Nat,
         h = a * Width + Len(left), h + n <= Len(Bytes), NEW marks, Marks(left, a, marks), SplitAt(marks, h)
  PROVE  Marks(left \o Decode(SubSeq(Bytes, h + 1, h + n)), a, marks \cup Added(h, n))
<1> DEFINE chunk == SubSeq(Bytes, h + 1, h + n)
           more == Decode(chunk)
           text == left \o more
           l == Len(left)
           new == marks \cup Added(h, n)
<1>0. left \in Seq(Byte) /\ l \in Nat /\ Bytes \in Seq(Byte) /\ Len(Bytes) \in Nat
  <2>1. left \in Seq(Byte)
    BY DEF Reads
  <2>2. l \in Nat
    BY <2>1
  <2> QED
    BY <2>1, <2>2, BytesOfFrames
<1>1. chunk \in Seq(Byte) /\ Len(chunk) = n /\ \A j \in 1..n : chunk[j] = Bytes[h + j]
  BY <1>0, Piece
<1>2. more \in Seq(Byte) /\ Len(more) = n
  <2> HIDE DEF chunk
  <2> QED
    BY <1>1, Decoded
<1>3. /\ Len(text) = l + n
      /\ \A k \in 1..l : text[k] = left[k]
      /\ \A k \in 1..n : text[l + k] = more[k]
  <2> HIDE DEF more
  <2>1. /\ Len(text) = Len(left) + Len(more)
        /\ \A k \in 1..Len(left) : text[k] = left[k]
        /\ \A k \in 1..Len(more) : text[Len(left) + k] = more[k]
    BY <1>0, <1>2, Joined
  <2> QED
    BY <1>2, <2>1, Zenon
<1>4. \A j \in 1..n : more[j] = IF Halved(chunk, chunk[j]) THEN <<chunk[j][1], 3>> ELSE chunk[j]
  <2>1. DOMAIN chunk = 1..n
    <3> HIDE DEF chunk
    <3> QED
      BY <1>1
  <2> HIDE DEF chunk
  <2> QED
    BY <2>1 DEF Decode
<1> HIDE DEF text, more
<1>5. ASSUME NEW i PROVE i \in new <=> i \in marks \/ Half(i, h, n)
  BY AddedHalf, Zenon
<1> HIDE DEF new
<1>6. ASSUME NEW d \in Nat, NEW q \in 1..2, d * Width + q <= Len(text)
      PROVE  text[d * Width + q][2] = 3 <=> a + d + 1 \in new
  <2> DEFINE i == a + d + 1
             v == a * Width
             w == d * Width
             z == (i - 1) * Width
             k == w + q
  <2>0. v \in Nat /\ w \in Nat /\ z = v + w /\ i \in Nat \ {0} /\ h = v + l /\ i - 1 = a + d /\ a + d \in Nat
    <3>1. i - 1 = a + d /\ a + d \in Nat /\ i \in Nat \ {0}
      OBVIOUS
    <3>2. (a + d) * Width = v + w
      BY Sums
    <3>3. z = (a + d) * Width
      BY <3>1
    <3> QED
      BY <3>1, <3>2, <3>3, Times
  <2>1. k <= l + n
    BY <1>3, <1>6
  <2>2. Within(i, 1, h, n) <=> h < z + 1 /\ z + 1 <= h + n
    BY DEF Within
  <2>3. Within(i, 2, h, n) <=> h < z + 2 /\ z + 2 <= h + n
    BY DEF Within
  <2>4. i \in marks => stream[i].wide /\ z < h
    BY DEF SplitAt
  <2>5. (stream[i].wide /\ h = z + 1) => i \in marks
    BY <2>0 DEF SplitAt
  <2>6. Half(i, h, n) <=> /\ stream[i].wide /\ (Within(i, 1, h, n) \/ Within(i, 2, h, n))
                          /\ ~(Within(i, 1, h, n) /\ Within(i, 2, h, n))
    BY <2>0, Zenon DEF Half
  <2>7. CASE k <= l
    <3>1. text[k] = left[k]
      <4> HIDE DEF w
      <4>1. k \in 1..l
        BY <1>0, <2>0, <2>7
      <4> QED
        BY <1>3, <4>1
    <3>2. left[k][2] = 3 <=> i \in marks
      BY <2>7 DEF Marks
    <3>3. Half(i, h, n) => h = z + 1
      <4> HIDE DEF v, w, z
      <4>1. z + q <= h /\ z \in Nat
        <5> HIDE DEF l
        <5> QED
          BY <1>0, <2>0, <2>7
      <4>2. (h < z + 1 /\ z + 1 <= h + n) \/ (h < z + 2 /\ z + 2 <= h + n) => h = z + 1
        <5>1. z + 1 <= h
          BY <4>1
        <5> QED
          BY <4>1, <5>1
      <4> QED
        BY <2>2, <2>3, <2>6, <4>2, Zenon
    <3>4. Half(i, h, n) => i \in marks
      BY <2>5, <2>6, <3>3, Zenon
    <3>5. text[k][2] = 3 <=> i \in new
      BY <1>5, <3>1, <3>2, <3>4, Zenon
    <3> QED
      BY <3>5
  <2>8. CASE ~(k <= l)
    <3> DEFINE j == k - l
    <3>1. j \in 1..n /\ k = l + j /\ h + j = z + q /\ h < z + q /\ z + q <= h + n
      <4> HIDE DEF v, w, z
      <4> QED
        BY <1>0, <2>0, <2>1, <2>8
    <3>2. z + q <= Len(Bytes)
      <4> HIDE DEF v, w, z
      <4>1. z + q \in Nat
        BY <2>0
      <4> QED
        BY <1>0, <3>1, <4>1
    <3>3. Bytes[z + q] = <<i, q>>
      <4>1. (a + d) * Width + q <= Len(Bytes) /\ q \in 1..Width
        BY <2>0, <3>2, Widths
      <4>2. Bytes[(a + d) * Width + q] = <<(a + d) + 1, q>>
        <5> DEFINE c == a + d
        <5>1. c \in Nat /\ c * Width + q <= Len(Bytes) /\ q <= 2
          BY <2>0, <4>1
        <5> HIDE DEF c
        <5>2. Bytes[c * Width + q] = <<c + 1, q>>
          BY <4>1, <5>1, ByteAt
        <5> QED
          BY <5>2 DEF c
      <4> QED
        BY <2>0, <4>2
    <3> HIDE DEF j
    <3>4. chunk[j] = <<i, q>> /\ text[k] = more[j]
      BY <1>1, <1>3, <3>1, <3>3
    <3>5. more[j][2] = 3 <=> Halved(chunk, <<i, q>>)
      <4>1. more[j] = IF Halved(chunk, <<i, q>>) THEN <<<<i, q>>[1], 3>> ELSE <<i, q>>
        BY <1>4, <3>1, <3>4, Zenon
      <4> HIDE DEF i, chunk
      <4>2. <<i, q>>[2] # 3 /\ <<<<i, q>>[1], 3>>[2] = 3
        OBVIOUS
      <4> QED
        BY <4>1, <4>2
    <3>6. Halved(chunk, <<i, q>>) <=> (stream[i].wide /\ ~(Within(i, 1, h, n) /\ Within(i, 2, h, n)))
      BY <2>0, HalvedByte, Zenon
    <3>7. Within(i, 1, h, n) \/ Within(i, 2, h, n)
      <4> HIDE DEF v, w, z
      <4>1. CASE q = 1
        BY <2>2, <3>1, <4>1
      <4>2. CASE q = 2
        BY <2>3, <3>1, <4>2
      <4> QED
        BY <2>0, <4>1, <4>2
    <3>8. z < h => ~Within(i, 1, h, n)
      <4> HIDE DEF v, w, z
      <4>1. z \in Nat
        BY <2>0
      <4> QED
        BY <2>2, <4>1
    <3>9. text[k][2] = 3 <=> i \in new
      BY <1>5, <2>4, <2>6, <3>4, <3>5, <3>6, <3>7, <3>8, Zenon
    <3> QED
      BY <3>9
  <2> QED
    BY <2>7, <2>8
<1>7. Marks(text, a, new)
  BY <1>6, Zenon DEF Marks
<1> QED
  BY <1>7 DEF text, more, chunk, new

\* The rest of a cut is marked like the text.
LEMMA MarksRest ==
  ASSUME NEW text, NEW a \in Nat, Reads(text, a), NEW cut, NEW d, NEW q, IsCut(cut, text, d, q),
         NEW marks, Marks(text, a, marks)
  PROVE  Marks(cut.pending, a + d, marks)
<1> DEFINE m == d * Width
           rest == cut.pending
<1>0. d \in Nat /\ q \in Nat /\ m \in Nat /\ Len(text) = m + q /\ text \in Seq(Byte)
      /\ rest = SubSeq(text, m + 1, m + q)
  <2>1. d \in Nat /\ q \in 0..(Width - 1) /\ Len(text) = m + q /\ rest = SubSeq(text, m + 1, Len(text))
    BY DEF IsCut
  <2>2. text \in Seq(Byte)
    BY DEF Reads
  <2>3. q \in Nat
    BY <2>1, Widths
  <2>4. m \in Nat
    BY <2>1, Times
  <2> QED
    BY <2>1, <2>2, <2>3, <2>4
<1> HIDE DEF m, rest
<1>1. Len(rest) = q /\ \A k \in 1..q : rest[k] = text[m + k]
  <2>1. m + q <= Len(text)
    BY <1>0
  <2> QED
    BY <1>0, <2>1, Piece
<1>2. ASSUME NEW e \in Nat, NEW p \in 1..2, e * Width + p <= Len(rest)
      PROVE  rest[e * Width + p][2] = 3 <=> (a + d) + e + 1 \in marks
  <2> DEFINE w == e * Width
  <2>1. w \in Nat /\ (d + e) * Width = m + w /\ d + e \in Nat
    <3>1. w \in Nat
      BY Times
    <3>2. (d + e) * Width = d * Width + e * Width
      BY <1>0, Sums
    <3> QED
      BY <1>0, <3>1, <3>2 DEF m
  <2>2. w + p <= q
    BY <1>1, <1>2
  <2> HIDE DEF w
  <2>3. w + p \in 1..q /\ m + (w + p) = (m + w) + p /\ (m + w) + p <= Len(text)
    BY <1>0, <2>1, <2>2
  <2>4. rest[w + p] = text[(d + e) * Width + p] /\ (d + e) * Width + p <= Len(text)
    BY <1>1, <2>1, <2>3
  <2>5. text[(d + e) * Width + p][2] = 3 <=> a + (d + e) + 1 \in marks
    BY <2>1, <2>4 DEF Marks
  <2>6. a + (d + e) + 1 = (a + d) + e + 1
    BY <1>0
  <2> QED
    BY <2>4, <2>5, <2>6 DEF w
<1> QED
  BY <1>2, Zenon DEF Marks, rest

\* A frame that is cut off is whole unless it is marked.
LEMMA MarksFrames ==
  ASSUME NEW text, NEW a \in Nat, Reads(text, a), NEW cut, NEW d, NEW q, IsCut(cut, text, d, q),
         NEW marks, Marks(text, a, marks), NEW j \in 1..d
  PROVE  cut.frames[j][1][2] = 1 <=> a + j \notin marks
<1> DEFINE m == (j - 1) * Width
<1>0. /\ d \in Nat /\ q \in Nat /\ j \in Nat /\ j - 1 \in Nat
      /\ Len(text) = d * Width + q /\ cut.frames[j] = <<text[m + 1], text[m + 2]>>
  <2>1. d \in Nat /\ q \in 0..(Width - 1) /\ Len(text) = d * Width + q /\ cut.frames[j] = <<text[m + 1], text[m + 2]>>
    BY DEF IsCut
  <2>2. q \in Nat
    BY <2>1, Widths
  <2> QED
    BY <2>1, <2>2
<1>1. m + 1 <= Len(text)
  <2> DEFINE v == d * Width
  <2>1. ((j - 1) + 1) * Width = m + Width /\ m \in Nat
    BY <1>0, Times
  <2>2. (j - 1) + 1 \in Nat /\ (j - 1) + 1 <= d
    BY <1>0
  <2>3. m + Width <= v /\ v \in Nat
    BY <1>0, <2>1, <2>2, Sums, Times
  <2>4. Len(text) = v + q
    BY <1>0
  <2> HIDE DEF m, v
  <2> QED
    BY <1>0, <2>1, <2>3, <2>4, Widths
<1>2. a + (j - 1) + 1 = a + j
  BY <1>0
<1>3. text[m + 1][2] = 3 <=> a + j \in marks
  <2>1. 1 \in 1..2
    OBVIOUS
  <2> QED
    BY <1>0, <1>1, <1>2, <2>1 DEF Marks
<1>4. text[m + 1] \in {<<a + j, 1>>, <<a + j, 3>>}
  <2>1. 1 \in 1..Width /\ 1 <= 2
    BY Widths
  <2> QED
    BY <1>0, <1>1, <1>2, <2>1 DEF Reads
<1> HIDE DEF m
<1>5. cut.frames[j][1] = text[m + 1]
  BY <1>0
<1>6. text[m + 1][2] = 1 <=> text[m + 1][2] # 3
  BY <1>4
<1> QED
  BY <1>3, <1>5, <1>6

\* One of the first k frames starts a message.
Began(k) == \E j \in 1..k : stream[j].type = "message_start"

\* g[k] is the translation of the first k frames, for k up to a.
ShowsUpTo(g, a, marks) ==
  /\ g[0] = <<>>
  /\ \A k \in 1..a : g[k] = g[k - 1] \o Translate(Began(k - 1), k, k \notin marks)

\* o is the translation of the first a frames.
Tells(o, a, marks) == \A g : ShowsUpTo(g, a, marks) => o = g[a]

\* The frames after the first a, garbled where marked.
NextFrames(frames, a, marks) ==
  \A j \in 1..Len(frames) : /\ IsFrame(frames[j]) /\ frames[j][1][1] = a + j
                            /\ frames[j][1][2] = 1 <=> a + j \notin marks

\* What a translated stream is made of.
Kind  == {"role", "text", "finish", "done"}
Shown == [kind : Kind, frame : Nat, whole : BOOLEAN]

LEMMA TranslateType ==
  ASSUME NEW b, NEW i \in Nat, NEW w \in BOOLEAN
  PROVE  Translate(b, i, w) \in Seq(Shown)
<1> DEFINE Item(kind) == <<[kind |-> kind, frame |-> i, whole |-> w]>>
<1>1. ASSUME NEW kind \in Kind PROVE Item(kind) \in Seq(Shown)
  <2>1. [kind |-> kind, frame |-> i, whole |-> w] \in Shown
    BY DEF Shown
  <2> QED
    BY <2>1
<1>2. /\ Item("role") \in Seq(Shown) /\ Item("text") \in Seq(Shown)
      /\ Item("finish") \in Seq(Shown) /\ Item("done") \in Seq(Shown)
  <2>1. "role" \in Kind /\ "text" \in Kind /\ "finish" \in Kind /\ "done" \in Kind
    BY DEF Kind
  <2> QED
    BY <1>1, <2>1, Zenon
<1> DEFINE t == stream[i].type
<1>3. Translate(b, i, w) = CASE t = "message_start" /\ ~b  -> Item("role")
                             [] t = "content_block_delta" -> Item("text")
                             [] t = "message_delta"       -> Item("finish")
                             [] t = "message_stop"        -> Item("done")
                             [] OTHER                     -> <<>>
  BY DEF Translate
<1> HIDE DEF Item, t
<1>4. <<>> \in Seq(Shown)
  OBVIOUS
<1> QED
  BY <1>2, <1>3, <1>4

\* The translator goes on from s to x by frame i, whole or not.
ShowsFrame(s, x, i, w) ==
  /\ x.out = s.out \o Translate(s.started, i, w)
  /\ x.started <=> (s.started \/ stream[i].type = "message_start")

\* The translator, on a frame that is cut off.
LEMMA TapShows ==
  ASSUME Translated, NEW s, s.out \in Seq(Shown), NEW text, IsFrame(text), NEW i, text[1][1] = i,
         NEW w \in BOOLEAN, w <=> (text[1][2] = 1)
  PROVE  ShowsFrame(s, Tap(s, text), i, w)
<1>1. ~Foreign(call)
  BY DEF Translated, Foreign
<1>2. CASE HasPayload(call, stream[i])
  <2> DEFINE m == OnFrame(s.meter, stream[i])
             b == s.started \/ stream[i].type = "message_start"
             o == s.out \o Translate(s.started, i, w)
  <2>1. Tap(s, text) = [meter |-> m, started |-> b, out |-> o]
    <3>1. w = (text[1][2] = 1)
      OBVIOUS
    <3> QED
      BY <1>2, <3>1 DEF Tap
  <2> HIDE DEF m, b, o
  <2>2. Tap(s, text).out = o /\ Tap(s, text).started = b
    BY <2>1
  <2> QED
    BY <2>2 DEF b, o, ShowsFrame
<1>3. CASE ~HasPayload(call, stream[i])
  <2>1. stream[i].type \in {"comment", "[DONE]"}
    BY <1>1, <1>3 DEF HasPayload
  <2>2. Translate(s.started, i, w) = <<>>
    BY <2>1 DEF Translate
  <2>3. Tap(s, text) = s
    BY <1>3 DEF Tap
  <2>4. s.out \o <<>> = s.out
    <3> DEFINE o == s.out
    <3> HIDE DEF o
    <3>1. o \in Seq(Shown)
      BY DEF o
    <3>2. o \o <<>> = o
      BY <3>1
    <3> QED
      BY <3>2 DEF o
  <2>5. stream[i].type # "message_start"
    BY <2>1
  <2> QED
    BY <2>2, <2>3, <2>4, <2>5 DEF ShowsFrame
<1> QED
  BY <1>2, <1>3

LEMMA OneFurther ==
  ASSUME NEW c \in Nat
  PROVE  \A j : j \in 1..(c + 1) <=> (j \in 1..c \/ j = c + 1)
  OBVIOUS

\* The frames after the first a are shown after these, in order.
LEMMA TapsShow ==
  ASSUME stream \in Seq(StreamFrame), Translated, NEW marks, NEW a \in Nat,
         NEW frames, Len(frames) \in Nat, out \in Seq(Shown), started <=> Began(a),
         Tells(out, a, marks), NextFrames(frames, a, marks)
  PROVE  /\ TapAll(frames).out \in Seq(Shown)
         /\ TapAll(frames).started <=> Began(a + Len(frames))
         /\ Tells(TapAll(frames).out, a + Len(frames), marks)
<1> DEFINE n == Len(frames)
<1>1. PICK t : /\ t[0] = [meter |-> meter, started |-> started, out |-> out]
               /\ \A k \in 1..Len(frames) : t[k] = Tap(t[k - 1], frames[k])
               /\ TapAll(frames) = t[Len(frames)]
  BY TapsLoop
<1> DEFINE OutIs(k) == \A g : ShowsUpTo(g, a + n, marks) => t[k].out = g[a + k]
           Good(k) == t[k].out \in Seq(Shown) /\ (t[k].started <=> Began(a + k)) /\ OutIs(k)
           P == {k \in 0..n : Good(k)}
<1>2. 0 \in P
  <2>1. t[0].out = out /\ t[0].started = started /\ a + 0 = a
    BY <1>1
  <2>2. ASSUME NEW g, ShowsUpTo(g, a + n, marks) PROVE t[0].out = g[a + 0]
    <3>1. 1..a \subseteq 1..(a + n)
      OBVIOUS
    <3>2. ShowsUpTo(g, a, marks)
      BY <2>2, <3>1, Zenon DEF ShowsUpTo
    <3> QED
      BY <2>1, <3>2 DEF Tells
  <2>3. Good(0)
    BY <2>1, <2>2
  <2> HIDE DEF Good
  <2> QED
    BY <2>3
<1>3. ASSUME NEW k \in 0..(n - 1), k \in P PROVE k + 1 \in P
  <2> DEFINE i == a + (k + 1)
             whole == frames[k + 1][1][2] = 1
             y == Translate(Began(a + k), i, i \notin marks)
  <2>1. k \in Nat /\ k + 1 \in 1..n /\ k + 1 \in 0..n /\ (k + 1) - 1 = k
    OBVIOUS
  <2>2. i \in 1..(a + n) /\ i - 1 = a + k /\ i \in Nat
    BY <2>1
  <2>3. t[k + 1] = Tap(t[k], frames[k + 1])
    BY <1>1, <2>1
  <2>4. IsFrame(frames[k + 1]) /\ frames[k + 1][1][1] = i /\ (whole <=> i \notin marks)
    BY <2>1, Zenon DEF NextFrames
  <2>5. Good(k)
    <3> HIDE DEF Good
    <3> QED
      BY <1>3
  <2> PICK w \in BOOLEAN : w <=> whole
    BY Zenon
  <2> DEFINE x == Translate(t[k].started, i, w)
  <2>6. t[k + 1].out = t[k].out \o x /\ (t[k + 1].started <=> t[k].started \/ stream[i].type = "message_start")
    <3>1. t[k].out \in Seq(Shown) /\ (w <=> (frames[k + 1][1][2] = 1))
      BY <2>5
    <3>2. ShowsFrame(t[k], Tap(t[k], frames[k + 1]), i, w)
      BY <2>4, <3>1, TapShows, Zenon
    <3> QED
      BY <2>3, <3>2 DEF ShowsFrame
  <2>7. x = y
    <3>1. (t[k].started <=> Began(a + k)) /\ (w <=> i \notin marks)
      BY <2>4, <2>5, Zenon
    <3> HIDE DEF i, whole, Good
    <3> QED
      BY <3>1 DEF Translate
  <2>8. y \in Seq(Shown)
    <3>1. (i \notin marks) \in BOOLEAN
      OBVIOUS
    <3> QED
      BY <2>2, <3>1, TranslateType, Zenon
  <2>9. Began(i) <=> Began(a + k) \/ stream[i].type = "message_start"
    <3>1. \A j : j \in 1..i <=> (j \in 1..(a + k) \/ j = i)
      <4> DEFINE c == a + k
      <4>1. c \in Nat /\ i = c + 1
        BY <2>1
      <4> HIDE DEF c, i
      <4>2. \A j : j \in 1..(c + 1) <=> (j \in 1..c \/ j = c + 1)
        BY <4>1, OneFurther, Zenon
      <4> QED
        BY <4>1, <4>2, Zenon DEF c
    <3> HIDE DEF i
    <3> QED
      BY <3>1, Zenon DEF Began
  <2>10. ASSUME NEW g, ShowsUpTo(g, a + n, marks) PROVE t[k + 1].out = g[i]
    <3>1. g[i] = g[a + k] \o y
      BY <2>2, <2>10 DEF ShowsUpTo
    <3>2. t[k].out = g[a + k]
      BY <2>5, <2>10
    <3> HIDE DEF x, y, i
    <3> QED
      BY <2>6, <2>7, <3>1, <3>2
  <2> HIDE DEF x, y, whole
  <2>11. t[k + 1].out \in Seq(Shown)
    <3> DEFINE o == t[k].out
    <3>1. o \in Seq(Shown)
      BY <2>5
    <3>2. t[k + 1].out = o \o y
      BY <2>6, <2>7
    <3> HIDE DEF o
    <3> QED
      BY <2>8, <3>1, <3>2
  <2>12. t[k + 1].started <=> Began(i)
    BY <2>5, <2>6, <2>9, Zenon
  <2>13. Good(k + 1)
    BY <2>10, <2>11, <2>12, Zenon
  <2> HIDE DEF Good
  <2> QED
    BY <2>1, <2>13
<1> HIDE DEF P
<1>4. \A k \in 0..n : k \in P
  BY <1>2, <1>3, UpTo
<1>5. Good(n)
  <2> HIDE DEF Good
  <2>1. n \in P
    BY <1>4
  <2> QED
    BY <2>1 DEF P
<1> QED
  BY <1>1, <1>5, Zenon DEF Tells

\* Without a translator the taps write nothing.
LEMMA TapsPass ==
  ASSUME ~Translated, NEW frames, Len(frames) \in Nat
  PROVE  TapAll(frames).out = out
<1> DEFINE n == Len(frames)
<1>1. PICK t : /\ t[0] = [meter |-> meter, started |-> started, out |-> out]
               /\ \A k \in 1..Len(frames) : t[k] = Tap(t[k - 1], frames[k])
               /\ TapAll(frames) = t[Len(frames)]
  BY TapsLoop
<1> DEFINE P == {k \in 0..n : t[k].out = out}
<1>2. 0 \in P
  <2>1. t[0].out = out
    BY <1>1
  <2> QED
    BY <2>1
<1>3. ASSUME NEW k \in 0..(n - 1), k \in P PROVE k + 1 \in P
  <2>1. k + 1 \in 1..n /\ k + 1 \in 0..n /\ (k + 1) - 1 = k
    OBVIOUS
  <2>2. t[k + 1] = Tap(t[k], frames[k + 1])
    BY <1>1, <2>1
  <2>3. Tap(t[k], frames[k + 1]).out = t[k].out
    BY DEF Tap
  <2> QED
    BY <1>3, <2>1, <2>2, <2>3
<1> HIDE DEF P
<1>4. \A k \in 0..n : k \in P
  BY <1>2, <1>3, UpTo
<1>5. t[n].out = out
  BY <1>4 DEF P
<1> QED
  BY <1>1, <1>5

LEMMA PiecesJoin ==
  ASSUME NEW s \in Seq(Byte), NEW h \in Nat, NEW n \in Nat, h + n <= Len(s)
  PROVE  SubSeq(s, 1, h) \o SubSeq(s, h + 1, h + n) = SubSeq(s, 1, h + n)
<1> DEFINE x == SubSeq(s, 1, h)
           y == SubSeq(s, h + 1, h + n)
           z == SubSeq(s, 1, h + n)
<1>1. x \in Seq(Byte) /\ Len(x) = h /\ \A j \in 1..h : x[j] = s[j]
  OBVIOUS
<1>2. y \in Seq(Byte) /\ Len(y) = n /\ \A j \in 1..n : y[j] = s[h + j]
  BY Piece
<1>3. z \in Seq(Byte) /\ Len(z) = h + n /\ \A j \in 1..(h + n) : z[j] = s[j]
  OBVIOUS
<1> HIDE DEF x, y, z
<1> DEFINE w == x \o y
<1>4. /\ w \in Seq(Byte) /\ Len(w) = Len(x) + Len(y)
      /\ \A j \in 1..Len(x) : w[j] = x[j]
      /\ \A j \in 1..Len(y) : w[Len(x) + j] = y[j]
  BY <1>1, <1>2, Joined
<1> HIDE DEF w
<1>5. ASSUME NEW j \in 1..(h + n) PROVE w[j] = z[j]
  <2>1. CASE j <= h
    <3>1. j \in 1..h
      BY <2>1
    <3> QED
      BY <1>1, <1>3, <1>4, <3>1
  <2>2. CASE j > h
    <3>1. j - h \in 1..n /\ h + (j - h) = j
      BY <2>2
    <3>2. w[h + (j - h)] = y[j - h] /\ y[j - h] = s[h + (j - h)]
      BY <1>1, <1>2, <1>4, <3>1
    <3> QED
      BY <1>3, <3>1, <3>2
  <2> QED
    BY <2>1, <2>2
<1>6. Len(w) = Len(z)
  BY <1>1, <1>2, <1>3, <1>4
<1>7. w = z
  BY <1>3, <1>4, <1>5, <1>6
<1> QED
  BY <1>7 DEF w, x, y, z

\* The first a frames have been shown, or the bytes that came have been passed on.
ShownUpTo(a) ==
  /\ ReadUpTo(a) /\ Marks(pending, a, split) /\ SplitAt(split, at)
  /\ Translated => /\ out \in Seq(Shown) /\ (started <=> Began(a))
                   /\ Tells(out, a, split)
  /\ ~Translated => out = SubSeq(Bytes, 1, at)

\* The text that a chunk of n bytes completes.
NextText(n) == Onward(pending, at, n)

\* After h bytes b frames are complete, and the rest is of the next.
PlaceOf(h, b, rest) == h = b * Width + Len(rest) /\ Len(rest) < Width

LEMMA NextTextReads ==
  ASSUME stream \in Seq(StreamFrame), NEW a, ReadUpTo(a), NEW n \in Nat, at + n <= Len(Bytes)
  PROVE  Reads(NextText(n), a) /\ Len(NextText(n)) = Len(pending) + n
<1>1. a \in Nat /\ Reads(pending, a) /\ at = a * Width + Len(pending)
  BY DEF ReadUpTo
<1>2. Len(pending) \in Nat
  BY <1>1 DEF Reads
<1>3. at \in Nat
  <2> DEFINE v == a * Width
  <2>1. v \in Nat /\ at = v + Len(pending)
    BY <1>1, Times
  <2> HIDE DEF v
  <2> QED
    BY <1>2, <2>1
<1>4. Reads(Onward(pending, at, n), a) /\ Len(Onward(pending, at, n)) = Len(pending) + n
  <2>1. at + n <= Len(Bytes) /\ n \in Nat /\ stream \in Seq(StreamFrame)
    OBVIOUS
  <2>2. EndsAt(pending, a, at)
    BY <1>1, Zenon DEF EndsAt
  <2> QED
    BY <1>1, <1>3, <2>1, <2>2, ReadsOn
<1> QED
  BY <1>4, Zenon DEF NextText

LEMMA SameFrame ==
  ASSUME NEW w \in {3, 4}, NEW a \in Nat, NEW b \in Nat, NEW k \in Nat, NEW l \in Nat, k < w, l < w,
         a * w + k = b * w + l
  PROVE  a = b
<1>1. CASE w = 3
  BY <1>1
<1>2. CASE w = 4
  BY <1>2
<1> QED
  BY <1>1, <1>2

\* A translation up to frames that are complete does not depend on what is split later.
LEMMA ShowsForGood ==
  ASSUME stream \in Seq(StreamFrame), NEW h \in Nat, NEW n \in Nat, h + n <= Len(Bytes),
         NEW a \in Nat, a * Width <= h, NEW marks, NEW g, ShowsUpTo(g, a, marks \cup Added(h, n))
  PROVE  ShowsUpTo(g, a, marks)
<1> DEFINE new == marks \cup Added(h, n)
<1>1. ASSUME NEW k \in 1..a PROVE g[k] = g[k - 1] \o Translate(Began(k - 1), k, k \notin marks)
  <2>1. g[k] = g[k - 1] \o Translate(Began(k - 1), k, k \notin new)
    BY DEF ShowsUpTo
  <2>2. k \in new <=> k \in marks
    BY MarkedForGood
  <2> HIDE DEF new
  <2>3. Translate(Began(k - 1), k, k \notin new) = Translate(Began(k - 1), k, k \notin marks)
    BY <2>2 DEF Translate
  <2> QED
    BY <2>1, <2>3
<1>2. g[0] = <<>>
  BY DEF ShowsUpTo
<1> QED
  BY <1>1, <1>2 DEF ShowsUpTo

\* What a chunk shows.
LEMMA ChunkShows ==
  ASSUME stream \in Seq(StreamFrame), NEW a, ShownUpTo(a), NEW n \in Nat \ {0}, at + n <= Len(Bytes),
         NEW b \in Nat, PlaceOf(at + n, b, Cut(NextText(n)).pending),
         NEW marks, marks = split \cup Added(at, n)
  PROVE  /\ Marks(Cut(NextText(n)).pending, b, marks) /\ SplitAt(marks, at + n)
         /\ Translated => LET t == TapAll(Cut(NextText(n)).frames)
                          IN  /\ t.out \in Seq(Shown) /\ (t.started <=> Began(b))
                              /\ Tells(t.out, b, marks)
         /\ ~Translated => out \o SubSeq(Bytes, at + 1, at + n) = SubSeq(Bytes, 1, at + n)
<1> DEFINE text == NextText(n)
           cut == Cut(text)
           l == Len(pending)
<1>0. /\ a \in Nat /\ Reads(pending, a) /\ at = a * Width + Len(pending)
      /\ Marks(pending, a, split) /\ SplitAt(split, at) /\ l \in Nat
      /\ Bytes \in Seq(Byte) /\ Len(Bytes) \in Nat
  <2>1. ReadUpTo(a) /\ Marks(pending, a, split) /\ SplitAt(split, at)
    BY DEF ShownUpTo
  <2>2. a \in Nat /\ Reads(pending, a) /\ at = a * Width + Len(pending)
    BY <2>1 DEF ReadUpTo
  <2>3. l \in Nat
    BY <2>2 DEF Reads
  <2> QED
    BY <2>1, <2>2, <2>3, BytesOfFrames
<1>1. at \in Nat /\ a * Width \in Nat /\ a * Width <= at
  <2> DEFINE v == a * Width
  <2>1. v \in Nat /\ at = v + l
    BY <1>0, Times
  <2> HIDE DEF v, l
  <2>2. at \in Nat /\ v <= at
    BY <1>0, <2>1
  <2> QED
    BY <2>1, <2>2 DEF v
<1>2. Reads(text, a) /\ Len(text) = l + n /\ n \in Nat
  <2>1. n \in Nat
    OBVIOUS
  <2>2. ReadUpTo(a)
    BY DEF ShownUpTo
  <2> QED
    BY <2>1, <2>2, NextTextReads
<1>3. Marks(text, a, marks)
  <2>1. Marks(pending \o Decode(SubSeq(Bytes, at + 1, at + n)), a, split \cup Added(at, n))
    BY <1>0, <1>1, <1>2, MarksOn, Zenon
  <2> QED
    BY <2>1, Zenon DEF NextText, Onward
<1>4. SplitAt(marks, at + n)
  BY <1>0, <1>1, SplitGoesOn, Zenon
<1> HIDE DEF text
<1>5. PICK d, q : IsCut(cut, text, d, q)
  BY <1>0, <1>2, CutIsCut
<1> HIDE DEF cut
<1>6. d \in Nat /\ q \in 0..(Width - 1) /\ Len(text) = d * Width + q /\ Len(cut.frames) = d
  BY <1>5 DEF IsCut
<1>7. Len(cut.pending) = q
  BY <1>0, <1>2, <1>5, RestReads
<1>8. b = a + d
  <2>1. q < Width /\ q \in Nat /\ a + d \in Nat
    BY <1>0, <1>6, Widths
  <2>2. at + n = (a + d) * Width + q
    <3>1. l + n = d * Width + q /\ at = a * Width + l
      BY <1>0, <1>2, <1>6
    <3>2. a \in Nat /\ d \in Nat /\ q \in Nat /\ n \in Nat /\ l \in Nat
      BY <1>0, <1>2, <1>6, <2>1
    <3> HIDE DEF l
    <3> DEFINE v == a * Width
               w == d * Width
    <3>3. (a + d) * Width = v + w /\ v \in Nat /\ w \in Nat
      BY <3>2, Sums, Times
    <3>4. at = v + l /\ l + n = w + q
      BY <3>1
    <3> HIDE DEF v, w
    <3>5. at + n = (v + w) + q
      BY <3>2, <3>3, <3>4
    <3> QED
      BY <3>3, <3>5
  <2>3. at + n = b * Width + q
    BY <1>7 DEF PlaceOf, cut, text
  <2> QED
    BY <2>1, <2>2, <2>3, Widths, SameFrame
<1>9. Marks(cut.pending, b, marks)
  <2>1. Marks(cut.pending, a + d, marks)
    BY <1>0, <1>2, <1>3, <1>5, MarksRest, Zenon
  <2> QED
    BY <1>8, <2>1
<1>10. ASSUME Translated
       PROVE  /\ TapAll(cut.frames).out \in Seq(Shown) /\ (TapAll(cut.frames).started <=> Began(b))
              /\ Tells(TapAll(cut.frames).out, b, marks)
  <2> DEFINE frames == cut.frames
  <2>1. out \in Seq(Shown) /\ (started <=> Began(a)) /\ Tells(out, a, split)
    BY <1>10 DEF ShownUpTo
  <2>2. Tells(out, a, marks)
    <3> SUFFICES ASSUME NEW g, ShowsUpTo(g, a, marks) PROVE out = g[a]
      BY DEF Tells
    <3>1. ShowsUpTo(g, a, split)
      BY <1>0, <1>1, <1>2, ShowsForGood, Zenon
    <3> QED
      BY <2>1, <3>1 DEF Tells
  <2>3. \A j \in 1..d : IsFrame(frames[j]) /\ frames[j][1][1] = a + j
    BY <1>0, <1>2, <1>5, CutFrames
  <2>4. \A j \in 1..d : frames[j][1][2] = 1 <=> a + j \notin marks
    BY <1>0, <1>2, <1>3, <1>5, MarksFrames
  <2> HIDE DEF frames
  <2>5. Len(frames) = d /\ Len(frames) \in Nat
    BY <1>6 DEF frames
  <2>6. NextFrames(frames, a, marks)
    BY <2>3, <2>4, <2>5, Zenon DEF NextFrames
  <2>7. /\ TapAll(frames).out \in Seq(Shown)
        /\ TapAll(frames).started <=> Began(a + Len(frames))
        /\ Tells(TapAll(frames).out, a + Len(frames), marks)
    BY <1>0, <1>10, <2>1, <2>2, <2>5, <2>6, TapsShow, Zenon
  <2>8. a + Len(frames) = b
    BY <1>8, <2>5
  <2> QED
    BY <2>7, <2>8 DEF frames
<1>11. ASSUME ~Translated PROVE out \o SubSeq(Bytes, at + 1, at + n) = SubSeq(Bytes, 1, at + n)
  <2>1. out = SubSeq(Bytes, 1, at)
    BY <1>11 DEF ShownUpTo
  <2> QED
    BY <1>0, <1>1, <1>2, <2>1, PiecesJoin
<1> QED
  BY <1>4, <1>9, <1>10, <1>11, Zenon DEF cut, text

\* What the end of the stream shows.
LEMMA EndShows ==
  ASSUME stream \in Seq(StreamFrame), NEW a, ShownUpTo(a), at = Len(Bytes)
  PROVE  LET t == TapAll(IF pending # <<>> THEN <<pending>> ELSE <<>>)
         IN  /\ Translated => Tells(t.out, Len(stream), split)
             /\ ~Translated => t.out = SubSeq(Bytes, 1, at)
<1> DEFINE s == Len(stream)
           l == Len(pending)
           frames == IF pending # <<>> THEN <<pending>> ELSE <<>>
<1>0. /\ a \in Nat /\ a <= s /\ Reads(pending, a) /\ at = a * Width + l /\ l < Width
      /\ pending \in Seq(Byte) /\ l \in Nat /\ s \in Nat /\ Marks(pending, a, split)
  <2>1. a \in Nat /\ a <= s /\ Reads(pending, a) /\ at = a * Width + l /\ l < Width /\ Marks(pending, a, split)
    BY DEF ShownUpTo, ReadUpTo
  <2>2. pending \in Seq(Byte)
    BY <2>1 DEF Reads
  <2>3. l \in Nat
    BY <2>2
  <2> QED
    BY <2>1, <2>2, <2>3
<1>1. (l = 0 /\ a = s) \/ (l = 2 /\ a + 1 = s)
  <2>1. a * Width + l = s * Width \/ (s > 0 /\ a * Width + l = (s - 1) * Width + 2)
    BY <1>0, BytesOfFrames
  <2> HIDE DEF l, s
  <2> QED
    BY <1>0, <2>1, Widths, LastFrame
<1>2. Len(frames) \in Nat /\ a + Len(frames) = s /\ NextFrames(frames, a, split)
  <2>1. CASE l = 0 /\ a = s
    <3>1. frames = <<>>
      BY <1>0, <2>1
    <3> HIDE DEF frames
    <3>2. Len(frames) = 0
      BY <3>1
    <3> QED
      BY <1>0, <2>1, <3>2 DEF NextFrames
  <2>2. CASE l = 2 /\ a + 1 = s
    <3>1. pending = <<pending[1], pending[2]>>
      BY <1>0, <2>2
    <3>2. ASSUME NEW p \in 1..2 PROVE /\ pending[p] \in {<<a + 1, p>>, <<a + 1, 3>>}
                                      /\ pending[p][2] = 3 <=> a + 1 \in split
      <4>1. 0 * Width + p = p /\ p <= l /\ p \in 1..Width /\ 0 \in Nat /\ a + 0 + 1 = a + 1
        BY <1>0, <2>2, Widths
      <4>2. pending[0 * Width + p] \in {<<a + 0 + 1, p>>, <<a + 0 + 1, 3>>}
        BY <1>0, <4>1 DEF Reads
      <4>3. pending[0 * Width + p][2] = 3 <=> a + 0 + 1 \in split
        BY <1>0, <4>1 DEF Marks
      <4> QED
        BY <4>1, <4>2, <4>3
    <3>3. /\ pending[1] \in {<<a + 1, 1>>, <<a + 1, 3>>} /\ pending[2] \in {<<a + 1, 2>>, <<a + 1, 3>>}
          /\ pending[1][2] = 3 <=> a + 1 \in split
      BY <3>2
    <3>4. IsFrame(pending) /\ pending[1][1] = a + 1
      <4>1. a + 1 \in Nat \ {0}
        BY <1>0
      <4>2. IsFrame(<<pending[1], pending[2]>>) /\ <<pending[1], pending[2]>>[1][1] = a + 1
        BY <3>3, <4>1, ReadsFrame
      <4> QED
        BY <3>1, <4>2
    <3>5. pending[1][2] = 1 <=> a + 1 \notin split
      BY <3>3
    <3>6. frames = <<pending>>
      <4>1. Len(pending) # Len(<<>>)
        BY <2>2
      <4>2. pending # <<>>
        BY <4>1
      <4> QED
        BY <4>2
    <3> HIDE DEF frames
    <3>7. Len(frames) = 1 /\ frames[1] = pending
      BY <3>6
    <3> QED
      BY <1>0, <2>2, <3>4, <3>5, <3>7 DEF NextFrames
  <2> QED
    BY <1>1, <2>1, <2>2
<1> HIDE DEF frames, s
<1>3. ASSUME Translated PROVE Tells(TapAll(frames).out, s, split)
  <2>1. out \in Seq(Shown) /\ (started <=> Began(a)) /\ Tells(out, a, split)
    BY <1>3 DEF ShownUpTo
  <2>2. Tells(TapAll(frames).out, a + Len(frames), split)
    BY <1>0, <1>2, <1>3, <2>1, TapsShow, Zenon
  <2> QED
    BY <1>2, <2>2
<1>4. ASSUME ~Translated PROVE TapAll(frames).out = SubSeq(Bytes, 1, at)
  <2>1. out = SubSeq(Bytes, 1, at)
    BY <1>4 DEF ShownUpTo
  <2>2. TapAll(frames).out = out
    BY <1>2, <1>4, TapsPass, Zenon
  <2> QED
    BY <2>1, <2>2
<1> QED
  BY <1>3, <1>4, Zenon DEF frames, s

LEMMA SameShown ==
  ASSUME UNCHANGED <<call, stream>>
  PROVE  /\ Translated' <=> Translated
         /\ \A t, a, m : Marks(t, a, m)' <=> Marks(t, a, m)
         /\ \A m, h : SplitAt(m, h)' <=> SplitAt(m, h)
         /\ \A k : Began(k)' <=> Began(k)
         /\ \A o, a, m : Tells(o, a, m)' <=> Tells(o, a, m)
<1>0. Width' = Width
  BY SameStream
<1>1. Translated' <=> Translated
  BY DEF Translated
<1>2. ASSUME NEW t, NEW a, NEW m PROVE Marks(t, a, m)' <=> Marks(t, a, m)
  BY <1>0 DEF Marks
<1>3. ASSUME NEW m, NEW h PROVE SplitAt(m, h)' <=> SplitAt(m, h)
  BY <1>0 DEF SplitAt
<1>4. ASSUME NEW k PROVE Began(k)' <=> Began(k)
  BY DEF Began
<1>5. ASSUME NEW g, NEW a, NEW m PROVE ShowsUpTo(g, a, m)' <=> ShowsUpTo(g, a, m)
  BY DEF ShowsUpTo, Began, Translate
<1>6. ASSUME NEW o, NEW a, NEW m PROVE Tells(o, a, m)' <=> Tells(o, a, m)
  BY <1>5 DEF Tells
<1> QED
  BY <1>1, <1>2, <1>3, <1>4, <1>6

\* What the client has been shown at each point of a streamed request.
ShownInv ==
  /\ MeteredInv
  /\ phase = "new" => out = <<>> /\ started = FALSE /\ split = {}
  /\ phase \in {"open", "aborted"} => \E a : ShownUpTo(a)
  /\ (phase = "done" /\ call.streamed) =>
       /\ Translated => Tells(out, Len(stream), split)
       /\ ~Translated => out = SubSeq(Bytes, 1, at)

LEMMA ForwardShows ==
  ASSUME ShownInv, NEW json \in BOOLEAN, NEW messages \in Messages, Forward(json, messages)
  PROVE  ShownInv'
<1>0. /\ phase = "new" /\ phase' \in {"open", "whole"} /\ at' = 0 /\ pending' = <<>>
      /\ out' = <<>> /\ started' = FALSE /\ split' = {}
  BY DEF ShownInv, MeteredInv, Forward
<1>1. MeteredInv'
  BY ForwardMeters DEF ShownInv
<1>2. ASSUME phase' = "open" PROVE ShownUpTo(0)'
  <2>1. Width' \in {3, 4}
    <3>1. Delimiter' \in {<<NL, NL>>, <<NL>>}
      BY DEF Delimiter, NL
    <3>2. PICK k : k = Len(Delimiter')
      OBVIOUS
    <3>3. k \in {1, 2}
      BY <3>1, <3>2
    <3>4. Width' = 2 + k
      BY <3>2 DEF Width
    <3> QED
      BY <3>3, <3>4
  <2> DEFINE w == Width'
  <2> HIDE DEF w
  <2>2. w \in {3, 4}
    BY <2>1 DEF w
  <2>3. ASSUME NEW d \in Nat, NEW q \in 1..2 PROVE ~(d * w + q <= 0) /\ 0 # d * w + 1
    <3>1. d * w \in Nat
      BY <2>2
    <3> QED
      BY <3>1
  <2>4. ReadUpTo(0)'
    <3>1. PICK a : ReadUpTo(a)'
      BY <1>1, <1>2 DEF MeteredInv
    <3>2. a \in Nat /\ Reads(<<>>, a)' /\ 0 = a * w + 0 /\ a <= Len(stream')
      BY <1>0, <3>1 DEF ReadUpTo, w
    <3>3. a = 0
      BY <2>2, <3>2
    <3> QED
      BY <3>1, <3>3
  <2>5. Marks(pending, 0, split)'
    <3>1. Len(pending') = 0
      BY <1>0
    <3> QED
      BY <2>3, <3>1 DEF Marks, w
  <2>6. SplitAt(split, at)'
    <3>1. ASSUME NEW i \in Nat \ {0} PROVE 0 # (i - 1) * w + 1
      <4>1. i - 1 \in Nat
        OBVIOUS
      <4> QED
        BY <2>3, <4>1
    <3> QED
      BY <1>0, <3>1 DEF SplitAt, w
  <2>7. ~Began(0)'
    BY DEF Began
  <2>8. Tells(out, 0, split)'
    BY <1>0 DEF Tells, ShowsUpTo
  <2>9. out' \in Seq(Shown)
    BY <1>0
  <2>10. (~Translated => out = SubSeq(Bytes, 1, at))'
    <3>1. SubSeq(Bytes', 1, 0) = <<>>
      OBVIOUS
    <3> QED
      BY <1>0, <3>1
  <2> QED
    BY <1>0, <2>4, <2>5, <2>6, <2>7, <2>8, <2>9, <2>10 DEF ShownUpTo
<1> QED
  BY <1>0, <1>1, <1>2 DEF ShownInv

LEMMA ChunkShown ==
  ASSUME ShownInv, NEW n \in 1..Len(Bytes), Chunk(n)
  PROVE  ShownInv'
<1> DEFINE text == NextText(n)
<1>0. /\ phase = "open" /\ phase' = "open" /\ UNCHANGED <<call, stream>> /\ at + n <= Len(Bytes)
      /\ at' = at + n /\ pending' = Cut(text).pending
      /\ started' = TapAll(Cut(text).frames).started
      /\ out' = IF Translated THEN TapAll(Cut(text).frames).out ELSE out \o SubSeq(Bytes, at + 1, at + n)
      /\ split' = split \cup Added(at, n)
  BY Zenon DEF Chunk, NextText, Onward, Passed, Added
<1>1. MeteredInv' /\ stream \in Seq(StreamFrame) /\ n \in Nat \ {0}
  <2>1. MeteredInv'
    BY ChunkMeters DEF ShownInv
  <2>2. stream \in Seq(StreamFrame)
    BY <1>0 DEF ShownInv, MeteredInv
  <2> QED
    BY <2>1, <2>2
<1>2. PICK a : ShownUpTo(a)
  BY <1>0 DEF ShownInv
<1>3. PICK b : ReadUpTo(b)'
  BY <1>0, <1>1 DEF MeteredInv
<1> HIDE DEF text
<1>4. PICK h, rest, marks, o, s : /\ h = at + n /\ rest = Cut(text).pending /\ marks = split \cup Added(at, n)
                                  /\ o = out' /\ s = started'
  OBVIOUS
<1>5. b \in Nat /\ PlaceOf(h, b, rest)
  <2>1. b \in Nat /\ at' = b * Width' + Len(pending') /\ Len(pending') < Width'
    BY <1>3 DEF ReadUpTo
  <2>2. at' = h /\ pending' = rest /\ Width' = Width
    BY <1>0, <1>4, SameStream
  <2>3. h = b * Width + Len(rest) /\ Len(rest) < Width
    BY <2>1, <2>2
  <2> QED
    BY <2>1, <2>3 DEF PlaceOf
<1>6. /\ Marks(rest, b, marks) /\ SplitAt(marks, h)
      /\ Translated => o \in Seq(Shown) /\ (s <=> Began(b)) /\ Tells(o, b, marks)
      /\ ~Translated => o = SubSeq(Bytes, 1, h)
  <2>1. PlaceOf(at + n, b, Cut(NextText(n)).pending)
    BY <1>4, <1>5 DEF text
  <2>2. /\ Marks(Cut(text).pending, b, marks) /\ SplitAt(marks, at + n)
        /\ Translated => /\ TapAll(Cut(text).frames).out \in Seq(Shown)
                         /\ (TapAll(Cut(text).frames).started <=> Began(b))
                         /\ Tells(TapAll(Cut(text).frames).out, b, marks)
        /\ ~Translated => out \o SubSeq(Bytes, at + 1, at + n) = SubSeq(Bytes, 1, at + n)
    BY <1>0, <1>1, <1>2, <1>4, <1>5, <2>1, ChunkShows, Zenon DEF text
  <2>3. ASSUME Translated PROVE o \in Seq(Shown) /\ (s <=> Began(b)) /\ Tells(o, b, marks)
    <3>1. o = TapAll(Cut(text).frames).out /\ s = TapAll(Cut(text).frames).started
      BY <1>0, <1>4, <2>3
    <3> QED
      BY <2>2, <2>3, <3>1
  <2>4. ASSUME ~Translated PROVE o = SubSeq(Bytes, 1, h)
    BY <1>0, <1>4, <2>2, <2>4
  <2> QED
    BY <1>4, <2>2, <2>3, <2>4
<1>7. at' = h /\ pending' = rest /\ split' = marks /\ out' = o /\ started' = s
  BY <1>0, <1>4
<1>8. /\ Marks(rest, b, marks)' /\ SplitAt(marks, h)'
      /\ Translated' => o \in Seq(Shown) /\ (s <=> Began(b)') /\ Tells(o, b, marks)'
      /\ ~Translated' => o = SubSeq(Bytes', 1, h)
  <2>1. Bytes' = Bytes
    BY <1>0, SameStream
  <2> QED
    BY <1>0, <1>6, <2>1, SameShown, Zenon
<1>9. ShownUpTo(b)'
  <2>1. Marks(pending, b, split)'
    BY <1>7, <1>8, Zenon DEF Marks
  <2>2. SplitAt(split, at)'
    BY <1>7, <1>8, Zenon DEF SplitAt
  <2>3. Translated' => out' \in Seq(Shown) /\ (started' <=> Began(b)') /\ Tells(out, b, split)'
    <3>1. Tells(o, b, marks)' => Tells(out, b, split)'
      BY <1>7, Zenon DEF Tells, ShowsUpTo
    <3> QED
      BY <1>7, <1>8, <3>1
  <2>4. ~Translated' => out' = SubSeq(Bytes', 1, at')
    BY <1>7, <1>8
  <2> QED
    BY <1>3, <2>1, <2>2, <2>3, <2>4, Zenon DEF ShownUpTo
<1> QED
  BY <1>0, <1>1, <1>9 DEF ShownInv

LEMMA EndShown ==
  ASSUME ShownInv, End
  PROVE  ShownInv'
<1> DEFINE t == TapAll(IF pending # <<>> THEN <<pending>> ELSE <<>>)
<1>0. /\ phase = "open" /\ phase' = "done" /\ UNCHANGED <<call, stream, at, split>> /\ at = Len(Bytes)
      /\ out' = t.out
  BY DEF End
<1>1. MeteredInv' /\ stream \in Seq(StreamFrame)
  <2>1. MeteredInv'
    BY EndMeters DEF ShownInv
  <2> QED
    BY <1>0, <2>1 DEF ShownInv, MeteredInv
<1>2. PICK a : ShownUpTo(a)
  BY <1>0 DEF ShownInv
<1>3. /\ Translated => Tells(t.out, Len(stream), split)
      /\ ~Translated => t.out = SubSeq(Bytes, 1, at)
  BY <1>0, <1>1, <1>2, EndShows, Zenon
<1> HIDE DEF t
<1>4. PICK o, l, m : o = out' /\ l = Len(stream) /\ m = split
  OBVIOUS
<1>5. Translated' => Tells(o, l, m)'
  BY <1>0, <1>3, <1>4, SameShown
<1>6. Translated' => Tells(out, Len(stream), split)'
  <2>1. out' = o /\ Len(stream') = l /\ split' = m
    BY <1>0, <1>4
  <2> QED
    BY <1>5, <2>1, Zenon DEF Tells, ShowsUpTo
<1>7. ~Translated' => out' = SubSeq(Bytes', 1, at')
  BY <1>0, <1>3, SameStream, SameShown
<1> QED
  BY <1>0, <1>1, <1>6, <1>7 DEF ShownInv

\* What has been shown does not change while nothing arrives.
LEMMA StaysShown ==
  ASSUME UNCHANGED <<call, stream, at, pending, meter, started, out, split>>
  PROVE  /\ \A a : ShownUpTo(a) => ShownUpTo(a)'
         /\ Tells(out, Len(stream), split) => Tells(out, Len(stream), split)'
<1>1. ASSUME NEW a, ShownUpTo(a) PROVE ShownUpTo(a)'
  <2>1. ReadUpTo(a)'
    BY <1>1, SameStream DEF ShownUpTo, ReadUpTo
  <2>2. Marks(pending, a, split)' /\ SplitAt(split, at)'
    BY <1>1, SameStream DEF ShownUpTo, Marks, SplitAt
  <2>3. (Translated => out \in Seq(Shown) /\ (started <=> Began(a)) /\ Tells(out, a, split))'
    BY <1>1 DEF ShownUpTo, Translated, Began, Tells, ShowsUpTo, Translate
  <2>4. (~Translated => out = SubSeq(Bytes, 1, at))'
    BY <1>1, SameStream DEF ShownUpTo, Translated
  <2> QED
    BY <2>1, <2>2, <2>3, <2>4 DEF ShownUpTo
<1>2. ASSUME Tells(out, Len(stream), split) PROVE Tells(out, Len(stream), split)'
  BY <1>2 DEF Tells, ShowsUpTo, Began, Translate
<1> QED
  BY <1>1, <1>2

\* However the stream is cut into chunks, the client of a stream gets the very
\* bytes of the provider as far as they came, and the client of a translated one
\* the translation of the frames that are complete, each once and in order, with
\* the text garbled exactly in those whose character two chunks shared (FrameTap,
\* createAnthropicToOpenaiStream).
THEOREM ClientsSeeTheAnswer == GatewaySpec => []ClientSeesTheAnswer
<1>1. GatewayInit => ShownInv
  BY DEF GatewayInit, MeterInit, MeteredInv, ShownInv
<1>2. ShownInv /\ [GatewayNext]_gatewayVars => ShownInv'
  <2> SUFFICES ASSUME ShownInv, [GatewayNext]_gatewayVars PROVE ShownInv'
    OBVIOUS
  <2>1. ASSUME NEW json \in BOOLEAN, NEW m \in Messages, Forward(json, m) PROVE ShownInv'
    BY <2>1, ForwardShows
  <2>2. ASSUME NEW n \in 1..Len(Bytes), Chunk(n) PROVE ShownInv'
    BY <2>2, ChunkShown
  <2>3. CASE End
    BY <2>3, EndShown
  <2>4. CASE Abort
    <3>1. /\ phase = "open" /\ phase' = "aborted"
          /\ UNCHANGED <<call, stream, at, pending, meter, started, out, split>>
      BY <2>4 DEF Abort
    <3>2. MeteredInv'
      BY <2>4, AbortMeters DEF ShownInv
    <3>3. \E a : ShownUpTo(a)'
      BY <3>1, StaysShown DEF ShownInv
    <3> QED
      BY <3>1, <3>2, <3>3 DEF ShownInv
  <2>5. ASSUME NEW json \in BOOLEAN, Reply(json) PROVE ShownInv'
    <3>1. phase = "whole" /\ phase' = "done" /\ UNCHANGED <<call, stream>>
      BY <2>5 DEF Reply
    <3>2. MeteredInv' /\ ~call'.streamed
      BY <3>1 DEF ShownInv, MeteredInv
    <3> QED
      BY <3>1, <3>2 DEF ShownInv
  <2>6. CASE UNCHANGED meterVars
    <3>1. UNCHANGED <<call, stream, phase, at, pending, meter, started, out, split>>
      BY <2>6 DEF meterVars
    <3>2. MeteredInv'
      <4>1. \A a : ReadUpTo(a) => ReadUpTo(a)'
        BY <3>1, SameStream DEF ReadUpTo
      <4> QED
        BY <3>1, <4>1, SameStream DEF ShownInv, MeteredInv
    <3>3. phase' \in {"open", "aborted"} => \E a : ShownUpTo(a)'
      BY <3>1, StaysShown DEF ShownInv
    <3>4. (phase = "done" /\ call.streamed)' => /\ Translated' => Tells(out, Len(stream), split)'
                                                /\ ~Translated' => out' = SubSeq(Bytes', 1, at')
      BY <3>1, StaysShown, SameStream, SameShown DEF ShownInv
    <3> QED
      BY <3>1, <3>2, <3>3, <3>4 DEF ShownInv
  <2> QED
    BY <2>1, <2>2, <2>3, <2>4, <2>5, <2>6 DEF GatewayNext, gatewayVars, MeterNext
<1>3. ShownInv => ClientSeesTheAnswer
  <2> SUFFICES ASSUME ShownInv, call.streamed, phase # "new"
               PROVE  out = IF ~Translated THEN SubSeq(Bytes, 1, at) ELSE Shows[Cardinality(Arrived)]
    BY DEF ClientSeesTheAnswer
  <2>0. Len(stream) \in Nat /\ MeteredInv
    BY DEF ShownInv, MeteredInv
  <2>1. ASSUME NEW a \in Nat, a <= Len(stream) PROVE ShowsUpTo(Shows, a, split)
    <3>1. ASSUME NEW k \in 1..a PROVE Shows[k] = Shows[k - 1] \o Translate(Began(k - 1), k, k \notin split)
      <4>1. k \in 1..Len(stream)
        BY <2>0, <2>1
      <4> QED
        BY <2>0, <4>1, ShowsLoops, Zenon DEF Began
    <3> QED
      BY <2>0, <3>1, ShowsLoops, Zenon DEF ShowsUpTo
  <2>2. CASE phase = "done"
    <3>1. Cardinality(Arrived) = Len(stream)
      BY <2>0, <2>2, ArrivedFrames
    <3>2. Translated => out = Shows[Len(stream)]
      <4>1. ShowsUpTo(Shows, Len(stream), split)
        BY <2>0, <2>1
      <4> QED
        BY <2>2, <4>1 DEF ShownInv, Tells
    <3>3. ~Translated => out = SubSeq(Bytes, 1, at)
      BY <2>2 DEF ShownInv
    <3> QED
      BY <3>1, <3>2, <3>3
  <2>3. CASE phase \in {"open", "aborted"}
    <3>1. PICK a : ShownUpTo(a)
      BY <2>3 DEF ShownInv
    <3>2. ReadUpTo(a) /\ a \in Nat /\ a <= Len(stream)
      BY <3>1 DEF ShownUpTo, ReadUpTo
    <3>3. Cardinality(Arrived) = a
      BY <2>0, <2>3, <3>2, ArrivedFrames
    <3>4. Translated => out = Shows[a]
      <4>1. ShowsUpTo(Shows, a, split)
        BY <2>1, <3>2
      <4> QED
        BY <3>1, <4>1 DEF ShownUpTo, Tells
    <3>5. ~Translated => out = SubSeq(Bytes, 1, at)
      BY <3>1 DEF ShownUpTo
    <3> QED
      BY <3>3, <3>4, <3>5
  <2> QED
    BY <2>2, <2>3 DEF ShownInv, MeteredInv
<1> QED
  BY <1>1, <1>2, <1>3, PTL DEF GatewaySpec


---------------------------------------------------------------------------
(* The final counts *)

Counts == {"input", "output", "cached"}

\* The state of an extractor.
IsMeter(x) == x = [model |-> x.model, usage |-> x.usage, seen |-> x.seen] /\ x.seen \in BOOLEAN

LEMMA LargestOf ==
  ASSUME NEW n \in Nat, NEW S \in SUBSET (1..n), n \in S
  PROVE  Max(S) = n
<1>1. \A y \in S : n >= y
  OBVIOUS
<1>2. Max(S) \in S /\ Max(S) >= n
  BY <1>1 DEF Max
<1>3. Max(S) \in 1..n
  BY <1>2
<1> QED
  BY <1>2, <1>3

LEMMA NothingTold ==
  ASSUME NEW count
  PROVE  Told(call, stream, 0, count) = 0
<1>1. {i \in 1..0 : TellsCount(call, stream[i], count)} = {}
  OBVIOUS
<1> QED
  BY <1>1 DEF Told

\* A frame more tells its counts, and leaves the others.
LEMMA ToldStep ==
  ASSUME NEW count, NEW n \in Nat, NEW k, k = n + 1, NEW f, f = stream[k]
  PROVE  /\ TellsCount(call, f, count) => Told(call, stream, k, count) = Field(f.usage, count)
         /\ ~TellsCount(call, f, count) => Told(call, stream, k, count) = Told(call, stream, n, count)
<1> DEFINE Places(m) == {i \in 1..m : TellsCount(call, stream[i], count)}
<1>0. k \in Nat \ {0} /\ n = k - 1
  OBVIOUS
<1>1. \A m : Told(call, stream, m, count) =
               IF Places(m) = {} THEN 0 ELSE Field(stream[Max(Places(m))].usage, count)
  BY DEF Told
<1>2. ASSUME TellsCount(call, f, count)
      PROVE  Places(k) # {} /\ Max(Places(k)) = k
  <2>1. k \in Places(k) /\ Places(k) \in SUBSET (1..k)
    BY <1>0, <1>2
  <2> HIDE DEF Places
  <2> QED
    BY <1>0, <2>1, LargestOf
<1>3. ASSUME ~TellsCount(call, f, count)
      PROVE  Places(k) = Places(n)
  BY <1>0, <1>3
<1> HIDE DEF Places
<1> QED
  BY <1>1, <1>2, <1>3

\* What each adapter does with a frame that parses: the counts that it tells
\* replace the others, and one that closes them makes them final.
LEMMA Extracted ==
  ASSUME NEW x, IsMeter(x), NEW f, HasPayload(call, f), NEW y, y = OnFrame(x, f)
  PROVE  /\ IsMeter(y) /\ (y.seen <=> (x.seen \/ Closes(call, f)))
         /\ \A count \in Counts :
              Field(y.usage, count) = IF TellsCount(call, f, count) THEN Field(f.usage, count)
                                                              ELSE Field(x.usage, count)
<1>0. DOMAIN NoUsage = {}
  BY DEF NoUsage
<1>1. CASE call.provider = "ANTHROPIC"
  <2>0. y = AnthropicFrame(x, f)
    BY <1>1 DEF OnFrame
  <2>1. /\ Closes(call, f) <=> f.type = "message_delta" /\ f.usage # NoUsage
        /\ \A count : TellsCount(call, f, count) <=>
             /\ count \in DOMAIN f.usage
             /\ f.type = "message_start" \/ (f.type = "message_delta" /\ count # "cached")
    BY <1>1 DEF Closes, TellsCount
  <2>2. CASE f.type = "message_start"
    <3>1. y = [x EXCEPT !.model = Or(f.model, @), !.usage = Over(f.usage, @)]
      BY <2>0, <2>2 DEF AnthropicFrame
    <3>2. IsMeter(y) /\ y.usage = Over(f.usage, x.usage) /\ (y.seen <=> x.seen)
      BY <3>1 DEF IsMeter
    <3>3. ASSUME NEW count
          PROVE  Field(y.usage, count) = IF count \in DOMAIN f.usage THEN Field(f.usage, count)
                                                                    ELSE Field(x.usage, count)
      BY <3>2 DEF Field, Over
    <3> QED
      BY <2>1, <2>2, <3>2, <3>3
  <2>3. CASE f.type = "message_delta" /\ f.usage # NoUsage
    <3>1. y = [x EXCEPT !.usage = Over(Only(f.usage, {"output", "input"}), @), !.seen = TRUE]
      BY <2>0, <2>3 DEF AnthropicFrame
    <3>2. IsMeter(y) /\ y.usage = Over(Only(f.usage, {"output", "input"}), x.usage) /\ y.seen
      BY <3>1 DEF IsMeter
    <3>3. ASSUME NEW count \in Counts
          PROVE  Field(y.usage, count) = IF count \in DOMAIN f.usage /\ count # "cached"
                                         THEN Field(f.usage, count) ELSE Field(x.usage, count)
      <4>1. count # "cached" <=> count \in {"output", "input"}
        BY DEF Counts
      <4> QED
        BY <3>2, <4>1 DEF Field, Only, Over
    <3> QED
      BY <2>1, <2>3, <3>2, <3>3
  <2>4. CASE f.type # "message_start" /\ ~(f.type = "message_delta" /\ f.usage # NoUsage)
    <3>1. y = x
      BY <2>0, <2>4 DEF AnthropicFrame
    <3>2. \A count : ~TellsCount(call, f, count)
      BY <1>0, <2>1, <2>4
    <3> QED
      BY <2>1, <2>4, <3>1, <3>2
  <2> QED
    BY <2>2, <2>3, <2>4
<1>2. CASE call.provider = "OLLAMA"
  <2>1. y = IF f.type = "done" THEN [model |-> f.model, usage |-> f.usage, seen |-> TRUE]
                               ELSE [x EXCEPT !.model = Or(f.model, @)]
    BY <1>2 DEF OnFrame, OllamaFrame
  <2>2. /\ Closes(call, f) <=> f.type = "done"
        /\ \A count : TellsCount(call, f, count) <=> f.type = "done"
    BY <1>2 DEF Closes, TellsCount
  <2>3. CASE f.type = "done"
    <3>1. IsMeter(y) /\ y.usage = f.usage /\ y.seen
      BY <2>1, <2>3 DEF IsMeter
    <3> QED
      BY <2>2, <2>3, <3>1
  <2>4. CASE f.type # "done"
    <3>1. IsMeter(y) /\ y.usage = x.usage /\ (y.seen <=> x.seen)
      BY <2>1, <2>4 DEF IsMeter
    <3> QED
      BY <2>2, <2>4, <3>1
  <2> QED
    BY <2>3, <2>4
<1>3. CASE call.provider \notin {"ANTHROPIC", "OLLAMA"}
  <2>1. y = [model |-> Or(f.model, x.model),
             usage |-> IF f.usage # NoUsage THEN f.usage ELSE x.usage,
             seen  |-> x.seen \/ f.usage # NoUsage]
    BY <1>3 DEF OnFrame, OpenAiFrame, GeminiFrame
  <2>2. /\ Closes(call, f) <=> f.usage # NoUsage
        /\ \A count : TellsCount(call, f, count) <=> f.usage # NoUsage
    BY <1>3 DEF Closes, TellsCount
  <2>3. /\ IsMeter(y) /\ (y.seen <=> (x.seen \/ f.usage # NoUsage))
        /\ y.usage = IF f.usage # NoUsage THEN f.usage ELSE x.usage
    <3>1. PICK seen : seen = (x.seen \/ f.usage # NoUsage)
      OBVIOUS
    <3>2. seen \in BOOLEAN /\ (seen <=> (x.seen \/ f.usage # NoUsage))
      BY <3>1, Zenon
    <3>3. y = [model |-> Or(f.model, x.model),
               usage |-> IF f.usage # NoUsage THEN f.usage ELSE x.usage, seen |-> seen]
      BY <2>1, <3>1, Zenon
    <3>4. y.seen = seen
      BY <3>3
    <3> QED
      BY <3>2, <3>3, <3>4 DEF IsMeter
  <2> QED
    BY <2>2, <2>3
<1> QED
  BY <1>1, <1>2, <1>3

\* What the first k frames say is what they tell.
Saying(x, k) ==
  /\ IsMeter(x)
  /\ x.seen <=> \E i \in 1..k : Closes(call, stream[i])
  /\ \A count \in Counts : /\ Field(x.usage, count) = Told(call, stream, k, count)
                           /\ Field(x.usage, count) \in Nat

LEMMA CountsAreNumbers ==
  ASSUME NEW f \in StreamFrame, NEW count
  PROVE  Field(f.usage, count) \in Nat
  BY MeteringAssumption DEF Field

LEMMA SaysTold ==
  ASSUME stream \in Seq(StreamFrame), NEW f, SaysLoop(f)
  PROVE  \A k \in 0..Len(stream) : Saying(f[k], k)
<1> DEFINE n == Len(stream)
           P == {k \in 0..n : Saying(f[k], k)}
<1>0. n \in Nat
  OBVIOUS
<1>1. 0 \in P
  <2>1. IsMeter(NoMeter) /\ ~NoMeter.seen /\ \A count : Field(NoMeter.usage, count) = 0
    BY DEF IsMeter, NoMeter, NoUsage, Field
  <2>2. f[0] = NoMeter
    BY DEF SaysLoop
  <2>3. \A count : Told(call, stream, 0, count) = 0
    BY NothingTold
  <2>4. Saying(NoMeter, 0)
    BY <2>1, <2>3 DEF Saying
  <2> QED
    BY <1>0, <2>2, <2>4
<1>2. ASSUME NEW k \in 0..(n - 1), k \in P PROVE k + 1 \in P
  <2>1. k \in Nat /\ k + 1 \in 1..n /\ k + 1 \in 0..n /\ (k + 1) - 1 = k /\ k + 1 \in Nat \ {0}
    BY <1>0
  <2>2. PICK x : x = f[k]
    OBVIOUS
  <2>3. PICK y : y = f[k + 1]
    OBVIOUS
  <2>4. PICK g : g = stream[k + 1] /\ g \in StreamFrame
    BY <2>1
  <2>5. Saying(x, k)
    BY <1>2, <2>2
  <2>6. y = IF HasPayload(call, g) THEN OnFrame(x, g) ELSE x
    BY <2>1, <2>2, <2>3, <2>4 DEF SaysLoop
  <2>7. /\ IsMeter(y) /\ (y.seen <=> (x.seen \/ Closes(call, g)))
        /\ \A count \in Counts :
             Field(y.usage, count) = IF TellsCount(call, g, count) THEN Field(g.usage, count)
                                                              ELSE Field(x.usage, count)
    <3>1. IsMeter(x)
      BY <2>5 DEF Saying
    <3>2. CASE HasPayload(call, g)
      BY <2>6, <3>1, <3>2, Extracted
    <3>3. CASE ~HasPayload(call, g)
      <4>1. y = x /\ ~Closes(call, g) /\ \A count : ~TellsCount(call, g, count)
        BY <2>6, <3>3 DEF Closes, TellsCount
      <4> QED
        BY <3>1, <4>1
    <3> QED
      BY <3>2, <3>3
  <2>8. (\E i \in 1..(k + 1) : Closes(call, stream[i])) <=> (\E i \in 1..k : Closes(call, stream[i])) \/ Closes(call, g)
    <3>1. \A i : i \in 1..(k + 1) <=> i \in 1..k \/ i = k + 1
      BY <2>1
    <3> QED
      BY <2>4, <3>1, Zenon
  <2>9. ASSUME NEW count \in Counts
        PROVE  /\ Field(y.usage, count) = Told(call, stream, k + 1, count)
               /\ Field(y.usage, count) \in Nat
    <3>1. Told(call, stream, k + 1, count) = IF TellsCount(call, g, count) THEN Field(g.usage, count)
                                                                      ELSE Told(call, stream, k, count)
      <4>1. PICK j : j = k + 1
        OBVIOUS
      <4>2. k \in Nat /\ g = stream[j]
        BY <2>1, <2>4, <4>1
      <4>3. /\ TellsCount(call, g, count) => Told(call, stream, j, count) = Field(g.usage, count)
            /\ ~TellsCount(call, g, count) => Told(call, stream, j, count) = Told(call, stream, k, count)
        BY <4>1, <4>2, ToldStep
      <4> QED
        BY <4>1, <4>3
    <3>2. Field(x.usage, count) = Told(call, stream, k, count) /\ Field(x.usage, count) \in Nat
      BY <2>5 DEF Saying
    <3> QED
      BY <2>4, <2>7, <3>1, <3>2, CountsAreNumbers
  <2>10. Saying(y, k + 1)
    <3>1. x.seen <=> \E i \in 1..k : Closes(call, stream[i])
      BY <2>5 DEF Saying
    <3>2. y.seen <=> \E i \in 1..(k + 1) : Closes(call, stream[i])
      BY <2>7, <2>8, <3>1
    <3> QED
      BY <2>7, <2>9, <3>2 DEF Saying
  <2> QED
    BY <2>1, <2>3, <2>10
<1> HIDE DEF P
<1>3. \A k \in 0..n : k \in P
  BY <1>0, <1>1, <1>2, UpTo
<1> QED
  BY <1>3 DEF P

\* Normalize depends on the counts only, and takes numbers to numbers.
LEMMA NormalizeIs ==
  ASSUME NEW u, \A count \in Counts : Field(u, count) \in Nat
  PROVE  /\ Normalize(u) \in [Counts -> Nat]
         /\ \A v : (\A count \in Counts : Field(v, count) = Field(u, count)) => Normalize(v) = Normalize(u)
         /\ IsFinal(call, u) /\ call.final \in [Counts -> Nat] => Normalize(u) = call.final
<1>0. "input" \in Counts /\ "output" \in Counts /\ "cached" \in Counts
  BY DEF Counts
<1>1. \A y \in Int : Max({0, y}) \in Nat /\ Max({0, y}) = IF y >= 0 THEN y ELSE 0
  <2> TAKE y \in Int
  <2>1. \E m \in {0, y} : \A z \in {0, y} : m >= z
    OBVIOUS
  <2>2. Max({0, y}) \in {0, y} /\ Max({0, y}) >= 0 /\ Max({0, y}) >= y
    BY <2>1 DEF Max
  <2> QED
    BY <2>2
<1>2. Field(u, "input") - Field(u, "cached") \in Int
  BY <1>0
<1>3. PICK w \in Nat : w = IF call.provider = "ANTHROPIC" THEN Field(u, "input")
                           ELSE Max({0, Field(u, "input") - Field(u, "cached")})
  BY <1>0, <1>1, <1>2
<1>4. Normalize(u) = [input |-> w, output |-> Field(u, "output"), cached |-> Field(u, "cached")]
  BY <1>3 DEF Normalize
<1>5. Normalize(u) \in [Counts -> Nat]
  BY <1>0, <1>4 DEF Counts
<1>6. ASSUME NEW v, \A count \in Counts : Field(v, count) = Field(u, count)
      PROVE  Normalize(v) = Normalize(u)
  <2>1. Field(v, "input") = Field(u, "input") /\ Field(v, "output") = Field(u, "output")
        /\ Field(v, "cached") = Field(u, "cached")
    BY <1>0, <1>6
  <2> QED
    BY <2>1 DEF Normalize
<1>7. ASSUME IsFinal(call, u), call.final \in [Counts -> Nat] PROVE Normalize(u) = call.final
  <2>1. call.final = [input |-> call.final.input, output |-> call.final.output, cached |-> call.final.cached]
    BY <1>7 DEF Counts
  <2>2. call.final.input \in Nat /\ call.final.cached \in Nat
    BY <1>0, <1>7
  <2>3. Field(u, "output") = call.final.output /\ Field(u, "cached") = call.final.cached
    BY <1>7 DEF IsFinal
  <2>4. w = call.final.input
    <3>1. CASE call.provider = "ANTHROPIC"
      BY <1>3, <1>7, <3>1 DEF IsFinal
    <3>2. CASE call.provider # "ANTHROPIC"
      <4>1. PICK i \in Nat : i = Field(u, "input")
        BY <1>0
      <4>2. PICK a \in Nat, b \in Nat : a = call.final.input /\ b = call.final.cached
        BY <2>2
      <4>3. i = a + b \/ (i < b /\ a = 0)
        BY <1>7, <3>2, <4>1, <4>2 DEF IsFinal
      <4>4. w = Max({0, i - b})
        BY <1>3, <2>3, <3>2, <4>1, <4>2
      <4>5. Max({0, i - b}) = a
        BY <1>1, <4>3
      <4> QED
        BY <4>2, <4>4, <4>5
    <3> QED
      BY <3>1, <3>2
  <2> QED
    BY <1>4, <2>1, <2>3, <2>4
<1> QED
  BY <1>5, <1>6, <1>7

\* Of a call, Reported looks at these fields only.
LEMMA SameCall ==
  ASSUME NEW c, NEW d, d.provider = c.provider, d.unified = c.unified, d.streamed = c.streamed,
         d.final = c.final, NEW frames, NEW json, Reported(c, frames, json)
  PROVE  Reported(d, frames, json)
<1>1. Foreign(d) <=> Foreign(c)
  BY DEF Foreign
<1>2. \A f : HasPayload(d, f) <=> HasPayload(c, f)
  BY <1>1 DEF HasPayload
<1>3. \A f : Closes(d, f) <=> Closes(c, f)
  BY <1>2 DEF Closes
<1>4. \A f, count : TellsCount(d, f, count) <=> TellsCount(c, f, count)
  BY <1>2 DEF TellsCount
<1>5. \A n, count : Told(d, frames, n, count) = Told(c, frames, n, count)
  BY <1>4 DEF Told
<1>6. \A u : IsFinal(d, u) <=> IsFinal(c, u)
  BY DEF IsFinal
<1>7. PICK u : u = [t \in Counts |-> Told(c, frames, Len(frames), t)]
  OBVIOUS
<1>8. u = [t \in Counts |-> Told(d, frames, Len(frames), t)]
  BY <1>5, <1>7
<1>9. CASE c.streamed
  <2>1. /\ json /\ ~Foreign(c) => \E i \in 1..Len(frames) : Closes(c, frames[i])
        /\ (\E i \in 1..Len(frames) : Closes(c, frames[i])) => IsFinal(c, u)
    BY <1>7, <1>9 DEF Reported, Counts
  <2>2. /\ json /\ ~Foreign(d) => \E i \in 1..Len(frames) : Closes(d, frames[i])
        /\ (\E i \in 1..Len(frames) : Closes(d, frames[i])) => IsFinal(d, u)
    BY <1>1, <1>3, <1>6, <2>1
  <2> QED
    BY <1>8, <1>9, <2>2 DEF Reported, Counts
<1>10. CASE ~c.streamed
  BY <1>6, <1>10 DEF Reported
<1> QED
  BY <1>9, <1>10

\* What the fields of an event come from.
LEMMA RecordIs ==
  ASSUME NEW x, IsMeter(x), NEW known \in BOOLEAN, NEW aborted \in BOOLEAN, NEW r,
         r = Record(x, known, aborted)
  PROVE  /\ r[1].tokens = Normalize(x.usage)
         /\ r[1].costBasis = "ACTUAL" => known /\ x.seen /\ ~aborted
         /\ known /\ x.seen /\ ~aborted /\ r[1].price # <<>> => r[1].costBasis = "ACTUAL"
<1>1. PICK priced : priced = (known /\ MatchPrice(RecordedModel(x)) # <<>>)
  OBVIOUS
<1>2. PICK basis : basis = IF priced THEN Basis(x.seen, aborted) ELSE "UNPRICED"
  OBVIOUS
<1>3. /\ r[1].tokens = Normalize(x.usage) /\ r[1].costBasis = basis
      /\ r[1].price = MatchPrice(RecordedModel(x))
  BY <1>1, <1>2 DEF Record
<1>4. basis = "ACTUAL" <=> priced /\ x.seen /\ ~aborted
  BY <1>2 DEF Basis
<1> QED
  BY <1>1, <1>3, <1>4

\* The event that a step finalizes.
LEMMA FinalizedWhenFinal ==
  ASSUME NEW x, IsMeter(x), NEW known \in BOOLEAN, NEW aborted \in BOOLEAN,
         recorded' = Record(x, known, aborted), UNCHANGED call,
         \A count \in Counts : Field(x.usage, count) \in Nat,
         known /\ x.seen /\ ~aborted => call.final = Normalize(x.usage),
         phase' = "done" /\ call.streamed /\ call.json /\ ~Foreign(call) => known /\ x.seen /\ ~aborted
  PROVE  ActualIsFinal'
<1>1. PICK e : e = recorded'[1]
  OBVIOUS
<1>2. /\ e.tokens = Normalize(x.usage)
      /\ e.costBasis = "ACTUAL" => known /\ x.seen /\ ~aborted
      /\ known /\ x.seen /\ ~aborted /\ e.price # <<>> => e.costBasis = "ACTUAL"
  BY <1>1, RecordIs
<1>3. Normalize(x.usage) \in [Counts -> Nat]
  BY NormalizeIs
<1>4. Foreign(call)' <=> Foreign(call)
  BY DEF Foreign
<1>5. /\ e.tokens \in [Counts -> Nat]
      /\ e.costBasis = "ACTUAL" => e.tokens = call.final
      /\ phase' = "done" /\ call.streamed /\ call.json /\ ~Foreign(call) /\ e.price # <<>> => e.costBasis = "ACTUAL"
  BY <1>2, <1>3
<1> QED
  BY <1>1, <1>4, <1>5 DEF ActualIsFinal, Counts

\* Invariant: what the provider sends reports the final counts, and there is no
\* event before the end.
FinalInv ==
  /\ phase \in {"new", "open", "whole"} => recorded = <<>>
  /\ phase \in {"open", "aborted"} => call.streamed
  /\ phase # "new" => /\ call.json \in BOOLEAN /\ call.final \in [Counts -> Nat]
                      /\ Reported(call, stream, call.json)
  /\ ActualIsFinal

LEMMA ForwardReports ==
  ASSUME MeteredInv, FinalInv, NEW json \in BOOLEAN, NEW messages \in Messages, Forward(json, messages)
  PROVE  FinalInv'
<1>1. phase = "new" /\ call \in Calls /\ call \in ProxyCall /\ recorded' = <<>>
  BY MeteringAssumption DEF MeteredInv, FinalInv, Forward
<1>2. /\ call' = [call EXCEPT !.json = json, !.messages = messages] /\ stream' = Sent(call, json)
      /\ phase' = IF call.streamed THEN "open" ELSE "whole"
  BY DEF Forward
<1>3. /\ call'.provider = call.provider /\ call'.unified = call.unified /\ call'.streamed = call.streamed
      /\ call'.final = call.final /\ call'.json = json /\ call.final \in [Counts -> Nat]
  BY <1>1, <1>2 DEF ProxyCall, Counts
<1>4. Reported(call, stream', json)
  BY <1>1, <1>2, FinalAssumption
<1>5. Reported(call', stream', call'.json)
  BY <1>3, <1>4, SameCall
<1>6. Reported(call, stream, call.json)'
  BY <1>5
<1>7. ActualIsFinal'
  BY <1>1 DEF ActualIsFinal
<1> QED
  BY <1>1, <1>2, <1>3, <1>6, <1>7 DEF FinalInv

\* The meter of a stream that has been read up to a frame.
LEMMA MeterSays ==
  ASSUME stream \in Seq(StreamFrame), NEW k \in 0..Len(stream), NEW x,
         \A f : SaysLoop(f) => x = f[k]
  PROVE  Saying(x, k)
<1>1. SaysLoop(Says)
  BY SaysLoops DEF SaysLoop
<1>2. x = Says[k]
  BY <1>1
<1>3. PICK f : f = Says
  OBVIOUS
<1> QED
  BY <1>1, <1>2, <1>3, SaysTold

\* The final counts of a stream that closes them.
LEMMA SaysFinal ==
  ASSUME stream \in Seq(StreamFrame), call.streamed, Reported(call, stream, call.json),
         call.final \in [Counts -> Nat], NEW x, Saying(x, Len(stream))
  PROVE  /\ x.seen => call.final = Normalize(x.usage)
         /\ call.json /\ ~Foreign(call) => x.seen
<1>1. PICK u : u = [t \in Counts |-> Told(call, stream, Len(stream), t)]
  OBVIOUS
<1>2. /\ call.json /\ ~Foreign(call) => \E i \in 1..Len(stream) : Closes(call, stream[i])
      /\ (\E i \in 1..Len(stream) : Closes(call, stream[i])) => IsFinal(call, u)
  BY <1>1 DEF Reported, Counts
<1>3. \A count \in Counts : Field(u, count) = Field(x.usage, count) /\ Field(x.usage, count) \in Nat
  BY <1>1 DEF Saying, Field
<1>4. Normalize(u) = Normalize(x.usage)
  BY <1>3, NormalizeIs
<1>5. IsFinal(call, u) => Normalize(u) = call.final
  BY <1>3, NormalizeIs
<1> QED
  BY <1>2, <1>4, <1>5 DEF Saying

LEMMA EndReports ==
  ASSUME MeteredInv, FinalInv, End
  PROVE  FinalInv'
<1>1. /\ phase = "open" /\ phase' = "done" /\ UNCHANGED <<call, stream>>
      /\ recorded' = Record(meter', TRUE, FALSE)
  BY DEF End
<1>2. /\ stream \in Seq(StreamFrame) /\ call.streamed /\ call.json \in BOOLEAN
      /\ Reported(call, stream, call.json) /\ call.final \in [Counts -> Nat]
  BY <1>1 DEF MeteredInv, FinalInv
<1>3. Saying(meter', Len(stream))
  <2>1. PICK n \in Nat : n = Len(stream)
    BY <1>2
  <2>2. PICK x : x = meter'
    OBVIOUS
  <2>3. \A f : SaysLoop(f) => x = f[n]
    <3>1. MeteredInv'
      BY EndMeters
    <3>2. \A f : SaysLoop(f)' => x = f[n]
      BY <1>1, <1>2, <2>1, <2>2, <3>1 DEF MeteredInv
    <3> QED
      BY <1>1, <3>2, SameStream
  <2>4. n \in 0..Len(stream)
    BY <2>1
  <2>5. Saying(x, n)
    BY <1>2, <2>3, <2>4, MeterSays
  <2> QED
    BY <2>1, <2>2, <2>5
<1>4. /\ meter'.seen => call.final = Normalize(meter'.usage)
      /\ call.json /\ ~Foreign(call) => meter'.seen
  BY <1>2, <1>3, SaysFinal
<1>5. IsMeter(meter') /\ \A count \in Counts : Field(meter'.usage, count) \in Nat
  BY <1>3 DEF Saying
<1>6. ActualIsFinal'
  BY <1>1, <1>4, <1>5, FinalizedWhenFinal
<1>7. Reported(call, stream, call.json)'
  BY <1>1, <1>2
<1> QED
  BY <1>1, <1>2, <1>6, <1>7 DEF FinalInv

LEMMA AbortReports ==
  ASSUME MeteredInv, FinalInv, Abort
  PROVE  FinalInv'
<1>1. /\ phase = "open" /\ phase' = "aborted" /\ UNCHANGED <<call, stream, meter>>
      /\ recorded' = Record(meter, TRUE, TRUE)
  BY DEF Abort
<1>2. /\ stream \in Seq(StreamFrame) /\ call.streamed /\ call.json \in BOOLEAN
      /\ Reported(call, stream, call.json) /\ call.final \in [Counts -> Nat]
  BY <1>1 DEF MeteredInv, FinalInv
<1>3. PICK a : ReadUpTo(a)
  BY <1>1 DEF MeteredInv
<1>4. a \in 0..Len(stream) /\ \A f : SaysLoop(f) => meter = f[a]
  BY <1>2, <1>3 DEF ReadUpTo
<1>5. Saying(meter, a)
  BY <1>2, <1>4, MeterSays
<1>6. IsMeter(meter) /\ \A count \in Counts : Field(meter.usage, count) \in Nat
  BY <1>5 DEF Saying
<1>7. ActualIsFinal'
  BY <1>1, <1>6, FinalizedWhenFinal
<1>8. Reported(call, stream, call.json)'
  BY <1>1, <1>2
<1> QED
  BY <1>1, <1>2, <1>7, <1>8 DEF FinalInv

LEMMA ReplyReports ==
  ASSUME MeteredInv, FinalInv, NEW json \in BOOLEAN, Reply(json)
  PROVE  FinalInv'
<1>1. PICK x : x = IF json THEN ParseUsage(stream[1]) ELSE NoMeter
  OBVIOUS
<1>2. /\ phase = "whole" /\ phase' = "done" /\ UNCHANGED <<call, stream>>
      /\ recorded' = Record(x, json, FALSE)
  BY <1>1 DEF Reply
<1>3. /\ stream \in Seq(StreamFrame) /\ ~call.streamed /\ call.json \in BOOLEAN
      /\ Reported(call, stream, call.json) /\ call.final \in [Counts -> Nat]
  BY <1>2 DEF MeteredInv, FinalInv
<1>4. /\ Len(stream) = 1
      /\ stream[1].usage # NoUsage => IsFinal(call, stream[1].usage)
  BY <1>3 DEF Reported
<1>5. PICK f \in StreamFrame : f = stream[1]
  <2>1. 1 \in 1..Len(stream)
    BY <1>4
  <2>2. stream[1] \in StreamFrame
    BY <1>3, <2>1
  <2> QED
    BY <2>2
<1>6. /\ IsMeter(x) /\ \A count \in Counts : Field(x.usage, count) \in Nat
      /\ json /\ x.seen => call.final = Normalize(x.usage)
  <2>1. \A count : Field(NoUsage, count) = 0
    BY DEF Field, NoUsage
  <2>2. CASE ~json
    <3>1. IsMeter(x) /\ x.usage = NoUsage
      BY <1>1, <2>2 DEF IsMeter, NoMeter
    <3> QED
      BY <2>1, <2>2, <3>1
  <2>3. CASE json /\ Foreign(call)
    <3>1. x = [model |-> f.model, usage |-> NoUsage, seen |-> FALSE]
      BY <1>1, <1>5, <2>3 DEF ParseUsage
    <3>2. IsMeter(x) /\ x.usage = NoUsage /\ ~x.seen
      BY <3>1 DEF IsMeter
    <3> QED
      BY <2>1, <3>2
  <2>4. CASE json /\ ~Foreign(call)
    <3>1. PICK seen \in BOOLEAN : seen <=> f.usage # NoUsage
      OBVIOUS
    <3>2. x = [model |-> f.model, usage |-> f.usage, seen |-> seen]
      BY <1>1, <1>5, <2>4, <3>1 DEF ParseUsage
    <3>3. IsMeter(x) /\ x.usage = f.usage /\ x.seen = seen
      BY <3>2 DEF IsMeter
    <3>4. \A count \in Counts : Field(f.usage, count) \in Nat
      BY CountsAreNumbers
    <3>5. IsFinal(call, f.usage) => Normalize(f.usage) = call.final
      BY <1>3, <3>4, NormalizeIs
    <3> QED
      BY <1>4, <1>5, <3>1, <3>3, <3>4, <3>5
  <2> QED
    BY <2>2, <2>3, <2>4
<1>7. ActualIsFinal'
  BY <1>2, <1>3, <1>6, FinalizedWhenFinal
<1>8. Reported(call, stream, call.json)'
  BY <1>2, <1>3
<1> QED
  BY <1>2, <1>3, <1>7, <1>8 DEF FinalInv

\* Whatever the providers answer, however the answer is cut into chunks and
\* wherever it is aborted, the counts of an event are numbers of tokens, a cost is
\* ACTUAL only for the final counts, and a stream that ends is charged for them
\* when the request was JSON, the adapter reads the answer and a price matches
\* (the adapters' extractors and EventFinalizer).
THEOREM ActualCostsAreFinal == GatewaySpec => []ActualIsFinal
<1> DEFINE Inv == MeteredInv /\ FinalInv
<1>1. GatewayInit => Inv
  BY DEF GatewayInit, MeterInit, MeteredInv, FinalInv, ActualIsFinal
<1>2. Inv /\ [GatewayNext]_gatewayVars => Inv'
  <2> SUFFICES ASSUME MeteredInv, FinalInv, [GatewayNext]_gatewayVars PROVE MeteredInv' /\ FinalInv'
    OBVIOUS
  <2>1. ASSUME NEW json \in BOOLEAN, NEW m \in Messages, Forward(json, m) PROVE MeteredInv' /\ FinalInv'
    BY <2>1, ForwardMeters, ForwardReports
  <2>2. ASSUME UNCHANGED <<call, stream, phase, recorded>> PROVE FinalInv'
    <3>1. Reported(call, stream, call.json) => Reported(call, stream, call.json)'
      BY <2>2
    <3>2. ActualIsFinal'
      BY <2>2 DEF FinalInv, ActualIsFinal, Foreign
    <3> QED
      BY <2>2, <3>1, <3>2 DEF FinalInv
  <2>3. ASSUME NEW n \in 1..Len(Bytes), Chunk(n) PROVE MeteredInv' /\ FinalInv'
    <3>1. UNCHANGED <<call, stream, phase, recorded>>
      BY <2>3 DEF Chunk
    <3> QED
      BY <2>2, <2>3, <3>1, ChunkMeters
  <2>4. CASE End
    BY <2>4, EndMeters, EndReports
  <2>5. CASE Abort
    BY <2>5, AbortMeters, AbortReports
  <2>6. ASSUME NEW json \in BOOLEAN, Reply(json) PROVE MeteredInv' /\ FinalInv'
    BY <2>6, ReplyMeters, ReplyReports
  <2>7. CASE UNCHANGED meterVars
    <3>1. UNCHANGED <<call, stream, phase, recorded>>
      BY <2>7 DEF meterVars
    <3> QED
      BY <2>2, <2>7, <3>1, IdleMeters
  <2> QED
    BY <2>1, <2>3, <2>4, <2>5, <2>6, <2>7 DEF GatewayNext, gatewayVars, MeterNext
<1>3. Inv => ActualIsFinal
  BY DEF FinalInv
<1> QED
  BY <1>1, <1>2, <1>3, PTL DEF GatewaySpec

---------------------------------------------------------------------------
(* The types of the metering *)

\* Only frames of the stream have bytes in it.
LEMMA FrameOfByte ==
  ASSUME stream \in Seq(StreamFrame), NEW i \in Nat \ {0}, NEW q \in 1..2, (i - 1) * Width + q <= Len(Bytes)
  PROVE  i \in DOMAIN stream
<1> DEFINE s == Len(stream)
<1>1. s \in Nat /\ DOMAIN stream = 1..s
  OBVIOUS
<1>2. Len(Bytes) \in Nat /\ (Len(Bytes) = s * Width \/ (s > 0 /\ Len(Bytes) = (s - 1) * Width + 2))
  BY BytesOfFrames
<1> HIDE DEF s
<1>3. i <= s
  <2>1. CASE Width = 3
    BY <1>1, <1>2, <2>1
  <2>2. CASE Width = 4
    BY <1>1, <1>2, <2>2
  <2> QED
    BY <2>1, <2>2, Widths
<1> QED
  BY <1>1, <1>3

\* Invariant: the types, and nothing is sent before the request is.
MeterTypeInv ==
  /\ MeteredInv
  /\ phase = "new" => stream = <<>>
  /\ at \in Nat /\ (at = 0 \/ at <= Len(Bytes))
  /\ split \subseteq DOMAIN stream
  /\ (phase \in {"done", "aborted"}) <=> (recorded # <<>>)
  /\ recorded # <<>> => recorded[1].costBasis \in {"ACTUAL", "ESTIMATED", "UNPRICED"}

LEMMA RecordType ==
  ASSUME NEW x, NEW known, NEW aborted
  PROVE  /\ Record(x, known, aborted) # <<>>
         /\ Record(x, known, aborted)[1].costBasis \in {"ACTUAL", "ESTIMATED", "UNPRICED"}
<1>1. Basis(x.seen, aborted) \in {"ACTUAL", "ESTIMATED"}
  BY DEF Basis
<1>2. PICK r : r = Record(x, known, aborted)
  OBVIOUS
<1>3. PICK p : p = (known /\ MatchPrice(RecordedModel(x)) # <<>>)
  OBVIOUS
<1>4. PICK basis : basis = IF p THEN Basis(x.seen, aborted) ELSE "UNPRICED"
  OBVIOUS
<1>5. r # <<>> /\ r[1].costBasis = basis
  BY <1>2, <1>3, <1>4 DEF Record
<1>6. basis \in {"ACTUAL", "ESTIMATED", "UNPRICED"}
  BY <1>1, <1>4
<1> QED
  BY <1>2, <1>5, <1>6

LEMMA ForwardTypes ==
  ASSUME MeterTypeInv, NEW json \in BOOLEAN, NEW messages \in Messages, Forward(json, messages)
  PROVE  MeterTypeInv'
<1>1. MeteredInv'
  BY ForwardMeters DEF MeterTypeInv
<1>2. phase = "new" /\ phase' \in {"open", "whole"} /\ UNCHANGED <<at, split, recorded>>
  BY DEF Forward
<1>3. stream = <<>> /\ at = 0 /\ split = {} /\ recorded = <<>>
  BY <1>2 DEF MeterTypeInv, MeteredInv
<1> QED
  BY <1>1, <1>2, <1>3 DEF MeterTypeInv

LEMMA ChunkTypes ==
  ASSUME MeterTypeInv, NEW n \in 1..Len(Bytes), Chunk(n)
  PROVE  MeterTypeInv'
<1>1. MeteredInv'
  BY ChunkMeters DEF MeterTypeInv
<1>2. /\ phase = "open" /\ at' = at + n /\ at + n <= Len(Bytes)
      /\ split' = split \cup Added(at, n) /\ UNCHANGED <<call, phase, stream, recorded>>
  BY DEF Chunk, Added
<1>3. stream \in Seq(StreamFrame) /\ at \in Nat
  BY <1>2 DEF MeterTypeInv, MeteredInv
<1>4. Len(Bytes) \in Nat /\ Bytes' = Bytes /\ n \in Nat
  BY <1>2, <1>3, BytesOfFrames, SameStream
<1>5. ASSUME NEW i \in Added(at, n) PROVE i \in DOMAIN stream
  <2>1. Half(i, at, n)
    BY <1>2, <1>3, <1>4, AddedHalf
  <2>2. i \in Nat \ {0}
    BY <2>1 DEF Half
  <2>3. PICK q \in 1..2 : Within(i, q, at, n)
    BY <2>1 DEF Half
  <2>4. (i - 1) * Width + q <= Len(Bytes)
    <3>1. PICK z \in Nat : z = (i - 1) * Width
      BY <2>2, Times
    <3>2. z + q <= at + n
      BY <2>3, <3>1 DEF Within
    <3>3. z + q <= Len(Bytes)
      BY <1>2, <1>3, <1>4, <3>2
    <3> QED
      BY <3>1, <3>3
  <2> QED
    BY <1>3, <2>2, <2>4, FrameOfByte
<1>6. split' \subseteq DOMAIN stream
  BY <1>2, <1>5 DEF MeterTypeInv
<1>7. at' \in Nat /\ at' <= Len(Bytes')
  BY <1>2, <1>3, <1>4
<1> QED
  BY <1>1, <1>2, <1>6, <1>7 DEF MeterTypeInv

\* A step that finalizes.
LEMMA FinalizedTypes ==
  ASSUME MeterTypeInv, MeteredInv', UNCHANGED <<call, stream, split>>, at' \in {at, Len(Bytes)}, phase # "new",
         phase' \in {"done", "aborted"}, NEW x, NEW known, NEW aborted, recorded' = Record(x, known, aborted)
  PROVE  MeterTypeInv'
<1>1. stream \in Seq(StreamFrame) /\ Bytes' = Bytes
  BY SameStream DEF MeterTypeInv, MeteredInv
<1>2. at' \in Nat /\ (at' = 0 \/ at' <= Len(Bytes'))
  BY <1>1, BytesOfFrames DEF MeterTypeInv
<1>3. recorded' # <<>> /\ recorded'[1].costBasis \in {"ACTUAL", "ESTIMATED", "UNPRICED"}
  BY RecordType
<1> QED
  BY <1>2, <1>3 DEF MeterTypeInv

\* Type correctness of the metering: no byte is read beyond the end of the answer,
\* and there is an event exactly when the request is over (EventFinalizer).
THEOREM MeterTypes == GatewaySpec => []MeterTypeOK
<1>1. GatewayInit => MeterTypeInv
  <2> SUFFICES ASSUME GatewayInit PROVE MeterTypeInv
    OBVIOUS
  <2>1. MeteredInv /\ phase = "new" /\ stream = <<>> /\ at = 0 /\ split = {} /\ recorded = <<>>
    BY DEF GatewayInit, MeterInit, MeteredInv
  <2> QED
    BY <2>1 DEF MeterTypeInv
<1>2. MeterTypeInv /\ [GatewayNext]_gatewayVars => MeterTypeInv'
  <2> SUFFICES ASSUME MeterTypeInv, [GatewayNext]_gatewayVars PROVE MeterTypeInv'
    OBVIOUS
  <2>0. MeteredInv
    BY DEF MeterTypeInv
  <2>1. ASSUME NEW json \in BOOLEAN, NEW m \in Messages, Forward(json, m) PROVE MeterTypeInv'
    BY <2>1, ForwardTypes
  <2>2. ASSUME NEW n \in 1..Len(Bytes), Chunk(n) PROVE MeterTypeInv'
    BY <2>2, ChunkTypes
  <2>3. CASE End
    <3>1. MeteredInv'
      BY <2>0, <2>3, EndMeters
    <3>2. /\ UNCHANGED <<call, stream, split>> /\ at' = at /\ phase = "open" /\ phase' = "done"
          /\ recorded' = Record(meter', TRUE, FALSE)
      BY <2>3 DEF End
    <3> QED
      BY <3>1, <3>2, FinalizedTypes
  <2>4. CASE Abort
    <3>1. MeteredInv'
      BY <2>0, <2>4, AbortMeters
    <3>2. /\ UNCHANGED <<call, stream, split>> /\ at' = at /\ phase = "open" /\ phase' = "aborted"
          /\ recorded' = Record(meter, TRUE, TRUE)
      BY <2>4 DEF Abort
    <3> QED
      BY <3>1, <3>2, FinalizedTypes
  <2>5. ASSUME NEW json \in BOOLEAN, Reply(json) PROVE MeterTypeInv'
    <3>1. MeteredInv'
      BY <2>0, <2>5, ReplyMeters
    <3>2. /\ UNCHANGED <<call, stream, split>> /\ at' = Len(Bytes) /\ phase = "whole" /\ phase' = "done"
          /\ recorded' = Record(meter', json, FALSE)
      BY <2>5 DEF Reply
    <3> QED
      BY <3>1, <3>2, FinalizedTypes
  <2>6. CASE UNCHANGED meterVars
    <3>1. MeteredInv'
      BY <2>0, <2>6, IdleMeters
    <3>2. UNCHANGED <<call, stream, phase, at, split, recorded>>
      BY <2>6 DEF meterVars
    <3>3. Bytes' = Bytes
      BY <3>2, SameStream
    <3> QED
      BY <3>1, <3>2, <3>3 DEF MeterTypeInv
  <2> QED
    BY <2>1, <2>2, <2>3, <2>4, <2>5, <2>6 DEF GatewayNext, gatewayVars, MeterNext
<1>3. MeterTypeInv => MeterTypeOK
  <2> SUFFICES ASSUME MeterTypeInv PROVE MeterTypeOK
    OBVIOUS
  <2>0. <<>> \in Seq(StreamFrame)
    OBVIOUS
  <2>1. stream \in Seq(StreamFrame)
    <3>1. CASE phase = "new"
      BY <2>0, <3>1, Zenon DEF MeterTypeInv
    <3>2. CASE phase # "new"
      BY <3>2 DEF MeterTypeInv, MeteredInv
    <3> QED
      BY <3>1, <3>2
  <2>2. Len(Bytes) \in Nat
    BY <2>1, BytesOfFrames
  <2> QED
    BY <2>2 DEF MeterTypeInv, MeteredInv, MeterTypeOK
<1> QED
  BY <1>1, <1>2, <1>3, PTL DEF GatewaySpec
=============================================================================
