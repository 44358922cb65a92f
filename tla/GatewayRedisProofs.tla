------------------------- MODULE GatewayRedisProofs -------------------------
(***************************************************************************)
(* Proofs about the two components through which a gateway uses Redis.      *)
(*                                                                          *)
(* KeyCache: a change of a virtual key goes unnoticed for StaleBound at     *)
(* most, and for Residence at most unless a lookup raced with it, for any   *)
(* number of gateways and lookups and any time-to-live.                     *)
(*                                                                          *)
(* EventSink: for every buffer size and any number of events and faults,    *)
(* while the process lives every lost event is counted, the flush loop runs *)
(* exactly while there is something to flush, and the sink by itself sends  *)
(* no event twice.                                                          *)
(***************************************************************************)
EXTENDS KeyCache, EventSink, FiniteSetTheorems, TLAPS

---------------------------------------------------------------------------
(* The virtual-key cache *)

\* The inductive invariant: every carrier of the old row has a time budget
\* that, added to the time since the answer, stays within the bound of the
\* place it is in.
StaleInv ==
  /\ row = "old" => api = "idle"
  /\ ~Answered => since = 0
  /\ shared.val = "old" => since + shared.ttl <= MaxDelay + RedisTTL
  /\ \A g \in Gateway : local[g].val = "old" =>
       since + local[g].ttl <= MaxDelay + RedisTTL + LocalTTL
  /\ \A r \in Lookup : pc[r] \in {"fill", "set"} /\ got[r] = "old" => since <= age[r]
  /\ \A r \in Lookup : pc[r] = "hit" /\ got[r] = "old" =>
       since <= MaxDelay + RedisTTL + age[r]

LEMMA AbsentType == Absent \in Entry /\ Absent.val = "new" /\ Absent.ttl = 0
  BY DEF Absent, Entry, Value

LEMMA AgedEntry ==
  ASSUME NEW entry \in Entry
  PROVE  /\ Aged(entry) \in Entry
         /\ Aged(entry).val = "old" => entry.val = "old" /\ Aged(entry).ttl = entry.ttl - 1
  BY AbsentType DEF Aged, Entry, Value

\* SetLocal writes an entry that expires LocalTTL after the lookup began.
LEMMA SetLocalEntry ==
  ASSUME CacheTypeOK, NEW r \in Lookup, SetLocal(r)
  PROVE  /\ local' \in [Gateway -> Entry]
         /\ \A g \in Gateway : local'[g].val = "old" =>
              \/ local'[g] = local[g]
              \/ got[r] = "old" /\ local'[g].ttl + age[r] = LocalTTL
<1> DEFINE e == IF age[r] < LocalTTL THEN [val |-> got[r], ttl |-> LocalTTL - age[r]]
                                    ELSE Absent
<1>1. GatewayOf[r] \in Gateway /\ age[r] \in Nat /\ LocalTTL \in Nat /\ got[r] \in Value
  BY CacheAssumption DEF CacheTypeOK
<1>2. e \in Entry /\ (e.val = "old" => got[r] = "old" /\ e.ttl + age[r] = LocalTTL)
  BY <1>1, AbsentType DEF Entry
<1>3. local' = [local EXCEPT ![GatewayOf[r]] = e]
  BY DEF SetLocal
<1> QED
  BY <1>1, <1>2, <1>3 DEF CacheTypeOK

\* Every step keeps the types.
LEMMA CacheTypeStep ==
  ASSUME CacheTypeOK, [CacheNext]_cacheVars
  PROVE  CacheTypeOK'
<1> USE DEF handler, caches, lookups
<1>1. ASSUME NEW r \in Lookup, LocalMiss(r) \/ RedisGet(r) \/ DbQuery(r) PROVE CacheTypeOK'
  BY <1>1 DEF CacheTypeOK, LocalMiss, RedisGet, DbQuery, Entry
<1>2. ASSUME NEW r \in Lookup, RedisHit(r) \/ FillLocal(r) PROVE CacheTypeOK'
  BY <1>2, SetLocalEntry, CacheAssumption DEF CacheTypeOK, RedisHit, FillLocal, Return, Value
<1>3. ASSUME NEW r \in Lookup, RedisSet(r) PROVE CacheTypeOK'
  BY <1>3, CacheAssumption DEF CacheTypeOK, RedisSet, Return, Value, Entry
<1>4. CASE ChangeRow
  BY <1>4 DEF CacheTypeOK, ChangeRow, Value
<1>5. CASE ApiDel \/ ApiPublish \/ ApiGivesUp \/ DeleteProject
  BY <1>5, AbsentType DEF CacheTypeOK, ApiDel, ApiPublish, ApiGivesUp, DeleteProject, Value
<1>6. ASSUME NEW g \in Gateway, Invalidate(g) \/ GatewayDel(g) \/ MessageLost(g) PROVE CacheTypeOK'
  BY <1>6, AbsentType DEF CacheTypeOK, Invalidate, GatewayDel, MessageLost
<1>7. CASE Tick
  <2>1. shared' \in Entry /\ local' \in [Gateway -> Entry]
    BY <1>7, AgedEntry DEF Tick, CacheTypeOK
  <2>2. age' \in [Lookup -> 0..MaxDelay] /\ since' \in Nat
    BY <1>7, CacheAssumption DEF Tick, CacheTypeOK
  <2> QED
    BY <1>7, <2>1, <2>2 DEF Tick, CacheTypeOK
<1>8. CASE UNCHANGED cacheVars
  BY <1>8 DEF CacheTypeOK, cacheVars
<1> QED
  BY <1>1, <1>2, <1>3, <1>4, <1>5, <1>6, <1>7, <1>8 DEF CacheNext

\* Every step keeps each carrier within its budget.
LEMMA StaleStep ==
  ASSUME CacheTypeOK, CacheTypeOK', StaleInv, [CacheNext]_cacheVars
  PROVE  StaleInv'
<1> USE CacheAssumption DEF handler, caches, lookups, Answered
<1>1. ASSUME NEW r \in Lookup, LocalMiss(r) PROVE StaleInv'
  BY <1>1 DEF CacheTypeOK, StaleInv, LocalMiss
<1>2. ASSUME NEW r \in Lookup, RedisGet(r) PROVE StaleInv'
  BY <1>2 DEF CacheTypeOK, StaleInv, RedisGet, Entry
<1>3. ASSUME NEW r \in Lookup, DbQuery(r) PROVE StaleInv'
  BY <1>3 DEF CacheTypeOK, StaleInv, DbQuery
<1>4. ASSUME NEW r \in Lookup, RedisHit(r) \/ FillLocal(r) PROVE StaleInv'
  <2>1. got[r] = "old" => since <= MaxDelay + RedisTTL + age[r]
    BY <1>4 DEF StaleInv, RedisHit, FillLocal, CacheTypeOK
  <2>2. since' = since /\ age[r] \in Nat /\ since \in Nat
    BY <1>4 DEF RedisHit, FillLocal, CacheTypeOK
  <2>3. \A g \in Gateway : local'[g].val = "old" =>
          since' + local'[g].ttl <= MaxDelay + RedisTTL + LocalTTL
    <3> SUFFICES ASSUME NEW g \in Gateway, local'[g].val = "old"
                 PROVE  since + local'[g].ttl <= MaxDelay + RedisTTL + LocalTTL
      BY <2>2
    <3>1. CASE local'[g] = local[g]
      BY <3>1 DEF StaleInv
    <3>2. CASE got[r] = "old" /\ local'[g].ttl + age[r] = LocalTTL
      <4>1. local'[g].ttl \in Nat
        BY DEF CacheTypeOK, Entry
      <4> QED
        BY <2>1, <2>2, <3>2, <4>1
    <3> QED
      BY <1>4, <3>1, <3>2, SetLocalEntry DEF RedisHit, FillLocal
  <2> QED
    BY <1>4, <2>3 DEF StaleInv, RedisHit, FillLocal, Return, CacheTypeOK
<1>5. ASSUME NEW r \in Lookup, RedisSet(r) PROVE StaleInv'
  <2>1. got[r] = "old" => since <= MaxDelay
    BY <1>5 DEF StaleInv, RedisSet, CacheTypeOK
  <2>2. shared'.val = "old" => since + shared'.ttl <= MaxDelay + RedisTTL
    BY <1>5, <2>1 DEF RedisSet, StaleInv, CacheTypeOK
  <2> QED
    BY <1>5, <2>2 DEF StaleInv, RedisSet, Return, CacheTypeOK
<1>6. CASE ChangeRow \/ ApiPublish \/ ApiGivesUp \/ DeleteProject
  BY <1>6 DEF StaleInv, ChangeRow, ApiPublish, ApiGivesUp, DeleteProject
<1>7. CASE ApiDel
  BY <1>7, AbsentType DEF StaleInv, ApiDel
<1>8. ASSUME NEW g \in Gateway, Invalidate(g) PROVE StaleInv'
  BY <1>8, AbsentType DEF StaleInv, Invalidate, CacheTypeOK
<1>9. ASSUME NEW g \in Gateway, GatewayDel(g) \/ MessageLost(g) PROVE StaleInv'
  BY <1>9, AbsentType DEF StaleInv, GatewayDel, MessageLost
<1>10. CASE Tick
  <2>1. since \in Nat /\ since' \in Nat /\ since' <= since + 1
    BY <1>10 DEF Tick, CacheTypeOK
  <2>2. shared'.val = "old" => since' + shared'.ttl <= MaxDelay + RedisTTL
    BY <1>10, <2>1, AgedEntry DEF Tick, StaleInv, CacheTypeOK, Entry
  <2>3. \A g \in Gateway : local'[g].val = "old" =>
          since' + local'[g].ttl <= MaxDelay + RedisTTL + LocalTTL
    BY <1>10, <2>1, AgedEntry DEF Tick, StaleInv, CacheTypeOK, Entry
  <2>4. \A r \in Lookup : pc[r] # "idle" => age'[r] = age[r] + 1
    BY <1>10 DEF Tick
  <2>5. (~Answered => since = 0)'
    BY <1>10 DEF Tick, StaleInv
  <2> QED
    BY <1>10, <2>1, <2>2, <2>3, <2>4, <2>5 DEF Tick, StaleInv, CacheTypeOK
<1>11. CASE UNCHANGED cacheVars
  BY <1>11 DEF StaleInv, cacheVars
<1> QED
  BY <1>1, <1>2, <1>3, <1>4, <1>5, <1>6, <1>7, <1>8, <1>9, <1>10, <1>11 DEF CacheNext

\* Every reachable state is well typed and within the budgets.
LEMMA CacheInvariant == CacheSpec => [](CacheTypeOK /\ StaleInv)
<1>1. CacheInit => CacheTypeOK /\ StaleInv
  <2>1. ASSUME CacheInit PROVE CacheTypeOK
    <3>1. raced \in BOOLEAN
      BY <2>1, Zenon DEF CacheInit
    <3>2. 0 \in 0..MaxDelay /\ "new" \in Value /\ "old" \in Value
      BY CacheAssumption DEF Value
    <3>3. local \in [Gateway -> Entry] /\ age \in [Lookup -> 0..MaxDelay]
          /\ got \in [Lookup -> Value]
      BY <2>1, <3>2, AbsentType DEF CacheInit
    <3> QED
      BY <2>1, <3>1, <3>2, <3>3, AbsentType DEF CacheInit, CacheTypeOK
  <2>2. CacheInit => StaleInv
    BY CacheAssumption, AbsentType DEF CacheInit, StaleInv, Answered
  <2> QED
    BY <2>1, <2>2
<1>2. CacheTypeOK /\ [CacheNext]_cacheVars => CacheTypeOK'
  BY CacheTypeStep
<1>3. CacheTypeOK /\ CacheTypeOK' /\ StaleInv /\ [CacheNext]_cacheVars => StaleInv'
  BY StaleStep
<1> QED
  BY <1>1, <1>2, <1>3, PTL DEF CacheSpec

\* Whatever commands fail and messages are lost, no gateway answers with the
\* old row later than MaxDelay + RedisTTL + max(LocalTTL, MaxDelay) after the
\* handler that changed the key answered.
THEOREM StalenessBounded == CacheSpec => []StaleAtMost
<1>1. CacheTypeOK /\ StaleInv => StaleAtMost
  <2> SUFFICES ASSUME CacheTypeOK, StaleInv, NEW r \in Lookup, Answers(r, "old")
               PROVE  since <= StaleBound
    BY DEF StaleAtMost, AnswersOld
  <2>1. since \in Nat /\ age[r] \in 0..MaxDelay /\ GatewayOf[r] \in Gateway
    BY CacheAssumption DEF CacheTypeOK
  <2>2. CASE pc[r] \in {"hit", "set"} /\ got[r] = "old"
    BY <2>1, <2>2, CacheAssumption DEF StaleInv, StaleBound, Residence
  <2>3. CASE local[GatewayOf[r]].ttl > 0 /\ local[GatewayOf[r]].val = "old"
    <3>1. local[GatewayOf[r]].ttl \in Nat
      BY <2>1 DEF CacheTypeOK, Entry
    <3> QED
      BY <2>1, <2>3, <3>1, CacheAssumption DEF StaleInv, StaleBound, Residence
  <2> QED
    BY <2>2, <2>3 DEF Answers
<1> QED
  BY <1>1, CacheInvariant, PTL

---------------------------------------------------------------------------
(* Prompt changes *)

\* The inductive invariant behind PromptUnlessRaced.  When no lookup was between
\* its query and its SET as the row changed, none carries the old row there
\* afterwards; so once the handler has deleted the Redis entry it stays free of
\* the old row, which only replies of Redis and in-process entries from before
\* still hold: they are as old as the answer at least.
Unraced == ~raced /\ api \in {"deleted", "done"}

PromptInv ==
  /\ \A g \in Gateway : local[g].val = "old" => local[g].ttl <= LocalTTL
  /\ ~raced /\ api \in {"updated", "deleted", "done"} =>
       \A r \in Lookup : pc[r] \in {"fill", "set"} => got[r] = "new"
  /\ Unraced => /\ shared.val = "new"
                /\ \A r \in Lookup : pc[r] = "hit" /\ got[r] = "old" => since <= age[r]
                /\ \A g \in Gateway : local[g].val = "old" => since + local[g].ttl <= LocalTTL

\* The steps of a lookup.
LEMMA PromptLookup ==
  ASSUME CacheTypeOK, CacheTypeOK', StaleInv, PromptInv, NEW r \in Lookup,
         \/ LocalMiss(r) \/ RedisGet(r) \/ RedisHit(r)
         \/ DbQuery(r) \/ FillLocal(r) \/ RedisSet(r)
  PROVE  PromptInv'
<1> USE CacheAssumption DEF handler, caches, lookups, Unraced, Answered
<1>1. CASE LocalMiss(r)
  BY <1>1 DEF CacheTypeOK, PromptInv, LocalMiss
<1>2. CASE RedisGet(r)
  BY <1>2 DEF CacheTypeOK, PromptInv, RedisGet
<1>3. CASE DbQuery(r)
  BY <1>3 DEF CacheTypeOK, PromptInv, StaleInv, DbQuery, Value
<1>4. CASE RedisHit(r) \/ FillLocal(r)
  <2>1. UNCHANGED <<row, api, since, raced, shared>> /\ SetLocal(r)
    BY <1>4 DEF RedisHit, FillLocal
  <2>2. since \in Nat /\ age[r] \in Nat /\ LocalTTL \in Nat
        /\ \A g \in Gateway : local'[g].ttl \in Nat /\ local[g].ttl \in Nat
    BY DEF CacheTypeOK, Entry
  <2>3. Unraced /\ got[r] = "old" => since <= age[r]
    BY <1>4 DEF PromptInv, RedisHit, FillLocal
  <2>4. \A g \in Gateway : local'[g].val = "old" =>
          local'[g] = local[g] \/ (got[r] = "old" /\ local'[g].ttl + age[r] = LocalTTL)
    BY <2>1, SetLocalEntry
  <2>5. \A g \in Gateway : local'[g].val = "old" =>
          local'[g].ttl <= LocalTTL /\ (Unraced => since + local'[g].ttl <= LocalTTL)
    <3> SUFFICES ASSUME NEW g \in Gateway, local'[g].val = "old"
                 PROVE  local'[g].ttl <= LocalTTL /\ (Unraced => since + local'[g].ttl <= LocalTTL)
      OBVIOUS
    <3>1. CASE local'[g] = local[g]
      BY <3>1 DEF PromptInv
    <3>2. CASE got[r] = "old" /\ local'[g].ttl + age[r] = LocalTTL
      BY <2>2, <2>3, <3>2
    <3> QED
      BY <2>4, <3>1, <3>2
  <2>6. \A q \in Lookup : /\ pc'[q] \in {"fill", "set"} => pc[q] \in {"fill", "set"} /\ got'[q] = got[q]
                          /\ pc'[q] = "hit" => pc[q] = "hit" /\ got'[q] = got[q] /\ age'[q] = age[q]
    BY <1>4 DEF RedisHit, FillLocal, Return, CacheTypeOK
  <2> QED
    BY <2>1, <2>5, <2>6 DEF PromptInv
<1>5. CASE RedisSet(r)
  <2>1. \A q \in Lookup : pc'[q] \in {"fill", "set", "hit"} =>
          pc'[q] = pc[q] /\ got'[q] = got[q] /\ age'[q] = age[q]
    BY <1>5 DEF RedisSet, Return, CacheTypeOK
  <2>2. UNCHANGED <<row, api, since, raced, local>>
    BY <1>5 DEF RedisSet
  <2>3. Unraced => shared'.val = "new"
    BY <1>5 DEF PromptInv, RedisSet
  <2> QED
    BY <2>1, <2>2, <2>3 DEF PromptInv
<1> QED
  BY <1>1, <1>2, <1>3, <1>4, <1>5

LEMMA PromptStep ==
  ASSUME CacheTypeOK, CacheTypeOK', StaleInv, PromptInv, [CacheNext]_cacheVars
  PROVE  PromptInv'
<1> USE CacheAssumption DEF handler, caches, lookups, Unraced, Answered
<1>1. CASE ChangeRow
  BY <1>1 DEF PromptInv, ChangeRow
<1>2. CASE ApiDel
  <2>1. since = 0 /\ since' = 0
    BY <1>2 DEF ApiDel, StaleInv
  <2>2. \A g \in Gateway : local[g].ttl \in Nat
    BY DEF CacheTypeOK, Entry
  <2> QED
    BY <1>2, <2>1, <2>2, AbsentType DEF PromptInv, ApiDel, CacheTypeOK
<1>3. CASE ApiPublish \/ ApiGivesUp \/ DeleteProject
  BY <1>3 DEF PromptInv, ApiPublish, ApiGivesUp, DeleteProject
<1>4. ASSUME NEW g \in Gateway, Invalidate(g) PROVE PromptInv'
  BY <1>4, AbsentType DEF PromptInv, Invalidate, CacheTypeOK
<1>5. ASSUME NEW g \in Gateway, GatewayDel(g) \/ MessageLost(g) PROVE PromptInv'
  BY <1>5, AbsentType DEF PromptInv, GatewayDel, MessageLost
<1>6. CASE Tick
  <2>1. since \in Nat /\ since' \in Nat /\ since' <= since + 1
    BY <1>6 DEF Tick, CacheTypeOK
  <2>2. shared.val = "new" => shared'.val = "new"
    BY <1>6, AgedEntry DEF Tick, CacheTypeOK, Entry, Value
  <2>3. \A g \in Gateway : local'[g].val = "old" =>
          local[g].val = "old" /\ local'[g].ttl = local[g].ttl - 1 /\ local[g].ttl \in Nat
    BY <1>6, AgedEntry DEF Tick, CacheTypeOK, Entry
  <2>4. \A r \in Lookup : age[r] \in Nat /\ (pc[r] # "idle" => age'[r] = age[r] + 1)
    BY <1>6 DEF Tick, CacheTypeOK
  <2>5. UNCHANGED <<row, api, raced, pc, got>>
    BY <1>6 DEF Tick
  <2> QED
    BY <2>1, <2>2, <2>3, <2>4, <2>5 DEF PromptInv
<1>7. CASE UNCHANGED cacheVars
  BY <1>7 DEF PromptInv, cacheVars
<1> QED
  BY <1>1, <1>2, <1>3, <1>4, <1>5, <1>6, <1>7, PromptLookup DEF CacheNext

\* A revocation or an edit of a key takes effect within LocalTTL, or the time one
\* lookup takes, although the messages to the gateways and their DELs may be
\* lost: the handler's own DEL is enough when no lookup was between its query
\* and its SET (modules/keys.ts, stores/cached.ts).
THEOREM ChangesArePrompt == CacheSpec => []PromptUnlessRaced
<1>1. CacheInit => PromptInv
  BY AbsentType DEF CacheInit, PromptInv, Unraced
<1>2. (CacheTypeOK /\ StaleInv) /\ (CacheTypeOK /\ StaleInv)' /\ PromptInv /\ [CacheNext]_cacheVars => PromptInv'
  BY PromptStep
<1>3. (CacheTypeOK /\ StaleInv) /\ PromptInv => PromptUnlessRaced
  <2> SUFFICES ASSUME CacheTypeOK, PromptInv, api = "done", ~raced, NEW r \in Lookup, Answers(r, "old")
               PROVE  since <= Residence
    BY DEF PromptUnlessRaced, AnswersOld
  <2>1. since \in Nat /\ age[r] \in 0..MaxDelay /\ GatewayOf[r] \in Gateway
        /\ MaxDelay \in Nat /\ LocalTTL \in Nat
    BY CacheAssumption DEF CacheTypeOK
  <2>2. CASE pc[r] \in {"hit", "set"} /\ got[r] = "old"
    BY <2>1, <2>2 DEF PromptInv, Unraced, Residence
  <2>3. CASE local[GatewayOf[r]].ttl > 0 /\ local[GatewayOf[r]].val = "old"
    <3>1. local[GatewayOf[r]].ttl \in Nat
      BY <2>1 DEF CacheTypeOK, Entry
    <3> QED
      BY <2>1, <2>3, <3>1 DEF PromptInv, Unraced, Residence
  <2> QED
    BY <2>2, <2>3 DEF Answers
<1> QED
  BY <1>1, <1>2, <1>3, CacheInvariant, PTL DEF CacheSpec

---------------------------------------------------------------------------
(* The event sink *)

\* Appending to the buffer adds one event to it.
LEMMA AppendBuffer ==
  ASSUME buffer \in Seq(Event), NEW e \in Event, buffer' = Append(buffer, e)
  PROVE  Buffered' = Buffered \cup {e} /\ buffer' \in Seq(Event) /\ buffer' # <<>>
<1>1. /\ Append(buffer, e) \in Seq(Event)
      /\ DOMAIN Append(buffer, e) = DOMAIN buffer \cup {Len(buffer) + 1}
      /\ Append(buffer, e)[Len(buffer) + 1] = e
      /\ \A i \in DOMAIN buffer : Append(buffer, e)[i] = buffer[i]
      /\ Append(buffer, e) # <<>>
  OBVIOUS
<1> QED
  BY <1>1 DEF Buffered

\* Shifting the buffer removes at most its head.
LEMMA ShiftBuffer ==
  ASSUME buffer \in Seq(Event), buffer # <<>>, buffer' = Tail(buffer)
  PROVE  /\ buffer' \in Seq(Event)
         /\ Head(buffer) \in Event
         /\ Buffered \subseteq Buffered' \cup {Head(buffer)}
         /\ (buffer' # <<>>) <=> Len(buffer) > 1
<1>1. /\ Tail(buffer) \in Seq(Event)
      /\ Head(buffer) = buffer[1] /\ buffer[1] \in Event
      /\ Len(buffer) \in Nat /\ Len(buffer) >= 1
      /\ DOMAIN buffer = 1..Len(buffer)
      /\ DOMAIN Tail(buffer) = 1..(Len(buffer) - 1)
      /\ \A i \in 1..(Len(buffer) - 1) : Tail(buffer)[i] = buffer[i + 1]
  OBVIOUS
<1>2. Buffered \subseteq Buffered' \cup {Head(buffer)}
  <2> SUFFICES ASSUME NEW i \in 1..Len(buffer)
               PROVE  buffer[i] \in Buffered' \cup {Head(buffer)}
    BY <1>1 DEF Buffered
  <2>1. CASE i = 1
    BY <1>1, <2>1
  <2>2. CASE i # 1
    <3>1. i - 1 \in 1..(Len(buffer) - 1) /\ Tail(buffer)[i - 1] = buffer[i]
      BY <1>1, <2>2
    <3> QED
      BY <1>1, <3>1 DEF Buffered
  <2> QED
    BY <2>1, <2>2
<1>3. (Tail(buffer) # <<>>) <=> Len(buffer) > 1
  <2>1. Len(Tail(buffer)) = Len(buffer) - 1
    OBVIOUS
  <2>2. Tail(buffer) = <<>> => Len(buffer) = 1
    BY <1>1, <2>1
  <2>3. Len(Tail(buffer)) = 0 => Tail(buffer) = <<>>
    BY <1>1
  <2> QED
    BY <1>1, <2>1, <2>2, <2>3
<1> QED
  BY <1>1, <1>2, <1>3

\* Every step keeps the types.
LEMMA SinkTypeStep ==
  ASSUME TypeOK, FlusherRuns, [Next]_vars
  PROVE  TypeOK'
<1>1. ASSUME NEW e \in Event, Emit(e) \/ PublishAccepted(e) PROVE TypeOK'
  <2>1. CASE Emit(e)
    BY <2>1 DEF TypeOK, Emit
  <2>2. CASE PublishAccepted(e)
    <3>1. UNCHANGED <<emitted, buffer, flusher, dropped, mode, proc, budget, lostReplies>>
      BY <2>2 DEF PublishAccepted
    <3>2. inflight' \subseteq Event /\ stream' \in [Event -> Nat]
      BY <2>2 DEF TypeOK, PublishAccepted
    <3> QED
      BY <3>1, <3>2 DEF TypeOK
  <2> QED
    BY <1>1, <2>1, <2>2
<1>2. ASSUME NEW e \in Event, PublishRefused(e) PROVE TypeOK'
  <2>1. /\ inflight' \subseteq Event
        /\ UNCHANGED <<emitted, stream, mode, proc, budget, lostReplies>>
    BY <1>2 DEF TypeOK, PublishRefused
  <2>2. buffer' = buffer \/ buffer' = Append(buffer, e)
    BY <1>2 DEF PublishRefused, BufferEvent
  <2>3. buffer' \in Seq(Event)
    BY <2>2, AppendBuffer DEF TypeOK
  <2>4. flusher' \in {"idle", "publish", "sleep"} /\ dropped' \in Nat
    BY <1>2 DEF TypeOK, PublishRefused, BufferEvent
  <2> QED
    BY <2>1, <2>3, <2>4 DEF TypeOK
<1>3. CASE FlushAccepted
  <2>1. /\ buffer # <<>> /\ buffer \in Seq(Event)
        /\ buffer' = Tail(buffer) /\ flusher' \in {"idle", "publish"}
        /\ UNCHANGED <<emitted, inflight, dropped, mode, proc, budget, lostReplies>>
    BY <1>3 DEF TypeOK, FlushAccepted, FlusherRuns
  <2>2. Head(buffer) \in Event /\ buffer' \in Seq(Event)
    BY <2>1
  <2>3. stream' \in [Event -> Nat]
    BY <1>3, <2>2 DEF TypeOK, FlushAccepted
  <2> QED
    BY <2>1, <2>2, <2>3 DEF TypeOK
<1>4. CASE FlushRefused \/ FlushAgain \/ Recover
  BY <1>4 DEF TypeOK, FlushRefused, FlushAgain, Recover
<1>5. CASE Refuse \/ Disconnect
  BY <1>5 DEF TypeOK, Refuse, Disconnect, Fault
<1>8. CASE Shutdown
  <2>1. buffer' \in Seq(Event) /\ inflight' \subseteq Event
    BY <1>8 DEF Shutdown
  <2> QED
    BY <1>8, <2>1 DEF TypeOK, Shutdown, Fault
<1>6. CASE ReplyLost
  <2>1. stream' \in [Event -> Nat] /\ lostReplies' \in [Event -> Nat]
    BY <1>6 DEF ReplyLost, TypeOK
  <2> QED
    BY <1>6, <2>1 DEF TypeOK, ReplyLost, Fault
<1>7. CASE UNCHANGED vars
  BY <1>7 DEF TypeOK, vars
<1> QED
  BY <1>1, <1>2, <1>3, <1>4, <1>5, <1>6, <1>7, <1>8 DEF Next

\* Every step keeps the flush loop running exactly while it is needed.
LEMMA FlusherStep ==
  ASSUME TypeOK, FlusherRuns, [Next]_vars
  PROVE  FlusherRuns'
<1>1. ASSUME NEW e \in Event, Emit(e) \/ PublishAccepted(e) PROVE FlusherRuns'
  BY <1>1 DEF FlusherRuns, Emit, PublishAccepted
<1>2. ASSUME NEW e \in Event, PublishRefused(e) PROVE FlusherRuns'
  BY <1>2, AppendBuffer DEF TypeOK, FlusherRuns, PublishRefused, BufferEvent
<1>3. CASE FlushAccepted
  BY <1>3, ShiftBuffer DEF TypeOK, FlusherRuns, FlushAccepted
<1>4. CASE FlushRefused \/ FlushAgain \/ Recover \/ Refuse \/ Disconnect \/ ReplyLost
  BY <1>4 DEF FlusherRuns, FlushRefused, FlushAgain, Recover, Refuse, Disconnect, ReplyLost
<1>5. CASE Shutdown
  BY <1>5 DEF FlusherRuns, Shutdown
<1>6. CASE UNCHANGED vars
  BY <1>6 DEF FlusherRuns, vars
<1> QED
  BY <1>1, <1>2, <1>3, <1>4, <1>5, <1>6 DEF Next

LEMMA SinkTypes == Spec => [](TypeOK /\ FlusherRuns)
<1>1. Init => TypeOK /\ FlusherRuns
  BY BoundAssumption DEF Init, TypeOK, FlusherRuns
<1>2. TypeOK /\ FlusherRuns /\ [Next]_vars => TypeOK' /\ FlusherRuns'
  BY SinkTypeStep, FlusherStep
<1> QED
  BY <1>1, <1>2, PTL DEF Spec

\* A retry buffer that holds events always has its flush loop, and the loop
\* never outlives them, shutdown and every fault of Redis included.
THEOREM FlushLoopRuns == Spec => []FlusherRuns
  BY SinkTypes, PTL

---------------------------------------------------------------------------
(* Counted losses *)

\* Only finitely many events have been emitted, so losses can be counted.
LossInv == IsFiniteSet(emitted) /\ EveryLossCounted

\* No step but a shutdown loses an event, except one the buffer has no room
\* for, and that one is counted.
LEMMA LostStep ==
  ASSUME TypeOK, FlusherRuns, [Next]_vars, proc' = "up"
  PROVE  \/ Lost' \subseteq Lost /\ dropped' = dropped
         \/ \E e \in Event : Lost' \subseteq Lost \cup {e} /\ dropped' = dropped + 1
<1>1. ASSUME NEW e \in Event, Emit(e) PROVE Lost' \subseteq Lost /\ dropped' = dropped
  BY <1>1 DEF Emit, Lost, Buffered
<1>2. ASSUME NEW e \in Event, PublishAccepted(e)
      PROVE  Lost' \subseteq Lost /\ dropped' = dropped
  BY <1>2 DEF PublishAccepted, Lost, Buffered, TypeOK
<1>3. ASSUME NEW e \in Event, PublishRefused(e)
      PROVE  \/ Lost' \subseteq Lost /\ dropped' = dropped
             \/ Lost' \subseteq Lost \cup {e} /\ dropped' = dropped + 1
  <2>1. CASE Len(buffer) >= MaxBuffer
    BY <1>3, <2>1 DEF PublishRefused, BufferEvent, Lost, Buffered
  <2>2. CASE ~(Len(buffer) >= MaxBuffer)
    <3>1. Buffered' = Buffered \cup {e} /\ dropped' = dropped
      BY <1>3, <2>2, AppendBuffer DEF PublishRefused, BufferEvent, TypeOK
    <3> QED
      BY <1>3, <3>1 DEF PublishRefused, Lost
  <2> QED
    BY <2>1, <2>2
<1>4. CASE FlushAccepted
  <2>1. Head(buffer) \in Event /\ Buffered \subseteq Buffered' \cup {Head(buffer)}
    BY <1>4, ShiftBuffer DEF FlushAccepted, FlusherRuns, TypeOK
  <2> QED
    BY <1>4, <2>1 DEF FlushAccepted, Lost, TypeOK
<1>5. CASE FlushRefused \/ FlushAgain \/ Recover \/ Refuse \/ Disconnect
  BY <1>5 DEF FlushRefused, FlushAgain, Recover, Refuse, Disconnect, Lost, Buffered
<1>6. CASE ReplyLost
  <2>1. PICK S : stream' = [e \in Event |-> IF e \in S THEN stream[e] + 1 ELSE stream[e]]
    BY <1>6 DEF ReplyLost
  <2>2. \A e \in Event : stream'[e] = 0 => stream[e] = 0
    BY <2>1 DEF TypeOK
  <2> QED
    BY <1>6, <2>2 DEF ReplyLost, Lost, Buffered, TypeOK
<1>7. CASE Shutdown
  BY <1>7 DEF Shutdown
<1>8. CASE UNCHANGED vars
  BY <1>8 DEF vars, Lost, Buffered
<1> QED
  BY <1>1, <1>2, <1>3, <1>4, <1>5, <1>6, <1>7, <1>8 DEF Next

LEMMA EmittedFinite ==
  ASSUME IsFiniteSet(emitted), [Next]_vars
  PROVE  IsFiniteSet(emitted')
<1>1. emitted' = emitted \/ \E e \in Event : emitted' = emitted \cup {e}
  BY DEF Next, vars, Emit, PublishAccepted, PublishRefused, FlushAccepted, FlushRefused,
         FlushAgain, Refuse, Disconnect, ReplyLost, Recover, Shutdown
<1>2. ASSUME NEW e \in Event, emitted' = emitted \cup {e} PROVE IsFiniteSet(emitted')
  BY <1>2, FS_AddElement
<1> QED
  BY <1>1, <1>2

\* Counted steps keep the balance; after a shutdown there is none to keep.
LEMMA LossStep ==
  ASSUME TypeOK, FlusherRuns, LossInv, [Next]_vars
  PROVE  LossInv'
<1>1. IsFiniteSet(emitted')
  BY EmittedFinite DEF LossInv
<1>2. SUFFICES ASSUME proc' = "up"
               PROVE  Cardinality(Lost') <= dropped'
  BY <1>1 DEF LossInv, EveryLossCounted
<1>3. proc = "up"
  BY <1>2 DEF Next, vars, Emit, PublishAccepted, PublishRefused, FlushAccepted,
              FlushRefused, FlushAgain, Refuse, Disconnect, ReplyLost, Recover, Shutdown
<1>4. IsFiniteSet(Lost) /\ Cardinality(Lost) \in Nat /\ Cardinality(Lost) <= dropped
  <2>1. Lost \subseteq emitted
    BY DEF Lost
  <2> QED
    BY <1>3, <2>1, FS_Subset, FS_CardinalityType DEF LossInv, EveryLossCounted
<1>5. CASE Lost' \subseteq Lost /\ dropped' = dropped
  <2>1. IsFiniteSet(Lost') /\ Cardinality(Lost') \in Nat
        /\ Cardinality(Lost') <= Cardinality(Lost)
    BY <1>4, <1>5, FS_Subset, FS_CardinalityType
  <2> QED
    BY <1>4, <1>5, <2>1 DEF TypeOK
<1>6. ASSUME NEW e \in Event, Lost' \subseteq Lost \cup {e}, dropped' = dropped + 1
      PROVE  Cardinality(Lost') <= dropped'
  <2>1. IsFiniteSet(Lost \cup {e}) /\ Cardinality(Lost \cup {e}) \in Nat
        /\ Cardinality(Lost \cup {e}) <= Cardinality(Lost) + 1
    <3>1. /\ IsFiniteSet(Lost \cup {e})
          /\ \/ Cardinality(Lost \cup {e}) = Cardinality(Lost)
             \/ Cardinality(Lost \cup {e}) = Cardinality(Lost) + 1
      BY <1>4, FS_AddElement
    <3>2. Cardinality(Lost \cup {e}) \in Nat
      BY <3>1, FS_CardinalityType
    <3> QED
      BY <1>4, <3>1, <3>2
  <2>2. IsFiniteSet(Lost') /\ Cardinality(Lost') \in Nat
        /\ Cardinality(Lost') <= Cardinality(Lost \cup {e})
    BY <1>6, <2>1, FS_Subset, FS_CardinalityType
  <2>3. dropped \in Nat
    BY DEF TypeOK
  <2> QED
    BY <1>4, <1>6, <2>1, <2>2, <2>3
<1> QED
  BY <1>2, <1>5, <1>6, LostStep

\* While the gateway process lives, an emitted event is in the client, in the
\* buffer or in the stream, or the loss counter accounts for it, whatever
\* Redis does.
THEOREM LossesAreCounted == Spec => []EveryLossCounted
<1>1. Init => LossInv
  <2>1. Init => emitted = {} /\ Lost = {} /\ dropped = 0
    BY DEF Init, Lost
  <2> QED
    BY <2>1, FS_EmptySet DEF LossInv, EveryLossCounted
<1>2. TypeOK /\ FlusherRuns /\ LossInv /\ [Next]_vars => LossInv'
  BY LossStep
<1>3. LossInv => EveryLossCounted
  BY DEF LossInv
<1> QED
  BY <1>1, <1>2, <1>3, SinkTypes, PTL DEF Spec

---------------------------------------------------------------------------
(* Duplicates *)

\* The inductive invariant behind NoDuplicates, without counting: only emitted
\* events are on their way or in the stream, none is in two slots of the buffer,
\* or in the buffer and with the client, and each entry in the stream beyond the
\* first stands for a lost answer.
OnItsWay(e) == e \in inflight \/ e \in Buffered

OnceInv ==
  /\ \A i, j \in DOMAIN buffer : buffer[i] = buffer[j] => i = j
  /\ \A e \in inflight : e \notin Buffered
  /\ \A e \in Event \ emitted : ~OnItsWay(e) /\ stream[e] = 0
  /\ \A e \in Event : stream[e] <= (IF OnItsWay(e) THEN 0 ELSE 1) + lostReplies[e]

\* An event that waits nowhere else waits once.
LEMMA WaitingOnce ==
  ASSUME TypeOK, OnceInv, NEW e \in Event
  PROVE  Waiting(e) = IF OnItsWay(e) THEN 1 ELSE 0
<1> DEFINE S == {i \in DOMAIN buffer : buffer[i] = e}
<1>1. CASE e \in Buffered
  <2>1. PICK i \in DOMAIN buffer : buffer[i] = e
    BY <1>1 DEF Buffered
  <2>2. S = {i}
    BY <2>1 DEF OnceInv
  <2>3. Cardinality(S) = 1
    BY <2>2, FS_Singleton, Zenon
  <2>4. e \notin inflight
    BY <1>1 DEF OnceInv
  <2> QED
    BY <1>1, <2>3, <2>4 DEF Waiting, OnItsWay
<1>2. CASE e \notin Buffered
  <2>1. S = {}
    BY <1>2 DEF Buffered
  <2>2. Cardinality(S) = 0
    BY <2>1, FS_EmptySet
  <2> QED
    BY <1>2, <2>2 DEF Waiting, OnItsWay
<1> QED
  BY <1>1, <1>2

\* Steps that move no event.
LEMMA OnceStill ==
  ASSUME OnceInv, UNCHANGED <<emitted, inflight, buffer, stream, lostReplies>>
  PROVE  OnceInv'
  BY DEF OnceInv, OnItsWay, Buffered

\* The head of the buffer is in no other slot: it leaves the buffer when shifted.
LEMMA ShiftOnce ==
  ASSUME TypeOK, OnceInv, buffer # <<>>, buffer' = Tail(buffer)
  PROVE  /\ Buffered' = Buffered \ {Head(buffer)}
         /\ Head(buffer) \in Buffered
         /\ \A i, j \in DOMAIN buffer' : buffer'[i] = buffer'[j] => i = j
<1>1. /\ Head(buffer) = buffer[1] /\ 1 \in DOMAIN buffer
      /\ Len(buffer) \in Nat /\ DOMAIN buffer = 1..Len(buffer)
      /\ DOMAIN buffer' = 1..(Len(buffer) - 1)
      /\ \A i \in 1..(Len(buffer) - 1) : buffer'[i] = buffer[i + 1]
  BY DEF TypeOK
<1>2. \A i \in DOMAIN buffer' : i + 1 \in DOMAIN buffer /\ i + 1 # 1 /\ buffer'[i] = buffer[i + 1]
  BY <1>1
<1>3. \A i \in DOMAIN buffer \ {1} : i - 1 \in DOMAIN buffer' /\ buffer'[i - 1] = buffer[i]
  BY <1>1
<1>4. \A i, j \in DOMAIN buffer' : buffer'[i] = buffer'[j] => i = j
  <2> SUFFICES ASSUME NEW i \in DOMAIN buffer', NEW j \in DOMAIN buffer', buffer'[i] = buffer'[j]
               PROVE  i = j
    OBVIOUS
  <2>1. i + 1 = j + 1
    BY <1>2 DEF OnceInv
  <2> QED
    BY <1>1, <2>1
<1>5. Buffered' \subseteq Buffered \ {Head(buffer)}
  <2> SUFFICES ASSUME NEW i \in DOMAIN buffer' PROVE buffer'[i] \in Buffered \ {Head(buffer)}
    BY DEF Buffered
  <2> QED
    BY <1>1, <1>2 DEF OnceInv, Buffered
<1>6. Buffered \ {Head(buffer)} \subseteq Buffered'
  BY <1>1, <1>3 DEF Buffered
<1> QED
  BY <1>1, <1>4, <1>5, <1>6 DEF Buffered

LEMMA OnceStep ==
  ASSUME TypeOK, FlusherRuns, OnceInv, [Next]_vars
  PROVE  OnceInv'
<1>0. /\ stream \in [Event -> Nat] /\ lostReplies \in [Event -> Nat]
      /\ inflight \subseteq Event /\ Buffered \subseteq Event
  BY DEF TypeOK, Buffered
<1>1. ASSUME NEW e \in Event, Emit(e) PROVE OnceInv'
  <2>1. UNCHANGED <<buffer, stream, lostReplies>> /\ Buffered' = Buffered
    BY <1>1 DEF Emit, Buffered
  <2> QED
    BY <1>0, <1>1, <2>1 DEF OnceInv, OnItsWay, Emit
<1>2. ASSUME NEW e \in Event, PublishAccepted(e) PROVE OnceInv'
  <2>1. Buffered' = Buffered
    BY <1>2 DEF PublishAccepted, Buffered
  <2> QED
    BY <1>0, <1>2, <2>1 DEF OnceInv, OnItsWay, PublishAccepted
<1>3. ASSUME NEW e \in Event, PublishRefused(e) PROVE OnceInv'
  <2>1. CASE Len(buffer) >= MaxBuffer
    <3>1. buffer' = buffer /\ Buffered' = Buffered
      BY <1>3, <2>1 DEF PublishRefused, BufferEvent, Buffered
    <3> QED
      BY <1>0, <1>3, <3>1 DEF OnceInv, OnItsWay, PublishRefused
  <2>2. CASE ~(Len(buffer) >= MaxBuffer)
    <3>1. buffer' = Append(buffer, e) /\ e \notin Buffered /\ e \in inflight /\ inflight' = inflight \ {e}
      BY <1>3, <2>2 DEF PublishRefused, BufferEvent, OnceInv
    <3>2. Buffered' = Buffered \cup {e}
      BY <3>1, AppendBuffer DEF TypeOK
    <3>3. \A i, j \in DOMAIN buffer' : buffer'[i] = buffer'[j] => i = j
      <4>1. /\ DOMAIN buffer' = DOMAIN buffer \cup {Len(buffer) + 1}
            /\ buffer'[Len(buffer) + 1] = e
            /\ \A i \in DOMAIN buffer : buffer'[i] = buffer[i]
        BY <3>1 DEF TypeOK
      <4>2. \A i \in DOMAIN buffer : buffer[i] # e
        BY <3>1 DEF Buffered
      <4> QED
        BY <4>1, <4>2 DEF OnceInv
    <3>4. UNCHANGED <<emitted, stream, lostReplies>>
      BY <1>3 DEF PublishRefused
    <3> QED
      BY <1>0, <3>1, <3>2, <3>3, <3>4 DEF OnceInv, OnItsWay
  <2> QED
    BY <2>1, <2>2
<1>4. CASE FlushAccepted
  <2>1. /\ Buffered' = Buffered \ {Head(buffer)} /\ Head(buffer) \in Buffered
        /\ \A i, j \in DOMAIN buffer' : buffer'[i] = buffer'[j] => i = j
    BY <1>4, ShiftOnce DEF FlushAccepted, FlusherRuns
  <2>2. Head(buffer) \notin inflight
    BY <2>1 DEF OnceInv
  <2>3. UNCHANGED <<emitted, inflight, lostReplies>> /\ stream' = [stream EXCEPT ![Head(buffer)] = @ + 1]
    BY <1>4 DEF FlushAccepted
  <2> QED
    BY <1>0, <2>1, <2>2, <2>3 DEF OnceInv, OnItsWay
<1>5. CASE FlushRefused \/ FlushAgain \/ Recover \/ UNCHANGED vars
  BY <1>5, OnceStill DEF FlushRefused, FlushAgain, Recover, vars
<1>6. CASE Refuse \/ Disconnect
  BY <1>6, OnceStill DEF Refuse, Disconnect
<1>7. CASE ReplyLost
  <2>1. PICK S \in SUBSET Unanswered \ {{}} :
          /\ stream' = [e \in Event |-> IF e \in S THEN stream[e] + 1 ELSE stream[e]]
          /\ lostReplies' = [e \in Event |-> IF e \in S THEN lostReplies[e] + 1 ELSE lostReplies[e]]
    BY <1>7 DEF ReplyLost
  <2>2. flusher = "publish" => Head(buffer) \in Buffered
    <3>1. flusher = "publish" => 1 \in DOMAIN buffer /\ Head(buffer) = buffer[1]
      BY DEF FlusherRuns, TypeOK
    <3> QED
      BY <3>1 DEF Buffered
  <2>3. \A e \in S : OnItsWay(e)
    BY <2>1, <2>2 DEF OnItsWay, Unanswered
  <2>4. UNCHANGED <<emitted, inflight, buffer>> /\ Buffered' = Buffered
    BY <1>7 DEF ReplyLost, Buffered
  <2>5. \A e \in Event : /\ e \in S => stream'[e] = stream[e] + 1 /\ lostReplies'[e] = lostReplies[e] + 1
                         /\ e \notin S => stream'[e] = stream[e] /\ lostReplies'[e] = lostReplies[e]
    BY <2>1
  <2>6. \A e \in Event \ emitted : stream'[e] = 0
    BY <2>3, <2>5 DEF OnceInv
  <2>7. \A e \in Event : stream'[e] <= (IF OnItsWay(e) THEN 0 ELSE 1) + lostReplies'[e]
    BY <1>0, <2>5 DEF OnceInv
  <2> QED
    BY <2>4, <2>6, <2>7 DEF OnceInv, OnItsWay
<1>8. CASE Shutdown
  <2>1. inflight' = {} /\ buffer' = <<>> /\ Buffered' = {}
    BY <1>8 DEF Shutdown, Buffered
  <2>2. UNCHANGED <<emitted, stream, lostReplies>>
    BY <1>8 DEF Shutdown
  <2> QED
    BY <1>0, <2>1, <2>2 DEF OnceInv, OnItsWay
<1> QED
  BY <1>1, <1>2, <1>3, <1>4, <1>5, <1>6, <1>7, <1>8 DEF Next

\* The sink never duplicates an event: it waits in one place only, through
\* refusals, retries and reconnections, and each further entry in the stream
\* stands for an answer to an XADD of that event that was lost.
THEOREM SinkSendsOnce == Spec => []NoDuplicates
<1>1. Init => OnceInv
  BY DEF Init, OnceInv, OnItsWay, Buffered
<1>2. TypeOK /\ FlusherRuns /\ OnceInv /\ [Next]_vars => OnceInv'
  BY OnceStep
<1>3. TypeOK /\ OnceInv => NoDuplicates
  <2> SUFFICES ASSUME TypeOK, OnceInv, NEW e \in Event
               PROVE  Waiting(e) <= 1 /\ Waiting(e) + stream[e] <= 1 + lostReplies[e]
    BY DEF NoDuplicates
  <2>1. Waiting(e) = IF OnItsWay(e) THEN 1 ELSE 0
    BY WaitingOnce
  <2>2. stream[e] <= (IF OnItsWay(e) THEN 0 ELSE 1) + lostReplies[e]
    BY DEF OnceInv
  <2>3. stream[e] \in Nat /\ lostReplies[e] \in Nat
    BY DEF TypeOK
  <2> QED
    BY <2>1, <2>2, <2>3
<1> QED
  BY <1>1, <1>2, <1>3, SinkTypes, PTL DEF Spec
=============================================================================
