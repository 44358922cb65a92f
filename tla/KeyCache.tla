------------------------------ MODULE KeyCache ------------------------------
(***************************************************************************)
(* The two-tier virtual-key cache of the gateways (CachedKeyStore in        *)
(* apps/gateway/src/stores/cached.ts) and the control-plane handlers that   *)
(* change a key under it (apps/api/src/modules/keys.ts, org.ts).            *)
(*                                                                          *)
(* One key is followed through one change of its row, from "old" to "new"   *)
(* (revoked, edited or deleted).  Instants are kept as the time left to an  *)
(* expiry and the time since a start, so time itself needs no bound.  A     *)
(* lookup is a sequence of steps that other lookups, the handler and the    *)
(* pub/sub messages interleave with.                                        *)
(***************************************************************************)
EXTENDS Naturals

CONSTANTS
  Gateway,    \* gateway processes
  Lookup,     \* concurrent calls of resolve
  GatewayOf,  \* [Lookup -> Gateway]
  LocalTTL,   \* LOCAL_TTL_MS
  RedisTTL,   \* REDIS_TTL_S
  MaxDelay,   \* how long one lookup may take
  CacheFaults      \* "message" (a pub/sub message is lost), "redis" (a command fails)

ASSUME CacheAssumption ==
  /\ GatewayOf \in [Lookup -> Gateway]
  /\ LocalTTL \in Nat
  /\ RedisTTL \in Nat
  /\ MaxDelay \in Nat
  /\ CacheFaults \subseteq {"message", "redis"}

VARIABLES
  row,     \* the row of virtual_key in Postgres
  api,     \* progress of the handler that changes it
  since,   \* time since that handler answered
  shared,  \* the Redis entry vk:<hash>: value and time to live
  local,   \* each gateway's in-process entry
  inbox,   \* gateways that an invalidation message is on its way to
  dels,    \* gateways whose DEL after such a message is on its way
  pc,      \* where each lookup is
  age,     \* time since resolve captured now
  got,     \* the value a lookup carries
  raced    \* a lookup held the old row when it changed

caches    == <<shared, local, inbox, dels>>
lookups   == <<pc, age, got>>
handler   == <<row, api, since, raced>>
cacheVars == <<row, api, since, shared, local, inbox, dels, pc, age, got, raced>>

Value  == {"old", "new"}
Entry  == [val : Value, ttl : Nat]
Absent == [val |-> "new", ttl |-> 0]

\* How long a value survives its last copy from Redis: as an in-process entry
\* or in the hands of a slow lookup.
Residence == IF LocalTTL < MaxDelay THEN MaxDelay ELSE LocalTTL

\* How long a change can go unnoticed: a lookup that read the old row just
\* before may write it to Redis MaxDelay later, where it lives RedisTTL and
\* can be copied once more.
StaleBound == MaxDelay + RedisTTL + Residence

CacheInit ==
  /\ row = "old"
  /\ api = "idle"
  /\ since = 0
  /\ shared = Absent
  /\ local = [g \in Gateway |-> Absent]
  /\ inbox = {}
  /\ dels = {}
  /\ pc = [r \in Lookup |-> "idle"]
  /\ age = [r \in Lookup |-> 0]
  /\ got = [r \in Lookup |-> "new"]
  /\ raced = FALSE

---------------------------------------------------------------------------
(* CachedKeyStore.resolve *)

\* resolve may answer v now: from the in-process entry, or at the end of a
\* lookup.
Answers(r, v) ==
  \/ /\ pc[r] = "idle"
     /\ local[GatewayOf[r]].ttl > 0
     /\ local[GatewayOf[r]].val = v
  \/ pc[r] \in {"hit", "set"} /\ got[r] = v

Return(r) ==
  /\ pc' = [pc EXCEPT ![r] = "idle"]
  /\ age' = [age EXCEPT ![r] = 0]
  /\ got' = [got EXCEPT ![r] = "new"]

\* No unexpired in-process entry: the lookup goes to Redis.
LocalMiss(r) ==
  /\ pc[r] = "idle"
  /\ local[GatewayOf[r]].ttl = 0
  /\ pc' = [pc EXCEPT ![r] = "get"]
  /\ UNCHANGED <<handler, caches, age, got>>

\* GET hits, or misses, or fails and the lookup falls through to Postgres.
RedisGet(r) ==
  /\ pc[r] = "get"
  /\ \/ /\ shared.ttl > 0
        /\ got' = [got EXCEPT ![r] = shared.val]
        /\ pc' = [pc EXCEPT ![r] = "hit"]
     \/ /\ shared.ttl = 0 \/ "redis" \in CacheFaults
        /\ pc' = [pc EXCEPT ![r] = "query"]
        /\ UNCHANGED got
  /\ UNCHANGED <<handler, caches, age>>

\* expiresAt counts from the moment resolve was entered.
SetLocal(r) ==
  local' = [local EXCEPT ![GatewayOf[r]] =
              IF age[r] < LocalTTL THEN [val |-> got[r], ttl |-> LocalTTL - age[r]]
                                   ELSE Absent]

\* The reply of GET arrives: fill the in-process entry and return.
RedisHit(r) ==
  /\ pc[r] = "hit"
  /\ SetLocal(r)
  /\ Return(r)
  /\ UNCHANGED <<handler, shared, inbox, dels>>

\* inner.resolve reads the row ...
DbQuery(r) ==
  /\ pc[r] = "query"
  /\ got' = [got EXCEPT ![r] = row]
  /\ pc' = [pc EXCEPT ![r] = "fill"]
  /\ UNCHANGED <<handler, caches, age>>

\* ... its reply fills the in-process entry and SET is sent ...
FillLocal(r) ==
  /\ pc[r] = "fill"
  /\ SetLocal(r)
  /\ pc' = [pc EXCEPT ![r] = "set"]
  /\ UNCHANGED <<handler, shared, inbox, dels, age, got>>

\* Faulty variant: SET without EX.
RedisSetForever(r) ==
  /\ pc[r] = "set"
  /\ shared' = [val |-> got[r], ttl |-> RedisTTL + StaleBound]
  /\ Return(r)
  /\ UNCHANGED <<handler, local, inbox, dels>>

\* ... and resolve returns once SET has run or failed.
RedisSet(r) ==
  /\ pc[r] = "set"
  /\ \/ shared' = [val |-> got[r], ttl |-> RedisTTL]
     \/ "redis" \in CacheFaults /\ UNCHANGED shared
  /\ Return(r)
  /\ UNCHANGED <<handler, local, inbox, dels>>

---------------------------------------------------------------------------
(* The control plane: revoke and PATCH of a key *)

ChangeRow ==
  /\ api = "idle"
  /\ row' = "new"
  /\ api' = "updated"
  /\ raced' = \E r \in Lookup : pc[r] \in {"fill", "set"}
  /\ UNCHANGED <<since, caches, lookups>>

\* Faulty variant: the handler leaves the Redis entry to the gateways.
ApiNoDel ==
  /\ api = "updated"
  /\ api' = "deleted"
  /\ UNCHANGED <<row, since, raced, caches, lookups>>

ApiDel ==
  /\ api = "updated"
  /\ shared' = Absent
  /\ api' = "deleted"
  /\ UNCHANGED <<row, since, raced, local, inbox, dels, lookups>>

ApiPublish ==
  /\ api = "deleted"
  /\ inbox' = Gateway
  /\ api' = "done"
  /\ UNCHANGED <<row, since, raced, shared, local, dels, lookups>>

\* DEL or PUBLISH fails: the handler logs it and answers.
ApiGivesUp ==
  /\ "redis" \in CacheFaults
  /\ api \in {"updated", "deleted"}
  /\ api' = "failed"
  /\ UNCHANGED <<row, since, raced, caches, lookups>>

\* DELETE of a project removes its keys and tells no gateway.
DeleteProject ==
  /\ api = "idle"
  /\ row' = "new"
  /\ api' = "failed"
  /\ UNCHANGED <<since, raced, caches, lookups>>

---------------------------------------------------------------------------
(* subscribeInvalidations *)

\* pmessage: drop the in-process entry and send a DEL to Redis.
Invalidate(g) ==
  /\ g \in inbox
  /\ inbox' = inbox \ {g}
  /\ local' = [local EXCEPT ![g] = Absent]
  /\ dels' = dels \cup {g}
  /\ UNCHANGED <<handler, shared, lookups>>

GatewayDel(g) ==
  /\ g \in dels
  /\ dels' = dels \ {g}
  /\ \/ shared' = Absent
     \/ "redis" \in CacheFaults /\ UNCHANGED shared
  /\ UNCHANGED <<handler, local, inbox, lookups>>

\* Pub/sub does not redeliver to a subscriber that was away.
MessageLost(g) ==
  /\ "message" \in CacheFaults
  /\ g \in inbox
  /\ inbox' = inbox \ {g}
  /\ UNCHANGED <<handler, shared, local, dels, lookups>>

---------------------------------------------------------------------------
Answered == api \in {"done", "failed"}

Aged(entry) == IF entry.ttl > 1 THEN [entry EXCEPT !.ttl = @ - 1] ELSE Absent

\* Time passes, but no lookup is left hanging for more than MaxDelay.  Beyond
\* StaleBound + 1 the time since the answer is no longer told apart.
Tick ==
  /\ \A r \in Lookup : pc[r] # "idle" => age[r] < MaxDelay
  /\ age' = [r \in Lookup |-> IF pc[r] = "idle" THEN 0 ELSE age[r] + 1]
  /\ since' = IF Answered /\ since <= StaleBound THEN since + 1 ELSE since
  /\ shared' = Aged(shared)
  /\ local' = [g \in Gateway |-> Aged(local[g])]
  /\ UNCHANGED <<row, api, raced, inbox, dels, pc, got>>

CacheNext ==
  \/ \E r \in Lookup :
       \/ LocalMiss(r) \/ RedisGet(r) \/ RedisHit(r)
       \/ DbQuery(r) \/ FillLocal(r) \/ RedisSet(r)
  \/ ChangeRow \/ ApiDel \/ ApiPublish \/ ApiGivesUp \/ DeleteProject
  \/ \E g \in Gateway : Invalidate(g) \/ GatewayDel(g) \/ MessageLost(g)
  \/ Tick

CacheSpec == CacheInit /\ [][CacheNext]_cacheVars

---------------------------------------------------------------------------
(* Properties *)

\* Every variable keeps its type: times to live are never negative and no
\* lookup is older than MaxDelay.
CacheTypeOK ==
  /\ row \in Value
  /\ api \in {"idle", "updated", "deleted", "done", "failed"}
  /\ since \in Nat
  /\ shared \in Entry
  /\ local \in [Gateway -> Entry]
  /\ inbox \subseteq Gateway
  /\ dels \subseteq Gateway
  /\ pc \in [Lookup -> {"idle", "get", "hit", "query", "fill", "set"}]
  /\ age \in [Lookup -> 0..MaxDelay]
  /\ got \in [Lookup -> Value]
  /\ raced \in BOOLEAN

AnswersOld == \E r \in Lookup : Answers(r, "old")

\* No gateway answers with the old row later than StaleBound after the handler
\* answered, even when Redis commands fail and messages are lost.
StaleAtMost == Answered /\ AnswersOld => since <= StaleBound

\* The change takes effect within LocalTTL (or the time one lookup takes), lost
\* messages included, when no lookup was between its query and its SET as the
\* row changed.
PromptUnlessRaced == api = "done" /\ ~raced /\ AnswersOld => since <= Residence
=============================================================================
