------------------------------ MODULE Metering ------------------------------
(***************************************************************************)
(* How the gateway meters a request it proxies: the body it sends upstream  *)
(* (proxy/pipeline.ts, proxy/unified.ts, packages/providers translate.ts),  *)
(* the stream that comes back in chunks (FrameTap in proxy/core.ts), the    *)
(* extractors of the adapters (packages/providers), the price               *)
(* (packages/pricing) and the event that EventFinalizer emits.  A frame is  *)
(* two bytes here, enough for a chunk to end inside it or inside one of its *)
(* multi-byte characters.                                                   *)
(***************************************************************************)
EXTENDS Integers, Sequences, SequencesExt, FiniteSets, FiniteSetsExt, Functions

CONSTANTS
  Calls,      \* what clients ask and providers answer
  Messages,   \* conversations of a chat request: sequences of roles
  Catalogs,   \* lists of price entries, as the catalog may be read
  Overrides,  \* lists of price entries that a workspace may have
  Pico        \* picoUSD in a unit of the event's numeric(14,8)

\* The frames that providers send; one may be sent on request only.
StreamFrame == UNION {ToSet(c.frames) : c \in Calls}
ProxyCall   == [provider : STRING, unified : BOOLEAN, streamed : BOOLEAN, model : Seq(STRING),
                sse : BOOLEAN, open : BOOLEAN, frames : Seq(StreamFrame),
                final : [{"input", "output", "cached"} -> Nat],
                json : BOOLEAN, messages : Seq(STRING)]

\* Model names and patterns are sequences; a pattern with a star is a prefix.
PriceEntry == [provider : STRING, pattern : Seq(STRING), star : BOOLEAN,
               input : Nat, output : Nat, cached : Nat]

ASSUME MeteringAssumption ==
  /\ Pico \in Nat \ {0}
  /\ Catalogs \cup Overrides \subseteq Seq(PriceEntry)
  /\ Messages \subseteq Seq(STRING)
  /\ Calls \subseteq ProxyCall
  /\ \A f \in StreamFrame : /\ {f.wide, f.onRequest} \subseteq BOOLEAN
                            /\ \A u \in DOMAIN f.usage : f.usage[u] \in Nat

VARIABLES
  call,       \* the request: provider, endpoint, the frames of the answer
  prices,     \* the gateway's snapshot of the price tables, as lists
  phase,      \* new, open (streaming), whole, done
  body,       \* the turns sent upstream
  stream,     \* the frames the provider sends
  at,         \* how many bytes of them have arrived
  pending,    \* FrameTap.pending
  meter,      \* the state of the usage extractor
  started,    \* the translator has seen message_start
  out,        \* what the client has received
  split,      \* frames with a character that two chunks shared
  recorded    \* the usage event, <<>> before finalize

meterVars == <<call, prices, phase, body, stream, at, pending, meter, started, out, split, recorded>>

\* A model is a sequence of letters, a usage a function on the fields it has.
NoUsage      == <<>>
NoMeter      == [model |-> <<>>, usage |-> NoUsage, seen |-> FALSE]
Field(u, f)  == IF f \in DOMAIN u THEN u[f] ELSE 0
Only(u, fs)  == [f \in DOMAIN u \cap fs |-> u[f]]
Over(u, v)   == [f \in DOMAIN u \cup DOMAIN v |-> IF f \in DOMAIN u THEN u[f] ELSE v[f]]
Or(a, b)     == IF a # <<>> THEN a ELSE b
OpenAiLike   == {"OPENAI", "DEEPSEEK", "OPENROUTER", "MINIMAX"}

MeterInit ==
  /\ call \in Calls
  /\ prices \in [catalog : Catalogs, overrides : Overrides]
  /\ phase = "new"
  /\ body = <<>> /\ stream = <<>> /\ pending = <<>> /\ out = <<>> /\ recorded = <<>>
  /\ at = 0
  /\ meter = NoMeter
  /\ started = FALSE
  /\ split = {}

---------------------------------------------------------------------------
(* The request *)

Numbered(messages) == [i \in DOMAIN messages |-> [role |-> messages[i], n |-> i]]

\* The items of a sequence at these places, in their order.
Filter(s, places) ==
  LET f[k \in 0..Len(s)] ==
        IF k = 0 THEN <<>> ELSE IF k \in places THEN Append(f[k - 1], s[k]) ELSE f[k - 1]
  IN  f[Len(s)]

\* messages.filter
OfRoles(m, roles) == Filter(m, {i \in DOMAIN m : m[i].role \in roles})

\* Faulty variant: the system messages stay among the turns.
AnthropicTurnsAll(m) == [system |-> <<>>, turns |-> m]

\* openaiToAnthropicRequest: system messages are joined, other roles dropped.
AnthropicTurns(m) ==
  [system |-> OfRoles(m, {"system"}), turns |-> OfRoles(m, {"user", "assistant"})]

\* openaiToGeminiRequest: the same, and the assistant is called model.
GeminiTurns(m) ==
  [AnthropicTurns(m) EXCEPT !.turns = [i \in DOMAIN @ |->
     IF @[i].role = "assistant" THEN [@[i] EXCEPT !.role = "model"] ELSE @[i]]]

\* ensureUsageInStream, for a body that is JSON.
AsksForUsage(provider, json) == json /\ provider \in OpenAiLike

\* What the provider sends back.
Sent(c, json) ==
  Filter(c.frames, {i \in DOMAIN c.frames : c.frames[i].onRequest => AsksForUsage(c.provider, json)})

\* The request goes upstream; a provider that must be asked for a usage frame
\* sends it only then.  The unified endpoint refuses a body that is not JSON
\* and a Gemini stream.
Forward(json, messages) ==
  /\ phase = "new"
  /\ call.unified => json /\ ~(call.provider = "GEMINI" /\ call.streamed)
  /\ phase' = IF call.streamed THEN "open" ELSE "whole"
  /\ call' = [call EXCEPT !.json = json, !.messages = messages]
  /\ body' = CASE call.unified /\ call.provider = "ANTHROPIC" -> AnthropicTurns(Numbered(messages))
               [] call.unified /\ call.provider = "GEMINI"    -> GeminiTurns(Numbered(messages))
               [] OTHER -> [system |-> <<>>, turns |-> Numbered(messages)]
  /\ stream' = Sent(call, json)
  /\ UNCHANGED <<prices, at, pending, meter, started, out, split, recorded>>

---------------------------------------------------------------------------
(* The extractors: what a frame that parses does to the meter *)

OpenAiFrame(x, f) ==
  [model |-> Or(f.model, x.model),
   usage |-> IF f.usage # NoUsage THEN f.usage ELSE x.usage,
   seen  |-> x.seen \/ f.usage # NoUsage]

\* modelVersion and usageMetadata, the last of which wins as well.
GeminiFrame(x, f) ==
  [model |-> Or(f.model, x.model),
   usage |-> IF f.usage # NoUsage THEN f.usage ELSE x.usage,
   seen  |-> x.seen \/ f.usage # NoUsage]

\* message_start has the model, input and cache; message_delta the output so far.
AnthropicFrame(x, f) ==
  CASE f.type = "message_start" -> [x EXCEPT !.model = Or(f.model, @), !.usage = Over(f.usage, @)]
    [] f.type = "message_delta" /\ f.usage # NoUsage ->
         [x EXCEPT !.usage = Over(Only(f.usage, {"output", "input"}), @), !.seen = TRUE]
    [] OTHER -> x

\* The line with done is the record; the model of an earlier line is kept till then.
OllamaFrame(x, f) ==
  IF f.type = "done" THEN [model |-> f.model, usage |-> f.usage, seen |-> TRUE]
                     ELSE [x EXCEPT !.model = Or(f.model, @)]

OnFrame(x, f) ==
  CASE call.provider = "ANTHROPIC" -> AnthropicFrame(x, f)
    [] call.provider = "GEMINI"    -> GeminiFrame(x, f)
    [] call.provider = "OLLAMA"    -> OllamaFrame(x, f)
    [] OTHER                       -> OpenAiFrame(x, f)

\* Ollama answers on its OpenAI-compatible path in a format its adapter cannot read.
Foreign(c) == c.provider = "OLLAMA" /\ c.unified

\* ssePayload, or JSON.parse of a line: a comment and [DONE] are no payload, and
\* neither is an SSE frame to the Ollama extractor.
HasPayload(c, f) == f.type \notin {"comment", "[DONE]"} /\ ~Foreign(c)

\* createAnthropicToOpenaiStream.onFrame, as the chunks it makes of a frame.
Translate(begun, i, whole) ==
  LET f == stream[i]
      Item(kind) == <<[kind |-> kind, frame |-> i, whole |-> whole]>>
  IN  CASE f.type = "message_start" /\ ~begun -> Item("role")
        [] f.type = "content_block_delta"     -> Item("text")
        [] f.type = "message_delta"           -> Item("finish")
        [] f.type = "message_stop"            -> Item("done")
        [] OTHER                              -> <<>>

---------------------------------------------------------------------------
(* FrameTap *)

NL         == <<0, 0>>
Delimiter  == IF call.sse THEN <<NL, NL>> ELSE <<NL>>
Translated == call.unified /\ call.provider = "ANTHROPIC"

\* The bytes of the stream: two of each frame, then the delimiter; the last frame
\* may come without one.
Width == 2 + Len(Delimiter)
Bytes ==
  LET open == IF call.open /\ stream # <<>> THEN Len(Delimiter) ELSE 0
  IN  [p \in 1..(Len(stream) * Width - open) |->
         LET i == ((p - 1) \div Width) + 1
             b == ((p - 1) % Width) + 1
         IN  IF b <= 2 THEN <<i, b>> ELSE NL]

\* A character whose bytes are not all in the chunk becomes U+FFFD.
Halved(chunk, b) == b[1] > 0 /\ stream[b[1]].wide /\ ~({<<b[1], 1>>, <<b[1], 2>>} \subseteq ToSet(chunk))
Decode(chunk)    == [j \in DOMAIN chunk |-> IF Halved(chunk, chunk[j]) THEN <<chunk[j][1], 3>> ELSE chunk[j]]

\* Faulty variant: the text after the last delimiter is dropped.
RestNone(text, from) == <<>>

Rest(text, from) == SubSeq(text, from, Len(text))

\* The loop of _transform: frames up to each delimiter, and what stays pending.
Cut(text) ==
  LET n == Len(Delimiter)
      c[k \in 0..Len(text)] ==
        IF k = 0 THEN [frames |-> <<>>, from |-> 1]
        ELSE LET p == c[k - 1] IN
             IF k - n + 1 >= p.from /\ SubSeq(text, k - n + 1, k) = Delimiter
             THEN [frames |-> Append(p.frames, SubSeq(text, p.from, k - n)), from |-> k + 1]
             ELSE p
  IN  [frames |-> c[Len(text)].frames, pending |-> Rest(text, c[Len(text)].from)]

\* A text that is one whole frame, with its character intact or not.
IsFrame(text) ==
  /\ Len(text) = 2 /\ text[1][1] = text[2][1] /\ text[1][1] > 0
  /\ text[1][2] \in {1, 3} /\ text[2][2] \in {2, 3}

\* tapFrame and transformFrame of a text, errors swallowed (safeFrame).
Tap(s, text) ==
  IF ~IsFrame(text) \/ ~HasPayload(call, stream[text[1][1]]) THEN s
  ELSE LET i == text[1][1]
       IN  [meter   |-> OnFrame(s.meter, stream[i]),
            started |-> s.started \/ stream[i].type = "message_start",
            out     |-> IF Translated THEN s.out \o Translate(s.started, i, text[1][2] = 1) ELSE s.out]

TapAll(frames) ==
  LET t[k \in 0..Len(frames)] ==
        IF k = 0 THEN [meter |-> meter, started |-> started, out |-> out]
        ELSE Tap(t[k - 1], frames[k])
  IN  t[Len(frames)]

\* Faulty variant: the client gets the decoded text.
PassedText(chunk) == Decode(chunk)

\* Without a translator the chunk itself is passed on.
Passed(chunk) == chunk

\* _transform of the next n bytes.
Chunk(n) ==
  LET chunk == SubSeq(Bytes, at + 1, at + n)
      cut   == Cut(pending \o Decode(chunk))
      t     == TapAll(cut.frames)
  IN  /\ phase = "open" /\ at + n <= Len(Bytes)
      /\ at' = at + n
      /\ pending' = cut.pending
      /\ meter' = t.meter
      /\ started' = t.started
      /\ out' = IF Translated THEN t.out ELSE out \o Passed(chunk)
      /\ split' = split \cup {b[1] : b \in {b \in ToSet(chunk) : Halved(chunk, b)}}
      /\ UNCHANGED <<call, prices, phase, body, stream, recorded>>

---------------------------------------------------------------------------
(* The price *)

\* Faulty variant: the last pattern that matches wins.
LongerAny(best, e, model) == e.star /\ IsPrefix(e.pattern, model)

Longer(best, e, model) ==
  /\ e.star /\ IsPrefix(e.pattern, model)
  /\ best # <<>> => Len(e.pattern) > Len(best[1].pattern)

\* findIn: the first exact entry, else the longest prefix met; at most one.
FindIn(entries, model) ==
  LET own   == {i \in DOMAIN entries : entries[i].provider = call.provider}
      exact == {i \in own : ~entries[i].star /\ entries[i].pattern = model}
      best[k \in 0..Len(entries)] ==
        IF k = 0 THEN <<>>
        ELSE IF k \in own /\ Longer(best[k - 1], entries[k], model) THEN <<entries[k]>>
        ELSE best[k - 1]
  IN  IF exact # {} THEN <<entries[Min(exact)]>> ELSE best[Len(entries)]

\* matchPrice: the workspace's overrides before the catalog.
MatchPrice(model) ==
  LET override == FindIn(prices.overrides, model)
  IN  IF override # <<>> THEN override ELSE FindIn(prices.catalog, model)

\* normalizeOpenAiUsage, normalize: cached tokens are priced apart from the
\* others, and only Anthropic reports them apart.
Normalize(u) ==
  LET cached == Field(u, "cached")
  IN  [input  |-> IF call.provider = "ANTHROPIC" THEN Field(u, "input")
                  ELSE Max({0, Field(u, "input") - cached}),
       output |-> Field(u, "output"),
       cached |-> cached]

---------------------------------------------------------------------------
(* What the providers promise of their streams *)

\* A frame that tells a count of tokens: message_start and the message_deltas of
\* Anthropic have each their own, elsewhere a frame has all of them.
TellsCount(c, frame, count) ==
  /\ HasPayload(c, frame)
  /\ CASE c.provider = "ANTHROPIC" ->
            /\ count \in DOMAIN frame.usage
            /\ frame.type = "message_start" \/ (frame.type = "message_delta" /\ count # "cached")
       [] c.provider = "OLLAMA" -> frame.type = "done"
       [] OTHER                 -> frame.usage # NoUsage

\* A frame without which the counts are not final.
Closes(c, frame) ==
  /\ HasPayload(c, frame)
  /\ CASE c.provider = "ANTHROPIC" -> frame.type = "message_delta" /\ frame.usage # NoUsage
       [] c.provider = "OLLAMA"    -> frame.type = "done"
       [] OTHER                    -> frame.usage # NoUsage

\* The count that the last of the first n frames to tell it has.
Told(c, frames, n, count) ==
  LET places == {i \in 1..n : TellsCount(c, frames[i], count)}
  IN  IF places = {} THEN 0 ELSE Field(frames[Max(places)].usage, count)

\* A usage says the final counts in the provider's words: all but Anthropic count
\* the cached tokens as input as well; one that reports more of them than of
\* input has had no other input.
IsFinal(c, usage) ==
  /\ Field(usage, "output") = c.final.output
  /\ Field(usage, "cached") = c.final.cached
  /\ IF c.provider = "ANTHROPIC" THEN Field(usage, "input") = c.final.input
     ELSE \/ Field(usage, "input") = c.final.input + c.final.cached
          \/ Field(usage, "input") < c.final.cached /\ c.final.input = 0

\* The final counts are those told last, in a stream that JSON asked for or in a
\* whole body.
Reported(c, frames, json) ==
  IF c.streamed
  THEN LET closed == \E i \in 1..Len(frames) : Closes(c, frames[i])
       IN  /\ json /\ ~Foreign(c) => closed
           /\ closed => IsFinal(c, [t \in {"input", "output", "cached"} |->
                                     Told(c, frames, Len(frames), t)])
  ELSE /\ Len(frames) = 1
       /\ frames[1].usage # NoUsage => IsFinal(c, frames[1].usage)

ASSUME FinalAssumption == \A c \in Calls, json \in BOOLEAN : Reported(c, Sent(c, json), json)

---------------------------------------------------------------------------
(* The event *)

\* calculateCostUsd: exact in picoUSD, then cut to 8 places.
CalculateCostUsd(tokens, price) ==
  (tokens.input * price.input + tokens.output * price.output + tokens.cached * price.cached) \div Pico

\* Faulty variant: what an aborted stream has reported so far counts as final.
BasisIfSeen(complete, aborted) == IF complete THEN "ACTUAL" ELSE "ESTIMATED"

Basis(complete, aborted) == IF complete /\ ~aborted THEN "ACTUAL" ELSE "ESTIMATED"

\* requestModel: what the request names in its body, if that is JSON, or, of
\* Gemini, in its path.
RequestModel == IF call.json \/ call.provider = "GEMINI" THEN call.model ELSE <<>>

\* The model of the event.
RecordedModel(x) == Or(x.model, Or(RequestModel, <<"unknown">>))

\* EventFinalizer.finalize: without a price or a usage nothing is charged, not
\* even what the provider reports as its own cost.
Record(x, known, aborted) ==
  LET model  == RecordedModel(x)
      price  == MatchPrice(model)
      tokens == Normalize(x.usage)
      priced == known /\ price # <<>>
  IN  <<[model |-> model, tokens |-> tokens, price |-> price,
         costUsd |-> CASE ~priced -> 0
                       [] priced /\ "cost" \in DOMAIN x.usage -> x.usage["cost"]
                       [] OTHER -> CalculateCostUsd(tokens, price[1]),
         costBasis |-> IF priced THEN Basis(x.seen, aborted) ELSE "UNPRICED"]>>

\* _flush taps what is left, then the pipeline's callback finalizes.
End ==
  LET t == TapAll(IF pending # <<>> THEN <<pending>> ELSE <<>>)
  IN  /\ phase = "open" /\ at = Len(Bytes)
      /\ phase' = "done"
      /\ pending' = <<>>
      /\ meter' = t.meter
      /\ started' = t.started
      /\ out' = t.out
      /\ recorded' = Record(t.meter, TRUE, FALSE)
      /\ UNCHANGED <<call, prices, body, stream, at, split>>

\* The client goes away or the provider drops: no _flush.
Abort ==
  /\ phase = "open"
  /\ phase' = "aborted"
  /\ recorded' = Record(meter, TRUE, TRUE)
  /\ UNCHANGED <<call, prices, body, stream, at, pending, meter, started, out, split>>

\* parseUsage of a whole body.
ParseUsage(f) ==
  [model |-> f.model, usage |-> IF Foreign(call) THEN NoUsage ELSE f.usage,
   seen |-> ~Foreign(call) /\ f.usage # NoUsage]

\* A whole body is metered and, for the unified endpoint, rewritten to the shape
\* of OpenAI; one that is not JSON passes as it is, without usage.
Reply(json) ==
  LET x == IF json THEN ParseUsage(stream[1]) ELSE NoMeter
  IN  /\ phase = "whole"
      /\ phase' = "done"
      /\ at' = Len(Bytes)
      /\ meter' = x
      /\ out' = IF json /\ call.unified /\ call.provider \in {"ANTHROPIC", "GEMINI"}
                THEN <<[kind |-> "text", frame |-> 1, whole |-> TRUE]>> ELSE Bytes
      /\ recorded' = Record(x, json, FALSE)
      /\ UNCHANGED <<call, prices, body, stream, pending, started, split>>

MeterNext ==
  \/ \E json \in BOOLEAN, m \in Messages : Forward(json, m)
  \/ \E n \in 1..Len(Bytes) : Chunk(n)
  \/ End \/ Abort
  \/ \E json \in BOOLEAN : Reply(json)

MeterSpec == MeterInit /\ [][MeterNext]_meterVars

---------------------------------------------------------------------------
(* Properties *)

\* Every variable keeps its type, and an event is there exactly when the request
\* is over.
MeterTypeOK ==
  /\ phase \in {"new", "open", "whole", "done", "aborted"}
  /\ at \in 0..Len(Bytes)
  /\ split \subseteq DOMAIN stream
  /\ (phase \in {"done", "aborted"}) <=> (recorded # <<>>)
  /\ recorded # <<>> => recorded[1].costBasis \in {"ACTUAL", "ESTIMATED", "UNPRICED"}

\* The frames that are complete: their delimiter has come, or the stream ended.
Arrived ==
  {i \in DOMAIN stream : i * (2 + Len(Delimiter)) <= at \/ (phase = "done" /\ at = Len(Bytes))}

\* What the first k frames say together.
Says[k \in 0..Len(stream)] ==
  IF k = 0 THEN NoMeter
  ELSE IF HasPayload(call, stream[k]) THEN OnFrame(Says[k - 1], stream[k]) ELSE Says[k - 1]

\* However the stream is cut into chunks, the meter holds what the complete
\* frames say, and nothing of the others.
UsageIsWhatArrived ==
  (call.streamed /\ phase # "new") => meter = Says[Cardinality(Arrived)]

\* The translation of the first k frames, one after the other.
Shows[k \in 0..Len(stream)] ==
  IF k = 0 THEN <<>>
  ELSE Shows[k - 1] \o
       Translate(\E j \in 1..(k - 1) : stream[j].type = "message_start", k, k \notin split)

\* The client of a stream gets the very bytes of the provider, and the client of
\* a translated one the role, the text, the finish and [DONE] in their order,
\* each once; only text that two chunks shared is garbled.
ClientSeesTheAnswer ==
  (call.streamed /\ phase # "new") =>
    out = IF ~Translated THEN SubSeq(Bytes, 1, at)
          ELSE Shows[Cardinality(Arrived)]

\* The counts of an event are numbers of tokens (calculateCostUsd throws on
\* others, in a callback that nobody catches).  A cost is called ACTUAL only for
\* the provider's final counts, whenever the stream is aborted; and a stream that
\* ends is charged for them, if the request was JSON, its answer is one the
\* adapter reads and a price matches.
ActualIsFinal ==
  recorded # <<>> =>
    LET e == recorded[1]
    IN  /\ e.tokens \in [{"input", "output", "cached"} -> Nat]
        /\ e.costBasis = "ACTUAL" => e.tokens = call.final
        /\ (phase = "done" /\ call.streamed /\ call.json /\ ~Foreign(call) /\ e.price # <<>>) =>
             e.costBasis = "ACTUAL"

\* A conversation reaches the provider with every turn of the user and the
\* assistant in order, and every system message.
TurnsSurvive ==
  (phase # "new" /\ call.unified) =>
    LET turns == body.turns
        OfRole(rs) == {i \in DOMAIN call.messages : call.messages[i] \in rs}
        System     == IF call.provider \in {"ANTHROPIC", "GEMINI"} THEN OfRole({"system"}) ELSE {}
    IN  /\ \A i, j \in DOMAIN turns : i < j => turns[i].n < turns[j].n
        /\ OfRole({"user", "assistant"}) \subseteq {turns[i].n : i \in DOMAIN turns}
        /\ {m.n : m \in ToSet(body.system)} = System
        /\ System # {} => System \cap {turns[i].n : i \in DOMAIN turns} = {}

\* The price of an event is the best that the tables have for its model: an
\* override before the catalog, an exact entry before a prefix, a longer prefix
\* before a shorter one, whatever order the rows were read in.
PriceIsBest ==
  recorded # <<>> =>
    LET model == recorded[1].model
        Fits(list) == {e \in ToSet(list) : /\ e.provider = call.provider
                                           /\ IF e.star THEN IsPrefix(e.pattern, model) ELSE e.pattern = model}
        own    == Fits(prices.overrides)
        best   == IF own # {} THEN own ELSE Fits(prices.catalog)
        Rank(e) == <<IF e.star THEN 0 ELSE 1, Len(e.pattern)>>
    IN  /\ (recorded[1].price = <<>>) <=> (best = {})
        /\ best # {} => LET p == recorded[1].price[1]
                        IN  p \in best /\ \A e \in best :
                              Rank(p)[1] > Rank(e)[1] \/ (Rank(p)[1] = Rank(e)[1] /\ Rank(p)[2] >= Rank(e)[2])

\* What openrouter.ts:3-5 says: the cost that the provider reports is preferred
\* over the catalog's and is ACTUAL.
UpstreamCostIsCharged ==
  (phase = "done" /\ "cost" \in DOMAIN meter.usage) =>
    recorded[1].costUsd = meter.usage["cost"] /\ recorded[1].costBasis = "ACTUAL"
=============================================================================
