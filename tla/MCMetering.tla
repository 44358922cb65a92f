----------------------------- MODULE MCMetering -----------------------------
(* One answer of each provider, streamed or whole, native or unified.  The    *)
(* models are ab, ac and x; x has no price.                                   *)
EXTENDS Metering

ab == <<"a", "b">>
ac == <<"a", "c">>
x  == <<"x">>

Use(i, o, c) == [input |-> i, output |-> o, cached |-> c]
Frame(type, model, usage, wide, onRequest) ==
  [type |-> type, model |-> model, usage |-> usage, wide |-> wide, onRequest |-> onRequest]
Text(wide)         == Frame("content_block_delta", <<>>, NoUsage, wide, FALSE)
Data(model, usage) == Frame("data", model, usage, FALSE, FALSE)
Mark(type)         == Frame(type, <<>>, NoUsage, FALSE, FALSE)

Call(provider, unified, streamed, frames, final) ==
  [provider |-> provider, unified |-> unified, streamed |-> streamed, frames |-> frames,
   final |-> final, model |-> ac, sse |-> unified \/ provider # "OLLAMA",
   open |-> provider = "GEMINI", json |-> FALSE, messages |-> <<>>]

AnthropicFrames ==
  <<Frame("message_start", ab, [input |-> 5, cached |-> 2, output |-> 1], FALSE, FALSE), Text(TRUE),
    Frame("message_delta", <<>>, [output |-> 3], FALSE, FALSE), Mark("message_stop")>>
OpenAiFrames ==
  <<Frame("data", ab, NoUsage, TRUE, FALSE), Frame("data", ab, Use(4, 2, 1), FALSE, TRUE), Mark("[DONE]")>>
GeminiFrames == <<Data(ab, Use(4, 1, 0)), Mark("comment"), Data(<<>>, Use(4, 3, 0))>>
OllamaFrames == <<Data(ac, NoUsage), Frame("done", ac, [input |-> 2, output |-> 2], FALSE, FALSE)>>

MCCalls ==
  {Call("ANTHROPIC", u, TRUE, AnthropicFrames, Use(5, 3, 2)) : u \in BOOLEAN} \cup
  {Call("OPENAI", u, TRUE, OpenAiFrames, Use(3, 2, 1)) : u \in BOOLEAN} \cup
  {Call("GEMINI", FALSE, TRUE, GeminiFrames, Use(4, 3, 0))} \cup
  {Call("OLLAMA", u, TRUE, OllamaFrames, Use(2, 2, 0)) : u \in BOOLEAN} \cup
  {Call("ANTHROPIC", TRUE, FALSE, <<Data(ab, Use(5, 3, 2))>>, Use(5, 3, 2)),
   Call("GEMINI", TRUE, FALSE, <<Data(ab, Use(1, 3, 2))>>, Use(0, 3, 2)),
   Call("OPENROUTER", FALSE, TRUE, <<Data(ab, [cost |-> 7] @@ Use(4, 2, 1))>>, Use(3, 2, 1)),
   Call("OLLAMA", TRUE, FALSE, <<Data(ac, Use(2, 2, 0))>>, Use(2, 2, 0))}

\* A model that the catalog does not know, with the provider's own cost.
OpenRouterCalls ==
  {Call("OPENROUTER", TRUE, TRUE,
        <<Data(x, NoUsage), Data(x, [cost |-> 7] @@ Use(4, 2, 1)), Mark("[DONE]")>>, Use(3, 2, 1))}

Entry(provider, pattern, star, rate) ==
  [provider |-> provider, pattern |-> pattern, star |-> star,
   input |-> rate, output |-> 5 * rate, cached |-> 1]
Catalog == <<Entry("ANTHROPIC", <<"a">>, TRUE, 3), Entry("ANTHROPIC", ab, FALSE, 4),
             Entry("OPENAI", ab, TRUE, 3), Entry("OPENAI", <<"a">>, TRUE, 2),
             Entry("GEMINI", <<>>, TRUE, 3), Entry("OLLAMA", <<>>, TRUE, 0),
             Entry("OPENROUTER", ab, FALSE, 0)>>
MCCatalogs  == {Catalog, Reverse(Catalog)}
MCOverrides == {<<>>, <<Entry("ANTHROPIC", <<>>, TRUE, 1), Entry("OPENAI", <<"a">>, TRUE, 1)>>}
MCMessages  == BoundedSeq({"system", "user", "assistant", "tool"}, 2)
=============================================================================
