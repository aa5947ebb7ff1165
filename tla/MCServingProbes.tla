---------------------------- MODULE MCServingProbes ----------------------------
(***************************************************************************)
(* Two cards; a verifiable general model, one that nobody can prefill, and *)
(* a declaration of an old digest.                                         *)
(***************************************************************************)
EXTENDS ServingProbes, TLC

TwoCards == <<"a", "b">>
Declares == << [model |-> "chat", digest |-> "g1"], [model |-> "chat", digest |-> "g0"],
               [model |-> "huge", digest |-> "h1"], [model |-> "unknown", digest |-> "u"] >>
Entries == "chat" :> [digest |-> "g1", verifiable |-> TRUE, tools |-> TRUE, context |-> 8] @@
           "huge" :> [digest |-> "h1", verifiable |-> FALSE, tools |-> FALSE, context |-> 0]
Stored == {[model |-> "chat", digest |-> "g1",
            calibration |-> Calibrate(Statistics(<< <<0, 1>>, <<0, 0>> >>), Statistics(<< <<2, 3>> >>), 1)]}
Items == << [id |-> "plain", tools |-> {}, needs |-> 2], [id |-> "tool", tools |-> {"weather"}, needs |-> 3],
            [id |-> "long", tools |-> {}, needs |-> 32] >>

Written == << [arena |-> "sql", epoch |-> 1, artifact |-> "d1", right |-> (100 :> {"h2"})],
              [arena |-> "sql", epoch |-> 2, artifact |-> "d1", right |-> (60 :> {"h1", "h2"} @@ 80 :> {"h1"})],
              [arena |-> "sql", epoch |-> 1, artifact |-> "d1", right |-> (100 :> {"h2"})],
              [arena |-> "cx", epoch |-> 3, artifact |-> "d2", right |-> (100 :> {"h1"})] >>

Limits == [long |-> 4, ttft |-> 2, longTtft |-> 6, longTotal |-> 9]
Envelopes == "sys" :> Limits @@ "old" :> Limits
Withheld(kind, ids, says) == [kind |-> kind, ids |-> ids, says |-> says, label |-> ""]
Full == [right |-> (100 :> {"h1"}), canaries |-> {"k"}, grader |-> TRUE, envelope |-> Limits,
         items |-> "h1" :> Withheld("hidden", <<>>, "") @@ "e" :> Withheld("exact", <<7>>, "yes") @@
                   "k" :> Withheld("canary", <<>>, "pong")]
NoExact == [Full EXCEPT !.items = "h1" :> Withheld("hidden", <<>>, "") @@ "k" :> Withheld("canary", <<>>, "")]
Nothing == [Full EXCEPT !.items = <<>>, !.right = <<>>, !.canaries = {}]
Offers(model) == IF model = "sys" THEN {Full, NoExact} ELSE {Nothing}

Graded(i, text) == CASE text = "good" -> 100 [] text = "yes" -> 60 [] text = "error" -> -1 [] OTHER -> 59
Answer(text, ids, digest, tokens, ttft, total) ==
    [ok |-> TRUE, text |-> text, ids |-> ids, digest |-> digest, tokens |-> tokens, ttft |-> ttft, total |-> total]
Heard == {[Answer("", <<>>, "", 0, 0, 0) EXCEPT !.ok = FALSE],
          Answer("good", <<>>, "d1", 4, 2, 9), Answer("good", <<>>, "", 4, 3, 1), Answer("good", <<>>, "d2", 1, 1, 1),
          Answer("yes", <<7>>, "d1", 5, 6, 9), Answer("yes", <<8>>, "d1", 5, 3, 10), Answer("pong", <<>>, "d1", 1, 1, 1),
          Answer("error", <<7>>, "d1", 5, 7, 9)}
Said(finish, calls, digest, ours, rebuilt, gaps) ==
    [ok |-> TRUE, finish |-> finish, calls |-> calls, digest |-> digest, ours |-> ours, rebuilt |-> rebuilt, gaps |-> gaps]
Asks(name, arguments) == <<[name |-> name, arguments |-> arguments]>>
Chatted == {[Said("stop", <<>>, "g1", TRUE, TRUE, <<0>>) EXCEPT !.ok = FALSE],
            Said("stop", <<>>, "g1", TRUE, TRUE, <<0, 0>>), Said("stop", <<>>, "h1", TRUE, TRUE, <<3, 0>>),
            Said("stop", <<>>, "g1", TRUE, TRUE, <<1, 2>>), Said("stop", <<>>, "g1", FALSE, TRUE, <<3, 3>>),
            Said("tool_calls", Asks("weather", "pairs"), "g1", TRUE, TRUE, NoMargins),
            Said("tool_calls", Asks("clock", "pairs"), "h1", TRUE, TRUE, <<0>>),
            Said("length", Asks("weather", "broken"), "g1", TRUE, FALSE, <<>>)}

Card(state, status, due, model, digest) ==
    [state |-> state, status |-> status, due |-> due, model |-> model, digest |-> digest]
Seen == {Card("admitted", "probing", TRUE, "sys", "d1"), Card("admitted", "serving", FALSE, "sys", "d1"),
         Card("admitted", "serving", TRUE, "sys", "d2"), Card("registered", "paused", TRUE, "sys", "d1"),
         Card("admitted", "paused", TRUE, "old", "d2")}


-----------------------------------------------------------------------------
(* What the verdict rests on *)

SomeTexts == {<<>>, <<0>>, <<1>>, <<2, 0>>, <<1, 1, 2>>, <<0, 2, 1>>}
\* Weights whose choice depends on all of the prefix.
Some(prefix, v) == (5 * FoldLeft(LAMBDA h, t : (3 * h + t + 1) % 7, 1, prefix) + 2 * v * v + Len(prefix)) % 7
SomePrefixes == UNION {{SubSeq(p \o c, 1, n) : n \in 0..Len(p \o c)} : p \in SomeTexts, c \in SomeTexts}
SomeLogits == [prefix \in SomePrefixes |-> [v \in 0..2 |-> Some(prefix, v)]]

Gaps == {<<>>, <<0>>, <<1>>, <<0, 1>>, <<2, 1>>, <<0, 0, 2>>}
HonestRuns == UNION {[1..n -> Gaps] : n \in 0..3}
OtherRuns == UNION {[1..n -> Gaps] : n \in 0..2}

Calls(arguments) == Asks("f", arguments) \o Asks("g", "x")
SomeCalls == {<<>>, Asks("f", "x"), Asks("f", "y"), Asks("f", "broken"), Calls("x"), Calls("f")}
=============================================================================
