--------------------------- MODULE MCSubmissionFlow ---------------------------
(***************************************************************************)
(* Two hotkeys of one home, two revisions, an epoch of five blocks whose    *)
(* commit window is the first two.                                          *)
(***************************************************************************)
EXTENDS SubmissionFlow, Functions, FiniteSetsExt, TLC

\* "03" is a number nobody writes like that.
Numbers == "-1" :> -1 @@ "0" :> 0 @@ "1" :> 1 @@ "2" :> 2 @@ "3" :> 3 @@ "03" :> 3 @@ "4" :> 4
           @@ "1234567890" :> 1234567890
\* The longest tokens the patterns accept, and for a round the shortest digest.
Length(token) ==
    CASE token \in {"sql", "arena"} -> 16 [] token \in {"user", "other"} -> 40 [] token \in {"r1", "r2"} -> 40
      [] token \in {"s1", "s2", "s3", "s4"} -> 32 [] token \in {"mt1", "mt2", "mt3", "mt4", "mt5", "mtr"} -> 3
      [] token = "track" -> 32 [] token = "source" -> 30 [] token \in {"key", "long"} -> 64
      [] token \in {"short", "hash"} -> 16 [] token \in {"P1", "K", "-1", "03"} -> 2
      [] token \in {"0", "1", "2", "3", "4", "k"} -> 1 [] token = "1234567890" -> 10 [] OTHER -> 64
Digest(arena, user, sha, salt) == ToString(<<arena, user, sha, salt>>)
Salted == <<"s1", "s2", "s3", "s4">>
FiveBlocks == Epoch(1, 0, 5, 2, 1)

Start == height = 0 /\ salts = 0 /\ asked = 0

-----------------------------------------------------------------------------
(* What is read from the chain *)

SomeMade ==
    {Submission("sql", u, r, b, i, p) : u \in Users, r \in Shas, b \in {0, 1234567890}, i \in {-1, 3},
                                        p \in Profiles \cup {"", "P9"}}
    \cup {Seal("sql", u, "r1", s, b, i, p) : u \in Users, s \in {"s1", "s2"}, b \in {0, 1234567890}, i \in {3},
                                             p \in Profiles \cup {"", "P9"}}
    \cup {RoundCommitment(r, "track", "track", d, "source", s) : r \in {-1, 2}, d \in Shorts \cup {"k"}, s \in BOOLEAN}
    \cup {RoundKey(r, d, "key", h) : r \in {0, 2}, d \in Shorts, h \in {"", "k"} \cup Hashes}

\* A payload with one field dropped, doubled or replaced.
Spoilt(raw) ==
    {raw} \cup {RemoveAt(raw, k) : k \in DOMAIN raw}
          \cup {[raw EXCEPT ![k] = t] : k \in DOMAIN raw,
                                        t \in {"mt2", "mt3", "mt4", "mt5", "0", "03", "k", "", "r1", "P1"}}
          \cup {InsertAt(raw, k, raw[k]) : k \in DOMAIN raw}
Slots == UNION {Spoilt(p) : p \in {Written(c) : c \in SomeMade \ {Refused}} \ {TooLong}}

Three == <<"h1", "h2", "h3">>
ThreeBlocks == [{"h1", "h2", "h3"} -> {0, 4, 5}]
ThreePlaces == [{"h1", "h2", "h3"} -> {-1, 1, 2}]
SomeBlocks == 3..20
SomeEpochs == [genesis : {3}, length : 2..6, commit : 1..5, margin : 0..4]
SomeRounds == [genesis : {3}, length : 1..5, close : 1..4, deadline : 0..3, every : 1..3]

-----------------------------------------------------------------------------
(* The trees: contents are tokens, one header or listing each. *)

Tensor(part, dtype, elements) == [part |-> part, dtype |-> dtype, elements |-> elements, low |-> FALSE]
Headers ==
    "w1" :> [tensors |-> {Tensor("plain", "BF16", 3), Tensor("quantState", "F32", 9)}, kind |-> "", config |-> <<>>]
    @@ "w2" :> [tensors |-> {Tensor("plain", "F32", 2)}, kind |-> "", config |-> <<>>]
    @@ "w3" :> [tensors |-> {Tensor("qweight", "I32", 1), Tensor("scales", "F16", 5)}, kind |-> "", config |-> <<>>]
    @@ "g1" :> [tensors |-> {Tensor("embeddings", "F16", 4), Tensor("output", "F16", 4)}, kind |-> "q8",
                config |-> [layers |-> 1, heads |-> 2, kvHeads |-> 0, hidden |-> 4, headDim |-> 0]]
GoodConfig == [layers |-> 1, heads |-> 2, kvHeads |-> 1, hidden |-> 4, headDim |-> 0, quant |-> "gptq",
               vocab |-> 8, tokens |-> 8, context |-> 6, newTokens |-> 2, sections |-> "steps" :> 2]
Contract == INSTANCE ArtifactContract WITH
    SafetensorNames <- {<<"a.safetensors">>, <<"b.safetensors">>, <<"router", "model.safetensors">>,
                        <<"model.safetensors">>},
    GgufNames <- {<<"model.gguf">>}, Header <- Headers,
    Listing <- "both" :> {<<"a.safetensors">>, <<"b.safetensors">>} @@ "one" :> {<<"a.safetensors">>} @@ "none" :> {},
    Config <- "good" :> GoodConfig,
    Requirements <- [c \in {"good", "other"} |-> IF c = "good" THEN {<<"numpy", 2>>} ELSE {<<"numpy", 1>>}],
    Secret <- {"key"}, FileBytes <- [c \in {"good", "other", "w1", "w2", "w3", "g1", "both", "one"} |-> 1],
    Base <- "good" :> "base", Licence <- "good" :> "mit" @@ "other" :> "none"
Limits == [code |-> 2, config |-> "steps" :> 4, packages |-> "numpy" :> 2, router |-> 5, bases |-> {"base"},
           low |-> 1, high |-> 9, formats |-> {"bf16", "f32", "gptq", "q8"}, licences |-> {"mit"},
           inputs |-> 4, outputs |-> 2]

ArtifactNames == {<<"config.json">>, <<"main.py">>, <<"requirements.txt">>, <<"harness", "engine.py">>,
                  <<"harness", ".complete">>, <<".complete">>, <<"slm_repo", "config.json">>, <<".cache", "x">>}
Unwatched == {<<".complete">>, <<"slm_repo", "config.json">>, <<".cache", "x">>}
SlmNames == {<<"config.json">>, <<"tokenizer.json">>, <<"README.md">>, <<"LICENSE">>, <<"training", "recipe.json">>}
Trees(names) == UNION {[in -> {"good"}] : in \in SUBSET names}
Changed(tree, names) ==
    {Restrict(tree, DOMAIN tree \ {n}) : n \in DOMAIN tree}
    \cup {[k \in DOMAIN tree \cup {n} |-> IF k = n THEN "other" ELSE tree[k]] : n \in names}
Differ(t, u) ==
    {n \in DOMAIN t \cup DOMAIN u : n \notin DOMAIN t \cap DOMAIN u \/ t[n] # u[n]}
WeightNames == "a" :> <<"a.safetensors">> @@ "b" :> <<"b.safetensors">> @@ "g" :> <<"model.gguf">>
               @@ "i" :> <<"model.safetensors.index.json">>
Kinds == "a" :> {"w1", "w3"} @@ "b" :> {"w2", "none"} @@ "g" :> {"g1"} @@ "i" :> {"both", "one", "none"}
Stored(in, f) == [n \in {WeightNames[k] : k \in in} |-> f[CHOOSE k \in in : WeightNames[k] = n]]
SlmTrees ==
    UNION {{Stored(in, f) @@ rest : f \in {f \in [in -> UNION {Kinds[k] : k \in in}] : \A k \in in : f[k] \in Kinds[k]},
            rest \in {[n \in SlmNames |-> "good"], [n \in SlmNames \ {<<"LICENSE">>} |-> "good"]}} : in \in SUBSET DOMAIN Kinds}
Tampered(problems) == {p \in problems : p.kind \in {"unlisted", "absent", "digest"}}
Manifested(tree, slm) ==
    Contract!BuildManifest(tree, "sql", {"slm", "harness"}, "repo", "rev", slm, "P1", "image")

\* A manifest holds of the trees it was made of, and of no tree in which a watched
\* file of the artifact or a pinned file of the model was added, changed or removed;
\* the mirror of the pinned files is fetched exactly when its weights are those.
ManifestSealsTree ==
    Start =>
        /\ \A tree \in Trees(ArtifactNames) :
            LET m == Manifested(tree, <<>>)
            IN  /\ Tampered(Contract!ArtifactProblems(tree, m, Limits)) = {}
                /\ \A u \in Changed(tree, ArtifactNames) :
                    Differ(tree, u) \subseteq Unwatched <=> Tampered(Contract!ArtifactProblems(u, m, Limits)) = {}
        /\ \A slm \in SlmTrees :
            LET m == Manifested([n \in ArtifactNames |-> "good"], slm)
                Problems(u) == Contract!SlmProblems(u, m.slm, {"base"}, 1, 9, Limits.formats)
                Entry(files) == [profile |-> "P1", manifest |-> m, slmFiles |-> files,
                                 weights |-> Contract!WeightsDigest(slm)]
                Fetch(files) == Contract!Fetched(m, Entry(files), {"P1"}, 99, Limits)
            IN  /\ ~\E p \in Problems(slm) : p.kind = "pinned"
                /\ \A u \in Changed(slm, DOMAIN slm) :
                    Differ(slm, u) = {<<"training", "recipe.json">>} <=> ~\E p \in Problems(u) : p.kind = "pinned"
                /\ Fetch(m.slm.files) <=> /\ Contract!IsManifest(m)
                                          /\ Contract!PreflightCheck(slm, 99, 1, 9, 6, Limits.formats).stage = "ok"
                /\ \A u \in Changed(m.slm.files, DOMAIN m.slm.files) :
                    Fetch(u) => \A n \in Differ(m.slm.files, u) : n \notin {WeightNames[k] : k \in {"a", "b", "g"}}

\* The shards an engine loads are those whose parameters, size and format were
\* counted and whose fingerprint was taken, in a submission nothing was found against.
LoadedIsCounted ==
    Start =>
        \A slm \in SlmTrees :
            LET m == Manifested([n \in ArtifactNames \ {<<"harness", ".complete">>} |-> "good"] @@
                                <<"harness", "verifier.py">> :> "good", slm)
            IN  /\ Contract!Materialised([n \in DOMAIN m.files |-> "good"], m, slm, "sql", "repo", Limits)
                /\ ~Contract!FileProblem(slm, GoodConfig, Limits)
                => /\ Contract!Safetensors(slm) # {} => Contract!LoadedWeights(slm) = Contract!Safetensors(slm)
                   /\ Contract!ModelParameters(slm) \in 1..9 /\ Contract!Footprint(slm, 6) # Contract!Unknown

\* What admission and evaluation both look at, they measure alike: the code of a tree
\* (check_artifact, code_problem) and the weights of a router whose folder holds no others
\* (check_artifact, router_problem); and no loaded shard escapes provenance.check.
MeasuredAlike ==
    Start =>
        /\ \A tree \in Trees(ArtifactNames) :
            Contract!Problem("code", <<>>) \in
                Contract!ArtifactProblems(tree, Manifested(tree, <<>>), [Limits EXCEPT !.code = 1])
            <=> Contract!CodeProblem(tree, 1)
        /\ \A w \in {"w1", "w2", "w3", "good"} :
            LET tree == <<"main.py">> :> "good" @@ Contract!RouterWeights :> w
                m == Contract!BuildManifest(tree, "sql", {"router"}, "repo", "rev", <<>>, "P1", "image")
            IN  Contract!Problem("router", <<>>) \in Contract!ArtifactProblems(tree, m, Limits)
                <=> Contract!RouterProblem(<<"model.safetensors">> :> w, Limits.router)
        /\ \A slm \in SlmTrees, public \in SUBSET {"w1", "w2", "w3"}, similar \in {80, 95} :
            /\ ~Contract!FileProblem(slm, GoodConfig, Limits)
            /\ Contract!ProvenanceHolds(slm, "base" :> similar, "", public, 90)
            => /\ similar = 95
               /\ \A n \in Contract!LoadedWeights(slm) : slm[n] \notin public

\* An artifact is the tree its manifest lists, its weights are counted as loaded, and the
\* two places that measure it agree.
ArtifactIsWhole == ManifestSealsTree /\ LoadedIsCounted /\ MeasuredAlike
=============================================================================
