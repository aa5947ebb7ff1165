--------------------------- MODULE ArtifactContract ---------------------------
(***************************************************************************)
(* The files of a submission: the manifest of an artifact repository and    *)
(* the pin of its model repository (artifact/validate.py), what the headers *)
(* of the weights say (artifact/params.py, gguf.py), and the checks a       *)
(* submission passes on its way (validator/collect.py, preflight.py,        *)
(* checks.py, provenance.py, and runner.fetch_miner).                       *)
(*                                                                         *)
(* A tree maps a name, the tuple of its path, to the token of a content;    *)
(* a digest is its content. Problems are sets of records.                   *)
(***************************************************************************)
EXTENDS Integers, Sequences, FiniteSets, Functions, FiniteSetsExt, SequencesExt

CONSTANTS SafetensorNames, GgufNames,   \* names with these suffixes
          Header,       \* contents with a readable weights header -> the header
          Listing,      \* contents of an index file -> the names it lists, {} when it has no map
          Config,       \* contents of a readable config.json -> its values
          Requirements, \* contents of requirements.txt -> <<package, version>> pairs
          Secret,       \* contents that look like a credential
          FileBytes,        \* content -> size
          Base,         \* contents of recipe.json -> the base model
          Licence       \* contents of README.md -> the licence

-----------------------------------------------------------------------------
(* Trees *)

UntrackedDirs == {".git", ".cache"}
UntrackedFiles == {<<".gitattributes">>, <<".complete">>}
SlmFolder == "slm_repo"
ManifestFile == <<"manifest.json">>

Untracked(name) ==
    \/ name[1] \in UntrackedDirs
    \/ name \in UntrackedFiles
    \/ Len(name) > 1 /\ name[1] = SlmFolder
TreeFiles(tree, skip) == {n \in DOMAIN tree : ~Untracked(n)} \ skip
HashTree(tree, skip) == [n \in TreeFiles(tree, skip) |-> tree[n]]
InRoot(tree, names) == {n \in DOMAIN tree \cap names : Len(n) = 1}
Safetensors(tree) == InRoot(tree, SafetensorNames)
Ggufs(tree) == InRoot(tree, GgufNames)
FirstOf(names) == CHOOSE n \in names : TRUE     \* the model has one GGUF file

-----------------------------------------------------------------------------
(* What the headers of the weights say *)

Counted(t) ==
    CASE t.part \in {"quantState", "qzeros", "scales", "g_idx"} -> 0
      [] t.part = "qweight" /\ t.dtype = "I32" -> 8 * t.elements
      [] OTHER -> t.elements
TensorsOf(tree, n) == Header[tree[n]].tensors
Unknown == -1                     \* ParameterError
CountParameters(tree, names) ==
    IF names = {} \/ \E n \in names : tree[n] \notin DOMAIN Header THEN Unknown
    ELSE MapThenSumSet(LAMBDA n : MapThenSumSet(Counted, TensorsOf(tree, n)), names)

\* An output matrix of the shape of the embeddings shares their storage.
GgufParameters(tensors) ==
    LET Named(name) == {t \in tensors : t.part = name}
        tied == \E o \in Named("output"), e \in Named("embeddings") : o.elements = e.elements
    IN  MapThenSumSet(LAMBDA t : t.elements, IF tied THEN tensors \ Named("output") ELSE tensors)

ModelParameters(tree) ==
    IF Safetensors(tree) # {} THEN CountParameters(tree, Safetensors(tree))
    ELSE IF Cardinality(Ggufs(tree)) # 1 THEN Unknown
    ELSE LET n == FirstOf(Ggufs(tree))
         IN  IF tree[n] \in DOMAIN Header THEN GgufParameters(TensorsOf(tree, n)) ELSE Unknown

KvBytes(config, length) ==
    LET kvHeads == IF config.kvHeads # 0 THEN config.kvHeads ELSE config.heads
        dim == IF config.headDim # 0 THEN config.headDim
               ELSE IF config.heads # 0 THEN config.hidden \div config.heads ELSE 0
    IN  2 * config.layers * kvHeads * dim * length * 2
ConfigFile == <<"config.json">>
HasConfig(tree) == ConfigFile \in DOMAIN tree /\ tree[ConfigFile] \in DOMAIN Config
Footprint(tree, length) ==
    LET Sizes(names) == MapThenSumSet(LAMBDA n : FileBytes[tree[n]], names)
    IN  CASE Safetensors(tree) # {} /\ HasConfig(tree) ->
                Sizes(Safetensors(tree)) + KvBytes(Config[tree[ConfigFile]], length)
          [] Safetensors(tree) = {} /\ Cardinality(Ggufs(tree)) = 1 ->
                Sizes(Ggufs(tree)) + KvBytes(Header[tree[FirstOf(Ggufs(tree))]].config, length)
          [] OTHER -> Unknown

FloatKinds == "BF16" :> "bf16" @@ "F16" :> "fp16" @@ "F32" :> "f32"
StoredFormats(tree) ==
    LET stored == UNION {TensorsOf(tree, n) : n \in Safetensors(tree)}
        quant == IF HasConfig(tree) THEN Config[tree[ConfigFile]].quant ELSE ""
    IN  IF \E t \in stored : t.part = "qweight" THEN {IF quant = "" THEN "quantised" ELSE quant}
        ELSE {FloatKinds[t.dtype] : t \in {t \in stored : t.dtype \in DOMAIN FloatKinds}}
FormatProblem(tree, allowed) ==
    /\ allowed # {}
    /\ IF Safetensors(tree) # {}
       THEN \/ \E n \in Safetensors(tree) : tree[n] \notin DOMAIN Header
            \/ ~(StoredFormats(tree) \subseteq allowed)
       ELSE \/ Cardinality(Ggufs(tree)) # 1
            \/ LET n == FirstOf(Ggufs(tree))
               IN  tree[n] \notin DOMAIN Header \/ Header[tree[n]].kind \notin allowed

(* The index of the shards: what an engine loads when there is one. *)

IndexFile == <<"model.safetensors.index.json">>
Indexed(tree) == IndexFile \in DOMAIN tree
Listed(tree) == Listing[tree[IndexFile]]
IsListing(tree) == tree[IndexFile] \in DOMAIN Listing /\ Listed(tree) # {} /\ \A n \in Listed(tree) : Len(n) = 1
LoadedWeights(tree) == IF Indexed(tree) THEN Listed(tree) ELSE Safetensors(tree)
Held(tree) == Safetensors(tree) \cup Ggufs(tree)
\* Variant: the shards the index lists are there.
ShardMissing(tree) == Indexed(tree) /\ (~IsListing(tree) \/ ~(Listed(tree) \subseteq Held(tree)))
IndexProblem(tree) == Indexed(tree) /\ (~IsListing(tree) \/ Listed(tree) # Held(tree))

-----------------------------------------------------------------------------
(* The manifest *)

NoPin == [repo |-> "", revision |-> "", files |-> <<>>]
NoManifest == [version |-> 0]
IsWeights(n) == n \in SafetensorNames \cup GgufNames
WeightsDigest(files) == Restrict(files, {n \in DOMAIN files : IsWeights(n)})

Manifest(arena, parts, files, pin, profile, image) ==
    LET m == [version |-> 1, arena |-> arena, parts |-> parts, files |-> files, slm |-> pin,
              profile |-> "", weights |-> <<>>, image |-> ""]
    IN  IF profile = "" THEN m
        ELSE [m EXCEPT !.version = 2, !.profile = profile, !.image = image, !.weights = WeightsDigest(pin.files)]

Pin(repo, revision, slm) ==
    [repo |-> repo, revision |-> revision,
     files |-> HashTree(slm, {n \in DOMAIN slm : n[1] = "training" /\ Len(n) > 1})]

BuildManifest(tree, arena, parts, repo, revision, slm, profile, image) ==
    IF \/ "slm" \in parts /\ (repo = "" \/ revision = "")
       \/ profile # "" /\ (profile \notin {"P1", "P2", "P3", "K", "C"} \/ image = "")
    THEN NoManifest
    ELSE Manifest(arena, parts, HashTree(tree, {ManifestFile}),
                  IF "slm" \in parts THEN Pin(repo, revision, slm) ELSE NoPin, profile, image)

Components == {"slm", "harness", "router", "escalation"}
\* Manifest.from_dict
IsManifest(m) ==
    /\ m.version \in {1, 2} /\ m.arena # "" /\ m.parts # {} /\ m.parts \subseteq Components
    /\ DOMAIN m.files # {}
    /\ IF "slm" \in m.parts
       THEN m.slm # NoPin /\ \E n \in DOMAIN m.slm.files : n \in SafetensorNames
       ELSE m.slm = NoPin
    /\ m.version = 2 => /\ m.profile \in {"P1", "P2", "P3", "K", "C"} /\ m.image # ""
                        /\ m.weights = WeightsDigest(m.slm.files)

-----------------------------------------------------------------------------
(* check_artifact and check_slm_repo *)

Of(part, names) == [part |-> part, names |-> names]
Needed == {Of("router", {<<"router", "config.json">>, <<"router", "model.safetensors">>}),
           Of("harness", {<<"harness", "engine.py">>, <<"harness", "verifier.py">>}),
           Of("escalation", {<<"escalation", "patcher.py">>})}
Always == {ConfigFile, <<"main.py">>, <<"requirements.txt">>}
RouterWeights == <<"router", "model.safetensors">>
CodeBytes(tree, names) ==
    MapThenSumSet(LAMBDA n : FileBytes[tree[n]], {n \in names : n[1] \in {"harness", "escalation"}})

Problem(kind, name) == [kind |-> kind, name |-> name]
When(condition, kind) == IF condition THEN {Problem(kind, <<>>)} ELSE {}

ConfigProblems(tree, limits) ==
    When(~HasConfig(tree), "config unreadable")
        \cup (IF HasConfig(tree)
              THEN {Problem("config", <<key>>) : key \in
                      {k \in DOMAIN limits \cap DOMAIN Config[tree[ConfigFile]].sections :
                          Config[tree[ConfigFile]].sections[k] \notin 1..limits[k]}}
              ELSE {})
RequirementProblems(tree, allowed) ==
    {Problem("requirement", r) : r \in
        {r \in Requirements[tree[<<"requirements.txt">>]] : r[1] \notin DOMAIN allowed \/ allowed[r[1]] # r[2]}}

ArtifactProblems(tree, m, limits) ==
    LET present == TreeFiles(tree, {ManifestFile})
        listed == {n \in DOMAIN m.files : ~Untracked(n)}
        required == Always \cup UNION {f.names : f \in {f \in Needed : f.part \in m.parts}}
    IN  {Problem("missing", n) : n \in required \ present}
        \cup {Problem("unlisted", n) : n \in present \ listed}
        \cup {Problem("absent", n) : n \in listed \ present}
        \cup {Problem("digest", n) : n \in {n \in listed \cap present : tree[n] # m.files[n]}}
        \cup {Problem("secret", n) : n \in {n \in present : n \notin SafetensorNames /\ tree[n] \in Secret}}
        \cup When(CodeBytes(tree, present) > limits.code, "code")
        \cup (IF ConfigFile \in present THEN ConfigProblems(tree, limits.config) ELSE {})
        \cup (IF <<"requirements.txt">> \in present THEN RequirementProblems(tree, limits.packages) ELSE {})
        \cup When(/\ "router" \in m.parts /\ RouterWeights \in present
                  /\ LET found == CountParameters(tree, {RouterWeights})
                     IN  found = Unknown \/ found > limits.router, "router")

SlmProblems(tree, pin, bases, low, high, formats) ==
    LET present == TreeFiles(tree, {})
        ggufOnly == Ggufs(tree) # {} /\ Safetensors(tree) = {}
        required == {<<"README.md">>, <<"LICENSE">>, <<"training", "recipe.json">>}
                    \cup IF ggufOnly THEN {} ELSE {ConfigFile, <<"tokenizer.json">>}
        parameters == ModelParameters(tree)
        recipe == <<"training", "recipe.json">>
    IN  {Problem("missing", n) : n \in required \ present}
        \cup When(Held(tree) = {} \/ parameters = Unknown, "weights")
        \cup When(parameters # Unknown /\ parameters \notin low..high, "size")
        \cup (IF ~ggufOnly THEN {}
              ELSE LET n == FirstOf(Ggufs(tree))
                   IN  IF tree[n] \notin DOMAIN Header THEN {Problem("gguf", n)}
                       ELSE When(\E t \in TensorsOf(tree, n) : t.low, "below four bits")
                            \cup When(formats # {} /\ Header[tree[n]].kind \notin formats, "gguf type"))
        \cup {Problem("pinned", n) : n \in {n \in DOMAIN pin.files : /\ ~Untracked(n)
                                               /\ n \in present => tree[n] # pin.files[n]}}
        \cup When(/\ bases # {} /\ recipe \in DOMAIN tree
                  /\ tree[recipe] \in DOMAIN Base => Base[tree[recipe]] \notin bases, "base")

\* materialise(): a submission whose two repositories were downloaded.
Materialised(tree, m, slm, arena, repo, limits) ==
    /\ IsManifest(m) /\ m.arena = arena
    /\ ArtifactProblems(tree, m, limits) = {}
    /\ "slm" \in m.parts =>
         /\ m.slm.repo = repo
         /\ SlmProblems(slm, m.slm, limits.bases, limits.low, limits.high, limits.formats) = {}
         /\ limits.licences # {} =>
              <<"README.md">> \in DOMAIN slm /\ Licence[slm[<<"README.md">>]] \in limits.licences \cup {"microtensor-submission"}
         /\ ModelParameters(slm) # Unknown

-----------------------------------------------------------------------------
(* The checks of an evaluation *)

CodeProblem(tree, limit) == CodeBytes(tree, DOMAIN tree) > limit
RouterProblem(tree, limit) == ModelParameters(tree) = Unknown \/ ModelParameters(tree) > limit
SystemProblem(config, limits) ==
    \/ limits.inputs # 0 /\ config.context > limits.inputs + limits.outputs
    \/ limits.outputs # 0 /\ config.newTokens > limits.outputs
FileProblem(slm, config, limits) ==
    IndexProblem(slm) \/ FormatProblem(slm, limits.formats) \/ SystemProblem(config, limits)

\* provenance.check: similar to the base it declares, and no public checkpoint;
\* similarity is what the fingerprints of slm and of each base that is there come to.
ProvenanceHolds(slm, similarity, fallback, public, threshold) ==
    LET files == IF Safetensors(slm) # {} THEN Safetensors(slm) ELSE Ggufs(slm)
        recipe == <<"training", "recipe.json">>
        base == IF recipe \in DOMAIN slm /\ slm[recipe] \in DOMAIN Base THEN Base[slm[recipe]] ELSE fallback
    IN  /\ base \in DOMAIN similarity /\ files # {}
        /\ \A n \in files : slm[n] \notin public
        /\ similarity[base] >= threshold

Preflight(stage, tree) ==
    [stage |-> stage, weights |-> Restrict(tree, {n \in DOMAIN tree : IsWeights(n)})]
\* preflight.check: the first stage that fails.
PreflightCheck(tree, memory, low, high, length, formats) ==
    LET parameters == ModelParameters(tree)
        footprint == Footprint(tree, length)
        config == Config[tree[ConfigFile]]
        Transformers == Safetensors(tree) # {} \/ Ggufs(tree) = {}
        Stage == CASE Transformers /\ ~HasConfig(tree) -> "config"
                   [] Transformers /\ <<"tokenizer.json">> \notin DOMAIN tree -> "tokenizer"
                   [] Transformers /\ config.vocab # 0 /\ config.tokens > config.vocab -> "tokenizer"
                   [] Held(tree) = {} \/ parameters = Unknown -> "weights"
                   [] FormatProblem(tree, formats) -> "format"
                   [] footprint = Unknown -> "weights"
                   [] parameters \notin low..high -> "size"
                   [] memory # 0 /\ footprint > memory -> "size"
                   [] OTHER -> "ok"
    IN  Preflight(Stage, tree)

\* fetch_miner: what the mirror holds of a submission, against its manifest. The
\* manifest of the mirror is m, and entry what the round's document says of it.
Fetched(m, entry, profiles, memory, limits) ==
    /\ entry.profile \in profiles
    /\ IsManifest(m) /\ m = entry.manifest
    /\ m.version = 2 /\ m.profile = entry.profile
    /\ LET checked == PreflightCheck(entry.slmFiles, memory, limits.low, limits.high,
                                     limits.inputs + limits.outputs, limits.formats)
       IN  checked.stage = "ok" /\ checked.weights = entry.weights
=============================================================================
