----------------------------- MODULE ServingProbes -----------------------------
(***************************************************************************)
(* mt epoch probe: a validator probes the cards and the general models of  *)
(* the inference operators through the gateway and reports what it judged  *)
(* to the server (serving/probes/loop.py, sets.py, ask.py, general.py,     *)
(* cli/epoch.py).                                                          *)
(*                                                                         *)
(* A cycle lists the operators, asks the general models, lists them again  *)
(* and goes through the cards: a card due for admission gets a round of    *)
(* five probes that ends at the first one not passed.  The listing is read *)
(* once; cards move on meanwhile.  The items come from the sets the        *)
(* validator's own evaluations wrote, or from the server.  A report that   *)
(* fails is not sent again.                                                *)
(*                                                                         *)
(* The server and the cards are outside this repository: their part is     *)
(* what the validator can read of them, and any answer.                    *)
(***************************************************************************)
EXTENDS Integers, Sequences, FiniteSets, PrefillVerdict

CONSTANTS
    CardList,           \* the cards in the order they are listed
    Declared,           \* what operators declare: a sequence of [model, digest]
    Catalogue,          \* general models asked for: digest, verifiable, tools, context
    Calibrated,         \* stored calibrations: [model, digest, calibration]
    Pool,               \* chat items: [id, tools, needs]
    PerOperator,        \* items of a general model per cycle
    Files,              \* the probe sets evaluations wrote: [arena, epoch, artifact, right]
    Arena,
    ServerSets(_),      \* what the server may answer for a model: sets of items
    Floor,              \* --floor, in hundredths
    Quality(_, _),      \* what the arena's grader gives a text: 0..100, or -1 for GradeError
    Answers, Chats,     \* what the gateway may answer
    Listings,           \* what the server may list of a card
    EnvelopeOf,         \* the limits of each model, as the network publishes them
    MaxMoves            \* bound: changes of the listing

VARIABLES
    pc,                 \* "idle", "general", "chat", "listing", "cards", "probe", "dead"
    world,              \* what the server lists of each card now
    listing,            \* the listing of this cycle
    next,               \* the declaration or the card it is at
    pending,            \* chat items left for it
    kinds,              \* probes left for the card
    local,              \* whether the cycle found probe sets of its own
    fetched,            \* what the server answered in this cycle, by model
    held,               \* the set in use
    round,              \* verdicts of the card's probes so far
    recorded,           \* the report the server recorded at the last step
    moves

loop == <<listing, next, pending, kinds, local, fetched, held, round>>
probesVars == <<pc, world, loop, recorded, moves>>

\* Limits and what a card answers are integers, a server sends the limits the
\* network publishes, and a chat item was answered with calls of some tools.
ASSUME ProbesAssumption ==
    /\ CardList \in Seq(Range(CardList))
    /\ \A m \in {l.model : l \in Listings} : \A set \in ServerSets(m) :
           /\ set.envelope = EnvelopeOf[m]
           /\ EnvelopeOf[m] \in [long : Nat, ttft : Nat, longTtft : Nat, longTotal : Nat]
    /\ \A a \in Answers : a.tokens \in Int /\ a.ttft \in Int /\ a.total \in Int
    /\ \A a \in Chats : a.calls \in Seq(Range(a.calls)) /\ (a.gaps = NoMargins \/ a.gaps \in Seq(Nat))
    /\ \A c \in Calibrated : c.calibration.threshold \in Int /\ c.calibration.separated \in BOOLEAN

NoReport == [card |-> 0, kind |-> "none"]

-----------------------------------------------------------------------------
(* Items *)

\* What an evaluation leaves of a run: kinds, references, canaries and the
\* envelope are not written (sets.write, wire, load).
NoEnvelope == [long |-> 0, ttft |-> 0, longTtft |-> 0, longTotal |-> 0]
Loaded(file) ==
    [right |-> file.right,
     items |-> [i \in UNION {file.right[f] : f \in DOMAIN file.right} |->
                   [kind |-> "", ids |-> <<>>, says |-> "", label |-> "label"]],
     canaries |-> {}, grader |-> TRUE, envelope |-> NoEnvelope]

\* latest: of every artifact the set of the highest epoch, the last path of it.
Latest(digest) ==
    LET mine == {k \in DOMAIN Files : Files[k].arena = Arena /\ Files[k].artifact = digest}
        newest == {k \in mine : \A j \in mine : Files[j].epoch <= Files[k].epoch}
    IN  {Loaded(Files[k]) : k \in {k \in newest : \A j \in newest : j <= k}}
AnySet == \E k \in DOMAIN Files : Files[k].arena = Arena

Distance(f) == IF f > Floor THEN f - Floor ELSE Floor - f
RightAt(set) ==
    LET nearest == {f \in DOMAIN set.right : \A g \in DOMAIN set.right :
                        Distance(f) < Distance(g) \/ (Distance(f) = Distance(g) /\ f <= g)}
    IN  UNION {set.right[f] : f \in nearest} \cap DOMAIN set.items
Referenced(item) == item.ids # <<>> \/ item.says # ""

PoolFor(set, kind) ==
    CASE kind = "canary" -> set.canaries \cap DOMAIN set.items
      [] kind = "exact" -> {i \in DOMAIN set.items : set.items[i].kind = "exact" /\ Referenced(set.items[i])}
      [] OTHER -> {i \in RightAt(set) : set.items[i].kind \in {"", "hidden"}}

-----------------------------------------------------------------------------
(* Judging the answer of a card *)

Within(envelope, a) ==
    LET long == envelope.long > 0 /\ a.tokens > envelope.long
        ttft == IF long /\ envelope.longTtft > 0 THEN envelope.longTtft ELSE envelope.ttft
        total == IF long THEN envelope.longTotal ELSE 0
    IN  (ttft > 0 => a.ttft <= ttft) /\ (total > 0 => a.total <= total)

Judged(same) == IF same THEN "pass" ELSE "fail"
Judge(kind, set, i, a) ==
    LET item == set.items[i]
        wanted == IF item.says # "" THEN item.says ELSE item.label
    IN  CASE kind = "exact" /\ ~Referenced(item) -> "unproven"
          [] kind = "exact" /\ Referenced(item) ->
                 IF item.ids # <<>> /\ a.ids # <<>> THEN Judged(a.ids = item.ids)
                 ELSE Judged(a.text = item.says)
          [] kind = "canary" -> IF wanted = "" THEN "unproven" ELSE Judged(a.text = wanted)
          [] OTHER -> IF set.grader THEN Judged(Quality(i, a.text) >= 60) ELSE "unproven"

\* probe_gpu, of an answer that came.
GpuVerdict(kind, set, i, a, digest) ==
    LET found == Judge(kind, set, i, a)
    IN  IF a.digest # "" /\ digest # "" /\ a.digest # digest THEN "fail"
        ELSE IF found = "pass" /\ kind # "exact" /\ ~Within(set.envelope, a) THEN "fail"
        ELSE found

\* _plan_card: due, or by chance one kind.
AdmissionKinds == <<"hidden", "hidden", "hidden", "hidden", "canary">>
Plans(card) ==
    IF card.due THEN {IF card.status \in {"probing", "paused"} THEN AdmissionKinds ELSE <<"hidden">>}
    ELSE {<<>>, <<"hidden">>, <<"exact">>, <<"canary">>}

ProbedStates == {"collateralised", "probing", "admitted"}
Probed(card) ==
    card.state \in ProbedStates /\ card.status \in {"serving", "probing", "paused"} /\ card.model # ""

-----------------------------------------------------------------------------
(* General models *)

Verifiable(entry) == entry.verifiable
ItemsFor(entry) ==
    {k \in DOMAIN Pool : /\ Pool[k].tools # {} => entry.tools
                         /\ entry.context > 0 => Pool[k].needs <= entry.context}
CalibrationFor(model) ==
    {c \in Calibrated : c.model = model /\ c.digest = Catalogue[model].digest}

\* _targets: read once, when the process starts; a verifiable model wants its
\* calibration.
Starts == \A m \in DOMAIN Catalogue : Verifiable(Catalogue[m]) => CalibrationFor(m) # {}

ChatVerdict(model, k, a) ==
    LET entry == Catalogue[model]
    IN  IF a.digest # "" /\ a.digest # entry.digest THEN "cheat"
        ELSE IF BrokenFormat(Pool[k].tools, a.finish, a.calls) THEN "format"
        ELSE IF ~Verifiable(entry) THEN "pass"
        ELSE ModelVerdict(a, (CHOOSE c \in CalibrationFor(model) : TRUE).calibration)
Failing == {"cheat", "format", "fail"}

-----------------------------------------------------------------------------
ProbesInit ==
    /\ pc = IF Starts THEN "idle" ELSE "dead"
    /\ world \in [DOMAIN CardList -> Listings]
    /\ listing = world /\ next = 1 /\ pending = {} /\ kinds = <<>> /\ local \in BOOLEAN
    /\ (local => AnySet)
    /\ fetched = <<>> /\ held = {} /\ round = <<>>
    /\ recorded = NoReport /\ moves = 0

\* _send: the server records the report, or the validator logs that it did not.
Report(r) == recorded' \in {r, NoReport}

StartCycle ==
    /\ pc = "idle" /\ pc' = "general" /\ next' = 1 /\ pending' = {}
    /\ local' \in {local, AnySet}
    /\ recorded' = NoReport /\ UNCHANGED <<world, listing, kinds, fetched, held, round, moves>>

Chosen(d) == Catalogue[d.model].digest = d.digest /\ ItemsFor(Catalogue[d.model]) # {}
SkipDeclared ==
    /\ pc = "general" /\ next <= Len(Declared)
    /\ Declared[next].model \in DOMAIN Catalogue => ~Chosen(Declared[next])
    /\ next' = next + 1
    /\ recorded' = NoReport /\ UNCHANGED <<pc, world, listing, pending, kinds, local, fetched, held, round, moves>>
Sample ==
    /\ pc = "general" /\ next <= Len(Declared) /\ Declared[next].model \in DOMAIN Catalogue
    /\ Chosen(Declared[next])
    /\ \E picked \in SUBSET ItemsFor(Catalogue[Declared[next].model]) :
           /\ LET all == Cardinality(ItemsFor(Catalogue[Declared[next].model]))
              IN  Cardinality(picked) = IF all < PerOperator THEN all ELSE PerOperator
           /\ pending' = picked
    /\ pc' = "chat"
    /\ recorded' = NoReport /\ UNCHANGED <<world, listing, next, kinds, local, fetched, held, round, moves>>

ChatReport(k, a, verdict) ==
    [card |-> 0, kind |-> "chat", model |-> Declared[next].model, item |-> k, answer |-> a,
     verdict |-> verdict, failed |-> verdict \in Failing]
\* An item of probe_general: an answer that is not one is not reported.
Chat ==
    /\ pc = "chat"
    /\ \E k \in pending, a \in Chats :
           /\ pending' = pending \ {k}
           /\ LET verdict == ChatVerdict(Declared[next].model, k, a)
              IN  IF a.ok THEN Report(ChatReport(k, a, verdict))
                  ELSE recorded' = NoReport
    /\ IF pending' = {} THEN pc' = "general" /\ next' = next + 1 ELSE UNCHANGED <<pc, next>>
    /\ UNCHANGED <<world, listing, kinds, local, fetched, held, round, moves>>
EndGeneral ==
    /\ pc = "general" /\ next > Len(Declared) /\ pc' = "listing"
    /\ recorded' = NoReport /\ UNCHANGED <<world, loop, moves>>

ListCards ==
    /\ pc = "listing" /\ pc' = "cards" /\ listing' = world /\ next' = 1 /\ fetched' = <<>>
    /\ recorded' = NoReport /\ UNCHANGED <<world, pending, kinds, local, held, round, moves>>
\* A ServerError ends the cycle, not the loop.
ListingFails ==
    /\ pc = "listing" /\ pc' = "idle"
    /\ recorded' = NoReport /\ UNCHANGED <<world, loop, moves>>

NextCard == next' = next + 1 /\ pc' = "cards"
SkipCard ==
    /\ pc = "cards" /\ next <= Len(CardList)
    /\ ~Probed(listing[next]) \/ <<>> \in Plans(listing[next])
    /\ NextCard
    /\ recorded' = NoReport /\ UNCHANGED <<world, listing, pending, kinds, local, fetched, held, round, moves>>

Fetched == {k \in DOMAIN fetched : fetched[k].model = listing[next].model}
\* The items of a card: of its artifact, or of its model, fetched once in a
\* cycle unless the server did not answer.
HeldSets ==
    IF local THEN {Latest(listing[next].digest)}
    ELSE IF Fetched # {} THEN {{fetched[k].set} : k \in Fetched}
    ELSE {{}} \cup {{set} : set \in ServerSets(listing[next].model)}
Usable(sets) == \A set \in sets : DOMAIN set.items # {}
\* Variant: a card without items ends the cycle.
PastTheLast(sets) == IF sets # {} /\ Usable(sets) THEN next ELSE Len(CardList) + 1
CardAfter(sets) == IF sets # {} /\ Usable(sets) THEN next ELSE next + 1
PlanCard ==
    /\ pc = "cards" /\ next <= Len(CardList) /\ Probed(listing[next])
    /\ kinds' \in Plans(listing[next]) \ {<<>>}
    /\ \E sets \in HeldSets :
           /\ held' = sets
           /\ fetched' = IF local \/ sets = {} \/ Fetched # {} THEN fetched
                         ELSE Append(fetched, [model |-> listing[next].model, set |-> CHOOSE s \in sets : TRUE])
           /\ pc' = IF sets # {} /\ Usable(sets) THEN "probe" ELSE "cards"
           /\ next' = CardAfter(sets)
    /\ round' = <<>>
    /\ recorded' = NoReport /\ UNCHANGED <<world, listing, pending, local, moves>>

HeldSet == CHOOSE s \in held : TRUE
\* The exact kind falls back to a hidden item.
Kind == IF Head(kinds) = "exact" /\ PoolFor(HeldSet, "exact") = {} THEN "hidden" ELSE Head(kinds)
\* Variant: the round goes on whatever the verdict.
GoesOn(verdict) == Len(kinds) > 1
RoundGoesOn(verdict) == verdict = "pass" /\ Len(kinds) > 1
AfterProbe(verdict) ==
    IF RoundGoesOn(verdict) THEN kinds' = Tail(kinds) /\ UNCHANGED <<pc, next>>
    ELSE kinds' = <<>> /\ NextCard

\* No item of the kind, or no answer: nothing is reported.
ProbeIsSkipped ==
    /\ pc = "probe"
    /\ PoolFor(HeldSet, Kind) = {} \/ \E a \in Answers : ~a.ok
    /\ AfterProbe("none") /\ round' = Append(round, "none")
    /\ recorded' = NoReport /\ UNCHANGED <<world, listing, pending, local, fetched, held, moves>>
\* ask does not expect a 200 that is not json: the process ends.
ProbeIsGarbled ==
    /\ pc = "probe" /\ PoolFor(HeldSet, Kind) # {}
    /\ pc' = "dead"
    /\ recorded' = NoReport /\ UNCHANGED <<world, loop, moves>>
\* The report of a probe, and what it was judged by.
CardReport(i, a, verdict) ==
    [card |-> next, kind |-> Kind, model |-> listing[next].model, item |-> i, answer |-> a,
     verdict |-> verdict, failed |-> verdict = "fail",
     listed |-> listing[next], before |-> round, source |-> local, wants |-> HeldSet.items[i]]
ProbeCard ==
    /\ pc = "probe"
    /\ \E i \in PoolFor(HeldSet, Kind), a \in {a \in Answers : a.ok} :
           LET verdict == GpuVerdict(Kind, HeldSet, i, a, listing[next].digest)
           IN  /\ AfterProbe(verdict) /\ round' = Append(round, verdict)
               /\ IF verdict = "unproven" THEN recorded' = NoReport
                  ELSE Report(CardReport(i, a, verdict))
    /\ UNCHANGED <<world, listing, pending, local, fetched, held, moves>>
EndCycle ==
    /\ pc = "cards" /\ next > Len(CardList) /\ pc' = "idle" /\ kinds' = <<>> /\ held' = {} /\ fetched' = <<>> /\ round' = <<>>
    /\ recorded' = NoReport /\ UNCHANGED <<world, listing, next, pending, local, moves>>

Loop == StartCycle \/ SkipDeclared \/ Sample \/ Chat \/ EndGeneral \/ ListCards \/ ListingFails
        \/ SkipCard \/ PlanCard \/ ProbeIsSkipped \/ ProbeIsGarbled \/ ProbeCard \/ EndCycle

\* The server and the card move on: another status, another artifact.
WorldMoves ==
    /\ moves < MaxMoves /\ moves' = moves + 1
    /\ \E c \in DOMAIN CardList, l \in Listings : world' = [world EXCEPT ![c] = l]
    /\ recorded' = NoReport /\ UNCHANGED <<pc, loop>>

ProbesNext == Loop \/ WorldMoves
ProbesSpec == ProbesInit /\ [][ProbesNext]_probesVars /\ WF_probesVars(Loop)

-----------------------------------------------------------------------------
(* Properties *)

OtherArtifact(r) == r.answer.digest \notin {"", r.listed.digest} /\ r.listed.digest # ""
\* What docs/inference_miner.md asks of each kind of probe.
IsRight(r) ==
    LET said == r.answer.text
        ids == {r.wants.ids, r.answer.ids}
    IN  CASE r.kind = "exact" -> IF <<>> \in ids THEN said = r.wants.says ELSE r.answer.ids = r.wants.ids
          [] r.kind = "canary" ->
                 said # "" /\ (said = r.wants.says \/ (r.wants.says = "" /\ said = r.wants.label))
          [] r.kind = "hidden" -> Quality(r.item, said) >= 60
IsInside(envelope, a) ==
    LET long == envelope.long # 0 /\ a.tokens > envelope.long
    IN  /\ envelope.ttft = 0 \/ a.ttft <= envelope.ttft \/ (long /\ a.ttft <= envelope.longTtft)
        /\ long /\ envelope.longTtft # 0 => a.ttft <= envelope.longTtft
        /\ long /\ envelope.longTotal # 0 => a.total <= envelope.longTotal

(***************************************************************************)
(* What the server holds of a card is what the card did: a recorded pass   *)
(* was right, of the artifact the card was listed with, and, unless only   *)
(* its tokens counted, inside the limits the server gave with the items; a *)
(* recorded failure was not all of that.  An answer that could not be      *)
(* judged is no report.  (probe_gpu, judge, within, pool_for, withheld_for)*)
(***************************************************************************)
RecordedIsJudged(r) ==
    r.card > 0 =>
    /\ r.verdict \in {"pass", "fail"} /\ r.failed = (r.verdict = "fail")
    /\ ~r.failed <=>
           /\ ~OtherArtifact(r) /\ IsRight(r)
           /\ r.kind = "exact" \/ r.source \/ IsInside(EnvelopeOf[r.model], r.answer)

\* A reply as the documentation has it: plain text, or calls of offered tools
\* whose arguments parse; one cut short may break off in the arguments.
WellFormed(a, tools) ==
    /\ {a.calls[k].name : k \in DOMAIN a.calls} \subseteq tools
    /\ \/ a.finish = "stop" /\ a.calls = <<>>
       \/ a.finish = "length"
       \/ /\ a.finish = "tool_calls" /\ a.calls # <<>>
          /\ \A k \in DOMAIN a.calls : a.calls[k].arguments # "broken"

(***************************************************************************)
(* A general model is reported failing for another artifact, a broken      *)
(* answer, or a mean margin over a threshold that separated a substitute;  *)
(* whatever else kept the validator from checking the answer moves nothing.*)
(* (probe_general, _judged, format_failure, ModelVerifier.judge, judge)    *)
(***************************************************************************)
OnlyProvenFails(r) ==
    r.kind = "chat" =>
    LET a == r.answer
        entry == Catalogue[r.model]
        stored == {c.calibration : c \in CalibrationFor(r.model)}
    IN  /\ r.failed =>
               \/ a.digest \notin {"", entry.digest}
               \/ ~WellFormed(a, Pool[r.item].tools)
               \/ /\ a.ours /\ a.rebuilt
                  /\ \E c \in stored : c.separated /\ 100 * Parts * SumFunction(a.gaps) > c.threshold * Len(a.gaps)
        /\ r.verdict = "pass" /\ entry.verifiable => a.ours /\ a.rebuilt /\ a.gaps \notin {<<>>, NoMargins}

(***************************************************************************)
(* A round is passes in a row: whatever the server records of a card came  *)
(* after passes only, and an admission's canary after its four hidden      *)
(* probes.  (cycle_gpus, _plan_card, admission_kinds)                      *)
(***************************************************************************)
RoundIsInARow(r) ==
    r.card > 0 =>
    /\ \A k \in DOMAIN r.before : r.before[k] = "pass"
    /\ r.listed.due /\ r.kind = "canary" => Len(r.before) = 4
    /\ r.listed.due /\ r.listed.status = "serving" => r.kind = "hidden" /\ r.before = <<>>

(***************************************************************************)
(* Every card of a listing has its turn, whatever the cards before it      *)
(* answered and whether there were items for them, as long as the process  *)
(* lives.  (cycle_gpus)                                                    *)
(***************************************************************************)
EveryCardHasItsTurn ==
    \A k \in DOMAIN CardList : (pc = "cards" /\ next <= k) ~> ((pc = "cards" /\ next = k) \/ pc = "dead")

(***************************************************************************)
(* A verdict rests on what the model would have said: margins of the       *)
(* returned tokens, thresholds, and texts rebuilt from replies, for all    *)
(* inputs given as constants; looked at when a run starts.                 *)
(***************************************************************************)
JudgementIsSound == pc = "idle" /\ moves = 0 /\ recorded = NoReport => VerdictIsSound

\* Whatever the server holds of a card is true of it, failures are proven, and a round is
\* passes in a row, however the world moves between a listing and its probes.
ReportsAreFair == RecordedIsJudged(recorded) /\ OnlyProvenFails(recorded) /\ RoundIsInARow(recorded)
=============================================================================
