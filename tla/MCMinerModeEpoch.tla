---------------------------- MODULE MCMinerModeEpoch ----------------------------
(***************************************************************************)
(* Two miners: the second gives the first one's answers and has its        *)
(* router, with other weights.  How a miner is prepared, scored and paid,  *)
(* which the model of the round leaves to choices, is looked at by itself  *)
(* in the initial state.                                                   *)
(***************************************************************************)
EXTENDS MinerModeEpoch, EvaluationRows, EvidenceRules

CONSTANTS m1, m2, d1, d2
TwoMiners == {m1, m2}
Order == [m \in Miners |-> IF m = m1 THEN 1 ELSE 2]
Distinct == [m \in Miners |-> IF m = m1 THEN d1 ELSE d2]
Equal == [m \in Miners |-> d1]
EveryPool == {Pools}

---------------------------------------------------------------------------------
(* Four items of two families: what an entry and its reference answer is a set of items. *)

Items == 1..4
FamilyOf(i) == IF i <= 2 THEN "f" ELSE "g"
Answers(right, cost) ==
    [i \in Items |-> [item |-> i, family |-> FamilyOf(i), success |-> i \in right,
                      cost |-> cost, latency |-> cost, answered |-> TRUE, prompt |-> i,
                      completion |-> 2, ttft |-> cost, tpot |-> cost]]
Model(right, twins, cost) ==
    [runs |-> Answers(right, cost), twins |-> Answers(twins, cost), parameters |-> cost,
     cost |-> [tpot |-> cost, ttft |-> cost, vram |-> cost, n |-> cost]]

Envelopes == [low |-> 1, high |-> 8, memory |-> 6, ttft |-> 6, tpot |-> 0]
Budgets == [above |-> 3, longTtft |-> 5, ttft |-> 4, longE2e |-> 0, tpot |-> 0]
Definitions ==
    {RulesOf([min_items |-> 4], [violation_share |-> 0]),
     RulesOf([min_items |-> 0, per_item |-> TRUE], [violation_share |-> 250]),
     RulesOf([min_items |-> 4, per_item |-> TRUE, cap |-> None, edge_max |-> 50,
              edge_per_group |-> 20, twin_slope |-> 200, efficiency_linear |-> TRUE],
             [violation_share |-> 250])}

BetterIn(family, mine, theirs) ==
    Cardinality({i \in mine : FamilyOf(i) = family})
        > Cardinality({i \in theirs : FamilyOf(i) = family})

SlmIsBetter ==
    \A mine, theirs \in SUBSET Items, base \in {{}, {1, 3}}, twins \in {{}, {1, 2, 3}},
       cost \in {4, 5, 7}, rules \in Definitions, provenance \in BOOLEAN :
        LET run == Model(mine, twins, cost)
            reference == Model(theirs, theirs, 4)
            gates == Gates(run, Envelopes, Budgets, rules)
            score == SlmScore(run, reference, IF base = {} THEN None ELSE Model(base, {}, 4),
                              provenance, gates, 2, rules)
        IN  score.eligible =>
                /\ provenance /\ cost < 7 /\ rules.minItems <= 4
                /\ \A family \in {"f", "g"} : BetterIn(family, mine, theirs)
                /\ base # {} => \A family \in {"f", "g"} : BetterIn(family, mine, base)
                /\ rules.perItem => cost = 4 \/ rules.violations >= 1000

HarnessIsBetter ==
    \A mine, one, two \in SUBSET Items, tokens \in {3, 9}, limits \in BOOLEAN :
        LET baselines == <<[runs |-> Answers(one, 1), tokens |-> 3],
                           [runs |-> Answers(two, 1), tokens |-> 1]>>
            score == HarnessScore([runs |-> Answers(mine, 1), tokens |-> tokens], baselines, limits, 4)
        IN  score.eligible =>
                /\ limits
                /\ Cardinality(mine) > Cardinality(one) /\ Cardinality(mine) > Cardinality(two)

EscalationIsBetter ==
    \A mine, theirs \in SUBSET Items, cost \in {1, 3}, rate \in {0, 300}, compared \in BOOLEAN :
        LET redo == [cost |-> 8, passRate |-> rate]
            reference == IF compared THEN Answers(theirs, 1) ELSE <<>>
            score == EscalationScore(Answers(mine, cost), reference, redo,
                                     <<<<"f", "g">>, <<"f", "f">>, <<"g", "g">>>>, 4)
        IN  score.eligible =>
                /\ cost = 1 /\ (rate > 0 => mine # {})
                /\ compared => Cardinality(mine) > Cardinality(theirs) \/ rate = 0

SystemIsBetter ==
    \A one, two \in SUBSET Items, cost \in {1, 2, 3} :
        LET floors == <<[floor |-> 500, runs |-> Answers(one, cost)],
                        [floor |-> 200, runs |-> Answers(two, cost)]>>
        IN  SystemScore(floors, [cost |-> 8, latency |-> 2], 4).eligible =>
                (one = Items \/ Cardinality(two) >= 2) /\ cost < 3

\* For every small run and reference, an entry is eligible in a pool only if it passed the
\* gates of the pool, has its items, and is better than what it is compared with: a model
\* in every family of items, than the reference and than the base it declares; a harness
\* than each of the baselines; an escalation and a system at a lower cost (validator/score,
\* scoring/stats.paired_lb, checks.gates).
EligibleIsBetter ==
    Init => SlmIsBetter /\ HarnessIsBetter /\ EscalationIsBetter /\ SystemIsBetter

---------------------------------------------------------------------------------
(* Drafts: a probability of zero, a quarter, three quarters or one, and a label. *)

Draft == [p: {0, 3, 9, 12}, label: {0, 1}]
Source(drafts) ==
    [i \in DOMAIN drafts |-> [p |-> drafts[i].p, label |-> drafts[i].label, family |-> FamilyOf(i)]]
Sources == {Source(drafts) : drafts \in UNION {[1..n -> Draft] : n \in 1..4}}

\* Of the pairs of a right and a wrong draft, twice those the router tells apart, and those
\* it holds for equal.
PairsTold(source) ==
    LET pairs == {ij \in (DOMAIN source) \X (DOMAIN source) :
                     source[ij[1]].label = 1 /\ source[ij[2]].label = 0}
    IN  <<Cardinality({ij \in pairs : source[ij[1]].p > source[ij[2]].p})
             + Cardinality({ij \in pairs : source[ij[1]].p >= source[ij[2]].p}),
          2 * Cardinality(pairs)>>

\* For every small source, the separation of a router is the share of the pairs of a right
\* and a wrong draft it ranks rightly, an equal pair half; its value is within one, is one
\* where every draft is told for sure and nothing where the mean is always given; and a
\* router that does as the reference does is not eligible (score.auroc, router_score).
RouterIsMeasured ==
    Init => \A source \in Sources, rules \in Definitions :
        LET mean == (Grain * Labels(source)) \div Len(source)
            run(s) == [loaded |-> TRUE, latency |-> 50, sources |-> <<s, source>>]
            drawn == <<<<"f", "g">>, <<"f", "f">>, <<"g", "g">>>>
            value(s) == SourceScore(s, <<3, 6>>, rules)
            auroc == Auroc(source)
        IN  /\ Labels(source) \in 1..Len(source) - 1 => auroc = PairsTold(source)
            /\ value(source) # None =>
                  /\ value(source) \in 0..One
                  /\ value([i \in DOMAIN source |-> [source[i] EXCEPT !.p = 12 * source[i].label]]) = One
                  /\ value([i \in DOMAIN source |-> [source[i] EXCEPT !.p = mean]]) = 0
            /\ ~RouterScore(run(source), run(source), <<3, 6>>, drawn, rules).eligible

---------------------------------------------------------------------------------
MCStandings ==
    {{[hotkey |-> h, score |-> Ladder(before[h], now[h]), eligible |-> h # out, block |-> block[h]] :
         h \in 1..3} :
        before \in [1..3 -> {None, 10}], now \in [1..3 -> {0, 15, 30}],
        block \in [1..3 -> 1..2], out \in 0..3}

\* For every standings, a pool is paid to the eligible with a score, more for the better
\* score, and of two equals more for the earlier commitment; no share of a pool is lost but
\* those of empty pools without an owner to burn to; and what is published of an artifact
\* never falls and is never a step behind its best score (pools.combine, score.published).
PaidByRank ==
    Init =>
        /\ \A standings \in MCStandings, owner \in {None, 3, 9}, other \in {{}, {1}} :
            LET second == {[hotkey |-> h, score |-> 5, eligible |-> TRUE, block |-> 1] : h \in other}
                shares == [slm |-> 3, router |-> 2]
                combined == Combined([slm |-> standings, router |-> second], shares, owner)
                payout == PoolPayout(standings)
                whole == Max({1, payout.whole})
                winners == DOMAIN payout.parts
            IN  /\ winners = {s.hotkey : s \in {t \in standings : t.eligible /\ t.score > 0}}
                /\ \A s, t \in standings :
                      /\ {s.hotkey, t.hotkey} \subseteq winners
                      /\ s.score > t.score \/ (s.score = t.score /\ s.block < t.block)
                      => payout.parts[s.hotkey] > payout.parts[t.hotkey]
                /\ (owner # None \/ combined.burned = {}) =>
                      LET unit == whole * IF other = {} THEN 1 ELSE 40
                      IN  /\ SumOver(LAMBDA h : combined.weights[h], DOMAIN combined.weights) = 5 * unit
                          /\ 9 \in DOMAIN combined.weights =>
                                combined.weights[9] = unit * SumOver(LAMBDA pool : shares[pool], combined.burned)
        /\ \A scored \in [1..4 -> {0, 5, 10, 15, 21}] :
            LET shown[k \in 1..4] == Ladder(IF k = 1 THEN None ELSE shown[k - 1], scored[k])
            IN  \A k \in 1..4 :
                  /\ k > 1 => shown[k] >= shown[k - 1]
                  /\ \A j \in 1..k : scored[j] <= shown[k] + LADDER_STEP

\* Every pool pays what its rule says: parts better than the best ones, routers that
\* separate, the schedule by rank.
PoolsPayMerit == EligibleIsBetter /\ RouterIsMeasured /\ PaidByRank

---------------------------------------------------------------------------------
(* A blob of three bytes, an honest mirror that keeps or ignores ranges, and one that is
   out of order. *)

Sent(status, resumes, bytes, sound, cut) ==
    [status |-> status, at |-> resumes, bytes |-> bytes, sound |-> sound, cut |-> cut]
HonestAnswers ==
    {Sent(206, n, 1, TRUE, TRUE) : n \in 0..2} \cup {Sent(206, n, Blob - n, TRUE, FALSE) : n \in 0..2}
    \cup {Sent(200, 0, Blob, TRUE, FALSE), Sent(503, 0, 0, TRUE, FALSE)}
AnyAnswers ==
    HonestAnswers \cup {Sent(206, 0, 2, FALSE, TRUE), Sent(200, 0, Blob, FALSE, FALSE),
                        Sent(416, 0, 0, TRUE, FALSE), Sent(404, 0, 0, TRUE, FALSE)}
ThreeOrFour == [1..3 -> AnyAnswers] \cup [1..4 -> HonestAnswers]

(* An artifact of two versions, one without a model and one with fewer weights; the folder
   is as one or two processes left it that died in a step. *)

File(name, digest, weight) == [name |-> name, digest |-> digest, weight |-> weight]
OfVersion(v, shards) ==
    [artifact |-> {File(1, v, FALSE), File(2, v, TRUE)},
     slm |-> {File(1, v, FALSE)} \cup {File(n, v, TRUE) : n \in shards}]
EntriesOf == {OfVersion("old", {2, 3}), OfVersion("new", {2, 3}), OfVersion("new", {2}), OfVersion("new", {})}
FilesOf == UNION {entry.artifact \cup entry.slm : entry \in EntriesOf}
StopsAt == {NoStop} \cup [at: Range(Steps), reads: {0}, known: BOOLEAN]
           \cup [at: {"artifact", "model", "pull"}, reads: 1..3, known: {FALSE}]
Dies == [entry: EntriesOf, stop: {stop \in StopsAt : stop.at \in {"model", "pull", "grade"} /\ ~stop.known}]
OneOrTwo == {<<>>} \cup [1..1 -> [entry: EntriesOf, stop: StopsAt]] \cup [1..2 -> Dies]

\* Two miners, the first with the same artifact in each round.
OneOfEach == {stop \in StopsAt : stop.reads = 0}
LotOf(entry, stop) == [entry |-> entry, past |-> <<>>, stop |-> stop]
TwoLots == {<<LotOf(OfVersion("old", {2, 3}), one), LotOf(entry, two)>> :
               one \in OneOfEach, two \in OneOfEach, entry \in EntriesOf}
BannedSince == {{[hotkey |-> 1, from |-> since, until |-> 2]} : since \in 0..2}

---------------------------------------------------------------------------------
(* A transcript of five rows, each left out, wrong or right: a model row and its twin, a
   baseline and the miner's harness, a repair; a system row at two floors; and a row of an
   item that is not of the round. *)

Known == [i \in 1..2 |-> [label |-> "right", family |-> FamilyOf(i), twin |-> i = 2]]
RowOf(pool, cond, i, answer) ==
    [pool |-> pool, cond |-> cond, item |-> i, answer |-> answer, tokens |-> 2, relayed |-> i, waited |-> 0]
At(kind, n) == [kind |-> kind, n |-> n]
RowsPlanned == <<<<"slm", OwnCondition, 1>>, <<"slm", OwnCondition, 2>>, <<"harness", At("reference", 1), 1>>,
                 <<"harness", OwnCondition, 1>>, <<"escalation", Repair, 1>>, <<"system", At("system", 50), 1>>>>
RowsWith(answers) ==
    FoldLeft(LAMBDA rows, k : IF answers[k] = "none" THEN rows
                              ELSE Append(rows, RowOf(RowsPlanned[k][1], RowsPlanned[k][2],
                                                      RowsPlanned[k][3], answers[k])),
             <<RowOf("slm", OwnCondition, 7, "right")>>, <<1, 2, 3, 4, 5, 6>>)
LabelRow(pool, i, answer, claimed, cost) ==
    [pool |-> pool, item |-> i, answer |-> answer, correct |-> claimed, cost |-> cost]
RedoLabels == <<LabelRow("escalation", 1, "right", TRUE, 5), LabelRow("system", 1, "right", TRUE, 4),
                LabelRow("escalation", 2, "right", FALSE, 9)>>
ReplayWith(failures, over) ==
    [failed |-> failures, wall |-> 1, added |-> 3, over |-> over]
PairOf(k) == [item |-> RowsPlanned[k][3], cond |-> RowsPlanned[k][2]]

\* Every row of an item of the round is a run of its pool, once; a run is a success if the
\* answer is right and the replay of that very row did not fail; a repair is compared with
\* the redo of the items that were repaired (transcripts.to_outcome).
RowsCountOnce ==
    \A answers \in [1..6 -> {"none", "right", "wrong"}], fails \in 0..6 :
        LET failures == IF fails = 0 THEN {} ELSE {PairOf(fails)}
            wants(k) == answers[k] = "right" /\ PairOf(k) \notin failures
            outcome == ToOutcome(Known, RowsWith(answers), RedoLabels, ReplayWith(failures, {}), 1, 3)
            gives(runs, k) == IF answers[k] = "none" THEN runs = <<>>
                              ELSE Len(runs) = 1 /\ (runs[1].success <=> wants(k))
        IN  /\ gives(outcome.slm.runs, 1) /\ gives(outcome.slm.twins, 2)
            /\ IF answers[4] = "none" THEN outcome.harness = None
               ELSE /\ gives(outcome.harness.miner.runs, 4) /\ outcome.harness.limitsOk
                    /\ IF answers[3] = "none" THEN outcome.harness.baselines = <<>>
                       ELSE gives(outcome.harness.baselines[1].runs, 3)
            /\ IF answers[5] = "none" THEN outcome.escalation = None
               ELSE /\ gives(outcome.escalation.repairs, 5)
                    /\ outcome.escalation.repairs[1].cost = 3
                    /\ outcome.escalation.redo = [passRate |-> One, cost |-> 5]
            /\ IF answers[6] = "none" THEN outcome.system = None
               ELSE gives(outcome.system.floors[1].runs, 6) /\ outcome.system.cost = 4
            /\ LET spotted == SpotChecked(outcome.slm, [timing |-> 1 :> 8])
               IN  [k \in DOMAIN spotted.runs |-> [spotted.runs[k] EXCEPT !.latency = 0]] = outcome.slm.runs

HeldLabels == UNION {[1..n -> {LabelRow(pool, 1, "wrong", TRUE, 7) : pool \in {"slm", "system", "escalation", "repair"}}] :
                        n \in 0..3}
FoundRows == UNION {[1..n -> {LabelRow(pool, i, answer, claimed, 1) :
                                 pool \in {"slm", "system"}, i \in {1, 7}, answer \in {"right", "wrong"},
                                 claimed \in BOOLEAN}] : n \in 0..2}

\* What the labels bundle says of a pool and an item is what is used, whatever the
\* coordinator published; unfinished rows are not used at all; and an answer of the
\* coordinator or of the bundle's own model and repairs counts as right by the validator's
\* own grade, whatever its row claims (coordinator_reference, reference_slm_run).
ReferenceStays ==
    \A labels \in HeldLabels, rows \in FoundRows, finished \in BOOLEAN :
        LET seen == [rows |-> rows, rowsComplete |-> finished, drafts |-> {1}, draftsComplete |-> finished]
            got == CoordinatorReference(Known, labels, {}, TRUE, seen)
            asked(pool) == DOMAIN RowsOf(got.labels, pool)
            model == ReferenceSlm(Known, got.labels)
            escalation == ReferenceEscalation(Known, labels)
            measured == Range(model.runs) \cup Range(model.twins)
        IN  /\ got.drafts = IF finished THEN {1} ELSE {}
            /\ \A r \in measured : r.success <=> RowsOf(got.labels, "slm")[r.item].answer = "right"
            /\ escalation # None =>
                  /\ \A r \in Range(escalation.repairs) : ~r.success
                  /\ (escalation.redo.cost > 0) <=> DOMAIN RowsOf(labels, "escalation") # {}
            /\ ~finished \/ NoReference(labels) = {} => got.labels = labels
            /\ \A pool \in REFERENCE_POOLS :
                  /\ \A i \in DOMAIN RowsOf(labels, pool) : RowsOf(got.labels, pool)[i] = RowsOf(labels, pool)[i]
                  /\ \A i \in asked(pool) \ DOMAIN RowsOf(labels, pool) :
                        pool # "slm" =>
                            (RowsOf(got.labels, pool)[i].correct
                             <=> i \in DOMAIN Known /\ RowsOf(got.labels, pool)[i].answer = "right")

ColdkeyOf == <<"c", "c", "d">>
DraftsOver == UNION {[of -> {0, 1}] : of \in SUBSET {1, 2}}

Hands == {[failed |-> FALSE, router |-> TRUE, copied |-> FALSE], [failed |-> TRUE, router |-> TRUE, copied |-> FALSE],
          [failed |-> FALSE, router |-> TRUE, copied |-> TRUE]}
HandWith(hand, drafts) == [failed |-> hand.failed, router |-> hand.router, copied |-> hand.copied, drafts |-> drafts]

\* A router is judged on its own drafts, or the reference's, and on those of others: never
\* on its own as another's, never on more than the cap of one coldkey, and where the caps
\* leave nothing out, on all of them, each with the verdict on it (router_phase,
\* router.build_sources).
RouterHearsOthers ==
    \A one, two \in DraftsOver, three \in DraftsOver \cup {None}, first, last \in Hands :
        LET hands == <<HandWith(first, one), HandWith([first EXCEPT !.failed = FALSE], two), HandWith(last, three)>>
            phase == RouterPhase(<<1, 2>>, hands, 1 :> 1, ColdkeyOf,
                                 <<[draft |-> TRUE, label |-> 0], [draft |-> FALSE, label |-> 0]>>)
        IN  \A h \in DOMAIN phase :
                LET drafts == phase[h]
                    of(o) == SelectSeq(drafts.peer, LAMBDA d : d.of = o)
                    ofColdkey(c) == {k \in DOMAIN drafts.peer : ColdkeyOf[drafts.peer[k].of] = c}
                    others(c) == {o \in 1..3 \ {h} : ColdkeyOf[o] = c /\ hands[o].drafts # None}
                    given(c) == SumOver(LAMBDA o : Cardinality(DOMAIN hands[o].drafts), others(c))
                    asked(fails) == RouterRun(TRUE, FALSE, TRUE, drafts, fails)
                    none == [source \in DOMAIN drafts |-> 0]
                IN  /\ \A k \in DOMAIN drafts.own :
                          drafts.own[k].label = IF hands[h].drafts = None THEN 1
                                                ELSE hands[h].drafts[drafts.own[k].item]
                    /\ Len(drafts.adversarial) = 1 /\ Len(drafts.peer) <= DRAFTS_PER_SOURCE
                    /\ of(h) = <<>>
                    /\ \A c \in {"c", "d"} : Cardinality(ofColdkey(c)) <= PEER_CAP_PER_COLDKEY
                    /\ \A o \in 1..3 : \A k \in DOMAIN of(o) :
                          of(o)[k].label = hands[o].drafts[of(o)[k].item]
                    /\ given("c") <= PEER_CAP_PER_COLDKEY /\ given("c") + given("d") <= DRAFTS_PER_SOURCE =>
                          Len(drafts.peer) = given("c") + given("d")
                    /\ asked(none).loaded /\ ~asked([none EXCEPT !["reference"] = 1]).loaded

\* What is scored is what was answered, replayed and published, row by row.
OutcomeIsOfItsRows == Init => RowsCountOnce /\ ReferenceStays /\ RouterHearsOthers

---------------------------------------------------------------------------------
(* Reports about one miner, whose transcript is "t": what its row says, what they lift. *)

Held(claimed) == [kind |-> "spot_check", call |-> 1, first |-> "x", second |-> "x", claimed |-> claimed]
Heard(transcript, spot, failure, evidence) ==
    [miner |-> 1, transcript |-> transcript, spot |-> spot, failure |-> failure, evidence |-> evidence]
Spot(calls) == [fast |-> "", fits |-> "", calls |-> calls]
HeardRows == {Heard("t", Missing, TRUE, {Held("y")}), Heard("t", Spot(1), FALSE, {Held("x")}),
              Heard("t", Spot(2), TRUE, {[Held("y") EXCEPT !.second = "z"]}),
              Heard("t", Missing, FALSE, {[Held("y") EXCEPT !.kind = "canary"]}),
              Heard("t", Missing, FALSE, {[Held("y") EXCEPT !.first = NO_TOKENS, !.second = NO_TOKENS]}),
              Heard("u", Spot(3), TRUE, {Held("y")})}
SaidBy(by, signed, of, rows, appeals, ends) ==
    [by |-> by, signed |-> signed, epoch |-> of, rows |-> rows, appeals |-> appeals, complete |-> ends,
     reference |-> [drafts |-> {[item |-> 1, text |-> 1]}, done |-> ends]]
Lifts == {<<1, "spot_check", 1>>}
Reports == {SaidBy(1, TRUE, 1, <<row>>, {}, FALSE) : row \in HeardRows}
           \cup {SaidBy(2, TRUE, 1, <<>>, Lifts, FALSE), SaidBy(2, TRUE, 1, <<>>, {}, TRUE),
                 SaidBy(3, FALSE, 1, <<Heard("t", Spot(4), TRUE, {Held("y")})>>, Lifts, TRUE),
                 SaidBy(3, TRUE, 2, <<Heard("t", Spot(4), TRUE, {Held("y")})>>, Lifts, TRUE)}

\* Whatever the order the reports come in, and however often one comes, the same miners
\* are flagged, covered and failed, and the wait ends alike; and a flag is one that a
\* verified report of the round proves of the transcript with the receipt, and none lifts
\* (spotcheck.merge).
ReportsMergeAsOne ==
    \A one, two, three \in Reports, readable \in BOOLEAN :
        LET merged(reports) == MergeReports(1, reports, LeavesRead(1 :> "t", readable))
            seen == merged(<<one, two, three>>)
            says(got) == <<StandingFlags(got, 1), Covers(got, 1), got.failures, got.complete,
                           got.drafts, got.draftsComplete, got.coordinators>>
            heard == {r \in {one, two, three} : r.signed /\ r.epoch = 1}
            rows == UNION {Range(r.rows) : r \in heard}
        IN  /\ says(seen) = says(merged(<<two, one, three>>))
            /\ says(seen) = says(merged(<<one, three, two>>))
            /\ says(seen) = says(merged(<<one, two, three, one>>))
            /\ \A row \in {r \in rows : r.transcript = "t"}, e \in UNION {r.evidence : r \in rows} :
                  readable /\ e \in row.evidence /\ EvidenceStands(e) =>
                      (Key(1, e) \in StandingFlags(seen, 1) <=> \A r \in heard : Key(1, e) \notin r.appeals)
            /\ StandingFlags(seen, 1) # {} =>
                  readable /\ \E row \in rows : row.transcript = "t" /\ row.evidence # {}

\* A miner is never put behind one that committed in a later block, or later in its block
\* where the order of that block can be read; and what is read of it in part does not put
\* one before another (duplicates.commit_order).
OrderIsOfCommits ==
    \A blocks \in [1..3 -> 0..2], read \in [1..3 -> {Missing, 1, 2, 3}] :
        LET order == CommitOrder(blocks, read)
            place(h) == CHOOSE i \in DOMAIN order : order[i] = h
            whole(b) == \A h \in 1..3 : blocks[h] = b => read[h] # Missing
        IN  /\ Len(order) = 3 /\ Range(order) = 1..3
            /\ \A h, k \in 1..3 :
                  /\ (blocks[h] > 0 /\ (blocks[k] = 0 \/ blocks[h] < blocks[k])) => place(h) < place(k)
                  /\ blocks[h] = blocks[k] /\ blocks[h] > 0 /\ whole(blocks[h]) /\ read[h] < read[k] =>
                        place(h) < place(k)
                  /\ (blocks[h] = blocks[k] /\ (blocks[h] = 0 \/ ~whole(blocks[h])) /\ h < k) =>
                        place(h) < place(k)

Tensor(shape, number) == [shape |-> shape, at |-> number, float |-> TRUE, packed |-> FALSE]
BaseTensors == [n \in 1..3 |-> Tensor(IF n = 3 THEN 2 ELSE 1, 10 * n)]
Changed(by, names) ==
    [n \in Range(names) |-> LET b == CHOOSE i \in 1..3 : names[i] = n
                            IN  [BaseTensors[b] EXCEPT !.at = @ + by[b]]]
\* New names, but no tensor has the name of another one of the base.
NewNames == {names \in [1..3 -> 1..6] :
                \A b \in 1..3 : /\ names[b] > 3 \/ names[b] = b
                                /\ \A c \in 1..3 : names[b] = names[c] => b = c}

\* A model is the same change of the base under any names of its tensors, as long as each
\* is nearest to the tensor it was made from; and answers are the same either way round
\* (duplicates._aligned, sketch_weights, behaviour_overlap).
CopiesAreFound ==
    /\ \A by \in [1..3 -> {-4, 0, 3}], names \in NewNames :
          LET own == Change(Changed(by, <<1, 2, 3>>), BaseTensors)
              renamed == Changed(by, names)
          IN  /\ own # {} /\ Change(renamed, BaseTensors) = own
              /\ Change([n \in DOMAIN renamed |-> [renamed[n] EXCEPT !.packed = n = names[1]]], BaseTensors) = {}
              /\ Change([n \in {names[1], names[2]} |-> renamed[n]], BaseTensors) = {}
    /\ \A one, two \in [1..3 -> {<<>>, <<1>>, <<2>>}], fault \in 0..3 :
          LET rows(tokens) == {[own |-> TRUE, fault |-> i = fault, tokens |-> tokens[i], item |-> i] : i \in 1..3}
              same == SameOutputs(OutputsOf(rows(one)), OutputsOf(rows(two)))
          IN  /\ same <=> SameOutputs(OutputsOf(rows(two)), OutputsOf(rows(one)))
              /\ same => Cardinality({i \in 1..3 \ {fault} : one[i] = two[i] /\ one[i] # <<>>}) >= MIN_COMMON_ITEMS

\* What is held against a miner does not depend on who reports first, nor on who reads what.
EvidenceIsSound == Init => ReportsMergeAsOne /\ OrderIsOfCommits /\ CopiesAreFound
================================================================================
