----------------------------- MODULE EvaluationRows -----------------------------
(***************************************************************************)
(* From the rows of a transcript, its replay, the labels bundle and the    *)
(* coordinator's rows to the runs that are scored                          *)
(* (validator/transcripts.py to_outcome; validator/epoch.py                *)
(* coordinator_reference, reference_figures_from_labels, apply_spot_check, *)
(* router_phase; validator/pools/router.py build_sources).                 *)
(*                                                                         *)
(* Operators only.  A condition is its kind and a number: the baseline's,  *)
(* or the floor's.  An answer is right or it is not; what a grader does    *)
(* with it is left out, as are the texts and the figures no score uses.    *)
(***************************************************************************)
EXTENDS ScoreRules

CONSTANTS PEER_CAP_PER_COLDKEY, DRAFTS_PER_SOURCE

OwnCondition == [kind |-> "miner", n |-> 0]
Repair == [kind |-> "repair", n |-> 0]

\* known[i]: the label of an item, its family, and whether it is another one's twin.
Grade(known, i, answer) == answer = known[i].label

\* Variant: a replay that fails for an item fails it in every condition.
GradedByItem(known, replayed, r) ==
    (\A c \in {s.cond : s \in replayed.failed} : [item |-> r.item, cond |-> c] \notin replayed.failed)
    /\ Grade(known, r.item, r.answer)

\* A row whose replay failed is not graded.
GradedRow(known, replayed, r) ==
    [item |-> r.item, cond |-> r.cond] \notin replayed.failed /\ Grade(known, r.item, r.answer)

\* The rows of known items, of which a pool takes its own; and what one is as a run.
Taken(known, transcript) == SelectSeq(transcript, LAMBDA r : r.item \in DOMAIN known)
ItemRun(known, replayed, cost, latency, r) ==
    [item |-> r.item, family |-> known[r.item].family, answer |-> r.answer,
     success |-> GradedRow(known, replayed, r), cost |-> cost, latency |-> latency]

\* Runs of the model or of the harness; and runs that pay the relay and for each token.
Runs(known, replayed, wall, rows) ==
    [k \in DOMAIN rows |-> ItemRun(known, replayed, 0, wall, rows[k])]
Cost(price, r) == r.relayed + price * r.tokens
CostedRuns(known, replayed, price, rows) ==
    [k \in DOMAIN rows |-> ItemRun(known, replayed, Cost(price, rows[k]), replayed.wall, rows[k])]

\* slm_run: the model alone; twins apart.
SlmRun(known, transcript, replayed) ==
    LET of(twin) == SelectSeq(Taken(known, transcript), LAMBDA r :
                        r.pool = "slm" /\ r.cond = OwnCondition /\ known[r.item].twin = twin)
    IN  [runs |-> Runs(known, replayed, 0, of(FALSE)),
         twins |-> Runs(known, replayed, 0, of(TRUE))]

\* harness_run: the miner's condition, and the baselines in their order.
HarnessRun(known, transcript, replayed, limit) ==
    LET rows == SelectSeq(Taken(known, transcript), LAMBDA r : r.pool = "harness")
        of(c) == SelectSeq(rows, LAMBDA r : r.cond = c)
        condition(c) == [runs |-> Runs(known, replayed, replayed.wall, of(c)),
                         tokens |-> Total([k \in DOMAIN of(c) |-> of(c)[k].tokens])]
        others == SetToSortSeq({r.cond : r \in Range(rows)} \ {OwnCondition}, LAMBDA c, d : c.n < d.n)
        added == [k \in DOMAIN of(OwnCondition) |-> replayed.added]
    IN  IF of(OwnCondition) = <<>> THEN None
        ELSE [miner |-> condition(OwnCondition),
              baselines |-> [k \in DOMAIN others |-> condition(others[k])],
              limitsOk |-> (limit = 0 \/ Percentile95(added) <= limit) /\ replayed.over = {}]

\* LabelsBundle.rows: of two rows of a pool and an item the later one.
RowsOf(labels, pool) ==
    LET at(i) == {k \in DOMAIN labels : labels[k].pool = pool /\ labels[k].item = i}
    IN  [i \in {labels[k].item : k \in {j \in DOMAIN labels : labels[j].pool = pool}} |->
            labels[Max(at(i))]]

\* What the redo of the covered items passed and cost.
Redo(redo, covered) ==
    LET rows == SelectSeq(covered, LAMBDA i : i \in DOMAIN redo)
        right == SelectSeq(rows, LAMBDA i : redo[i].correct)
    IN  [passRate |-> IF rows = <<>> THEN 0 ELSE (One * Len(right)) \div Len(rows),
         cost |-> Total([k \in DOMAIN rows |-> redo[rows[k]].cost])]

\* escalation_run: the repairs, against the redo of the same items.
EscalationRun(known, transcript, labels, replayed, price) ==
    LET rows == SelectSeq(Taken(known, transcript), LAMBDA r : r.cond = Repair)
    IN  IF rows = <<>> THEN None
        ELSE [repairs |-> CostedRuns(known, replayed, price, rows),
              redo |-> Redo(RowsOf(labels, "escalation"), [k \in DOMAIN rows |-> rows[k].item])]

\* system_run: a run for each floor; the reference is all the system rows of the labels.
SystemRun(known, transcript, labels, replayed, price) ==
    LET rows == SelectSeq(Taken(known, transcript), LAMBDA r : r.cond.kind = "system")
        floors == SetToSortSeq({r.cond.n : r \in Range(rows)}, <)
        of(floor) == SelectSeq(rows, LAMBDA r : r.cond.n = floor)
        reference == RowsOf(labels, "system")
        costed(own) == CostedRuns(known, replayed, price, own)
        waited(own) == [k \in DOMAIN own |-> [costed(own)[k] EXCEPT !.latency = @ + own[k].waited]]
    IN  IF rows = <<>> THEN None
        ELSE [floors |-> [k \in DOMAIN floors |->
                             [floor |-> floors[k],
                              runs |-> waited(of(floors[k]))]],
              cost |-> SumOver(LAMBDA i : reference[i].cost, DOMAIN reference)]

ToOutcome(known, transcript, labels, replayed, price, limit) ==
    [slm |-> SlmRun(known, transcript, replayed),
     harness |-> HarnessRun(known, transcript, replayed, limit),
     escalation |-> EscalationRun(known, transcript, labels, replayed, price),
     system |-> SystemRun(known, transcript, labels, replayed, price)]

\* apply_spot_check: what the coordinator measured, where it did, takes the place of it.
SpotChecked(run, spot) ==
    LET measured(r) == IF r.item \in DOMAIN spot.timing
                       THEN [r EXCEPT !.latency = spot.timing[r.item]] ELSE r
    IN  [runs |-> [k \in DOMAIN run.runs |-> measured(run.runs[k])],
         twins |-> [k \in DOMAIN run.twins |-> measured(run.twins[k])]]

---------------------------------------------------------------------------------
(* The reference, from the labels bundle and the coordinator. *)

REFERENCE_POOLS == {"slm", "system", "escalation"}
GRADED_REFERENCE_POOLS == {"system", "escalation"}

\* reference_slm_run and reference_escalation_run, of the rows of known items.
ReferenceRuns(known, rows) ==
    LET items == SetToSortSeq(DOMAIN rows \cap DOMAIN known, <)
    IN  [k \in DOMAIN items |->
            [item |-> items[k], success |-> Grade(known, items[k], rows[items[k]].answer),
             cost |-> rows[items[k]].cost]]
ReferenceSlm(known, labels) ==
    LET runs == ReferenceRuns(known, RowsOf(labels, "slm"))
    IN  [runs |-> SelectSeq(runs, LAMBDA r : ~known[r.item].twin),
         twins |-> SelectSeq(runs, LAMBDA r : known[r.item].twin)]
ReferenceEscalation(known, labels) ==
    LET repairs == ReferenceRuns(known, RowsOf(labels, "repair"))
    IN  IF repairs = <<>> THEN None
        ELSE [repairs |-> repairs,
              redo |-> Redo(RowsOf(labels, "escalation"), [k \in DOMAIN repairs |-> repairs[k].item])]

\* reference_figures_from_labels: pools without a reference to compare with.
NoReference(labels) == {pool \in REFERENCE_POOLS : DOMAIN RowsOf(labels, pool) = {}}

\* reference_row: the validator grades the coordinator's answers itself, where it can.
ReferenceRow(known, raw) ==
    [raw EXCEPT !.correct = IF raw.pool \in GRADED_REFERENCE_POOLS
                            THEN raw.item \in DOMAIN known /\ Grade(known, raw.item, raw.answer)
                            ELSE raw.correct]

\* add_reference_rows: rows the bundle holds stay.
AddReferenceRows(known, labels, rows) ==
    LET held == {<<labels[k].pool, labels[k].item>> : k \in DOMAIN labels}
        new == SelectSeq(rows, LAMBDA raw : <<raw.pool, raw.item>> \notin held)
    IN  labels \o [k \in DOMAIN new |-> ReferenceRow(known, new[k])]

\* coordinator_reference: asked only for what is missing; unfinished rows are not used.
CoordinatorReference(known, labels, drafts, repairs, seen) ==
    LET rowsMissing == NoReference(labels) # {}
        draftsMissing == drafts = {} /\ repairs
        used == seen # None /\ (rowsMissing \/ draftsMissing)
    IN  [labels |-> IF used /\ rowsMissing /\ seen.rowsComplete
                    THEN AddReferenceRows(known, labels, seen.rows) ELSE labels,
         drafts |-> IF used /\ draftsMissing /\ seen.draftsComplete THEN seen.drafts ELSE drafts]

---------------------------------------------------------------------------------
(* The drafts a router is asked about. *)

\* How many drafts a coldkey has among the peers' so far.
Capped(rows, h, coldkey) ==
    Cardinality({k \in DOMAIN rows : coldkey[rows[k].of] = coldkey[h]})

\* Drafts of the items that are routed: items is a sequence, drafts[i] the verdict on it.
OwnDrafts(items, drafts, h) ==
    LET there == SelectSeq(items, LAMBDA i : i \in DOMAIN drafts)
    IN  [k \in DOMAIN there |-> [item |-> there[k], of |-> h, label |-> drafts[there[k]]]]

\* peers[h]: the drafts of another miner; the miners in the order of their hotkeys.
PeerDrafts(items, peers, coldkey) ==
    LET add(rows, d) == IF Capped(rows, d.of, coldkey) >= PEER_CAP_PER_COLDKEY THEN rows
                        ELSE Append(rows, d)
        every == FoldLeft(LAMBDA rows, h : rows \o OwnDrafts(items, peers[h], h), <<>>,
                          SetToSortSeq(DOMAIN peers, <))
    IN  FoldLeft(add, <<>>, every)

\* build_sources: drafted[o] are the drafts of another miner, own the miner's or None.
RouterSources(items, h, own, reference, drafted, coldkey, adversarial) ==
    LET cut(rows) == SubSeq(rows, 1, Min({DRAFTS_PER_SOURCE, Len(rows)}))
    IN  [own |-> cut(OwnDrafts(items, IF own = None THEN reference ELSE own, h)),
         reference |-> cut(OwnDrafts(items, reference, None)),
         peer |-> cut(PeerDrafts(items, drafted, coldkey)),
         adversarial |-> cut(SelectSeq(adversarial, LAMBDA d : d.draft))]

\* router_phase: what each router that is asked is asked.  A miner that failed after it
\* was graded still lends its drafts, as does one whose own router is a copy.
RouterPhase(items, records, reference, coldkey, adversarial) ==
    LET drafted == {h \in DOMAIN records : records[h].drafts # None}
        asked == {h \in DOMAIN records : records[h].router /\ ~records[h].failed /\ ~records[h].copied}
    IN  [h \in asked |-> RouterSources(items, h, records[h].drafts, reference,
                                       [o \in drafted \ {h} |-> records[o].drafts],
                                       coldkey, adversarial)]

\* run_router and router.run: a router that fails on one draft has no run.
RouterRun(kept, problem, opens, sources, fails) ==
    IF ~kept \/ problem \/ ~opens
       \/ \E s \in DOMAIN sources : \E k \in DOMAIN sources[s] : fails[s] = k
    THEN [loaded |-> FALSE, asked |-> {}]
    ELSE [loaded |-> TRUE, asked |-> DOMAIN sources]
=================================================================================
