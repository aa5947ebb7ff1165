------------------------------- MODULE ScoreRules -------------------------------
(***************************************************************************)
(* How the pools of the evaluation are scored and paid (validator/score,   *)
(* scoring/stats, scoring/pools, and the gates of validator/checks).       *)
(*                                                                         *)
(* Operators only.  Rates, bounds and scores are thousandths of one,       *)
(* rounded down; the significance of a paired difference, and the losses   *)
(* and the separation of a router, are compared exactly.  A bootstrap is   *)
(* given the families it draws.                                            *)
(***************************************************************************)
EXTENDS Integers, Sequences, FiniteSets, FiniteSetsExt, SequencesExt

CONSTANT None               \* a value that is not there

One == 1000
Clamp(low, high, x) == Max({low, Min({high, x})})
Total(seq) == FoldLeft(+, 0, seq)
SumOver(f(_), S) == MapThenSumSet(f, S)
Successes(runs) == Cardinality({i \in DOMAIN runs : runs[i].success})
PassRate(runs) == IF runs = <<>> THEN 0 ELSE (One * Successes(runs)) \div Len(runs)

---------------------------------------------------------------------------------
(* The rules an epoch's definition sets. *)

\* A value of zero stands for one that is not there, or it does not.
OrDefault(block, key, default) ==
    IF key \in DOMAIN block /\ block[key] # 0 THEN block[key] ELSE default
GetDefault(block, key, default) ==
    IF key \in DOMAIN block THEN block[key] ELSE default

RulesOf(scoring, envelope) ==
    LET edge(key) == IF GetDefault(scoring, "edge_applies", TRUE)
                     THEN GetDefault(scoring, key, 0) ELSE 0
    IN  [tolerance |-> GetDefault(scoring, "twin_tolerance", 30),
         slope |-> GetDefault(scoring, "twin_slope", 0),
         linear |-> GetDefault(scoring, "efficiency_linear", FALSE),
         range |-> GetDefault(scoring, "efficiency_range", 250),
         edgePerGroup |-> edge("edge_per_group"),
         edgeMax |-> edge("edge_max"),
         perItem |-> GetDefault(scoring, "per_item", FALSE),
         violations |-> GetDefault(envelope, "violation_share", 10),
         cap |-> GetDefault(scoring, "cap", One),
         burnEmpty |-> GetDefault(scoring, "burn_empty", FALSE),
         brierAuroc |-> GetDefault(scoring, "brier_auroc", FALSE),
         routerMs |-> OrDefault(scoring, "router_ms", 100),
         minItems |-> OrDefault(scoring, "min_items", 400)]

---------------------------------------------------------------------------------
(* Statistics. *)

\* The root of what fits 31 bits, rounded down.
Root(n) ==
    FoldLeft(LAMBDA k, bit : IF (k + bit) * (k + bit) <= n THEN k + bit ELSE k, 0,
             [i \in 1..12 |-> 2 ^ (12 - i)])

Z == 1645                   \* Z_ONE_SIDED_95

WilsonLb(successes, trials) ==
    LET spread == Root((1000000 * successes * (trials - successes)) \div Max({1, trials}) + (Z * Z) \div 4)
    IN  IF trials <= 0 THEN 0
        ELSE Clamp(0, One, (1000 * (1000 * successes + (Z * Z) \div 2000 - (Z * spread) \div 1000))
                               \div (1000 * trials + (Z * Z) \div 1000))

\* Two outcomes of the same items: what the first has over the second, family by family.
Delta(a, b, i) == (IF a[i].success THEN 1 ELSE 0) - (IF b[i].success THEN 1 ELSE 0)
Families(runs) == {runs[i].family : i \in DOMAIN runs}

\* paired_lb(...).lower_bound > 0: the mean difference over its standard error, with the
\* errors of one family added before they are squared.
LowerBoundByItem(a, b) ==
    LET n == Len(a)
        mean == SumOver(LAMBDA i : Delta(a, b, i), DOMAIN a)
        squares == SumOver(LAMBDA i : (n * Delta(a, b, i) - mean) * (n * Delta(a, b, i) - mean), DOMAIN a)
    IN  mean > 0 /\ 1000000 * (n * mean) * (n * mean) > Z * Z * squares

LowerBoundAboveZero(a, b) ==
    LET n == Len(a)
        mean == SumOver(LAMBDA i : Delta(a, b, i), DOMAIN a)
        error(f) == SumOver(LAMBDA i : n * Delta(a, b, i) - mean, {i \in DOMAIN a : a[i].family = f})
        squares == SumOver(LAMBDA f : error(f) * error(f), Families(a))
    IN  mean > 0 /\ 1000000 * (n * mean) * (n * mean) > Z * Z * squares

\* The items of a run that another run has too, and the other's answers to them.
Common(run, other) == SelectSeq(run, LAMBDA r : \E i \in DOMAIN other : other[i].item = r.item)
Aligned(run, other) ==
    LET mine == Common(run, other)
    IN  [k \in DOMAIN mine |->
            other[CHOOSE i \in DOMAIN other : other[i].item = mine[k].item]]

\* The fifth of a hundred draws, from below.
BootstrapLb(values) ==
    IF values = <<>> THEN 0
    ELSE SortSeq(values, <)[Max({0, (5 * Len(values)) \div 100 - 1}) + 1]

\* A better score is published once it is a step above the best.
LADDER_STEP == 10
Ladder(previous, score) ==
    IF previous = None \/ score > previous + LADDER_STEP THEN score ELSE previous

---------------------------------------------------------------------------------
(* The model pool. *)

\* Natural logarithms of one to sixteen.
LnOf == <<0, 693, 1099, 1386, 1609, 1792, 1946, 2079, 2197, 2303,
          2398, 2485, 2565, 2639, 2708, 2773>>
LogRatio(reference, measured) ==
    IF reference <= 0 \/ measured <= 0 THEN 0 ELSE LnOf[reference] - LnOf[measured]
Gain(reference, measured) ==
    IF reference <= 0 \/ measured <= 0 THEN 0
    ELSE Clamp(0, One, (One * (reference - measured)) \div reference)

EFFICIENCY_WEIGHTS == [tpot |-> 1, ttft |-> 4, vram |-> 3, n |-> 2]     \* tenths
Efficiency(run, reference, rules) ==
    LET gain(key) == IF rules.linear THEN Gain(reference.cost[key], run.cost[key])
                     ELSE LogRatio(reference.cost[key], run.cost[key])
        value == SumOver(LAMBDA key : EFFICIENCY_WEIGHTS[key] * gain(key),
                         DOMAIN EFFICIENCY_WEIGHTS) \div 10
    IN  IF rules.linear THEN value ELSE Clamp(-One, One, value)

\* What an artifact does better on the published items than on their twins is memory.
TwinFactor(run, rules) ==
    LET excess == Max({0, PassRate(run.runs) - PassRate(run.twins) - rules.tolerance})
    IN  IF run.twins = <<>> THEN One
        ELSE One - IF rules.slope > 0 THEN Min({One, (One * excess) \div rules.slope}) ELSE excess

\* The answered items that are over the budgets, of those answered; all, if none is.
EnvelopeShare(runs, budgets) ==
    LET answered == SelectSeq(runs, LAMBDA r : r.answered)
        isLong(r) == budgets.above > 0 /\ r.prompt > budgets.above
        limit(r) == IF isLong(r) /\ budgets.longTtft > 0 THEN budgets.longTtft ELSE budgets.ttft
        late(r) == \/ limit(r) > 0 /\ r.ttft > limit(r)
                   \/ isLong(r) /\ budgets.longE2e > 0 /\ r.latency > budgets.longE2e
        slow(r) == r.completion > 1 /\ budgets.tpot > 0 /\ r.tpot > budgets.tpot
    IN  IF answered = <<>> THEN One
        ELSE (One * Cardinality({i \in DOMAIN answered : late(answered[i]) \/ slow(answered[i])}))
                 \div Len(answered)

\* checks.gates: the size, the memory and the speed; the speed by item, or by percentile.
Gates(run, envelope, budgets, rules) ==
    LET sized == run.parameters > 0 /\ run.parameters \in envelope.low..envelope.high
        fits == run.cost.vram <= envelope.memory
        fast == /\ envelope.ttft = 0 \/ run.cost.ttft <= envelope.ttft
                /\ envelope.tpot = 0 \/ run.cost.tpot <= envelope.tpot
    IN  IF rules.perItem
        THEN [gate |-> sized,
              envelope |-> fits /\ EnvelopeShare(run.runs, budgets) <= rules.violations]
        ELSE [gate |-> sized /\ fits /\ fast, envelope |-> TRUE]

Beats(run, other) ==
    LowerBoundAboveZero(Common(run.runs, other.runs), Aligned(run.runs, other.runs))

\* A model that does not beat the base it declares is not its own.
SlmScore(run, reference, base, provenance, gates, edgeGroups, rules) ==
    LET passed == gates.gate /\ provenance /\ gates.envelope
        bonus == Min({rules.edgeMax, rules.edgePerGroup * edgeGroups})
        raw == (((WilsonLb(Successes(run.runs), Len(run.runs)) * TwinFactor(run, rules)) \div One)
                  * (One + (rules.range * Efficiency(run, reference, rules)) \div One + bonus))
                  \div One
        score == IF ~passed THEN 0
                 ELSE Max({0, IF rules.cap = None THEN raw ELSE Min({rules.cap, raw})})
        own == base = None \/ Beats(run, base)
    IN  [score |-> IF own THEN score ELSE 0,
         eligible |-> own /\ passed /\ Len(run.runs) >= rules.minItems /\ Beats(run, reference)]

---------------------------------------------------------------------------------
(* The harness, against the best of the baselines. *)

NoScore == [score |-> 0, eligible |-> FALSE]

BestBaseline(baselines) ==
    CHOOSE i \in DOMAIN baselines : \A j \in DOMAIN baselines :
        LET own == PassRate(baselines[i].runs)  other == PassRate(baselines[j].runs)
        IN  own > other \/ (own = other /\ baselines[i].tokens <= baselines[j].tokens)

\* Tokens over one and a half of the baseline's take from the score.
Allowance(tokens, baseline) ==
    IF tokens > 0 THEN Min({One, (3 * One * baseline) \div (2 * tokens)}) ELSE One

HarnessScore(miner, baselines, limitsOk, minItems) ==
    LET best == baselines[BestBaseline(baselines)]
        mine == Common(miner.runs, best.runs)
        better == LowerBoundAboveZero(mine, Aligned(miner.runs, best.runs))
                  /\ Allowance(miner.tokens, best.tokens) > 0
    IN  IF ~limitsOk \/ baselines = <<>> THEN NoScore
        ELSE [score |-> IF better THEN 1 ELSE 0,     \* how much is left out: what is ranked is above zero
              eligible |-> better /\ Len(mine) >= minItems]

---------------------------------------------------------------------------------
(* The router: probabilities that the draft is right, in parts of Grain. *)

Grain == 12
Labels(source) == Cardinality({i \in DOMAIN source : source[i].label = 1})

\* Keeping a wrong draft costs the floor, sending a right one what is left of it, and a
\* fifth of the Brier loss is added.  Over 5 * Grain^2 * the number of floors.
Loss(p, label, floors) ==
    LET kept(floor) == IF p >= floor /\ label = 0 THEN floor ELSE 0
        sent(floor) == IF p < floor /\ label = 1 THEN Grain - floor ELSE 0
    IN  5 * Grain * Total([i \in DOMAIN floors |-> kept(floors[i]) + sent(floors[i])])
        + Len(floors) * (p - Grain * label) * (p - Grain * label)

BrierLoss(p, label) == (p - Grain * label) * (p - Grain * label)

\* The rank of the middle of the places it shares with its equals, doubled.
RankDoubled(source, i) ==
    2 * Cardinality({j \in DOMAIN source : source[j].p < source[i].p})
    + Cardinality({j \in DOMAIN source : source[j].p = source[i].p}) + 1

\* The rank sum of the positives less its least, over the pairs, doubled: <<part, whole>>.
Auroc(source) ==
    LET positives == Labels(source)
        negatives == Len(source) - positives
        ranks == SumOver(LAMBDA i : RankDoubled(source, i), {i \in DOMAIN source : source[i].label = 1})
    IN  IF positives = 0 \/ negatives = 0 THEN <<1, 2>>
        ELSE <<ranks - positives * (positives + 1), 2 * positives * negatives>>

\* What is left of the loss of a router that always gives the mean label; None where
\* that one loses nothing.
SourceScore(source, floors, rules) ==
    LET mean == (Grain * Labels(source)) \div Len(source)
        loss(p, label) == IF rules.brierAuroc THEN BrierLoss(p, label) ELSE Loss(p, label, floors)
        base == Total([i \in DOMAIN source |-> loss(mean, source[i].label)])
        lost == Total([i \in DOMAIN source |-> loss(source[i].p, source[i].label)])
        kept == Max({0, (One * (base - lost)) \div base})
        auroc == Auroc(source)
        separation == Max({0, (One * (2 * auroc[1] - auroc[2])) \div auroc[2]})
    IN  IF source = <<>> \/ base <= 0 THEN None
        ELSE IF rules.brierAuroc THEN (kept + separation) \div 2 ELSE kept

\* Seven tenths of the mean of the sources and three of the worst.
RouterValue(sources, floors, rules) ==
    LET scores == SelectSeq([k \in DOMAIN sources |-> SourceScore(sources[k], floors, rules)],
                            LAMBDA s : s # None)
    IN  IF scores = <<>> THEN 0
        ELSE (7 * (Total(scores) \div Len(scores)) + 3 * Min(Range(scores))) \div 10

\* Every item of a family that was drawn, as often as it was drawn.
Resample(sources, draw) ==
    LET drawn(family) == Cardinality({k \in DOMAIN draw : draw[k] = family})
        times(r) == [k \in 1..drawn(r.family) |-> r]
    IN  [s \in DOMAIN sources |-> FoldLeft(LAMBDA rest, r : rest \o times(r), <<>>, sources[s])]

RouterScore(run, reference, floors, draws, rules) ==
    LET gate == run.loaded /\ run.latency < rules.routerMs
        over(draw) == RouterValue(Resample(run.sources, draw), floors, rules)
                      - RouterValue(Resample(reference.sources, draw), floors, rules)
        margin == BootstrapLb([k \in DOMAIN draws |-> over(draws[k])])
    IN  [score |-> IF gate THEN Clamp(0, One, RouterValue(run.sources, floors, rules)) ELSE 0,
         eligible |-> /\ gate /\ reference # None
                      /\ Total([s \in DOMAIN run.sources |-> Len(run.sources[s])]) >= rules.minItems
                      /\ margin > 0]

---------------------------------------------------------------------------------
(* Escalation and the system: what is saved, where the answers are as good. *)

ESCALATION_MARGIN == 20
EscalationValue(repairs, redo) ==
    LET cost == SumOver(LAMBDA i : repairs[i].cost, DOMAIN repairs)
        saved == IF redo.cost > 0 THEN Max({0, (One * (redo.cost - cost)) \div redo.cost}) ELSE 0
    IN  IF WilsonLb(Successes(repairs), Len(repairs)) >= redo.passRate - ESCALATION_MARGIN
        THEN saved ELSE 0

OfFamilies(rows, draw) ==
    FoldLeft(LAMBDA rest, family : rest \o SelectSeq(rows, LAMBDA r : r.family = family), <<>>, draw)

EscalationScore(repairs, reference, redo, draws, minItems) ==
    LET value == EscalationValue(repairs, redo)
        mine == Common(repairs, reference)
        theirs == Aligned(repairs, reference)
        over(draw) ==
            IF reference = <<>> THEN EscalationValue(OfFamilies(repairs, draw), redo)
            ELSE EscalationValue(OfFamilies(mine, draw), redo)
                 - EscalationValue(OfFamilies(theirs, draw), redo)
    IN  [score |-> value,
         eligible |-> /\ value > 0 /\ Len(repairs) >= minItems
                      /\ BootstrapLb([k \in DOMAIN draws |-> over(draws[k])]) > 0]

GAIN_CAP == 2303
Percentile95(values) ==     \* with fewer than twenty values, between the two highest
    LET sorted == SortSeq(values, <)  n == Len(values)  rank == 95 * (n - 1)
        low == rank \div 100 + 1  high == Min({n, low + 1})
    IN  IF n = 0 THEN 0
        ELSE (sorted[low] * (100 - (rank % 100)) + sorted[high] * (rank % 100)) \div 100

\* A floor that is met with the margin of error is worth what it saves, in logarithms.
FloorValue(floor, reference) ==
    LET gain == (7 * LogRatio(reference.cost, SumOver(LAMBDA i : floor.runs[i].cost, DOMAIN floor.runs))
                 + 3 * LogRatio(reference.latency,
                                Percentile95([i \in DOMAIN floor.runs |-> floor.runs[i].latency]))) \div 10
    IN  IF WilsonLb(Successes(floor.runs), Len(floor.runs)) >= floor.floor
        THEN (One * Clamp(0, GAIN_CAP, gain)) \div GAIN_CAP ELSE 0

SystemScore(floors, reference, minItems) ==
    LET values == [k \in DOMAIN floors |-> FloorValue(floors[k], reference)]
        n == Min({Len(floors[k].runs) : k \in DOMAIN floors})
    IN  IF floors = <<>> THEN NoScore
        ELSE [score |-> Total(values) \div Len(floors),
              eligible |-> Total(values) > 0 /\ n >= minItems]

---------------------------------------------------------------------------------
(* The standings and what they are paid. *)

RANK_PAYOUT == <<40, 25, 15, 12, 8>>

\* The eligible with a score, best first, the earlier commitment of two equals, and the
\* hotkey of two of one block.  A standing's hotkey is a number here, in their order.
RankedBefore(a, b) ==
    \/ a.score > b.score
    \/ a.score = b.score /\ a.block < b.block
    \/ a.score = b.score /\ a.block = b.block /\ a.hotkey < b.hotkey

Ranked(standings) ==
    SetToSortSeq({s \in standings : s.eligible /\ s.score > 0}, RankedBefore)

\* Of Payout[2] parts, the parts of the paid hotkeys: the schedule, cut to them.
PoolPayout(standings) ==
    LET paid == SubSeq(Ranked(standings), 1, Min({Len(RANK_PAYOUT), Len(Ranked(standings))}))
        whole == Total(SubSeq(RANK_PAYOUT, 1, Len(paid)))
    IN  [whole |-> whole,
         parts |-> [h \in {paid[i].hotkey : i \in DOMAIN paid} |->
                       RANK_PAYOUT[CHOOSE i \in DOMAIN paid : paid[i].hotkey = h]]]

\* Every pool has its share; an empty one is burned to the owner, when there is one to
\* name, and else is left to the other pools.  Over all the pools' wholes.
Combined(pools, shares, owner) ==
    LET payout == [pool \in DOMAIN shares |-> PoolPayout(pools[pool])]
        empty == {pool \in DOMAIN shares : payout[pool].whole = 0}
        paid == DOMAIN shares \ empty
        unit == FoldSet(LAMBDA pool, product : product * payout[pool].whole, 1, paid)
        hotkeys == UNION {DOMAIN payout[pool].parts : pool \in paid}
                   \cup IF owner # None /\ empty # {} THEN {owner} ELSE {}
        earned(h) == SumOver(LAMBDA pool : (unit \div payout[pool].whole) * shares[pool]
                                              * payout[pool].parts[h],
                             {pool \in paid : h \in DOMAIN payout[pool].parts})
        burned(h) == IF h = owner THEN unit * SumOver(LAMBDA pool : shares[pool], empty) ELSE 0
    IN  [weights |-> [h \in hotkeys |-> earned(h) + burned(h)], burned |-> empty]
=================================================================================
