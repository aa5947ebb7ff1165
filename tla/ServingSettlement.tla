--------------------------- MODULE ServingSettlement ---------------------------
(***************************************************************************)
(* How a validator turns the published serving settlement and its own      *)
(* pool standings into the vector it sends (validator/epoch.py,            *)
(* serving/audit.py, settle.py, pools.py, scoring/pools.py,                *)
(* chain/weights.py).                                                      *)
(*                                                                         *)
(* The settlement, its receipts and the list of operators are read one     *)
(* after the other and each read may fail; what was audited is divided     *)
(* over the operators, folded with what the system pools pay, and made     *)
(* the integers the chain takes.                                           *)
(*                                                                         *)
(* Simplifications: hotkeys are numbers in the order of their names, and   *)
(* 0 is the subnet owner's, which burns; cards are numbers in the order    *)
(* settle_epoch gives the rows of one operator.  Fractions are exact, as   *)
(* integers over a common denominator: the rounding to nine digits and the *)
(* floats of the pools are left out.  The rows are those of one arena.     *)
(***************************************************************************)
EXTENDS Integers, Sequences, FiniteSets, FiniteSetsExt, Functions

CONSTANTS
    Hotkeys,        \* operators and miners, numbers above 0
    NoColdkey,      \* a row that names no coldkey
    Cards,          \* the cards the settlement has rows of, numbers
    Documents,      \* bound: the settlements that may be published
    Catalogues,     \* bound: the sets of operators that are newly admitted
    Serving,        \* bound: the arena's serving blocks (dials and shares)
    Pools,          \* the system pools; a pool's share is the same for each
    Standings,      \* bound: per pool, the standing of every miner
    Metagraphs,     \* bound: the hotkeys that may be registered
    Owners,         \* bound: whether empty pools are burned to a known owner
    Payout,         \* RANK_PAYOUT
    Scale,          \* SERVING_SCALE, the emission that is divided
    ScoreScale,     \* SCALE of a score
    Total           \* U16_MAX, what the vector's values add up to

Owner == 0
None == [k \in {} |-> 0]

ASSUME HotkeysAssumption == Hotkeys \subseteq Nat \ {Owner}
ASSUME SizesAssumption ==
    /\ Scale \in Nat \ {0} /\ ScoreScale \in Nat \ {0} /\ Total \in Nat \ {0}
    /\ Payout \in Seq(Nat \ {0}) /\ Payout # << >>

\* settle._count and settle.pass_rate: a negative count and more passes than
\* probes raise, so a document with such a row is not read.
IsRow(row) ==
    /\ row.operator \in Hotkeys /\ row.team \in BOOLEAN /\ IsFiniteSet(row.first)
    /\ {row.inside, row.outside, row.probes, row.passes, row.billing} \subseteq Nat
    /\ row.passes <= row.probes

ASSUME DocumentsAssumption ==
    \A d \in Documents :
        /\ IsFiniteSet(DOMAIN d.rows) /\ DOMAIN d.rows \subseteq Cards /\ Cards \subseteq Nat
        /\ \A c \in DOMAIN d.rows : IsRow(d.rows[c])
        /\ d.rated \in BOOLEAN /\ d.forged \in BOOLEAN

ASSUME CataloguesAssumption == \A who \in Catalogues : who \subseteq Hotkeys /\ IsFiniteSet(who)

\* pools.fraction_of: a share or a cap that is negative is refused.
ASSUME ServingAssumption ==
    \A b \in Serving :
        /\ b.floor \in Nat /\ b.bounty \in Nat
        /\ b.bands \in Seq([cap : Nat, below : SUBSET Nat])

ASSUME PoolsAssumption == IsFiniteSet(Pools) /\ Pools # {}

ASSUME StandingsAssumption ==
    \A s \in Standings, p \in Pools :
        /\ DOMAIN s[p] \subseteq Hotkeys /\ IsFiniteSet(DOMAIN s[p])
        /\ \A h \in DOMAIN s[p] : s[p][h].score \in Nat /\ s[p][h].commit \in Nat

ASSUME OwnersAssumption == \A o \in Owners : o \subseteq {Owner}

VARIABLES
    doc,        \* server: the published settlement, its receipts, its billing
    newcomers,  \* server: the operators admitted in the last floor epochs
    block,      \* server: the arena's serving block
    standings,  \* memory: what the scores of the round came to
    registered, \* chain: the hotkeys on the metagraph
    burnTo,     \* chain: the owner's hotkey, or nobody when it is not burned to
    phase,      \* memory: the next step
    settled,    \* memory: the rows that are paid
    billing,    \* memory: the billing the cap schedule is read with
    listed,     \* memory: the operators that were read
    split,      \* memory: the Split of the serving pool
    pooled,     \* memory: what the system pools pay, by hotkey
    folded,     \* memory: both together
    vector      \* chain: the vector that is sent

inputs == <<doc, newcomers, block, standings, registered, burnTo>>
vars == <<inputs, phase, settled, billing, listed, split, pooled, folded, vector>>

At(f, k) == IF k \in DOMAIN f THEN f[k] ELSE 0
Plus(f, g) == [k \in DOMAIN f \cup DOMAIN g |-> At(f, k) + At(g, k)]
Least(a, b) == IF a < b THEN a ELSE b

-----------------------------------------------------------------------------
(* settle.py: the rows of the evidence, made figures. *)

\* An item inside the envelope counts one, outside it a half.
Score(row) ==
    LET weighted == 2 * row.inside + row.outside
        rate == IF row.probes = 0 THEN <<1, 1>> ELSE <<row.passes, row.probes>>
    IN  (weighted * rate[1] * ScoreScale) \div (2 * rate[2])

SettleRow(row) ==
    [operator |-> row.operator, score |-> Score(row), billing |-> row.billing,
     coldkey |-> row.coldkey, team |-> row.team, first |-> row.first]

SettleEpoch(rows) == [c \in DOMAIN rows |-> SettleRow(rows[c])]

Compared(row) == <<row.score, row.billing, row.coldkey, row.team>>

ReceiptsAddUp(d) == d.root # "differs" /\ ~d.forged

\* audit.check: nothing invented, omitted or changed, and the receipts add up.
Holds(d) ==
    LET ours == SettleEpoch(d.rows)
    IN  /\ DOMAIN d.published = DOMAIN ours
        /\ \A c \in DOMAIN ours : Compared(d.published[c]) = Compared(ours[c])
        /\ ReceiptsAddUp(d)

-----------------------------------------------------------------------------
(* pools.py: the serving pool, divided. *)

OperatorsOf(rows) == {rows[c].operator : c \in DOMAIN rows}
CardsOf(rows, o) == {c \in DOMAIN rows : rows[c].operator = o}
Earned(rows) == {c \in DOMAIN rows : rows[c].score > 0}
TotalOf(rows, o) == SumFunction([c \in CardsOf(rows, o) |-> rows[c].score])

\* The last of an operator's rows that names a coldkey decides.
ColdkeyOf(rows, o) ==
    LET named == {c \in CardsOf(rows, o) : rows[c].coldkey # NoColdkey}
    IN  IF named = {} THEN NoColdkey ELSE rows[Max(named)].coldkey

Team(rows) == {o \in OperatorsOf(rows) : \E c \in CardsOf(rows, o) : rows[c].team}

\* One operator of a coldkey is paid: the one with the most, then the last name.
Ahead(rows, o, p) ==
    \/ TotalOf(rows, o) > TotalOf(rows, p)
    \/ TotalOf(rows, o) = TotalOf(rows, p) /\ o > p

Siblings(rows, o) ==
    {p \in OperatorsOf(rows) \ Team(rows) : ColdkeyOf(rows, p) = ColdkeyOf(rows, o)}

ExcludedTeam(rows) == Team(rows)

ExcludedOf(rows) ==
    Team(rows) \cup
    {o \in OperatorsOf(rows) : /\ ColdkeyOf(rows, o) # NoColdkey
                               /\ \E p \in Siblings(rows, o) : Ahead(rows, p, o)}

\* Whole shares by score; the largest takes what the division leaves.
Shares(serving, rows) ==
    LET earned == Restrict(rows, Earned(rows))
        who == OperatorsOf(earned)
        total == [o \in who |-> TotalOf(earned, o)]
        whole == SumFunction(total)
        floor == [o \in who |-> (serving * total[o]) \div whole]
        largest == CHOOSE o \in who : \A p \in who \ {o} : Ahead(earned, o, p)
    IN  IF serving <= 0 \/ who = {} THEN None
        ELSE [floor EXCEPT ![largest] = @ + serving - SumFunction(floor)]

ClaimsOf(rows, d) ==
    {rows[c].operator : c \in {k \in DOMAIN rows : d \in rows[k].first}} \ ExcludedOf(rows)

BountiesOf(reserve, rows) ==
    LET digests == {d \in UNION {rows[c].first : c \in DOMAIN rows} : ClaimsOf(rows, d) # {}}
        each == [d \in digests |->
                    (reserve \div Cardinality(digests)) \div Cardinality(ClaimsOf(rows, d))]
        won(o) == SumFunction(Restrict(each, {d \in digests : o \in ClaimsOf(rows, d)}))
    IN  IF reserve <= 0 THEN None
        ELSE [o \in {p \in OperatorsOf(rows) : won(p) > 0} |-> won(o)]

FloorsInFull(ceiling, shares, who, target) ==
    [o \in DOMAIN shares \cup who |->
        IF o \in who /\ At(shares, o) < target THEN target ELSE At(shares, o)]

\* Newcomers are raised to the floor in the order of their names while there
\* is anything left to raise them with.
Floors(ceiling, shares, who, target) ==
    LET raise(found, o) ==
            LET left == ceiling - SumFunction(found)
                gap == target - At(found, o)
            IN  IF gap <= 0 \/ left <= 0 THEN found
                ELSE Plus(found, [k \in {o} |-> Least(gap, left)])
        last == Max(who \cup {Owner})
        raised[o \in Owner..last] ==
            IF o = Owner THEN shares
            ELSE IF o \in who THEN raise(raised[o - 1], o) ELSE raised[o - 1]
    IN  raised[last]

\* The first band the billing is below; the last band has no bound.
CapFor(bands, amount) ==
    LET reach == {k \in DOMAIN bands : bands[k].below = {} \/ \E b \in bands[k].below : amount < b}
        at == Min(reach)
        rises == \A k \in 2..at : \A a \in bands[k - 1].below, b \in bands[k].below : a < b
    IN  IF /\ reach # {} /\ rises
           /\ \A k \in 1..at : bands[k].cap <= 100
           /\ bands[at].below = {} => at = Len(bands)
        THEN {bands[at].cap} ELSE {}

Percent(amount, share) == (amount * share) \div 100

Half == 50
Rebate == 4

Divide(rows, cap, who, floor, bounty) ==
    LET earned == Earned(rows)
        rebated == Percent(SumFunction([c \in earned |-> rows[c].billing]), Rebate)
        ceiling == Percent(Scale, cap)
        paid == Least(rebated, ceiling)
        reserve == IF earned = {} THEN 0 ELSE Percent(paid, bounty)
        usage == Shares(paid - reserve, rows)
        kept == Restrict(usage, DOMAIN usage \ ExcludedOf(rows))
        earnings == Plus(kept, BountiesOf(reserve, rows))
        shares == Floors(ceiling, earnings, who, Percent(ceiling, floor))
    IN  [serving |-> ceiling, modelling |-> Scale - ceiling, shares |-> shares,
         earnings |-> earnings, burned |-> ceiling - SumFunction(shares)]

DefaultCap == 10

\* An invalid serving block pays nobody: the pool of the default dials burns.
SplitOf(rows, amount, who) ==
    LET cap == CapFor(block.bands, amount)
    IN  IF cap = {} \/ block.floor > Half \/ block.bounty > Half
        THEN Divide(None, DefaultCap, {}, 0, 0)
        ELSE Divide(rows, CHOOSE c \in cap : TRUE,
                    IF block.floor > 0 THEN who ELSE {}, block.floor, block.bounty)

-----------------------------------------------------------------------------
(* scoring/pools.py: what the system pools pay. *)

Better(s, h, g) ==
    \/ s[h].score > s[g].score
    \/ s[h].score = s[g].score /\ s[h].commit < s[g].commit
    \/ s[h].score = s[g].score /\ s[h].commit = s[g].commit /\ h < g

Ranked(s) == {h \in DOMAIN s : s[h].eligible /\ s[h].score > 0}
Place(s, h) == 1 + Cardinality({g \in Ranked(s) : Better(s, g, h)})

Upto(n) == SumFunction([k \in 1..n |-> Payout[k]])

\* A common denominator of every payout schedule.
Unit ==
    LET product[n \in 0..Len(Payout)] == IF n = 0 THEN 1 ELSE product[n - 1] * Upto(n)
    IN  product[Len(Payout)]

PoolPayout(s) ==
    LET n == Least(Cardinality(Ranked(s)), Len(Payout))
    IN  [h \in {g \in Ranked(s) : Place(s, g) <= n} |-> (Payout[Place(s, h)] * Unit) \div Upto(n)]

\* An empty pool is burned, when there is an owner to burn to.
Combine(s) ==
    LET paid == [p \in Pools |-> IF Ranked(s[p]) # {} THEN PoolPayout(s[p])
                                 ELSE [h \in burnTo |-> Unit]]
    IN  [h \in UNION {DOMAIN paid[p] : p \in Pools} |->
            SumFunction([p \in Pools |-> At(paid[p], h)])]

-----------------------------------------------------------------------------
(* chain/weights.py: the integers of the vector. *)

QuantiseDown(weights) ==
    LET mass == SumFunction(weights)
    IN  [h \in {g \in DOMAIN weights : (weights[g] * Total) \div mass > 0} |->
            (weights[h] * Total) \div mass]

\* Largest remainders: the total is kept, and a zero is not sent.
QuantiseWeights(weights) ==
    LET uids == {h \in DOMAIN weights : weights[h] > 0}
        mass == SumFunction(Restrict(weights, uids))
        floor == [h \in uids |-> (weights[h] * Total) \div mass]
        rest == [h \in uids |-> (weights[h] * Total) % mass]
        before(h) == {g \in uids : \/ rest[g] > rest[h]
                                   \/ rest[g] = rest[h] /\ g < h}
        short == Total - SumFunction(floor)
        whole == [h \in uids |-> IF Cardinality(before(h)) < short
                                 THEN floor[h] + 1 ELSE floor[h]]
    IN  Restrict(whole, {h \in uids : whole[h] > 0})

-----------------------------------------------------------------------------
Init ==
    /\ doc \in Documents /\ newcomers \in Catalogues /\ block \in Serving
    /\ standings \in Standings /\ registered \in Metagraphs /\ burnTo \in Owners
    /\ phase = "fetch"
    /\ settled = None /\ billing = 0 /\ listed = {}
    /\ split = [serving |-> 0, modelling |-> Scale, shares |-> None,
                earnings |-> None, burned |-> 0]
    /\ pooled = None /\ folded = None /\ vector = None

Goes(from, to) == phase = from /\ phase' = to /\ UNCHANGED inputs

\* A read that fails leaves the rest of the reads out.
ReadFails ==
    /\ \E p \in {"fetch", "receipts", "operators"} : Goes(p, "divide")
    /\ UNCHANGED <<settled, billing, listed, split, pooled, folded, vector>>

Fetch ==
    /\ Goes("fetch", IF doc.root = "none" THEN "audit" ELSE "receipts")
    /\ UNCHANGED <<settled, billing, listed, split, pooled, folded, vector>>

FetchReceipts ==
    /\ Goes("receipts", IF doc.window THEN "audit" ELSE "divide")
    /\ UNCHANGED <<settled, billing, listed, split, pooled, folded, vector>>

\* Rows are paid only from a settlement that holds; a row of a model without a
\* rate settles nothing.
Audit ==
    /\ Goes("audit", IF doc.rated THEN "operators" ELSE "divide")
    /\ settled' = IF doc.rated /\ Holds(doc) THEN SettleEpoch(doc.rows) ELSE None
    /\ billing' = IF doc.rated THEN doc.billing ELSE 0
    /\ UNCHANGED <<listed, split, pooled, folded, vector>>

FetchOperators ==
    /\ Goes("operators", "divide")
    /\ listed' = newcomers
    /\ UNCHANGED <<settled, billing, split, pooled, folded, vector>>

ServingFold ==
    /\ Goes("divide", "combine")
    /\ split' = SplitOf(settled, billing, listed)
    /\ UNCHANGED <<settled, billing, listed, pooled, folded, vector>>

CombinePools ==
    /\ Goes("combine", "fold")
    /\ pooled' = Combine(standings)
    /\ UNCHANGED <<settled, billing, listed, split, folded, vector>>

\* The system pools share what the serving pool leaves; what no score earned
\* goes to the owner.
Fold ==
    LET mass == SumFunction(pooled)
        part == IF mass = 0 THEN 1 ELSE mass
        times(f, n) == [h \in DOMAIN f |-> f[h] * n]
    IN  /\ Goes("fold", "send")
        /\ folded' = Plus(times(pooled, split.modelling),
                          Plus(times(split.shares, part),
                               [h \in burnTo |-> split.burned * part]))
        /\ UNCHANGED <<settled, billing, listed, split, pooled, vector>>

\* Only hotkeys on the metagraph are in the vector.
Submit ==
    /\ Goes("send", "done")
    /\ vector' = QuantiseWeights(Restrict(folded, DOMAIN folded \cap registered))
    /\ UNCHANGED <<settled, billing, listed, split, pooled, folded>>

Next ==
    \/ ReadFails \/ Fetch \/ FetchReceipts \/ Audit \/ FetchOperators
    \/ ServingFold \/ CombinePools \/ Fold \/ Submit

Spec == Init /\ [][Next]_vars

-----------------------------------------------------------------------------
(* Properties. *)

\* The serving pool is paid or burned to the last unit (pools.divide and
\* miner_mode_weights): shares, bounties, floors and the remainder of the division
\* never overspend it, and with an owner to burn to the rest reaches the owner
\* and the system pools get no more than their part of the emission.
PoolIsPaidOrBurned ==
    LET mass == SumFunction(pooled)
    IN  /\ SumFunction(split.shares) + split.burned = split.serving
        /\ split.burned >= 0
        /\ \A h \in DOMAIN split.shares : split.shares[h] >= 0
        /\ phase \in {"send", "done"} /\ burnTo # {} =>
              /\ At(folded, Owner) = split.burned * mass + At(pooled, Owner) * split.modelling
              /\ SumFunction(folded) = mass * Scale

\* What an operator earns, a floor left aside, is of a settlement that was read
\* whole, with the cards and the compared figures its evidence gives; of one
\* coldkey one operator earns it, and no operator the team flags does.
EarningsAreDue ==
    LET earning == {h \in DOMAIN split.earnings : split.earnings[h] > 0}
        cold(h) == ColdkeyOf(doc.rows, h)
    IN  earning # {} =>
            /\ doc.root # "differs" /\ ~doc.forged /\ doc.rated
            /\ DOMAIN doc.published = DOMAIN doc.rows
            /\ \A c \in DOMAIN doc.rows :
                  /\ Compared(doc.published[c]) = Compared(SettleRow(doc.rows[c]))
                  /\ doc.rows[c].operator \in earning => ~doc.rows[c].team
            /\ earning \subseteq OperatorsOf(doc.rows)
            /\ \A a \in earning, b \in earning :
                  cold(a) = cold(b) /\ cold(a) # NoColdkey => a = b

\* The vector adds up to the chain's total, and no value is a unit or more away
\* from the exact share of its hotkey among those registered.
VectorIsWhole ==
    LET paid == Restrict(folded, DOMAIN folded \cap registered)
        mass == SumFunction(paid)
    IN  phase = "done" /\ mass > 0 =>
            /\ SumFunction(vector) = Total
            /\ \A h \in DOMAIN paid :
                  /\ At(vector, h) * mass < paid[h] * Total + mass
                  /\ At(vector, h) * mass > paid[h] * Total - mass
================================================================================
