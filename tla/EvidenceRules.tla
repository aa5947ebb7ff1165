------------------------------ MODULE EvidenceRules ------------------------------
(***************************************************************************)
(* What is held against a miner: the signed reports of the coordinators    *)
(* merged into one (validator/spotcheck.py), and the comparison of the     *)
(* models and answers of the miners in the order of their commitments      *)
(* (validator/duplicates.py).                                              *)
(*                                                                         *)
(* Operators only.  A digest is a value, the digest of no tokens is        *)
(* NO_TOKENS and a missing one is Missing; a tensor is its shape and one   *)
(* number, the distance of two tensors that of their numbers, and the      *)
(* change of a model is kept by tensor, not folded into SKETCH_SIZE slots. *)
(***************************************************************************)
EXTENDS Integers, Sequences, FiniteSets, SequencesExt, FiniteSetsExt

CONSTANTS MIN_COMMON_ITEMS, SAME_OUTPUTS, MIN_COVERAGE, Missing, NO_TOKENS

---------------------------------------------------------------------------------
(* The reports of the coordinators. *)

\* stands: two runs of the coordinator agree, and not with the transcript.
EvidenceStands(entry) ==
    IF entry.kind = "canary" THEN entry.first # Missing /\ entry.second # Missing
    ELSE /\ entry.kind = "spot_check"
         /\ entry.first \notin {Missing, NO_TOKENS} /\ entry.claimed # Missing
         /\ entry.first = entry.second /\ entry.first # entry.claimed

Key(h, entry) == <<h, entry.kind, entry.call>>

NoReports == [complete |-> FALSE, coordinators |-> {}, drafts |-> {}, draftsComplete |-> FALSE,
              spots |-> {}, failures |-> {}, flags |-> {}, upheld |-> {}]

\* SpotCheck.from_dict: what a row leaves out is in the miner's favour.
SpotOf(spot) == [fast |-> spot.fast # "no", fits |-> spot.fits # "no", calls |-> spot.calls]

\* _take_reference: each coordinator adds to the drafts; one of them ends them.
TakeReference(found, block) ==
    [found EXCEPT !.drafts = {d \in @ : \A new \in block.drafts : new.item # d.item} \cup block.drafts,
                  !.draftsComplete = @ \/ block.done]

\* _take_miner: a row of another transcript than the receipt's counts for nothing.
TakeMiner(found, leaves, row) ==
    LET h == row.miner
        checked == {s.miner : s \in found.spots}
        new == {Key(h, entry) : entry \in {e \in row.evidence : EvidenceStands(e)}}
    IN  IF h \notin DOMAIN leaves \/ leaves[h] # row.transcript THEN found
        ELSE [found EXCEPT
                !.spots = IF row.spot = Missing THEN @
                          ELSE {s \in @ : s.miner # h} \cup {[miner |-> h, spot |-> SpotOf(row.spot)]},
                !.failures = IF row.spot # Missing THEN @ \ {h}
                             ELSE IF row.failure /\ h \notin checked THEN @ \cup {h} ELSE @,
                !.flags = @ \cup new]

\* Variant: an upheld appeal takes away the flags that are there.
LiftedAtOnce(found, leaves, report) ==
    LET rows == FoldLeft(LAMBDA got, row : TakeMiner(got, leaves, row),
                         TakeReference(found, report.reference), report.rows)
    IN  [rows EXCEPT !.complete = @ \/ report.complete, !.coordinators = @ \cup {report.by},
                     !.flags = @ \ report.appeals]

\* _take_report: an upheld appeal is kept, and lifts its flag whenever that is read.
TakeReport(found, leaves, report) ==
    LET rows == FoldLeft(LAMBDA got, row : TakeMiner(got, leaves, row),
                         TakeReference(found, report.reference), report.rows)
    IN  [rows EXCEPT !.complete = @ \/ report.complete, !.coordinators = @ \cup {report.by},
                     !.upheld = @ \cup report.appeals]

\* merge: the reports of the round that verify.
MergeReports(index, reports, leaves) ==
    FoldLeft(LAMBDA found, report :
                 IF report.signed /\ report.epoch = index THEN TakeReport(found, leaves, report)
                 ELSE found,
             NoReports, reports)

\* Coordinated.standing and covers; receipts that cannot be read are no leaves at all.
StandingFlags(found, h) == {flag \in found.flags \ found.upheld : flag[1] = h}
Covers(found, h) == h \in found.failures \/ \E s \in found.spots : s.miner = h
LeavesRead(leaves, readable) == IF readable THEN leaves ELSE [h \in {} |-> Missing]

---------------------------------------------------------------------------------
(* The order of the commitments: blocks[h] is 0 if it is not known, read[h] the position *)
(* in the block or Missing.                                                              *)

\* commit_positions: a block with a position that cannot be read has none.
CommitPositions(blocks, read) ==
    LET tied(h) == {k \in DOMAIN blocks : blocks[k] = blocks[h]}
    IN  [h \in {k \in DOMAIN blocks : /\ blocks[k] > 0 /\ Cardinality(tied(k)) > 1
                                      /\ \A other \in tied(k) : read[other] # Missing} |-> read[h]]

\* commit_order: miners without a block come last; hotkeys decide what is left.
CommitOrder(blocks, read) ==
    LET positions == CommitPositions(blocks, read)
        position(h) == IF h \in DOMAIN positions THEN positions[h] ELSE 0
        rank(h) == <<IF blocks[h] > 0 THEN 0 ELSE 1, blocks[h], position(h), h>>
        first(a, b) == \E i \in 1..4 : a[i] < b[i] /\ \A j \in 1..(i - 1) : a[j] = b[j]
    IN  SetToSortSeq(DOMAIN blocks, LAMBDA h, k : first(rank(h), rank(k)))

---------------------------------------------------------------------------------
(* Equal answers. *)

\* outputs_of: what the model itself answered, without a fault of its server; an item has
\* one row of its own.
OutputsOf(rows) ==
    LET own == {r \in rows : r.own /\ ~r.fault /\ r.tokens # <<>>}
    IN  [i \in {r.item : r \in own} |-> (CHOOSE r \in own : r.item = i).tokens]

\* behaviour_overlap, and the bounds _same_model puts on it.
SameOutputs(later, earlier) ==
    LET common == DOMAIN later \cap DOMAIN earlier
        same == {i \in common : later[i] = earlier[i]}
    IN  /\ Cardinality(common) >= MIN_COMMON_ITEMS
        /\ 100 * Cardinality(same) >= SAME_OUTPUTS * Cardinality(common)

---------------------------------------------------------------------------------
(* The change of a model against its base: tensors by name, names are numbers. *)

Floats(tensors) == {n \in DOMAIN tensors : tensors[n].float}
Distance(one, two) == IF one < two THEN two - one ELSE one - two

\* _aligned: tensors of one name and shape are a pair; each other one, in the order of the
\* names, is paired with the nearest of its shape that is left.
TensorPairs(model, base) ==
    LET fits(n, b) == model[n].shape = base[b].shape
        named == {n \in Floats(model) \cap Floats(base) : fits(n, n)}
        nearest(n, free) ==
            CHOOSE b \in free : \A c \in free :
                LET own == Distance(model[n].at, base[b].at)  other == Distance(model[n].at, base[c].at)
                IN  own < other \/ (own = other /\ b <= c)
        pair(pairs, n) ==
            LET free == {b \in Floats(base) : fits(n, b) /\ \A p \in pairs : p.base # b}
            IN  IF free = {} THEN pairs ELSE pairs \cup {[base |-> nearest(n, free), model |-> n]}
    IN  FoldLeft(pair, {[base |-> n, model |-> n] : n \in named},
                 SetToSortSeq(Floats(model) \ named, <))

\* sketch_weights: no sketch of packed weights, or of a model that shares little with it.
Change(model, base) ==
    LET pairs == TensorPairs(model, base)
        elements(names) == FoldSet(LAMBDA b, n : n + base[b].shape, 0, names)
        covered == elements({p.base : p \in pairs})
        packed == \/ \E n \in DOMAIN model : model[n].packed
                  \/ \E b \in DOMAIN base : base[b].packed
    IN  IF packed \/ pairs = {} \/ 100 * covered < MIN_COVERAGE * elements(Floats(base)) THEN {}
        ELSE {[base |-> p.base, delta |-> model[p.model].at - base[p.base].at] : p \in pairs}
=================================================================================
