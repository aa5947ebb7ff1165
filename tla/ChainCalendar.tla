----------------------------- MODULE ChainCalendar -----------------------------
(***************************************************************************)
(* The windows of an epoch (chain/epochs.py), and the rounds and release    *)
(* cycles counted from block height (chain/rounds.py).                      *)
(***************************************************************************)
EXTENDS Integers

-----------------------------------------------------------------------------
(* An epoch: commitments, then the window, then the settlement. *)

Epoch(index, start, length, commit, margin) ==
    [index |-> index, start |-> start, length |-> length, commit |-> commit, margin |-> margin]
EpochIsWhole(e) ==
    /\ e.index >= 0 /\ e.length >= 2
    /\ 0 < e.commit /\ e.commit < e.length
    /\ 0 <= e.margin /\ e.margin < e.length - e.commit

EndBlock(e) == e.start + e.length - 1
OpenBlock(e) == e.start + e.commit
CloseBlock(e) == EndBlock(e) - e.margin

AcceptsCommitments(e, block) == e.start <= block /\ block < OpenBlock(e)
WindowOpen(e, block) == OpenBlock(e) <= block /\ block <= CloseBlock(e)
Settling(e, block) == CloseBlock(e) < block /\ block <= EndBlock(e)
InEpoch(e, block) == e.start <= block /\ block <= EndBlock(e)

Shifted(e, offset) == [e EXCEPT !.index = @ + offset, !.start = @ + offset * e.length]
EpochAt(index, genesis, length, commit, margin) ==
    Epoch(index, genesis + index * length, length, commit, margin)
EpochForBlock(block, genesis, length, commit, margin) ==
    EpochAt((block - genesis) \div length, genesis, length, commit, margin)

-----------------------------------------------------------------------------
(* A round: submissions until its close block, evaluation until the deadline. *)

Round(index, genesis, length, close, deadline) ==
    [index |-> index, start |-> genesis + index * length, length |-> length,
     close |-> close, deadline |-> deadline]
RoundIsWhole(r) ==
    /\ r.index >= 0 /\ r.length >= 1
    /\ 0 < r.close /\ r.close < r.length
    /\ 0 <= r.deadline /\ r.deadline < r.close

RoundClose(r) == r.start + r.length - r.close
RoundEnd(r) == r.start + r.length - 1
RoundDeadline(r) == RoundEnd(r) - r.deadline
EvaluationBlocks(r) == RoundDeadline(r) - RoundClose(r) + 1
Accepts(r, block) == r.start <= block /\ block < RoundClose(r)
IsSealed(r, block) == block >= RoundClose(r)
RoundForBlock(block, genesis, length, close, deadline) ==
    Round((block - genesis) \div length, genesis, length, close, deadline)

(* A release freezes what a cycle of `every` rounds produced. *)

ReleaseIndex(round, every) == round \div every + 1
IsReleaseBoundary(round, every) == round % every = every - 1
RoundsUntilRelease(round, every) == every - (round % every)
ReleaseCutoff(round, every, genesis, length, close, deadline) ==
    RoundClose(Round(ReleaseIndex(round, every) * every - 1, genesis, length, close, deadline))
BlocksUntilCutoff(block, every, genesis, length, close, deadline) ==
    LET current == RoundForBlock(block, genesis, length, close, deadline)
        cutoff == ReleaseCutoff(current.index, every, genesis, length, close, deadline)
    IN  IF cutoff > block THEN cutoff - block ELSE 0
=============================================================================
