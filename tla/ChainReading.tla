------------------------------ MODULE ChainReading ------------------------------
(***************************************************************************)
(* What the readers of the chain may rely on: the payloads of commitments   *)
(* (chain/commitment.py), the order of the commitments                     *)
(* (validator/duplicates.py) and the blocks of epochs, rounds and releases  *)
(* (chain/epochs.py, chain/rounds.py).                                     *)
(***************************************************************************)
EXTENDS Commitments, ChainCalendar

CONSTANTS
    Posted,            \* payloads that stand in slots, whoever wrote them
    CommitBlocks,      \* the block of each commitment, by hotkey; 0: not known
    CommitPlaces,      \* its place in the block; negative: reading it failed
    EpochSettings, RoundSettings, BlocksRead

ASSUME ReadingAssumption ==
    /\ "none" \notin DOMAIN Value /\ \A t \in DOMAIN Value : Value[t] \in Int
    /\ \A blocks \in CommitBlocks :
        /\ blocks = [h \in DOMAIN blocks |-> blocks[h]]
        /\ DOMAIN blocks \subseteq Hotkeys /\ IsFiniteSet(DOMAIN blocks)
        /\ \A h \in DOMAIN blocks : blocks[h] \in Int
        /\ \A places \in CommitPlaces, h \in DOMAIN blocks : places[h] \in Int
    /\ HotkeyOrder \in Seq(Hotkeys)
    /\ \A j, k \in DOMAIN HotkeyOrder : HotkeyOrder[j] = HotkeyOrder[k] => j = k
    /\ EpochSettings \subseteq [genesis : Int, length : Int, commit : Int, margin : Int]
    /\ RoundSettings \subseteq [genesis : Int, length : Int, close : Int, deadline : Int, every : Nat \ {0}]
    /\ BlocksRead \subseteq Int

\* The lengths of the patterns; a number is as long as it is.
ASSUME LengthsAssumption ==
    /\ MaxBytes = 128
    /\ \A t \in {"mt3", "mt5"} : Bytes(t) = 3
    /\ \A t \in Arenas : Bytes(t) \in 1..16
    /\ \A t \in Digests : Bytes(t) = 64
    /\ \A t \in Profiles \ {""} : Bytes(t) \in 1..2
    /\ \A t \in DOMAIN Value : Bytes(t) \in Nat

-----------------------------------------------------------------------------
(* The payloads *)

Optional(tokens) == tokens \cup {""}
Readable == {Value[t] : t \in DOMAIN Value}
Submissions ==
    {Submission(a, u, r, b, i, p) : a \in Arenas, u \in Users, r \in Shas,
                                    b \in Readable, i \in Readable, p \in Optional(Profiles)}
Seals ==
    {Seal(a, u, r, s, b, i, p) : a \in Arenas, u \in Users, r \in Shas, s \in Salts,
                                 b \in Readable, i \in Readable, p \in Optional(Profiles)}
Rounds ==
    {RoundCommitment(r, t, c, d, s, k) : r \in Readable, t \in Tracks, c \in Tracks, d \in Shorts,
                                         s \in Sources, k \in BOOLEAN}
RoundKeys ==
    {RoundKey(r, d, k, h) : r \in Readable, d \in Shorts, k \in Keys, h \in Optional(Hashes)}
Wellformed == (Submissions \cup Seals \cup Rounds \cup RoundKeys) \ {Refused}

Readings(raw) == {DecodeOpen(raw), DecodeSealed(raw), DecodeRound(raw), DecodeKey(raw)} \ {Refused}
Written(c) == CASE c.kind = "open" -> EncodeOpen(c) [] c.kind = "sealed" -> EncodeSealed(c)
                [] c.kind = "round" -> EncodeRound(c) [] OTHER -> EncodeKey(c)
ReadsBack(c) == Written(c) = TooLong \/ Readings(Written(c)) = {c}

\* Ten digits: the chain counts blocks and extrinsics in 32 bits.
ChainNumber(n) == Bytes(Text(n)) <= 10

\* Whatever stands in a slot is read as one kind of payload at most, and written again
\* it is read as the same; so is all that a miner makes, if it fits; and a sealed payload
\* fits although its length is not checked (chain/commitment.py encode, decode).
PayloadsReadBack ==
    /\ \A raw \in Posted : \A c, d \in Readings(raw) : c = d /\ ReadsBack(c)
    /\ \A c \in Wellformed : ReadsBack(c)
    /\ \A c \in Seals \ {Refused} :
        ChainNumber(c.block) /\ ChainNumber(c.index) => Size(EncodeSealed(c)) <= MaxBytes

-----------------------------------------------------------------------------
(* The order of the commitments *)

\* The earlier commitment is first; within a block the transactions decide or, when one
\* of them could not be read, the hotkeys, and never a mixture of both; and no commitment
\* is left out or counted twice (duplicates.py commit_positions, commit_order).
OrderIsOneOrTheOther ==
    \A blocks \in CommitBlocks, places \in CommitPlaces :
        LET order == CommitOrder(blocks, places)
            First(g, h) == \E i, j \in DOMAIN order : i < j /\ order[i] = g /\ order[j] = h
            Whole(h) == \A g \in {g \in DOMAIN blocks : blocks[g] = blocks[h]} : places[g] >= 0
        IN  /\ DOMAIN order = 1..Cardinality(DOMAIN blocks)
            /\ \A g, h \in DOMAIN blocks :
                /\ First(g, h) => ~First(h, g)
                /\ blocks[g] > 0 /\ (blocks[g] < blocks[h] \/ blocks[h] <= 0) => First(g, h)
                /\ blocks[g] = blocks[h] /\ blocks[g] > 0 /\ Whole(g) /\ places[g] < places[h] => First(g, h)
                /\ blocks[g] = blocks[h] /\ blocks[g] > 0 /\ ~Whole(g) /\ Rank(g) < Rank(h) => First(g, h)

-----------------------------------------------------------------------------
(* The calendar *)

\* Every block is in one epoch and in one phase of it; a round leaves blocks to evaluate
\* in, and the cutoff of a release is the close of the last round of the cycle it is in
\* (epochs.py Epoch, epoch_for_block; rounds.py Round, release_cutoff_block).
CalendarIsWhole ==
    /\ \A s \in EpochSettings, block \in BlocksRead :
        LET e == EpochForBlock(block, s.genesis, s.length, s.commit, s.margin)
        IN  EpochIsWhole(e) =>
                /\ InEpoch(e, block) /\ OpenBlock(e) <= CloseBlock(e)
                /\ ~InEpoch(Shifted(e, 1), block) /\ EndBlock(e) + 1 = Shifted(e, 1).start
                /\ \E p \in 1..3 : \A q \in 1..3 :
                    p = q <=> CASE q = 1 -> AcceptsCommitments(e, block)
                                [] q = 2 -> WindowOpen(e, block)
                                [] OTHER -> Settling(e, block)
    /\ \A s \in RoundSettings, block \in BlocksRead :
        LET r == RoundForBlock(block, s.genesis, s.length, s.close, s.deadline)
            cutoff == ReleaseCutoff(r.index, s.every, s.genesis, s.length, s.close, s.deadline)
        IN  RoundIsWhole(r) =>
                /\ EvaluationBlocks(r) > 0 /\ (Accepts(r, block) <=> ~IsSealed(r, block))
                /\ RoundsUntilRelease(r.index, s.every) = 1 <=> IsReleaseBoundary(r.index, s.every)
                /\ RoundClose(r) <= cutoff
                /\ IsReleaseBoundary(r.index, s.every) => cutoff = RoundClose(r)
                /\ BlocksUntilCutoff(block, s.every, s.genesis, s.length, s.close, s.deadline) = 0 =>
                        IsReleaseBoundary(r.index, s.every) /\ IsSealed(r, block)

\* What the chain carries is read back: payloads, the order of commitments, and the blocks
\* of epochs, phases, rounds and releases.
ReadRight == PayloadsReadBack /\ OrderIsOneOrTheOther /\ CalendarIsWhole
=============================================================================
