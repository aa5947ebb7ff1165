------------------------- MODULE SubmissionFlowProofs -------------------------
(***************************************************************************)
(* Proofs about SubmissionFlow and the modules it uses: what a commitment   *)
(* carries is read back, whatever the tokens are; a fee moves once; the     *)
(* saved values open the slot; a candidate is what was frozen; and the      *)
(* blocks of an epoch and of a round.                                       *)
(***************************************************************************)
EXTENDS SubmissionFlow, FiniteSetTheorems, SequenceTheorems, TLAPS

-----------------------------------------------------------------------------
(* The calendar *)

LEMMA Division ==
    ASSUME NEW a \in Int, NEW b \in Int, b > 0
    PROVE  a \div b \in Int /\ (a \div b) * b <= a /\ a < (a \div b) * b + b
BY SMT

\* A block belongs to the epoch computed from it, to exactly one of its three phases
\* (commit, window, settlement), and the next epoch starts with the block after the last
\* (epochs.py): no block is without a phase and none has two, for every setting.
THEOREM EveryBlockHasItsPhase ==
    ASSUME NEW genesis \in Int, NEW length \in Int, NEW commit \in Int, NEW margin \in Int,
           NEW block \in Int,
           EpochIsWhole(EpochForBlock(block, genesis, length, commit, margin))
    PROVE  LET e == EpochForBlock(block, genesis, length, commit, margin)
           IN  /\ InEpoch(e, block)
               /\ AcceptsCommitments(e, block) \/ WindowOpen(e, block) \/ Settling(e, block)
               /\ ~(AcceptsCommitments(e, block) /\ WindowOpen(e, block))
               /\ ~(WindowOpen(e, block) /\ Settling(e, block))
               /\ ~(AcceptsCommitments(e, block) /\ Settling(e, block))
               /\ Shifted(e, 1).start = EndBlock(e) + 1
<1> DEFINE index == (block - genesis) \div length
           e == EpochForBlock(block, genesis, length, commit, margin)
<1>1. /\ e.index = index /\ e.start = genesis + index * length /\ e.length = length
      /\ e.commit = commit /\ e.margin = margin
      /\ e = [index |-> index, start |-> genesis + index * length, length |-> length,
              commit |-> commit, margin |-> margin]
  BY DEF EpochForBlock, EpochAt, Epoch
<1>2. 2 <= length /\ 0 < commit /\ commit < length /\ 0 <= margin /\ margin < length - commit
  BY <1>1 DEF EpochIsWhole
<1>3. block - genesis \in Int /\ length > 0
  BY <1>2
<1>4. index \in Int /\ index * length <= block - genesis /\ block - genesis < index * length + length
  BY <1>3, Division
<1> DEFINE start == genesis + index * length
<1>5. start \in Int /\ start <= block /\ block < start + length
  <2>1. index * length \in Int
    BY <1>4
  <2> QED BY <1>4, <2>1
<1>6. Shifted(e, 1).start = start + 1 * length
  BY <1>1 DEF Shifted
<1> HIDE DEF index, e, start
<1>7. e.start = start
  BY <1>1 DEF start
<1> QED
  BY <1>1, <1>2, <1>5, <1>6, <1>7
     DEF e, InEpoch, AcceptsCommitments, WindowOpen, Settling, EndBlock, OpenBlock, CloseBlock

\* A block belongs to the round computed from it; a round leaves blocks to evaluate in
\* between its close and its deadline; and in every block submissions are either accepted
\* or sealed (rounds.py), for every setting.
THEOREM EveryRoundCanBeEvaluated ==
    ASSUME NEW genesis \in Int, NEW length \in Int, NEW close \in Int, NEW deadline \in Int,
           NEW block \in Int,
           RoundIsWhole(RoundForBlock(block, genesis, length, close, deadline))
    PROVE  LET r == RoundForBlock(block, genesis, length, close, deadline)
           IN  /\ r.start <= block /\ block <= RoundEnd(r)
               /\ EvaluationBlocks(r) > 0
               /\ r.start < RoundClose(r) /\ RoundDeadline(r) <= RoundEnd(r)
               /\ Accepts(r, block) <=> ~IsSealed(r, block)
<1> DEFINE index == (block - genesis) \div length
           r == RoundForBlock(block, genesis, length, close, deadline)
           start == genesis + index * length
<1>1. /\ r.start = start /\ r.length = length /\ r.close = close /\ r.deadline = deadline
  BY DEF RoundForBlock, Round
<1>2. 1 <= length /\ 0 < close /\ close < length /\ 0 <= deadline /\ deadline < close
  BY <1>1 DEF RoundIsWhole
<1>3. block - genesis \in Int /\ length > 0
  BY <1>2
<1>4. index \in Int /\ index * length <= block - genesis /\ block - genesis < index * length + length
  BY <1>3, Division
<1>5. start \in Int /\ start <= block /\ block < start + length
  <2>1. index * length \in Int
    BY <1>4
  <2> QED BY <1>4, <2>1
<1> HIDE DEF index, r, start
<1> QED
  BY <1>1, <1>2, <1>5
     DEF r, RoundEnd, RoundClose, RoundDeadline, EvaluationBlocks, Accepts, IsSealed

LEMMA Remainder ==
    ASSUME NEW a \in Int, NEW b \in Int, b > 0
    PROVE  a % b \in 0..(b - 1) /\ a % b = a - (a \div b) * b
BY SMT

\* The cutoff of a release is the close of the last round of its cycle.
LEMMA CutoffOfCycle ==
    ASSUME NEW n \in Int, NEW every \in Nat \ {0}
    PROVE  LET last == ReleaseIndex(n, every) * every - 1
           IN  /\ last \in Int /\ n <= last
               /\ IsReleaseBoundary(n, every) <=> last = n
               /\ RoundsUntilRelease(n, every) = 1 <=> IsReleaseBoundary(n, every)
<1> DEFINE q == n \div every
           m == n % every
           last == ReleaseIndex(n, every) * every - 1
<1>1. every \in Int /\ every > 0
  OBVIOUS
<1>2. q \in Int /\ m \in 0..(every - 1) /\ m = n - q * every
  BY <1>1, Division, Remainder
<1>3. (q + 1) * every = q * every + every /\ q * every \in Int
  BY <1>1, <1>2
<1>4. last = (q + 1) * every - 1
  BY DEF ReleaseIndex
<1>5. IsReleaseBoundary(n, every) <=> m = every - 1
  BY DEF IsReleaseBoundary
<1>6. RoundsUntilRelease(n, every) = every - m
  BY DEF RoundsUntilRelease
<1> HIDE DEF last, m
<1> DEFINE p == q * every
<1>7. m = n - p /\ last = p + every - 1 /\ p \in Int
  BY <1>2, <1>3, <1>4
<1> HIDE DEF p, q
<1>8. m \in Int /\ 0 <= m /\ m < every
  BY <1>1, <1>2
<1>9. last \in Int /\ n <= last /\ (m = every - 1 <=> last = n)
  BY <1>1, <1>7, <1>8
<1>10. every - m = 1 <=> m = every - 1
  BY <1>1, <1>8
<1> QED BY <1>5, <1>6, <1>9, <1>10 DEF last

LEMMA EpochsAreWhole ==
    ASSUME NEW s \in EpochSettings, NEW block \in BlocksRead,
           EpochIsWhole(EpochForBlock(block, s.genesis, s.length, s.commit, s.margin))
    PROVE  LET e == EpochForBlock(block, s.genesis, s.length, s.commit, s.margin)
           IN  /\ InEpoch(e, block) /\ OpenBlock(e) <= CloseBlock(e)
               /\ ~InEpoch(Shifted(e, 1), block) /\ EndBlock(e) + 1 = Shifted(e, 1).start
               /\ \E p \in 1..3 : \A q \in 1..3 :
                    p = q <=> CASE q = 1 -> AcceptsCommitments(e, block)
                                [] q = 2 -> WindowOpen(e, block)
                                [] OTHER -> Settling(e, block)
<1> DEFINE e == EpochForBlock(block, s.genesis, s.length, s.commit, s.margin)
           phase(q) == CASE q = 1 -> AcceptsCommitments(e, block)
                         [] q = 2 -> WindowOpen(e, block)
                         [] OTHER -> Settling(e, block)
<1>1. s.genesis \in Int /\ s.length \in Int /\ s.commit \in Int /\ s.margin \in Int /\ block \in Int
  BY ReadingAssumption
<1>2. /\ InEpoch(e, block)
      /\ AcceptsCommitments(e, block) \/ WindowOpen(e, block) \/ Settling(e, block)
      /\ ~(AcceptsCommitments(e, block) /\ WindowOpen(e, block))
      /\ ~(WindowOpen(e, block) /\ Settling(e, block))
      /\ ~(AcceptsCommitments(e, block) /\ Settling(e, block))
      /\ Shifted(e, 1).start = EndBlock(e) + 1
  BY <1>1, EveryBlockHasItsPhase
<1>3. e.start \in Int /\ e.length = s.length /\ e.commit = s.commit /\ e.margin = s.margin
  <2>1. /\ e.start = s.genesis + ((block - s.genesis) \div s.length) * s.length
        /\ e.length = s.length /\ e.commit = s.commit /\ e.margin = s.margin
    BY DEF EpochForBlock, EpochAt, Epoch
  <2>2. s.length > 0 /\ block - s.genesis \in Int
    BY <1>1, <2>1 DEF EpochIsWhole
  <2>3. (block - s.genesis) \div s.length \in Int
    BY <1>1, <2>2, Division
  <2> QED BY <1>1, <2>1, <2>3
<1>4. OpenBlock(e) <= CloseBlock(e) /\ EndBlock(e) \in Int
  BY <1>1, <1>3 DEF OpenBlock, CloseBlock, EndBlock, EpochIsWhole
<1>5. ~InEpoch(Shifted(e, 1), block)
  BY <1>1, <1>2, <1>4 DEF InEpoch
<1>6. phase(1) = AcceptsCommitments(e, block) /\ phase(2) = WindowOpen(e, block) /\ phase(3) = Settling(e, block)
  OBVIOUS
<1> HIDE DEF e
<1>7. \E p \in 1..3 : \A q \in 1..3 : p = q <=> phase(q)
  <2>1. \A q \in 1..3 : q = 1 \/ q = 2 \/ q = 3
    OBVIOUS
  <2> HIDE DEF phase
  <2>2. CASE AcceptsCommitments(e, block)
    <3>1. phase(1) /\ ~phase(2) /\ ~phase(3)
      BY <1>2, <1>6, <2>2, Zenon
    <3> QED BY <2>1, <3>1
  <2>3. CASE WindowOpen(e, block)
    <3>1. ~phase(1) /\ phase(2) /\ ~phase(3)
      BY <1>2, <1>6, <2>3, Zenon
    <3> QED BY <2>1, <3>1
  <2>4. CASE Settling(e, block)
    <3>1. ~phase(1) /\ ~phase(2) /\ phase(3)
      BY <1>2, <1>6, <2>4, Zenon
    <3> QED BY <2>1, <3>1
  <2> QED BY <1>2, <2>2, <2>3, <2>4
<1> QED BY <1>2, <1>4, <1>5, <1>7 DEF e

LEMMA RoundsAreWhole ==
    ASSUME NEW s \in RoundSettings, NEW block \in BlocksRead,
           RoundIsWhole(RoundForBlock(block, s.genesis, s.length, s.close, s.deadline))
    PROVE  LET r == RoundForBlock(block, s.genesis, s.length, s.close, s.deadline)
               cutoff == ReleaseCutoff(r.index, s.every, s.genesis, s.length, s.close, s.deadline)
           IN  /\ EvaluationBlocks(r) > 0 /\ (Accepts(r, block) <=> ~IsSealed(r, block))
               /\ RoundsUntilRelease(r.index, s.every) = 1 <=> IsReleaseBoundary(r.index, s.every)
               /\ RoundClose(r) <= cutoff
               /\ IsReleaseBoundary(r.index, s.every) => cutoff = RoundClose(r)
               /\ BlocksUntilCutoff(block, s.every, s.genesis, s.length, s.close, s.deadline) = 0 =>
                        IsReleaseBoundary(r.index, s.every) /\ IsSealed(r, block)
<1> DEFINE r == RoundForBlock(block, s.genesis, s.length, s.close, s.deadline)
           n == (block - s.genesis) \div s.length
           last == ReleaseIndex(n, s.every) * s.every - 1
           cutoff == ReleaseCutoff(r.index, s.every, s.genesis, s.length, s.close, s.deadline)
<1>1. /\ s.genesis \in Int /\ s.length \in Int /\ s.close \in Int /\ s.deadline \in Int /\ block \in Int
      /\ s.every \in Nat \ {0}
  BY ReadingAssumption
<1>2. /\ r.index = n /\ r.start = s.genesis + n * s.length
      /\ r.length = s.length /\ r.close = s.close /\ r.deadline = s.deadline
  BY DEF RoundForBlock, Round
<1>3. s.length \in Int /\ s.length > 0 /\ 0 < s.close /\ s.close < s.length /\ block - s.genesis \in Int
  BY <1>1, <1>2 DEF RoundIsWhole
<1>4. n \in Int /\ n * s.length <= block - s.genesis /\ block - s.genesis < n * s.length + s.length
  BY <1>3, Division
<1>5. /\ last \in Int /\ n <= last
      /\ IsReleaseBoundary(n, s.every) <=> last = n
      /\ RoundsUntilRelease(n, s.every) = 1 <=> IsReleaseBoundary(n, s.every)
  BY <1>1, <1>4, CutoffOfCycle
<1>6. EvaluationBlocks(r) > 0 /\ (Accepts(r, block) <=> ~IsSealed(r, block))
  BY <1>1, EveryRoundCanBeEvaluated
<1>7. cutoff = (s.genesis + last * s.length) + s.length - s.close
  BY <1>2 DEF ReleaseCutoff, RoundClose, Round
<1>8. RoundClose(r) = (s.genesis + n * s.length) + s.length - s.close
  BY <1>2 DEF RoundClose
<1>9. BlocksUntilCutoff(block, s.every, s.genesis, s.length, s.close, s.deadline) =
        IF cutoff > block THEN cutoff - block ELSE 0
  BY DEF BlocksUntilCutoff
<1>10. IsSealed(r, block) <=> block >= RoundClose(r)
  BY DEF IsSealed
<1>11. n * s.length \in Int /\ last * s.length \in Int
  BY <1>3, <1>4, <1>5
<1>12. n * s.length <= last * s.length
  <2>1. \A a, b, c \in Int : a <= b /\ c > 0 => a * c <= b * c
    BY SMT
  <2> QED BY <1>3, <1>4, <1>5, <2>1
<1>13. n # last => n * s.length + s.length <= last * s.length
  <2>1. \A a, b, c \in Int : a + 1 <= b /\ c > 0 => (a + 1) * c <= b * c
    BY SMT
  <2>2. (n + 1) * s.length = n * s.length + s.length
    BY <1>3, <1>4
  <2>3. n # last => n + 1 <= last
    BY <1>4, <1>5
  <2> QED BY <1>3, <1>4, <1>5, <2>1, <2>2, <2>3
<1> DEFINE here == n * s.length
           there == last * s.length
<1>14. /\ here \in Int /\ there \in Int /\ here <= there /\ (n # last => here + s.length <= there)
       /\ cutoff = (s.genesis + there) + s.length - s.close
       /\ RoundClose(r) = (s.genesis + here) + s.length - s.close
       /\ here <= block - s.genesis /\ block - s.genesis < here + s.length
       /\ (n = last => here = there)
  BY <1>4, <1>7, <1>8, <1>11, <1>12, <1>13
<1> HIDE DEF r, n, last, cutoff, here, there
<1>15. RoundClose(r) <= cutoff /\ (last = n => cutoff = RoundClose(r))
  BY <1>1, <1>14
<1>16. cutoff <= block => last = n /\ block >= RoundClose(r)
  BY <1>1, <1>3, <1>14
<1>17. cutoff > block => cutoff - block # 0
  BY <1>1, <1>14
<1>18. /\ IsReleaseBoundary(r.index, s.every) <=> last = n
       /\ RoundsUntilRelease(r.index, s.every) = 1 <=> IsReleaseBoundary(r.index, s.every)
  BY <1>2, <1>5, Zenon
<1> DEFINE left == BlocksUntilCutoff(block, s.every, s.genesis, s.length, s.close, s.deadline)
<1> HIDE DEF left
<1>19. ~(cutoff > block) <=> cutoff <= block
  BY <1>1, <1>14
<1>20. left = IF cutoff > block THEN cutoff - block ELSE 0
  BY <1>9, Zenon DEF left
<1>21. left = 0 => IsReleaseBoundary(r.index, s.every) /\ IsSealed(r, block)
  BY <1>10, <1>16, <1>17, <1>18, <1>19, <1>20, Zenon
<1>22. IsReleaseBoundary(r.index, s.every) => cutoff = RoundClose(r)
  BY <1>15, <1>18, Zenon
<1> QED BY <1>6, <1>15, <1>18, <1>21, <1>22, Zenon DEF r, cutoff, left

\* The calendar is whole for every length, window, margin and cycle: a block has one epoch,
\* one phase of it and one round, and the cutoff of a release is the close of the last
\* round of the cycle the block is in (epochs.py, rounds.py).
THEOREM CalendarIsAlwaysWhole == CalendarIsWhole
BY EpochsAreWhole, RoundsAreWhole DEF CalendarIsWhole

-----------------------------------------------------------------------------
(* Payloads *)

Heights == 0..MaxHeight
Places == 0..MaxCommands
Fees == Heights \X Places

OpenPayload(sha, block, index) == <<"mt2", Arena, User, sha, Text(block), Text(index)>>
SealedPayload(sha, salt, block, index) ==
    <<"mt3", Arena, SealDigest(Arena, User, sha, salt), Text(block), Text(index)>>

LEMMA TextIsRead ==
    ASSUME NEW n \in Heights \cup Places
    PROVE  Text(n) \in DOMAIN Value /\ Value[Text(n)] = n /\ Text(n) # "none"
BY TokensAssumption, ReadingAssumption DEF Text, Heights, Places

LEMMA SealedFields ==
    ASSUME NEW raw, raw # <<>>, raw[1] = "mt3", Len(raw) = 5
    PROVE  Parsed(raw, "mt3", "mt5", 2).block = raw[4] /\ Parsed(raw, "mt3", "mt5", 2).index = raw[5] /\ Parsed(raw, "mt3", "mt5", 2).profile = ""
BY SMT DEF Parsed

LEMMA OpenFields ==
    ASSUME NEW raw, raw # <<>>, raw[1] = "mt2", Len(raw) = 6
    PROVE  Parsed(raw, "mt2", "mt4", 3).block = raw[5] /\ Parsed(raw, "mt2", "mt4", 3).index = raw[6] /\ Parsed(raw, "mt2", "mt4", 3).profile = ""
BY SMT DEF Parsed

LEMMA OpenIsNotSealed ==
    ASSUME NEW raw, raw[1] = "mt2"
    PROVE  DecodeSealed(raw) = Refused
<1>1. Parsed(raw, "mt3", "mt5", 2) = [block |-> "none"]
  BY SMT DEF Parsed
<1>2. Parsed(raw, "mt3", "mt5", 2).block = "none"
  BY <1>1
<1> QED BY <1>2 DEF DecodeSealed

LEMMA EmptyIsNotSealed == DecodeSealed(<<>>) = Refused
<1>1. Parsed(<<>>, "mt3", "mt5", 2) = [block |-> "none"]
  BY DEF Parsed
<1>2. Parsed(<<>>, "mt3", "mt5", 2).block = "none"
  BY <1>1
<1> QED BY <1>2 DEF DecodeSealed

LEMMA ReadAsSealed ==
    ASSUME NEW raw, NEW block, NEW index, NEW profile,
           block # "none", block \in DOMAIN Value, index \in DOMAIN Value,
           Parsed(raw, "mt3", "mt5", 2).block = block,
           Parsed(raw, "mt3", "mt5", 2).index = index,
           Parsed(raw, "mt3", "mt5", 2).profile = profile
    PROVE  DecodeSealed(raw) = Sealed(raw[2], raw[3], Value[block], Value[index], profile)
BY Zenon DEF DecodeSealed, Reads

LEMMA ReadAsOpen ==
    ASSUME NEW raw, NEW block, NEW index, NEW profile,
           block # "none", block \in DOMAIN Value, index \in DOMAIN Value,
           Parsed(raw, "mt2", "mt4", 3).block = block,
           Parsed(raw, "mt2", "mt4", 3).index = index,
           Parsed(raw, "mt2", "mt4", 3).profile = profile
    PROVE  DecodeOpen(raw) = Submission(raw[2], raw[3], raw[4], Value[block], Value[index], profile)
BY Zenon DEF DecodeOpen, Reads

\* A sealed commitment is read back from the chain as it was made, whatever the digest is.
LEMMA SealedIsReadBack ==
    ASSUME NEW sha \in Shas, NEW salt \in Salts, NEW b \in Heights, NEW i \in Places,
           Arena \in Arenas, User \in Users
    PROVE  DecodeSealed(SealedPayload(sha, salt, b, i)) =
             [kind |-> "sealed", arena |-> Arena, digest |-> SealDigest(Arena, User, sha, salt),
              block |-> b, index |-> i, profile |-> ""]
<1> DEFINE raw == SealedPayload(sha, salt, b, i)
<1>1. /\ raw[1] = "mt3" /\ raw[2] = Arena /\ raw[3] = SealDigest(Arena, User, sha, salt)
      /\ raw[4] = Text(b) /\ raw[5] = Text(i) /\ Len(raw) = 5 /\ raw # <<>>
  BY DEF SealedPayload
<1> HIDE DEF raw
<1>2. /\ Parsed(raw, "mt3", "mt5", 2).block = Text(b) /\ Parsed(raw, "mt3", "mt5", 2).index = Text(i)
      /\ Parsed(raw, "mt3", "mt5", 2).profile = ""
  BY <1>1, SealedFields
<1>3. /\ Text(b) \in DOMAIN Value /\ Value[Text(b)] = b /\ Text(b) # "none"
      /\ Text(i) \in DOMAIN Value /\ Value[Text(i)] = i
  BY TextIsRead
<1>4. DecodeSealed(raw) = Sealed(raw[2], raw[3], Value[Text(b)], Value[Text(i)], "")
  BY <1>2, <1>3, ReadAsSealed
<1>5. DecodeSealed(raw) = Sealed(Arena, SealDigest(Arena, User, sha, salt), b, i, "")
  BY <1>1, <1>3, <1>4
<1>6. SealDigest(Arena, User, sha, salt) \in Digests
  BY DEF Digests
<1>7. b >= 0 /\ i >= 0
  BY DEF Heights, Places
<1>8. Sealed(Arena, SealDigest(Arena, User, sha, salt), b, i, "") =
        [kind |-> "sealed", arena |-> Arena, digest |-> SealDigest(Arena, User, sha, salt),
         block |-> b, index |-> i, profile |-> ""]
  BY <1>6, <1>7, Zenon DEF Sealed, Reference, KnownProfile
<1> QED BY <1>5, <1>8 DEF raw

\* An open commitment is read back as it was made.
LEMMA OpenIsReadBack ==
    ASSUME NEW sha \in Shas, NEW b \in Heights, NEW i \in Places, Arena \in Arenas, User \in Users
    PROVE  DecodeOpen(OpenPayload(sha, b, i)) =
             [kind |-> "open", arena |-> Arena, user |-> User, sha |-> sha,
              block |-> b, index |-> i, profile |-> ""]
<1> DEFINE raw == OpenPayload(sha, b, i)
<1>1. /\ raw[1] = "mt2" /\ raw[2] = Arena /\ raw[3] = User /\ raw[4] = sha
      /\ raw[5] = Text(b) /\ raw[6] = Text(i) /\ Len(raw) = 6 /\ raw # <<>>
  BY DEF OpenPayload
<1> HIDE DEF raw
<1>2. /\ Parsed(raw, "mt2", "mt4", 3).block = Text(b) /\ Parsed(raw, "mt2", "mt4", 3).index = Text(i)
      /\ Parsed(raw, "mt2", "mt4", 3).profile = ""
  BY <1>1, OpenFields
<1>3. /\ Text(b) \in DOMAIN Value /\ Value[Text(b)] = b /\ Text(b) # "none"
      /\ Text(i) \in DOMAIN Value /\ Value[Text(i)] = i
  BY TextIsRead
<1>4. DecodeOpen(raw) = Submission(raw[2], raw[3], raw[4], Value[Text(b)], Value[Text(i)], "")
  BY <1>2, <1>3, ReadAsOpen
<1>5. DecodeOpen(raw) = Submission(Arena, User, sha, b, i, "")
  BY <1>1, <1>3, <1>4
<1>6. b >= 0 /\ i >= 0
  BY DEF Heights, Places
<1>7. Submission(Arena, User, sha, b, i, "") =
        [kind |-> "open", arena |-> Arena, user |-> User, sha |-> sha,
         block |-> b, index |-> i, profile |-> ""]
  BY <1>6, Zenon DEF Submission, Reference, KnownProfile
<1> QED BY <1>5, <1>7 DEF raw

-----------------------------------------------------------------------------
(* Every payload reads back *)

LEMMA FiveTokens ==
    ASSUME NEW a, NEW b, NEW c, NEW d, NEW e
    PROVE  (<<a>> \o <<b, c>>) \o <<d, e>> = <<a, b, c, d, e>>
<1> DEFINE S == {a, b, c, d, e}
           front == <<a>> \o <<b, c>>
           all == front \o <<d, e>>
           listed == <<a, b, c, d, e>>
<1>1. <<a>> \in Seq(S) /\ <<b, c>> \in Seq(S) /\ <<d, e>> \in Seq(S) /\ listed \in Seq(S)
  OBVIOUS
<1>2. front \in Seq(S) /\ Len(front) = 3
  BY <1>1
<1>3. front[1] = a /\ front[2] = b /\ front[3] = c
  BY <1>1
<1>4. all \in Seq(S) /\ Len(all) = 5 /\ Len(listed) = 5
  BY <1>1, <1>2
<1>5. \A i \in 1..5 : all[i] = IF i <= 3 THEN front[i] ELSE <<d, e>>[i - 3]
  BY <1>1, <1>2
<1>6. all[1] = a /\ all[2] = b /\ all[3] = c /\ all[4] = d /\ all[5] = e
  BY <1>3, <1>5
<1>7. \A i \in 1..5 : all[i] = listed[i]
  BY <1>6
<1> HIDE DEF all, listed
<1>8. all = listed
  BY <1>1, <1>4, <1>7, SeqEqual
<1> QED BY <1>8 DEF all, listed, front

LEMMA SixTokens ==
    ASSUME NEW a, NEW b, NEW c, NEW d, NEW e, NEW f
    PROVE  (<<a>> \o <<b, c, d>>) \o <<e, f>> = <<a, b, c, d, e, f>>
<1> DEFINE S == {a, b, c, d, e, f}
           front == <<a>> \o <<b, c, d>>
           all == front \o <<e, f>>
           listed == <<a, b, c, d, e, f>>
<1>1. <<a>> \in Seq(S) /\ <<b, c, d>> \in Seq(S) /\ <<e, f>> \in Seq(S) /\ listed \in Seq(S)
  OBVIOUS
<1>2. front \in Seq(S) /\ Len(front) = 4
  BY <1>1
<1>3. front[1] = a /\ front[2] = b /\ front[3] = c /\ front[4] = d
  BY <1>1
<1>4. all \in Seq(S) /\ Len(all) = 6 /\ Len(listed) = 6
  BY <1>1, <1>2
<1>5. \A i \in 1..6 : all[i] = IF i <= 4 THEN front[i] ELSE <<e, f>>[i - 4]
  BY <1>1, <1>2
<1>6. all[1] = a /\ all[2] = b /\ all[3] = c /\ all[4] = d /\ all[5] = e /\ all[6] = f
  BY <1>3, <1>5
<1>7. \A i \in 1..6 : all[i] = listed[i]
  BY <1>6
<1> HIDE DEF all, listed
<1>8. all = listed
  BY <1>1, <1>4, <1>7, SeqEqual
<1> QED BY <1>8 DEF all, listed, front

OpenOf(a, u, r, b, i, p) ==
    [kind |-> "open", arena |-> a, user |-> u, sha |-> r, block |-> b, index |-> i, profile |-> p]
SealedOf(a, d, b, i, p) ==
    [kind |-> "sealed", arena |-> a, digest |-> d, block |-> b, index |-> i, profile |-> p]
RoundOf(r, t, c, d, s, k) ==
    [kind |-> "round", round |-> r, track |-> t, class |-> c, digest |-> d, source |-> s, sealed |-> k]
KeyOf(r, d, k, h) == [kind |-> "key", round |-> r, digest |-> d, key |-> k, hash |-> h]

Countable == {n \in Readable : n >= 0}
OpenOnes ==
    [kind : {"open"}, arena : Arenas, user : Users, sha : Shas,
     block : Countable, index : Countable, profile : Optional(Profiles)]
SealedOnes ==
    [kind : {"sealed"}, arena : Arenas, digest : Digests,
     block : Countable, index : Countable, profile : Optional(Profiles)]
RoundOnes ==
    [kind : {"round"}, round : Countable, track : Tracks, class : Tracks, digest : Shorts,
     source : Sources, sealed : BOOLEAN]
KeyOnes == [kind : {"key"}, round : Countable, digest : Shorts, key : Keys, hash : Optional(Hashes)]

LEMMA SubmissionMade ==
    ASSUME NEW a, NEW u, NEW r, NEW b \in Readable, NEW i \in Readable, NEW p
    PROVE  Submission(a, u, r, b, i, p) \in OpenOnes \cup {Refused}
<1>1. CASE a \in Arenas /\ u \in Users /\ r \in Shas /\ Reference(b, i) /\ KnownProfile(p)
  <2>1. Submission(a, u, r, b, i, p) = OpenOf(a, u, r, b, i, p)
    BY <1>1, Zenon DEF Submission, OpenOf
  <2>2. b \in Countable /\ i \in Countable /\ p \in Optional(Profiles)
    BY <1>1, Zenon DEF Reference, KnownProfile, Countable, Optional
  <2>3. OpenOf(a, u, r, b, i, p) \in OpenOnes
    BY <1>1, <2>2 DEF OpenOnes, OpenOf
  <2> QED BY <2>1, <2>3
<1>2. CASE ~(a \in Arenas /\ u \in Users /\ r \in Shas /\ Reference(b, i) /\ KnownProfile(p))
  <2>1. Submission(a, u, r, b, i, p) = Refused
    BY <1>2, Zenon DEF Submission
  <2> QED BY <2>1
<1> QED BY <1>1, <1>2

LEMMA SealedMade ==
    ASSUME NEW a, NEW d, NEW b \in Readable, NEW i \in Readable, NEW p
    PROVE  Sealed(a, d, b, i, p) \in SealedOnes \cup {Refused}
<1>1. CASE a \in Arenas /\ d \in Digests /\ Reference(b, i) /\ KnownProfile(p)
  <2>1. Sealed(a, d, b, i, p) = SealedOf(a, d, b, i, p)
    BY <1>1, Zenon DEF Sealed, SealedOf
  <2>2. b \in Countable /\ i \in Countable /\ p \in Optional(Profiles)
    BY <1>1, Zenon DEF Reference, KnownProfile, Countable, Optional
  <2>3. SealedOf(a, d, b, i, p) \in SealedOnes
    BY <1>1, <2>2 DEF SealedOnes, SealedOf
  <2> QED BY <2>1, <2>3
<1>2. CASE ~(a \in Arenas /\ d \in Digests /\ Reference(b, i) /\ KnownProfile(p))
  <2>1. Sealed(a, d, b, i, p) = Refused
    BY <1>2, Zenon DEF Sealed
  <2> QED BY <2>1
<1> QED BY <1>1, <1>2

LEMMA RoundMade ==
    ASSUME NEW r \in Readable, NEW t, NEW c, NEW d, NEW s, NEW k \in BOOLEAN
    PROVE  RoundCommitment(r, t, c, d, s, k) \in RoundOnes \cup {Refused}
<1>1. CASE r >= 0 /\ t \in Tracks /\ c \in Tracks /\ d \in Shorts /\ s \in Sources
  <2>1. RoundCommitment(r, t, c, d, s, k) = RoundOf(r, t, c, d, s, k)
    BY <1>1, Zenon DEF RoundCommitment, RoundOf
  <2>2. r \in Countable
    BY <1>1, Zenon DEF Countable, Optional
  <2>3. RoundOf(r, t, c, d, s, k) \in RoundOnes
    BY <1>1, <2>2 DEF RoundOnes, RoundOf
  <2> QED BY <2>1, <2>3
<1>2. CASE ~(r >= 0 /\ t \in Tracks /\ c \in Tracks /\ d \in Shorts /\ s \in Sources)
  <2>1. RoundCommitment(r, t, c, d, s, k) = Refused
    BY <1>2, Zenon DEF RoundCommitment
  <2> QED BY <2>1
<1> QED BY <1>1, <1>2

LEMMA KeyMade ==
    ASSUME NEW r \in Readable, NEW d, NEW k, NEW h
    PROVE  RoundKey(r, d, k, h) \in KeyOnes \cup {Refused}
<1>1. CASE r >= 0 /\ d \in Shorts /\ k \in Keys /\ (h = "" \/ h \in Hashes)
  <2>1. RoundKey(r, d, k, h) = KeyOf(r, d, k, h)
    BY <1>1, Zenon DEF RoundKey, KeyOf
  <2>2. r \in Countable /\ h \in Optional(Hashes)
    BY <1>1, Zenon DEF Countable, Optional
  <2>3. KeyOf(r, d, k, h) \in KeyOnes
    BY <1>1, <2>2 DEF KeyOnes, KeyOf
  <2> QED BY <2>1, <2>3
<1>2. CASE ~(r >= 0 /\ d \in Shorts /\ k \in Keys /\ (h = "" \/ h \in Hashes))
  <2>1. RoundKey(r, d, k, h) = Refused
    BY <1>2, Zenon DEF RoundKey
  <2> QED BY <2>1
<1> QED BY <1>1, <1>2

LEMMA WellformedOnes == Wellformed \subseteq OpenOnes \cup SealedOnes \cup RoundOnes \cup KeyOnes
<1> SUFFICES ASSUME NEW c \in Wellformed
             PROVE  c \in OpenOnes \cup SealedOnes \cup RoundOnes \cup KeyOnes
  OBVIOUS
<1>1. c # Refused /\ c \in Submissions \cup Seals \cup Rounds \cup RoundKeys
  BY DEF Wellformed
<1>2. CASE c \in Submissions
  <2> PICK a \in Arenas, u \in Users, r \in Shas, b \in Readable, i \in Readable, p \in Optional(Profiles) :
              c = Submission(a, u, r, b, i, p)
    BY <1>2 DEF Submissions
  <2> QED BY <1>1, SubmissionMade
<1>3. CASE c \in Seals
  <2> PICK a \in Arenas, u \in Users, r \in Shas, s \in Salts, b \in Readable, i \in Readable, p \in Optional(Profiles) :
              c = Seal(a, u, r, s, b, i, p)
    BY <1>3 DEF Seals
  <2>1. c = Sealed(a, SealDigest(a, u, r, s), b, i, p)
    BY <1>1, Zenon DEF Seal
  <2> QED BY <1>1, <2>1, SealedMade
<1>4. CASE c \in Rounds
  <2> PICK r \in Readable, t \in Tracks, k \in Tracks, d \in Shorts, s \in Sources, m \in BOOLEAN :
              c = RoundCommitment(r, t, k, d, s, m)
    BY <1>4 DEF Rounds
  <2> QED BY <1>1, RoundMade
<1>5. CASE c \in RoundKeys
  <2> PICK r \in Readable, d \in Shorts, k \in Keys, h \in Optional(Hashes) : c = RoundKey(r, d, k, h)
    BY <1>5 DEF RoundKeys
  <2> QED BY <1>1, KeyMade
<1> QED BY <1>1, <1>2, <1>3, <1>4, <1>5

\* The readings of a payload by its tag.
LEMMA OpenTag == \A raw : DecodeOpen(raw) # Refused => raw[1] \in {"mt2", "mt4"} /\ DecodeOpen(raw) \in OpenOnes
<1> SUFFICES ASSUME NEW raw, DecodeOpen(raw) # Refused
             PROVE  raw[1] \in {"mt2", "mt4"} /\ DecodeOpen(raw) \in OpenOnes
  OBVIOUS
<1> DEFINE f == Parsed(raw, "mt2", "mt4", 3)
<1>1. f.block # "none" /\ Reads(f)
  BY Zenon DEF DecodeOpen
<1>2. [block |-> "none"].block = "none"
  OBVIOUS
<1>3. raw[1] \in {"mt2", "mt4"}
  BY <1>1, <1>2, Zenon DEF Parsed
<1>4. DecodeOpen(raw) = Submission(raw[2], raw[3], raw[4], Value[f.block], Value[f.index], f.profile)
  BY <1>1, Zenon DEF DecodeOpen
<1> HIDE DEF f
<1>5. Value[f.block] \in Readable /\ Value[f.index] \in Readable
  BY <1>1, Zenon DEF Reads, Readable
<1>6. DecodeOpen(raw) \in OpenOnes \cup {Refused}
  BY <1>4, <1>5, SubmissionMade, Zenon
<1> QED BY <1>3, <1>6

LEMMA SealedTag == \A raw : DecodeSealed(raw) # Refused => raw[1] \in {"mt3", "mt5"} /\ DecodeSealed(raw) \in SealedOnes
<1> SUFFICES ASSUME NEW raw, DecodeSealed(raw) # Refused
             PROVE  raw[1] \in {"mt3", "mt5"} /\ DecodeSealed(raw) \in SealedOnes
  OBVIOUS
<1> DEFINE f == Parsed(raw, "mt3", "mt5", 2)
<1>1. f.block # "none" /\ Reads(f)
  BY Zenon DEF DecodeSealed
<1>2. [block |-> "none"].block = "none"
  OBVIOUS
<1>3. raw[1] \in {"mt3", "mt5"}
  BY <1>1, <1>2, Zenon DEF Parsed
<1>4. DecodeSealed(raw) = Sealed(raw[2], raw[3], Value[f.block], Value[f.index], f.profile)
  BY <1>1, Zenon DEF DecodeSealed
<1> HIDE DEF f
<1>5. Value[f.block] \in Readable /\ Value[f.index] \in Readable
  BY <1>1, Zenon DEF Reads, Readable
<1>6. DecodeSealed(raw) \in SealedOnes \cup {Refused}
  BY <1>4, <1>5, SealedMade, Zenon
<1> QED BY <1>3, <1>6

LEMMA RoundTag == \A raw : DecodeRound(raw) # Refused => raw[1] = "mt1" /\ DecodeRound(raw) \in RoundOnes
<1> SUFFICES ASSUME NEW raw, DecodeRound(raw) # Refused
             PROVE  raw[1] = "mt1" /\ DecodeRound(raw) \in RoundOnes
  OBVIOUS
<1>1. raw[1] = "mt1" /\ raw[2] \in DOMAIN Value
  BY Zenon DEF DecodeRound
<1>2. DecodeRound(raw) = RoundCommitment(Value[raw[2]], raw[3], raw[4], raw[5], raw[6], Len(raw) = 7)
  BY Zenon DEF DecodeRound
<1> DEFINE k == Len(raw) = 7
<1>3. Value[raw[2]] \in Readable
  BY <1>1, Zenon DEF Readable
<1>5. k \in BOOLEAN
  OBVIOUS
<1> HIDE DEF k
<1>6. RoundCommitment(Value[raw[2]], raw[3], raw[4], raw[5], raw[6], k) \in RoundOnes \cup {Refused}
  BY <1>3, <1>5, RoundMade, Zenon
<1>4. DecodeRound(raw) \in RoundOnes \cup {Refused}
  BY <1>2, <1>6 DEF k
<1> QED BY <1>1, <1>4

LEMMA KeyTag == \A raw : DecodeKey(raw) # Refused => raw[1] = "mtr" /\ DecodeKey(raw) \in KeyOnes
<1> SUFFICES ASSUME NEW raw, DecodeKey(raw) # Refused
             PROVE  raw[1] = "mtr" /\ DecodeKey(raw) \in KeyOnes
  OBVIOUS
<1> DEFINE h == IF Len(raw) = 5 THEN raw[5] ELSE ""
<1>1. raw[1] = "mtr" /\ raw[2] \in DOMAIN Value
  BY Zenon DEF DecodeKey
<1>2. DecodeKey(raw) = RoundKey(Value[raw[2]], raw[3], raw[4], h)
  BY Zenon DEF DecodeKey
<1> HIDE DEF h
<1>3. Value[raw[2]] \in Readable
  BY <1>1, Zenon DEF Readable
<1>4. DecodeKey(raw) \in KeyOnes \cup {Refused}
  BY <1>2, <1>3, KeyMade, Zenon
<1> QED BY <1>1, <1>4

LEMMA FourTwo ==
    ASSUME NEW a, NEW b, NEW c, NEW d, NEW e, NEW f
    PROVE  <<a, b, c, d>> \o <<e, f>> = <<a, b, c, d, e, f>>
<1> DEFINE S == {a, b, c, d, e, f}
           joined == <<a, b, c, d>> \o <<e, f>>
           listed == <<a, b, c, d, e, f>>
<1>1. <<a, b, c, d>> \in Seq(S) /\ <<e, f>> \in Seq(S) /\ listed \in Seq(S)
  OBVIOUS
<1>2. joined \in Seq(S) /\ Len(joined) = 6 /\ Len(listed) = 6
  BY <1>1
<1>3. \A i \in 1..6 : joined[i] = IF i <= 4 THEN <<a, b, c, d>>[i] ELSE <<e, f>>[i - 4]
  BY <1>1
<1>4. \A i \in 1..6 : joined[i] = listed[i]
  BY <1>3
<1> HIDE DEF joined, listed
<1>5. joined = listed
  BY <1>1, <1>2, <1>4, SeqEqual
<1> QED BY <1>5 DEF joined, listed

LEMMA FiveTwo ==
    ASSUME NEW a, NEW b, NEW c, NEW d, NEW e, NEW f, NEW g
    PROVE  <<a, b, c, d, e>> \o <<f, g>> = <<a, b, c, d, e, f, g>>
<1> DEFINE S == {a, b, c, d, e, f, g}
           joined == <<a, b, c, d, e>> \o <<f, g>>
           listed == <<a, b, c, d, e, f, g>>
<1>1. <<a, b, c, d, e>> \in Seq(S) /\ <<f, g>> \in Seq(S) /\ listed \in Seq(S)
  OBVIOUS
<1>2. joined \in Seq(S) /\ Len(joined) = 7 /\ Len(listed) = 7
  BY <1>1
<1>3. \A i \in 1..7 : joined[i] = IF i <= 5 THEN <<a, b, c, d, e>>[i] ELSE <<f, g>>[i - 5]
  BY <1>1
<1>4. \A i \in 1..7 : joined[i] = listed[i]
  BY <1>3
<1> HIDE DEF joined, listed
<1>5. joined = listed
  BY <1>1, <1>2, <1>4, SeqEqual
<1> QED BY <1>5 DEF joined, listed

LEMMA ThreeOne ==
    ASSUME NEW a, NEW b, NEW c, NEW d
    PROVE  <<a, b, c>> \o <<d>> = <<a, b, c, d>>
<1> DEFINE S == {a, b, c, d}
           joined == <<a, b, c>> \o <<d>>
           listed == <<a, b, c, d>>
<1>1. <<a, b, c>> \in Seq(S) /\ <<d>> \in Seq(S) /\ listed \in Seq(S)
  OBVIOUS
<1>2. joined \in Seq(S) /\ Len(joined) = 4 /\ Len(listed) = 4
  BY <1>1
<1>3. \A i \in 1..4 : joined[i] = IF i <= 3 THEN <<a, b, c>>[i] ELSE <<d>>[i - 3]
  BY <1>1
<1>4. \A i \in 1..4 : joined[i] = listed[i]
  BY <1>3
<1> HIDE DEF joined, listed
<1>5. joined = listed
  BY <1>1, <1>2, <1>4, SeqEqual
<1> QED BY <1>5 DEF joined, listed

LEMMA FourOne ==
    ASSUME NEW a, NEW b, NEW c, NEW d, NEW e
    PROVE  <<a, b, c, d>> \o <<e>> = <<a, b, c, d, e>>
<1> DEFINE S == {a, b, c, d, e}
           joined == <<a, b, c, d>> \o <<e>>
           listed == <<a, b, c, d, e>>
<1>1. <<a, b, c, d>> \in Seq(S) /\ <<e>> \in Seq(S) /\ listed \in Seq(S)
  OBVIOUS
<1>2. joined \in Seq(S) /\ Len(joined) = 5 /\ Len(listed) = 5
  BY <1>1
<1>3. \A i \in 1..5 : joined[i] = IF i <= 4 THEN <<a, b, c, d>>[i] ELSE <<e>>[i - 4]
  BY <1>1
<1>4. \A i \in 1..5 : joined[i] = listed[i]
  BY <1>3
<1> HIDE DEF joined, listed
<1>5. joined = listed
  BY <1>1, <1>2, <1>4, SeqEqual
<1> QED BY <1>5 DEF joined, listed

LEMMA SixOne ==
    ASSUME NEW a, NEW b, NEW c, NEW d, NEW e, NEW f, NEW g
    PROVE  <<a, b, c, d, e, f>> \o <<g>> = <<a, b, c, d, e, f, g>>
<1> DEFINE S == {a, b, c, d, e, f, g}
           joined == <<a, b, c, d, e, f>> \o <<g>>
           listed == <<a, b, c, d, e, f, g>>
<1>1. <<a, b, c, d, e, f>> \in Seq(S) /\ <<g>> \in Seq(S) /\ listed \in Seq(S)
  OBVIOUS
<1>2. joined \in Seq(S) /\ Len(joined) = 7 /\ Len(listed) = 7
  BY <1>1
<1>3. \A i \in 1..7 : joined[i] = IF i <= 6 THEN <<a, b, c, d, e, f>>[i] ELSE <<g>>[i - 6]
  BY <1>1
<1>4. \A i \in 1..7 : joined[i] = listed[i]
  BY <1>3
<1> HIDE DEF joined, listed
<1>5. joined = listed
  BY <1>1, <1>2, <1>4, SeqEqual
<1> QED BY <1>5 DEF joined, listed

LEMMA OneThree ==
    ASSUME NEW a, NEW b, NEW c, NEW d
    PROVE  <<a>> \o <<b, c, d>> = <<a, b, c, d>>
<1> DEFINE S == {a, b, c, d}
           joined == <<a>> \o <<b, c, d>>
           listed == <<a, b, c, d>>
<1>1. <<a>> \in Seq(S) /\ <<b, c, d>> \in Seq(S) /\ listed \in Seq(S)
  OBVIOUS
<1>2. joined \in Seq(S) /\ Len(joined) = 4 /\ Len(listed) = 4
  BY <1>1
<1>3. \A i \in 1..4 : joined[i] = IF i <= 1 THEN <<a>>[i] ELSE <<b, c, d>>[i - 1]
  BY <1>1
<1>4. \A i \in 1..4 : joined[i] = listed[i]
  BY <1>3
<1> HIDE DEF joined, listed
<1>5. joined = listed
  BY <1>1, <1>2, <1>4, SeqEqual
<1> QED BY <1>5 DEF joined, listed

LEMMA OneTwo ==
    ASSUME NEW a, NEW b, NEW c
    PROVE  <<a>> \o <<b, c>> = <<a, b, c>>
<1> DEFINE S == {a, b, c}
           joined == <<a>> \o <<b, c>>
           listed == <<a, b, c>>
<1>1. <<a>> \in Seq(S) /\ <<b, c>> \in Seq(S) /\ listed \in Seq(S)
  OBVIOUS
<1>2. joined \in Seq(S) /\ Len(joined) = 3 /\ Len(listed) = 3
  BY <1>1
<1>3. \A i \in 1..3 : joined[i] = IF i <= 1 THEN <<a>>[i] ELSE <<b, c>>[i - 1]
  BY <1>1
<1>4. \A i \in 1..3 : joined[i] = listed[i]
  BY <1>3
<1> HIDE DEF joined, listed
<1>5. joined = listed
  BY <1>1, <1>2, <1>4, SeqEqual
<1> QED BY <1>5 DEF joined, listed

LEMMA ThreeTwo ==
    ASSUME NEW a, NEW b, NEW c, NEW d, NEW e
    PROVE  <<a, b, c>> \o <<d, e>> = <<a, b, c, d, e>>
<1> DEFINE S == {a, b, c, d, e}
           joined == <<a, b, c>> \o <<d, e>>
           listed == <<a, b, c, d, e>>
<1>1. <<a, b, c>> \in Seq(S) /\ <<d, e>> \in Seq(S) /\ listed \in Seq(S)
  OBVIOUS
<1>2. joined \in Seq(S) /\ Len(joined) = 5 /\ Len(listed) = 5
  BY <1>1
<1>3. \A i \in 1..5 : joined[i] = IF i <= 3 THEN <<a, b, c>>[i] ELSE <<d, e>>[i - 3]
  BY <1>1
<1>4. \A i \in 1..5 : joined[i] = listed[i]
  BY <1>3
<1> HIDE DEF joined, listed
<1>5. joined = listed
  BY <1>1, <1>2, <1>4, SeqEqual
<1> QED BY <1>5 DEF joined, listed

LEMMA NumberRead ==
    ASSUME NEW n \in Countable
    PROVE  Text(n) \in DOMAIN Value /\ Value[Text(n)] = n /\ Text(n) # "none" /\ n >= 0 /\ n \in Readable
<1>1. \E t \in DOMAIN Value : Value[t] = n
  BY DEF Countable, Readable
<1>2. Text(n) \in DOMAIN Value /\ Value[Text(n)] = n
  BY <1>1, Zenon DEF Text
<1> QED BY <1>2, ReadingAssumption DEF Countable

LEMMA SealedFieldsWith ==
    ASSUME NEW raw, raw # <<>>, raw[1] = "mt5", Len(raw) = 6
    PROVE  Parsed(raw, "mt3", "mt5", 2).block = raw[5] /\ Parsed(raw, "mt3", "mt5", 2).index = raw[6] /\ Parsed(raw, "mt3", "mt5", 2).profile = raw[4]
BY SMT DEF Parsed

LEMMA OpenFieldsWith ==
    ASSUME NEW raw, raw # <<>>, raw[1] = "mt4", Len(raw) = 7
    PROVE  Parsed(raw, "mt2", "mt4", 3).block = raw[6] /\ Parsed(raw, "mt2", "mt4", 3).index = raw[7] /\ Parsed(raw, "mt2", "mt4", 3).profile = raw[5]
BY SMT DEF Parsed

LEMMA OpenBack ==
    ASSUME NEW c \in OpenOnes
    PROVE  LET raw == Tagged("mt2", "mt4", <<c.arena, c.user, c.sha>>, c)
           IN  DecodeOpen(raw) = c /\ raw # TooLong
<1> DEFINE b == Text(c.block)
           i == Text(c.index)
           raw == Tagged("mt2", "mt4", <<c.arena, c.user, c.sha>>, c)
<1>1. /\ c.arena \in Arenas /\ c.user \in Users /\ c.sha \in Shas
      /\ c.block \in Countable /\ c.index \in Countable /\ c.profile \in Optional(Profiles)
      /\ c = [kind |-> "open", arena |-> c.arena, user |-> c.user, sha |-> c.sha,
              block |-> c.block, index |-> c.index, profile |-> c.profile]
  BY DEF OpenOnes
<1>2. b \in DOMAIN Value /\ Value[b] = c.block /\ b # "none" /\ c.block >= 0
  BY <1>1, NumberRead
<1>3. i \in DOMAIN Value /\ Value[i] = c.index /\ c.index >= 0
  BY <1>1, NumberRead
<1>4. Submission(c.arena, c.user, c.sha, c.block, c.index, c.profile) = c
  BY <1>1, <1>2, <1>3, Zenon DEF Submission, Reference, KnownProfile, Optional
<1> HIDE DEF b, i
<1>5. CASE c.profile = ""
  <2>1. raw = <<"mt2", c.arena, c.user, c.sha, b, i>>
    <3>1. raw = (<<"mt2">> \o <<c.arena, c.user, c.sha>>) \o <<b, i>>
      BY <1>5, Zenon DEF Tagged, b, i
    <3>2. <<"mt2">> \o <<c.arena, c.user, c.sha>> = <<"mt2", c.arena, c.user, c.sha>>
      BY OneThree
    <3>3. <<"mt2", c.arena, c.user, c.sha>> \o <<b, i>> = <<"mt2", c.arena, c.user, c.sha, b, i>>
      BY FourTwo
    <3> HIDE DEF raw
    <3> QED BY <3>1, <3>2, <3>3, Zenon
  <2> HIDE DEF raw
  <2>2. /\ raw # <<>> /\ Len(raw) = 6 /\ raw[1] = "mt2" /\ raw[2] = c.arena /\ raw[3] = c.user
        /\ raw[4] = c.sha /\ raw[5] = b /\ raw[6] = i
    BY <2>1
  <2>3. /\ Parsed(raw, "mt2", "mt4", 3).block = b /\ Parsed(raw, "mt2", "mt4", 3).index = i
        /\ Parsed(raw, "mt2", "mt4", 3).profile = c.profile
    BY <1>5, <2>2, OpenFields
  <2>4. DecodeOpen(raw) = Submission(raw[2], raw[3], raw[4], Value[b], Value[i], c.profile)
    BY <1>2, <1>3, <2>3, ReadAsOpen, Zenon
  <2>5. DecodeOpen(raw) = c
    BY <1>2, <1>3, <1>4, <2>2, <2>4
  <2> QED BY <2>2, <2>5 DEF raw, TooLong
<1>6. CASE c.profile # ""
  <2>1. raw = <<"mt4", c.arena, c.user, c.sha, c.profile, b, i>>
    <3>1. raw = ((<<"mt4">> \o <<c.arena, c.user, c.sha>>) \o <<c.profile>>) \o <<b, i>>
      BY <1>6, Zenon DEF Tagged, b, i
    <3>2. <<"mt4">> \o <<c.arena, c.user, c.sha>> = <<"mt4", c.arena, c.user, c.sha>>
      BY OneThree
    <3>3. <<"mt4", c.arena, c.user, c.sha>> \o <<c.profile>> = <<"mt4", c.arena, c.user, c.sha, c.profile>>
      BY FourOne
    <3>4. <<"mt4", c.arena, c.user, c.sha, c.profile>> \o <<b, i>> =
            <<"mt4", c.arena, c.user, c.sha, c.profile, b, i>>
      BY FiveTwo
    <3> HIDE DEF raw
    <3> QED BY <3>1, <3>2, <3>3, <3>4, Zenon
  <2> HIDE DEF raw
  <2>2. /\ raw # <<>> /\ Len(raw) = 7 /\ raw[1] = "mt4" /\ raw[2] = c.arena /\ raw[3] = c.user
        /\ raw[4] = c.sha /\ raw[5] = c.profile /\ raw[6] = b /\ raw[7] = i
    BY <2>1
  <2>3. /\ Parsed(raw, "mt2", "mt4", 3).block = b /\ Parsed(raw, "mt2", "mt4", 3).index = i
        /\ Parsed(raw, "mt2", "mt4", 3).profile = c.profile
    BY <2>2, OpenFieldsWith
  <2>4. DecodeOpen(raw) = Submission(raw[2], raw[3], raw[4], Value[b], Value[i], c.profile)
    BY <1>2, <1>3, <2>3, ReadAsOpen, Zenon
  <2>5. DecodeOpen(raw) = c
    BY <1>2, <1>3, <1>4, <2>2, <2>4
  <2> QED BY <2>2, <2>5 DEF raw, TooLong
<1> QED BY <1>5, <1>6

LEMMA SealedBack ==
    ASSUME NEW c \in SealedOnes
    PROVE  LET raw == Tagged("mt3", "mt5", <<c.arena, c.digest>>, c)
           IN  /\ DecodeSealed(raw) = c /\ raw # TooLong
               /\ raw = IF c.profile = "" THEN <<"mt3", c.arena, c.digest, Text(c.block), Text(c.index)>>
                        ELSE <<"mt5", c.arena, c.digest, c.profile, Text(c.block), Text(c.index)>>
<1> DEFINE b == Text(c.block)
           i == Text(c.index)
           raw == Tagged("mt3", "mt5", <<c.arena, c.digest>>, c)
<1>1. /\ c.arena \in Arenas /\ c.digest \in Digests
      /\ c.block \in Countable /\ c.index \in Countable /\ c.profile \in Optional(Profiles)
      /\ c = [kind |-> "sealed", arena |-> c.arena, digest |-> c.digest,
              block |-> c.block, index |-> c.index, profile |-> c.profile]
  BY DEF SealedOnes
<1>2. b \in DOMAIN Value /\ Value[b] = c.block /\ b # "none" /\ c.block >= 0
  BY <1>1, NumberRead
<1>3. i \in DOMAIN Value /\ Value[i] = c.index /\ c.index >= 0
  BY <1>1, NumberRead
<1>4. Sealed(c.arena, c.digest, c.block, c.index, c.profile) = c
  BY <1>1, <1>2, <1>3, Zenon DEF Sealed, Reference, KnownProfile, Optional
<1> HIDE DEF b, i
<1>5. CASE c.profile = ""
  <2>1. raw = <<"mt3", c.arena, c.digest, b, i>>
    <3>1. raw = (<<"mt3">> \o <<c.arena, c.digest>>) \o <<b, i>>
      BY <1>5, Zenon DEF Tagged, b, i
    <3>2. <<"mt3">> \o <<c.arena, c.digest>> = <<"mt3", c.arena, c.digest>>
      BY OneTwo
    <3>3. <<"mt3", c.arena, c.digest>> \o <<b, i>> = <<"mt3", c.arena, c.digest, b, i>>
      BY ThreeTwo
    <3> HIDE DEF raw
    <3> QED BY <3>1, <3>2, <3>3, Zenon
  <2> HIDE DEF raw
  <2>2. /\ raw # <<>> /\ Len(raw) = 5 /\ raw[1] = "mt3" /\ raw[2] = c.arena /\ raw[3] = c.digest
        /\ raw[4] = b /\ raw[5] = i
    BY <2>1
  <2>3. /\ Parsed(raw, "mt3", "mt5", 2).block = b /\ Parsed(raw, "mt3", "mt5", 2).index = i
        /\ Parsed(raw, "mt3", "mt5", 2).profile = c.profile
    BY <1>5, <2>2, SealedFields
  <2>4. DecodeSealed(raw) = Sealed(raw[2], raw[3], Value[b], Value[i], c.profile)
    BY <1>2, <1>3, <2>3, ReadAsSealed, Zenon
  <2>5. DecodeSealed(raw) = c
    BY <1>2, <1>3, <1>4, <2>2, <2>4
  <2> QED BY <1>5, <2>1, <2>2, <2>5 DEF raw, TooLong, b, i
<1>6. CASE c.profile # ""
  <2>1. raw = <<"mt5", c.arena, c.digest, c.profile, b, i>>
    <3>1. raw = ((<<"mt5">> \o <<c.arena, c.digest>>) \o <<c.profile>>) \o <<b, i>>
      BY <1>6, Zenon DEF Tagged, b, i
    <3>2. <<"mt5">> \o <<c.arena, c.digest>> = <<"mt5", c.arena, c.digest>>
      BY OneTwo
    <3>3. <<"mt5", c.arena, c.digest>> \o <<c.profile>> = <<"mt5", c.arena, c.digest, c.profile>>
      BY ThreeOne
    <3>4. <<"mt5", c.arena, c.digest, c.profile>> \o <<b, i>> = <<"mt5", c.arena, c.digest, c.profile, b, i>>
      BY FourTwo
    <3> HIDE DEF raw
    <3> QED BY <3>1, <3>2, <3>3, <3>4, Zenon
  <2> HIDE DEF raw
  <2>2. /\ raw # <<>> /\ Len(raw) = 6 /\ raw[1] = "mt5" /\ raw[2] = c.arena /\ raw[3] = c.digest
        /\ raw[4] = c.profile /\ raw[5] = b /\ raw[6] = i
    BY <2>1
  <2>3. /\ Parsed(raw, "mt3", "mt5", 2).block = b /\ Parsed(raw, "mt3", "mt5", 2).index = i
        /\ Parsed(raw, "mt3", "mt5", 2).profile = c.profile
    BY <2>2, SealedFieldsWith
  <2>4. DecodeSealed(raw) = Sealed(raw[2], raw[3], Value[b], Value[i], c.profile)
    BY <1>2, <1>3, <2>3, ReadAsSealed, Zenon
  <2>5. DecodeSealed(raw) = c
    BY <1>2, <1>3, <1>4, <2>2, <2>4
  <2> QED BY <1>6, <2>1, <2>2, <2>5 DEF raw, TooLong, b, i
<1> QED BY <1>5, <1>6

LEMMA RoundBack ==
    ASSUME NEW c \in RoundOnes
    PROVE  LET raw == <<"mt1", Text(c.round), c.track, c.class, c.digest, c.source>>
                        \o (IF c.sealed THEN <<"k">> ELSE <<>>)
           IN  DecodeRound(raw) = c /\ raw # TooLong
<1> DEFINE n == Text(c.round)
           front == <<"mt1", n, c.track, c.class, c.digest, c.source>>
           raw == front \o (IF c.sealed THEN <<"k">> ELSE <<>>)
<1>1. /\ c.round \in Countable /\ c.track \in Tracks /\ c.class \in Tracks /\ c.digest \in Shorts
      /\ c.source \in Sources /\ c.sealed \in BOOLEAN
      /\ c = [kind |-> "round", round |-> c.round, track |-> c.track, class |-> c.class,
              digest |-> c.digest, source |-> c.source, sealed |-> c.sealed]
  BY DEF RoundOnes
<1>2. n \in DOMAIN Value /\ Value[n] = c.round /\ c.round >= 0
  BY <1>1, NumberRead
<1>3. RoundCommitment(c.round, c.track, c.class, c.digest, c.source, c.sealed) = c
  BY <1>1, <1>2, Zenon DEF RoundCommitment
<1> HIDE DEF n
<1>4. /\ front # <<>> /\ Len(front) = 6 /\ front[1] = "mt1" /\ front[2] = n /\ front[3] = c.track
      /\ front[4] = c.class /\ front[5] = c.digest /\ front[6] = c.source
  OBVIOUS
<1>5. CASE ~c.sealed
  <2>1. front \in Seq({"mt1", n, c.track, c.class, c.digest, c.source})
    OBVIOUS
  <2>0. raw = front \o <<>>
    BY <1>5
  <2> HIDE DEF front, raw
  <2>2. raw = front
    BY <2>0, <2>1
  <2>3. /\ raw[1] = "mt1" /\ raw[2] \in DOMAIN Value /\ Len(raw) = 6 /\ raw # <<>>
    BY <1>2, <1>4, <2>2
  <2>4. (Len(raw) = 7) = c.sealed
    BY <1>1, <1>5, <2>3
  <2>5. DecodeRound(raw) = RoundCommitment(Value[raw[2]], raw[3], raw[4], raw[5], raw[6], Len(raw) = 7)
    BY <2>3 DEF DecodeRound
  <2>6. DecodeRound(raw) = RoundCommitment(c.round, c.track, c.class, c.digest, c.source, c.sealed)
    BY <1>2, <1>4, <2>2, <2>4, <2>5, Zenon
  <2> QED BY <1>3, <2>3, <2>6 DEF raw, front, n, TooLong
<1>6. CASE c.sealed
  <2>1. raw = <<"mt1", n, c.track, c.class, c.digest, c.source, "k">>
    <3>1. raw = front \o <<"k">>
      BY <1>6
    <3> QED BY <3>1, SixOne, Zenon
  <2> HIDE DEF raw
  <2>2. /\ raw # <<>> /\ Len(raw) = 7 /\ raw[1] = "mt1" /\ raw[2] = n /\ raw[3] = c.track
        /\ raw[4] = c.class /\ raw[5] = c.digest /\ raw[6] = c.source /\ raw[7] = "k"
    BY <2>1
  <2>3. (Len(raw) = 7) = c.sealed
    BY <1>1, <1>6, <2>2
  <2>5. DecodeRound(raw) = RoundCommitment(Value[raw[2]], raw[3], raw[4], raw[5], raw[6], Len(raw) = 7)
    BY <1>2, <2>2 DEF DecodeRound
  <2>6. DecodeRound(raw) = RoundCommitment(c.round, c.track, c.class, c.digest, c.source, c.sealed)
    BY <1>2, <2>2, <2>3, <2>5, Zenon
  <2> QED BY <1>3, <2>2, <2>6 DEF raw, front, n, TooLong
<1> QED BY <1>1, <1>5, <1>6

LEMMA KeyBack ==
    ASSUME NEW c \in KeyOnes
    PROVE  LET raw == <<"mtr", Text(c.round), c.digest, c.key>> \o (IF c.hash = "" THEN <<>> ELSE <<c.hash>>)
           IN  DecodeKey(raw) = c /\ raw # TooLong
<1> DEFINE n == Text(c.round)
           front == <<"mtr", n, c.digest, c.key>>
           raw == front \o (IF c.hash = "" THEN <<>> ELSE <<c.hash>>)
<1>1. /\ c.round \in Countable /\ c.digest \in Shorts /\ c.key \in Keys /\ c.hash \in Optional(Hashes)
      /\ c = [kind |-> "key", round |-> c.round, digest |-> c.digest, key |-> c.key, hash |-> c.hash]
  BY DEF KeyOnes
<1>2. n \in DOMAIN Value /\ Value[n] = c.round /\ c.round >= 0
  BY <1>1, NumberRead
<1>3. RoundKey(c.round, c.digest, c.key, c.hash) = c
  BY <1>1, <1>2, Zenon DEF RoundKey, Optional
<1> HIDE DEF n
<1>4. /\ front # <<>> /\ Len(front) = 4 /\ front[1] = "mtr" /\ front[2] = n /\ front[3] = c.digest
      /\ front[4] = c.key
  OBVIOUS
<1>5. CASE c.hash = ""
  <2>1. front \in Seq({"mtr", n, c.digest, c.key})
    OBVIOUS
  <2>0. raw = front \o <<>>
    BY <1>5
  <2> HIDE DEF front, raw
  <2>2. raw = front
    BY <2>0, <2>1
  <2>3. /\ raw[1] = "mtr" /\ raw[2] \in DOMAIN Value /\ Len(raw) = 4 /\ raw # <<>>
    BY <1>2, <1>4, <2>2
  <2>5. DecodeKey(raw) = RoundKey(Value[raw[2]], raw[3], raw[4], "")
    BY <2>3 DEF DecodeKey
  <2>6. DecodeKey(raw) = RoundKey(c.round, c.digest, c.key, c.hash)
    BY <1>2, <1>4, <1>5, <2>2, <2>5, Zenon
  <2> QED BY <1>3, <2>3, <2>6 DEF raw, front, n, TooLong
<1>6. CASE c.hash # ""
  <2>1. raw = <<"mtr", n, c.digest, c.key, c.hash>>
    <3>1. raw = front \o <<c.hash>>
      BY <1>6
    <3> QED BY <3>1, FourOne, Zenon
  <2> HIDE DEF raw
  <2>2. /\ raw # <<>> /\ Len(raw) = 5 /\ raw[1] = "mtr" /\ raw[2] = n /\ raw[3] = c.digest
        /\ raw[4] = c.key /\ raw[5] = c.hash
    BY <2>1
  <2>5. DecodeKey(raw) = RoundKey(Value[raw[2]], raw[3], raw[4], raw[5])
    BY <1>2, <2>2 DEF DecodeKey
  <2>6. DecodeKey(raw) = RoundKey(c.round, c.digest, c.key, c.hash)
    BY <1>2, <2>2, <2>5, Zenon
  <2> QED BY <1>3, <2>2, <2>6 DEF raw, front, n, TooLong
<1> QED BY <1>5, <1>6

\* A payload is read as one kind at most: the tag decides.
LEMMA OneReading ==
    ASSUME NEW raw, NEW c \in Readings(raw)
    PROVE  /\ \A d \in Readings(raw) : c = d
           /\ c \in OpenOnes \cup SealedOnes \cup RoundOnes \cup KeyOnes
BY OpenTag, SealedTag, RoundTag, KeyTag, SMT DEF Readings

LEMMA AllReadBack ==
    ASSUME NEW c \in OpenOnes \cup SealedOnes \cup RoundOnes \cup KeyOnes
    PROVE  ReadsBack(c)
<1>1. c # Refused
  BY DEF OpenOnes, SealedOnes, RoundOnes, KeyOnes, Refused
<1>2. ASSUME NEW raw, c \in Readings(raw) PROVE Readings(raw) = {c}
  <2>1. \A d \in Readings(raw) : c = d
    BY <1>2, OneReading
  <2> QED BY <1>2, <2>1
<1>3. CASE c \in OpenOnes
  <2>1. c.kind = "open"
    BY <1>3 DEF OpenOnes
  <2> DEFINE raw == Tagged("mt2", "mt4", <<c.arena, c.user, c.sha>>, c)
  <2>2. DecodeOpen(raw) = c
    BY <1>3, OpenBack
  <2>3. Readings(raw) = {c}
    BY <1>1, <1>2, <2>2 DEF Readings
  <2>4. Written(c) = Capped(raw)
    BY <2>1, Zenon DEF Written, EncodeOpen
  <2> HIDE DEF raw
  <2> QED BY <2>3, <2>4, Zenon DEF ReadsBack, Capped
<1>4. CASE c \in SealedOnes
  <2>1. c.kind = "sealed"
    BY <1>4 DEF SealedOnes
  <2> DEFINE raw == Tagged("mt3", "mt5", <<c.arena, c.digest>>, c)
  <2>2. DecodeSealed(raw) = c
    BY <1>4, SealedBack
  <2>3. Readings(raw) = {c}
    BY <1>1, <1>2, <2>2 DEF Readings
  <2>4. Written(c) = raw
    BY <2>1 DEF Written, EncodeSealed
  <2> HIDE DEF raw
  <2> QED BY <2>3, <2>4, Zenon DEF ReadsBack
<1>5. CASE c \in RoundOnes
  <2>1. c.kind = "round"
    BY <1>5 DEF RoundOnes
  <2> DEFINE raw == <<"mt1", Text(c.round), c.track, c.class, c.digest, c.source>>
                      \o (IF c.sealed THEN <<"k">> ELSE <<>>)
  <2>2. DecodeRound(raw) = c
    BY <1>5, RoundBack
  <2>3. Readings(raw) = {c}
    BY <1>1, <1>2, <2>2 DEF Readings
  <2>4. Written(c) = Capped(raw)
    BY <2>1 DEF Written, EncodeRound
  <2> HIDE DEF raw
  <2> QED BY <2>3, <2>4, Zenon DEF ReadsBack, Capped
<1>6. CASE c \in KeyOnes
  <2>1. c.kind = "key"
    BY <1>6 DEF KeyOnes
  <2> DEFINE raw == <<"mtr", Text(c.round), c.digest, c.key>> \o (IF c.hash = "" THEN <<>> ELSE <<c.hash>>)
  <2>2. DecodeKey(raw) = c
    BY <1>6, KeyBack
  <2>3. Readings(raw) = {c}
    BY <1>1, <1>2, <2>2 DEF Readings
  <2>4. Written(c) = Capped(raw)
    BY <2>1 DEF Written, EncodeKey
  <2> HIDE DEF raw
  <2> QED BY <2>3, <2>4, Zenon DEF ReadsBack, Capped
<1> QED BY <1>3, <1>4, <1>5, <1>6

LEMMA SizeOf5 ==
    ASSUME NEW a, NEW b, NEW c, NEW d, NEW e,
           Bytes(a) \in Nat, Bytes(b) \in Nat, Bytes(c) \in Nat, Bytes(d) \in Nat, Bytes(e) \in Nat
    PROVE  Size(<<a, b, c, d, e>>) = 4 + Bytes(a) + Bytes(b) + Bytes(c) + Bytes(d) + Bytes(e)
<1> DEFINE raw == <<a, b, c, d, e>>
           makes(size) == size = [n \in 0..Len(raw) |-> IF n = 0 THEN Len(raw) - 1 ELSE size[n - 1] + Bytes(raw[n])]
           given == CHOOSE size : makes(size)
           sums == [n \in 0..5 |-> IF n = 0 THEN 4 ELSE IF n = 1 THEN 4 + Bytes(a) ELSE IF n = 2 THEN 4 + Bytes(a) + Bytes(b) ELSE IF n = 3 THEN 4 + Bytes(a) + Bytes(b) + Bytes(c) ELSE IF n = 4 THEN 4 + Bytes(a) + Bytes(b) + Bytes(c) + Bytes(d) ELSE 4 + Bytes(a) + Bytes(b) + Bytes(c) + Bytes(d) + Bytes(e)]
<1>1. Len(raw) = 5 /\ raw[1] = a /\ raw[2] = b /\ raw[3] = c /\ raw[4] = d /\ raw[5] = e
  OBVIOUS
<1>2. Size(raw) = given[Len(raw)]
  BY DEF Size
<1> HIDE DEF raw
<1>3. makes(sums)
  <2>1. sums = [n \in 0..5 |-> sums[n]]
    OBVIOUS
  <2>2. \A n \in 0..5 : sums[n] = IF n = 0 THEN Len(raw) - 1 ELSE sums[n - 1] + Bytes(raw[n])
    BY <1>1
  <2> HIDE DEF sums
  <2> QED BY <1>1, <2>1, <2>2
<1>4. makes(given)
  BY <1>3, Zenon
<1> HIDE DEF given
<1>5. \A n \in 0..5 : given[n] = IF n = 0 THEN 4 ELSE given[n - 1] + Bytes(raw[n])
  BY <1>1, <1>4
<1>6. given[5] = 4 + Bytes(a) + Bytes(b) + Bytes(c) + Bytes(d) + Bytes(e)
  BY <1>1, <1>5
<1> QED BY <1>1, <1>2, <1>6 DEF raw

LEMMA SizeOf6 ==
    ASSUME NEW a, NEW b, NEW c, NEW d, NEW e, NEW f,
           Bytes(a) \in Nat, Bytes(b) \in Nat, Bytes(c) \in Nat, Bytes(d) \in Nat, Bytes(e) \in Nat, Bytes(f) \in Nat
    PROVE  Size(<<a, b, c, d, e, f>>) = 5 + Bytes(a) + Bytes(b) + Bytes(c) + Bytes(d) + Bytes(e) + Bytes(f)
<1> DEFINE raw == <<a, b, c, d, e, f>>
           makes(size) == size = [n \in 0..Len(raw) |-> IF n = 0 THEN Len(raw) - 1 ELSE size[n - 1] + Bytes(raw[n])]
           given == CHOOSE size : makes(size)
           sums == [n \in 0..6 |-> IF n = 0 THEN 5 ELSE IF n = 1 THEN 5 + Bytes(a) ELSE IF n = 2 THEN 5 + Bytes(a) + Bytes(b) ELSE IF n = 3 THEN 5 + Bytes(a) + Bytes(b) + Bytes(c) ELSE IF n = 4 THEN 5 + Bytes(a) + Bytes(b) + Bytes(c) + Bytes(d) ELSE IF n = 5 THEN 5 + Bytes(a) + Bytes(b) + Bytes(c) + Bytes(d) + Bytes(e) ELSE 5 + Bytes(a) + Bytes(b) + Bytes(c) + Bytes(d) + Bytes(e) + Bytes(f)]
<1>1. Len(raw) = 6 /\ raw[1] = a /\ raw[2] = b /\ raw[3] = c /\ raw[4] = d /\ raw[5] = e /\ raw[6] = f
  OBVIOUS
<1>2. Size(raw) = given[Len(raw)]
  BY DEF Size
<1> HIDE DEF raw
<1>3. makes(sums)
  <2>1. sums = [n \in 0..6 |-> sums[n]]
    OBVIOUS
  <2>2. \A n \in 0..6 : sums[n] = IF n = 0 THEN Len(raw) - 1 ELSE sums[n - 1] + Bytes(raw[n])
    BY <1>1
  <2> HIDE DEF sums
  <2> QED BY <1>1, <2>1, <2>2
<1>4. makes(given)
  BY <1>3, Zenon
<1> HIDE DEF given
<1>5. \A n \in 0..6 : given[n] = IF n = 0 THEN 5 ELSE given[n - 1] + Bytes(raw[n])
  BY <1>1, <1>4
<1>6. given[6] = 5 + Bytes(a) + Bytes(b) + Bytes(c) + Bytes(d) + Bytes(e) + Bytes(f)
  BY <1>1, <1>5
<1> QED BY <1>1, <1>2, <1>6 DEF raw

\* A sealed payload fits, although its length is not checked.
LEMMA SealedFits ==
    ASSUME NEW c \in SealedOnes, ChainNumber(c.block), ChainNumber(c.index)
    PROVE  Size(EncodeSealed(c)) <= MaxBytes
<1> DEFINE b == Text(c.block)
           i == Text(c.index)
<1>1. /\ c.arena \in Arenas /\ c.digest \in Digests /\ c.block \in Countable /\ c.index \in Countable
      /\ c.profile \in Optional(Profiles)
  BY DEF SealedOnes
<1>2. b \in DOMAIN Value /\ i \in DOMAIN Value
  BY <1>1, NumberRead
<1>3. Bytes(b) \in Nat /\ Bytes(b) <= 10 /\ Bytes(i) \in Nat /\ Bytes(i) <= 10
  BY <1>2, LengthsAssumption DEF ChainNumber
<1>4. Bytes(c.arena) \in 1..16 /\ Bytes(c.digest) = 64 /\ Bytes("mt3") = 3 /\ Bytes("mt5") = 3
  BY <1>1, LengthsAssumption
<1>5. EncodeSealed(c) = IF c.profile = "" THEN <<"mt3", c.arena, c.digest, b, i>>
                        ELSE <<"mt5", c.arena, c.digest, c.profile, b, i>>
  BY SealedBack DEF EncodeSealed
<1>8. MaxBytes = 128
  BY LengthsAssumption
<1> HIDE DEF b, i
<1>6. CASE c.profile = ""
  <2>1. Size(<<"mt3", c.arena, c.digest, b, i>>) =
          4 + Bytes("mt3") + Bytes(c.arena) + Bytes(c.digest) + Bytes(b) + Bytes(i)
    BY <1>3, <1>4, SizeOf5
  <2>2. Size(EncodeSealed(c)) = Size(<<"mt3", c.arena, c.digest, b, i>>)
    BY <1>5, <1>6, Zenon
  <2>3. Size(EncodeSealed(c)) = 4 + 3 + Bytes(c.arena) + 64 + Bytes(b) + Bytes(i)
    BY <1>4, <2>1, <2>2, Zenon
  <2> DEFINE s == Size(EncodeSealed(c))
  <2>4. s = 7 + Bytes(c.arena) + 64 + 0 + Bytes(b) + Bytes(i) /\ s \in Int
    BY <1>3, <1>4, <2>3
  <2> HIDE DEF s
  <2>5. s <= 128
    BY <1>3, <1>4, <2>4
  <2> QED BY <1>8, <2>5 DEF s
<1>7. CASE c.profile # ""
  <2>1. Bytes(c.profile) \in 1..2
    BY <1>1, <1>7, LengthsAssumption DEF Optional
  <2>2. Size(<<"mt5", c.arena, c.digest, c.profile, b, i>>) =
          5 + Bytes("mt5") + Bytes(c.arena) + Bytes(c.digest) + Bytes(c.profile) + Bytes(b) + Bytes(i)
    BY <1>3, <1>4, <2>1, SizeOf6
  <2>3. Size(EncodeSealed(c)) = Size(<<"mt5", c.arena, c.digest, c.profile, b, i>>)
    BY <1>5, <1>7, Zenon
  <2>4. Size(EncodeSealed(c)) = 5 + 3 + Bytes(c.arena) + 64 + Bytes(c.profile) + Bytes(b) + Bytes(i)
    BY <1>4, <2>2, <2>3, Zenon
  <2> DEFINE s == Size(EncodeSealed(c))
  <2>5. s = 8 + Bytes(c.arena) + 64 + Bytes(c.profile) + Bytes(b) + Bytes(i) /\ s \in Int
    BY <1>3, <1>4, <2>1, <2>4
  <2> HIDE DEF s
  <2>6. s <= 128
    BY <1>3, <1>4, <2>1, <2>5
  <2> QED BY <1>8, <2>6 DEF s
<1> QED BY <1>6, <1>7

\* Whatever the tokens of the patterns and whatever stands in a slot: it is read as one
\* kind of payload at most, and what is read or made reads back as it is when it is
\* written; a sealed payload fits the slot (commitment.py encode, decode).
THEOREM PayloadsAreReadBack == PayloadsReadBack
<1>1. ASSUME NEW raw \in Posted, NEW c \in Readings(raw), NEW d \in Readings(raw)
      PROVE  c = d /\ ReadsBack(c)
  BY OneReading, AllReadBack
<1>2. ASSUME NEW c \in Wellformed PROVE ReadsBack(c)
  BY WellformedOnes, AllReadBack
<1>3. ASSUME NEW c \in Seals \ {Refused}, ChainNumber(c.block), ChainNumber(c.index)
      PROVE  Size(EncodeSealed(c)) <= MaxBytes
  <2>1. c \in SealedOnes
    <3> PICK a \in Arenas, u \in Users, r \in Shas, s \in Salts, b \in Readable, i \in Readable,
             p \in Optional(Profiles) : c = Seal(a, u, r, s, b, i, p)
      BY DEF Seals
    <3>1. c = Sealed(a, SealDigest(a, u, r, s), b, i, p)
      BY Zenon DEF Seal
    <3> QED BY <3>1, SealedMade
  <2> QED BY <1>3, <2>1, SealedFits
<1> QED BY <1>1, <1>2, <1>3 DEF PayloadsReadBack

-----------------------------------------------------------------------------
(* The order of the commitments *)

\* A strict total order on a set, given by its pairs.
Orders(R, S) ==
    /\ \A g, h \in S : ~(<<g, h>> \in R /\ <<h, g>> \in R)
    /\ \A f, g, h \in S : <<f, g>> \in R /\ <<g, h>> \in R => <<f, h>> \in R
    /\ \A g, h \in S : g # h => <<g, h>> \in R \/ <<h, g>> \in R
PlaceIn(S, R, h) == Cardinality({g \in S : <<g, h>> \in R}) + 1

\* Sorting a finite set by a strict order lists each member once, in that order.
LEMMA Sorting ==
    ASSUME NEW S, NEW R, IsFiniteSet(S), Orders(R, S)
    PROVE  /\ DOMAIN SortedBy(S, R) = 1..Cardinality(S)
           /\ \A h \in S : PlaceIn(S, R, h) \in 1..Cardinality(S) /\ SortedBy(S, R)[PlaceIn(S, R, h)] = h
           /\ \A k \in 1..Cardinality(S) : SortedBy(S, R)[k] \in S /\ PlaceIn(S, R, SortedBy(S, R)[k]) = k
           /\ \A g, h \in S : <<g, h>> \in R => PlaceIn(S, R, g) < PlaceIn(S, R, h)
<1> DEFINE N == Cardinality(S)
           below(h) == {g \in S : <<g, h>> \in R}
           place(h) == PlaceIn(S, R, h)
           f == [h \in S |-> place(h)]
           sorted == SortedBy(S, R)
<1>1. N \in Nat
  BY FS_CardinalityType
<1>2. ASSUME NEW h \in S
      PROVE  /\ IsFiniteSet(below(h)) /\ Cardinality(below(h)) \in Nat
             /\ place(h) = Cardinality(below(h)) + 1 /\ place(h) \in 1..N
  <2>1. below(h) \in SUBSET S /\ h \notin below(h)
    BY DEF Orders
  <2>2. IsFiniteSet(below(h)) /\ Cardinality(below(h)) <= N /\ (N = Cardinality(below(h)) => S = below(h))
    <3> HIDE DEF below
    <3> QED BY <2>1, FS_Subset
  <2>3. place(h) = Cardinality(below(h)) + 1
    BY DEF PlaceIn
  <2> HIDE DEF below, place, N
  <2>4. Cardinality(below(h)) \in Nat /\ Cardinality(below(h)) # N
    BY <2>1, <2>2, FS_CardinalityType
  <2> QED BY <1>1, <2>2, <2>3, <2>4
<1>3. ASSUME NEW g \in S, NEW h \in S, <<g, h>> \in R PROVE place(g) < place(h)
  <2>1. below(g) \in SUBSET below(h) /\ g \in below(h) /\ g \notin below(g)
    BY <1>3 DEF Orders
  <2>2. below(g) # below(h)
    BY <2>1
  <2>5. IsFiniteSet(below(h)) /\ Cardinality(below(h)) \in Nat /\ Cardinality(below(g)) \in Nat
    BY <1>2
  <2>6. place(g) = Cardinality(below(g)) + 1 /\ place(h) = Cardinality(below(h)) + 1
    BY <1>2
  <2> HIDE DEF below, place
  <2>3. Cardinality(below(g)) <= Cardinality(below(h)) /\ Cardinality(below(g)) # Cardinality(below(h))
    BY <2>1, <2>2, <2>5, FS_Subset
  <2> QED BY <2>3, <2>5, <2>6
<1>4. ASSUME NEW g \in S, NEW h \in S, place(g) = place(h) PROVE g = h
  <2>0. place(g) \in 1..N /\ place(h) \in 1..N
    BY <1>2
  <2> HIDE DEF place, N
  <2>1. place(g) \in Nat /\ place(h) \in Nat
    BY <2>0
  <2>2. ~(place(g) < place(h)) /\ ~(place(h) < place(g))
    BY <2>1, <1>4
  <2>3. <<g, h>> \notin R /\ <<h, g>> \notin R
    BY <2>2, <1>3
  <2> QED BY <2>3, Zenon DEF Orders
<1>5. \A k \in 1..N : \E h \in S : place(h) = k
  <2>1. f \in Injection(S, 1..N)
    <3>0. \A h \in S : place(h) \in 1..N
      BY <1>2
    <3> HIDE DEF N, place
    <3>1. f \in [S -> 1..N]
      BY <3>0
    <3>2. \A h \in S : f[h] = place(h)
      OBVIOUS
    <3> HIDE DEF f
    <3> QED BY <3>1, <3>2, <1>4 DEF Injection, IsInjective
  <2>2. IsFiniteSet(1..N) /\ Cardinality(1..N) = N
    BY <1>1, FS_Interval
  <2> HIDE DEF f
  <2>3. f \in Surjection(S, 1..N)
    BY <2>1, <2>2, FS_Injection
  <2> HIDE DEF place
  <2> QED BY <2>3 DEF Surjection, f
<1>6. sorted = [k \in 1..N |-> CHOOSE h \in S : place(h) = k]
  BY DEF SortedBy, PlaceIn
<1> HIDE DEF sorted, place
<1>7. ASSUME NEW k \in 1..N PROVE sorted[k] \in S /\ place(sorted[k]) = k
  <2>1. sorted[k] = CHOOSE h \in S : place(h) = k
    BY <1>6
  <2>2. \E h \in S : place(h) = k
    BY <1>5
  <2> QED BY <2>1, <2>2, Zenon
<1>8. \A h \in S : sorted[place(h)] = h
  BY <1>2, <1>4, <1>7
<1>9. DOMAIN sorted = 1..N
  BY <1>6
<1> QED BY <1>2, <1>3, <1>7, <1>8, <1>9 DEF sorted, place

IsKey(k) == \A i \in 1..4 : k[i] \in Int

LEMMA KeyBeforeIs ==
    ASSUME NEW k, NEW l
    PROVE  KeyBefore(k, l) <=>
             \/ k[1] < l[1]
             \/ k[1] = l[1] /\ k[2] < l[2]
             \/ k[1] = l[1] /\ k[2] = l[2] /\ k[3] < l[3]
             \/ k[1] = l[1] /\ k[2] = l[2] /\ k[3] = l[3] /\ k[4] < l[4]
<1>1. 1..4 = {1, 2, 3, 4}
  OBVIOUS
<1>2. 1..(1 - 1) = {} /\ 1..(2 - 1) = {1} /\ 1..(3 - 1) = {1, 2} /\ 1..(4 - 1) = {1, 2, 3}
  OBVIOUS
<1> DEFINE at(i) == k[i] < l[i] /\ \A j \in 1..(i - 1) : k[j] = l[j]
<1>3. KeyBefore(k, l) <=> at(1) \/ at(2) \/ at(3) \/ at(4)
  BY <1>1, Zenon DEF KeyBefore
<1>4. at(1) <=> k[1] < l[1]
  BY <1>2, Zenon
<1>5. at(2) <=> k[2] < l[2] /\ k[1] = l[1]
  BY <1>2, Zenon
<1>6. at(3) <=> k[3] < l[3] /\ k[1] = l[1] /\ k[2] = l[2]
  BY <1>2, Zenon
<1>7. at(4) <=> k[4] < l[4] /\ k[1] = l[1] /\ k[2] = l[2] /\ k[3] = l[3]
  BY <1>2, Zenon
<1> HIDE DEF at
<1> QED BY <1>3, <1>4, <1>5, <1>6, <1>7, Zenon

LEMMA KeysOrder ==
    ASSUME NEW k, NEW l, NEW m, IsKey(k), IsKey(l), IsKey(m)
    PROVE  /\ ~(KeyBefore(k, l) /\ KeyBefore(l, k))
           /\ KeyBefore(k, l) /\ KeyBefore(l, m) => KeyBefore(k, m)
           /\ k[4] # l[4] => KeyBefore(k, l) \/ KeyBefore(l, k)
<1>1. ~(KeyBefore(k, l) /\ KeyBefore(l, k))
  BY KeyBeforeIs DEF IsKey
<1>2. KeyBefore(k, l) /\ KeyBefore(l, m) => KeyBefore(k, m)
  BY KeyBeforeIs DEF IsKey
<1>3. k[4] # l[4] => KeyBefore(k, l) \/ KeyBefore(l, k)
  BY KeyBeforeIs DEF IsKey
<1> QED BY <1>1, <1>2, <1>3

\* Hotkeys have each a rank of their own.
LEMMA RanksDiffer ==
    /\ \A h \in Hotkeys : Rank(h) \in Int
    /\ \A g, h \in Hotkeys : g # h => Rank(g) # Rank(h)
<1>1. \A h \in Hotkeys : \E k \in DOMAIN HotkeyOrder : HotkeyOrder[k] = h
  BY DEF Hotkeys, Range
<1>2. \A h \in Hotkeys : Rank(h) \in DOMAIN HotkeyOrder /\ HotkeyOrder[Rank(h)] = h
  BY <1>1 DEF Rank
<1>3. DOMAIN HotkeyOrder \subseteq Int
  BY ReadingAssumption
<1> QED BY <1>2, <1>3

\* The place of a commitment counts when all of its block were read.
LEMMA PositionIs ==
    ASSUME NEW blocks \in CommitBlocks, NEW places \in CommitPlaces, NEW h \in DOMAIN blocks
    PROVE  LET positions == Positions(blocks, places)
               with == {g \in DOMAIN blocks : blocks[g] = blocks[h]}
           IN  /\ h \in DOMAIN positions => positions[h] = places[h]
               /\ h \in DOMAIN positions <=>
                    blocks[h] > 0 /\ (\E g \in with : g # h) /\ \A g \in with : places[g] >= 0
<1> DEFINE with(x) == {g \in DOMAIN blocks : blocks[g] = blocks[x]}
           reads(x) == /\ blocks[x] > 0 /\ Cardinality(with(x)) > 1
                       /\ \A g \in with(x) : places[g] >= 0
           positions == Positions(blocks, places)
<1>1. positions = [x \in {x \in DOMAIN blocks : reads(x)} |-> places[x]]
  BY DEF Positions
<1>2. h \in DOMAIN positions <=> reads(h)
  BY <1>1
<1>3. h \in DOMAIN positions => positions[h] = places[h]
  BY <1>1
<1>4. Cardinality(with(h)) > 1 <=> \E g \in with(h) : g # h
  <2>1. with(h) \in SUBSET DOMAIN blocks /\ h \in with(h) /\ IsFiniteSet(DOMAIN blocks)
    BY ReadingAssumption
  <2> HIDE DEF with
  <2>2. IsFiniteSet(with(h)) /\ IsFiniteSet({h}) /\ Cardinality({h}) = 1
    BY <2>1, FS_Subset, FS_Singleton
  <2>3. Cardinality(with(h)) \in Nat
    BY <2>2, FS_CardinalityType
  <2>4. {h} \in SUBSET with(h)
    BY <2>1
  <2>5. 1 <= Cardinality(with(h)) /\ (Cardinality(with(h)) = 1 => with(h) = {h})
    BY <2>2, <2>4, FS_Subset
  <2>6. Cardinality(with(h)) > 1 <=> with(h) # {h}
    <3>1. with(h) = {h} => Cardinality(with(h)) = 1
      BY <2>2
    <3> QED BY <2>3, <2>5, <3>1
  <2> QED BY <2>1, <2>6
<1> HIDE DEF positions
<1> QED BY <1>2, <1>3, <1>4, Zenon DEF positions

\* The order of the commitments follows their keys.
LEMMA KeysOfCommits ==
    ASSUME NEW blocks \in CommitBlocks, NEW places \in CommitPlaces
    PROVE  LET key == [h \in DOMAIN blocks |-> CommitKey(blocks, places, h)]
           IN  /\ \A h \in DOMAIN blocks : IsKey(key[h])
               /\ \A g, h \in DOMAIN blocks : g # h => key[g][4] # key[h][4]
<1> DEFINE key == [h \in DOMAIN blocks |-> CommitKey(blocks, places, h)]
           pos(h) == IF h \in DOMAIN Positions(blocks, places) THEN Positions(blocks, places)[h] ELSE 0
           late(h) == IF blocks[h] <= 0 THEN 1 ELSE 0
<1>1. ASSUME NEW h \in DOMAIN blocks
      PROVE  /\ key[h] = <<late(h), blocks[h], pos(h), Rank(h)>>
             /\ late(h) \in Int /\ blocks[h] \in Int /\ pos(h) \in Int /\ Rank(h) \in Int
  <2>1. key[h] = <<late(h), blocks[h], pos(h), Rank(h)>>
    BY DEF CommitKey
  <2>2. blocks[h] \in Int /\ places[h] \in Int /\ h \in Hotkeys
    BY ReadingAssumption
  <2>3. pos(h) \in {0, places[h]}
    BY PositionIs
  <2>4. late(h) \in Int
    OBVIOUS
  <2>5. Rank(h) \in Int
    BY <2>2, RanksDiffer
  <2> HIDE DEF pos, late
  <2>6. pos(h) \in Int
    BY <2>2, <2>3
  <2> QED BY <2>1, <2>2, <2>4, <2>5, <2>6
<1> HIDE DEF key, pos, late
<1>2. \A h \in DOMAIN blocks : IsKey(key[h])
  BY <1>1 DEF IsKey
<1>3. ASSUME NEW g \in DOMAIN blocks, NEW h \in DOMAIN blocks, g # h PROVE key[g][4] # key[h][4]
  <2>1. key[g][4] = Rank(g) /\ key[h][4] = Rank(h)
    BY <1>1
  <2>2. g \in Hotkeys /\ h \in Hotkeys
    BY ReadingAssumption
  <2> QED BY <1>3, <2>1, <2>2, RanksDiffer
<1> QED BY <1>2, <1>3 DEF key

\* For any number of commitments, blocks and places: earlier blocks come first, and in a
\* block the transactions decide when all of them were read and else the hotkeys
\* (duplicates.py commit_positions, commit_order).
THEOREM OrderIsAlwaysOne == OrderIsOneOrTheOther
<1> SUFFICES ASSUME NEW blocks \in CommitBlocks, NEW places \in CommitPlaces
             PROVE  LET order == CommitOrder(blocks, places)
                        First(g, h) == \E i, j \in DOMAIN order : i < j /\ order[i] = g /\ order[j] = h
                        Whole(h) == \A g \in {g \in DOMAIN blocks : blocks[g] = blocks[h]} : places[g] >= 0
                    IN  /\ DOMAIN order = 1..Cardinality(DOMAIN blocks)
                        /\ \A g, h \in DOMAIN blocks :
                            /\ First(g, h) => ~First(h, g)
                            /\ blocks[g] > 0 /\ (blocks[g] < blocks[h] \/ blocks[h] <= 0) => First(g, h)
                            /\ blocks[g] = blocks[h] /\ blocks[g] > 0 /\ Whole(g) /\ places[g] < places[h] => First(g, h)
                            /\ blocks[g] = blocks[h] /\ blocks[g] > 0 /\ ~Whole(g) /\ Rank(g) < Rank(h) => First(g, h)
  BY DEF OrderIsOneOrTheOther
<1> DEFINE D == DOMAIN blocks
           key == [h \in D |-> CommitKey(blocks, places, h)]
           R == {p \in D \X D : KeyBefore(key[p[1]], key[p[2]])}
           order == CommitOrder(blocks, places)
           place(h) == PlaceIn(D, R, h)
           First(g, h) == \E i, j \in DOMAIN order : i < j /\ order[i] = g /\ order[j] = h
           Whole(h) == \A g \in {g \in D : blocks[g] = blocks[h]} : places[g] >= 0
           pos(h) == IF h \in DOMAIN Positions(blocks, places) THEN Positions(blocks, places)[h] ELSE 0
           late(h) == IF blocks[h] <= 0 THEN 1 ELSE 0
<1>1. IsFiniteSet(D) /\ \A h \in D : blocks[h] \in Int /\ places[h] \in Int
  BY ReadingAssumption
<1>2. /\ \A h \in D : IsKey(key[h])
      /\ \A g, h \in D : g # h => key[g][4] # key[h][4]
  BY KeysOfCommits
<1>3. \A h \in D : key[h] = <<late(h), blocks[h], pos(h), Rank(h)>>
  BY DEF CommitKey
<1>4. order = SortedBy(D, R)
  BY DEF CommitOrder
<1> HIDE DEF key
<1>5. \A g, h \in D : <<g, h>> \in R <=> KeyBefore(key[g], key[h])
  OBVIOUS
<1> HIDE DEF R
<1>6. Orders(R, D)
  <2>1. \A g, h \in D : ~(<<g, h>> \in R /\ <<h, g>> \in R)
    BY <1>2, <1>5, KeysOrder
  <2>2. ASSUME NEW f \in D, NEW g \in D, NEW h \in D, <<f, g>> \in R, <<g, h>> \in R PROVE <<f, h>> \in R
    BY <1>2, <1>5, <2>2, KeysOrder
  <2>3. ASSUME NEW g \in D, NEW h \in D, g # h PROVE <<g, h>> \in R \/ <<h, g>> \in R
    BY <1>2, <1>5, <2>3, KeysOrder
  <2> QED BY <2>1, <2>2, <2>3 DEF Orders
<1> HIDE DEF D, order
<1>7. /\ DOMAIN order = 1..Cardinality(D)
      /\ \A h \in D : place(h) \in 1..Cardinality(D) /\ order[place(h)] = h
      /\ \A k \in 1..Cardinality(D) : order[k] \in D /\ place(order[k]) = k
      /\ \A g, h \in D : <<g, h>> \in R => place(g) < place(h)
  BY <1>1, <1>4, <1>6, Sorting
<1> HIDE DEF place
<1>8. ASSUME NEW g \in D, NEW h \in D PROVE First(g, h) <=> KeyBefore(key[g], key[h])
  <2>1. <<g, h>> \in R => First(g, h)
    BY <1>7
  <2>2. ASSUME First(g, h) PROVE <<g, h>> \in R
    <3> PICK i \in DOMAIN order, j \in DOMAIN order : i < j /\ order[i] = g /\ order[j] = h
      BY <2>2
    <3>1. place(g) = i /\ place(h) = j /\ i \in Int /\ j \in Int
      BY <1>7
    <3>2. g # h
      BY <3>1
    <3>3. ~(<<h, g>> \in R)
      <4>1. <<h, g>> \in R => place(h) < place(g)
        BY <1>7
      <4> QED BY <3>1, <4>1
    <3> QED BY <1>6, <3>2, <3>3 DEF Orders
  <2> QED BY <1>5, <2>1, <2>2
<1> HIDE DEF First
<1>9. ASSUME NEW g \in D, NEW h \in D PROVE First(g, h) => ~First(h, g)
  BY <1>2, <1>8, KeysOrder
<1>10. ASSUME NEW g \in D, NEW h \in D, blocks[g] > 0, blocks[g] < blocks[h] \/ blocks[h] <= 0 PROVE First(g, h)
  <2>0. blocks[g] \in Int /\ blocks[h] \in Int
    BY <1>1
  <2>1. late(g) = 0 /\ (late(h) = 1 \/ (late(h) = 0 /\ blocks[g] < blocks[h]))
    <3>1. CASE blocks[h] <= 0
      BY <1>10, <2>0, <3>1
    <3>2. CASE ~(blocks[h] <= 0)
      BY <1>10, <2>0, <3>2
    <3> QED BY <3>1, <3>2
  <2> HIDE DEF late, pos
  <2>2. key[g][1] = late(g) /\ key[h][1] = late(h) /\ key[g][2] = blocks[g] /\ key[h][2] = blocks[h]
    BY <1>3
  <2>3. KeyBefore(key[g], key[h])
    BY <2>1, <2>2, KeyBeforeIs
  <2> QED BY <1>8, <2>3
<1>11. ASSUME NEW g \in D, NEW h \in D, blocks[g] = blocks[h], blocks[g] > 0, Whole(g), places[g] < places[h]
       PROVE  First(g, h)
  <2>1. late(g) = 0 /\ late(h) = 0
    BY <1>1, <1>11
  <2>2. g # h
    BY <1>1, <1>11
  <2>3. pos(g) = places[g] /\ pos(h) = places[h]
    <3>1. \A x \in D : blocks[x] = blocks[g] => places[x] >= 0
      BY <1>11
    <3>2. g \in DOMAIN Positions(blocks, places) /\ h \in DOMAIN Positions(blocks, places)
      BY <1>11, <2>2, <3>1, PositionIs DEF D
    <3> QED BY <3>2, PositionIs DEF D
  <2> HIDE DEF late, pos
  <2>4. /\ key[g][1] = late(g) /\ key[h][1] = late(h) /\ key[g][2] = blocks[g] /\ key[h][2] = blocks[h]
        /\ key[g][3] = pos(g) /\ key[h][3] = pos(h)
    BY <1>3
  <2>5. KeyBefore(key[g], key[h])
    BY <1>11, <2>1, <2>3, <2>4, KeyBeforeIs
  <2> QED BY <1>8, <2>5
<1>12. ASSUME NEW g \in D, NEW h \in D, blocks[g] = blocks[h], blocks[g] > 0, ~Whole(g), Rank(g) < Rank(h)
       PROVE  First(g, h)
  <2>1. late(g) = 0 /\ late(h) = 0
    BY <1>1, <1>12
  <2>3. pos(g) = 0 /\ pos(h) = 0
    <3>1. PICK x \in D : blocks[x] = blocks[g] /\ ~(places[x] >= 0)
      BY <1>12
    <3>2. g \notin DOMAIN Positions(blocks, places) /\ h \notin DOMAIN Positions(blocks, places)
      BY <1>12, <3>1, PositionIs DEF D
    <3> HIDE DEF Whole, late
    <3> QED BY <3>2
  <2> HIDE DEF late, pos
  <2>4. /\ key[g][1] = late(g) /\ key[h][1] = late(h) /\ key[g][2] = blocks[g] /\ key[h][2] = blocks[h]
        /\ key[g][3] = pos(g) /\ key[h][3] = pos(h) /\ key[g][4] = Rank(g) /\ key[h][4] = Rank(h)
    BY <1>3
  <2>5. KeyBefore(key[g], key[h])
    BY <1>12, <2>1, <2>3, <2>4, KeyBeforeIs
  <2> QED BY <1>8, <2>5
<1> HIDE DEF Whole
<1>13. /\ DOMAIN order = 1..Cardinality(D)
       /\ \A g, h \in D :
            /\ First(g, h) => ~First(h, g)
            /\ blocks[g] > 0 /\ (blocks[g] < blocks[h] \/ blocks[h] <= 0) => First(g, h)
            /\ blocks[g] = blocks[h] /\ blocks[g] > 0 /\ Whole(g) /\ places[g] < places[h] => First(g, h)
            /\ blocks[g] = blocks[h] /\ blocks[g] > 0 /\ ~Whole(g) /\ Rank(g) < Rank(h) => First(g, h)
  BY <1>7, <1>9, <1>10, <1>11, <1>12
<1> QED BY <1>13, Zenon DEF order, First, Whole, D
-----------------------------------------------------------------------------
(* What commit() may send *)

OpenPayloads == {OpenPayload(sha, b, i) : sha \in Shas, b \in Heights, i \in Places}
SealedPayloads == {SealedPayload(sha, salt, b, i) : sha \in Shas, salt \in Salts, b \in Heights, i \in Places}
Payloads == {p \in OpenPayloads \cup SealedPayloads : Arena \in Arenas /\ User \in Users}

\* The transfer a payload cites, as FeeIsPaidOnce reads it.
Citation(p) ==
    LET c == IF DecodeSealed(p) # Refused THEN DecodeSealed(p) ELSE DecodeOpen(p)
    IN  <<c.block, c.index>>
Read(p) == IF DecodeSealed(p) # Refused THEN DecodeSealed(p) ELSE DecodeOpen(p)

\* What an accepted command sends is a payload that cites the fee, and opens with the
\* values of the command when it is sealed.
LEMMA WhatIsSent ==
    ASSUME NEW h \in Miners, NEW sha \in Shas, NEW salt \in Salts, NEW sealed \in BOOLEAN,
           Fee(h) \in Heights \X (Places \cup {Unread}),
           Made(h, sha, salt, sealed) # Refused,
           Encode(Made(h, sha, salt, sealed)) # TooLong
    PROVE  LET p == Encode(Made(h, sha, salt, sealed))
           IN  /\ Fee(h) \in Fees
               /\ p \in Payloads /\ p # <<>>
               /\ Read(p) # Refused /\ Citation(p) = Fee(h)
               /\ IF sealed THEN DecodeSealed(p) # Refused /\ Matches(DecodeSealed(p), User, sha, salt)
                  ELSE DecodeSealed(p) = Refused
<1> DEFINE b == Fee(h)[1]
           i == Fee(h)[2]
           p == Encode(Made(h, sha, salt, sealed))
<1>1. b \in Heights /\ i \in Places \cup {Unread} /\ Fee(h) = <<b, i>>
  OBVIOUS
<1>2. Refused.kind = "none"
  BY DEF Refused
<1> HIDE DEF b, i
<1>3. CASE sealed
  <2>1. Made(h, sha, salt, sealed) = Seal(Arena, User, sha, salt, b, i, "")
    BY <1>3 DEF Made, b, i
  <2>2. User \in Users
    BY <2>1 DEF Seal
  <2>3. Seal(Arena, User, sha, salt, b, i, "") = Sealed(Arena, SealDigest(Arena, User, sha, salt), b, i, "")
    BY <2>2 DEF Seal
  <2>4. Arena \in Arenas /\ Reference(b, i)
    BY <2>1, <2>3 DEF Sealed
  <2>5. i \in Places
    BY <1>1, <2>4 DEF Reference, Unread
  <2> DEFINE c == [kind |-> "sealed", arena |-> Arena, digest |-> SealDigest(Arena, User, sha, salt),
                   block |-> b, index |-> i, profile |-> ""]
  <2>6. Made(h, sha, salt, sealed) = c
    BY <2>1, <2>3, Zenon DEF Sealed
  <2>7. /\ c.kind = "sealed" /\ c.profile = "" /\ c.arena = Arena
        /\ c.digest = SealDigest(Arena, User, sha, salt) /\ c.block = b /\ c.index = i
    OBVIOUS
  <2> HIDE DEF c
  <2>8. p = (<<"mt3">> \o <<Arena, SealDigest(Arena, User, sha, salt)>>) \o <<Text(b), Text(i)>>
    BY <2>6, <2>7 DEF Encode, EncodeSealed, Tagged
  <2>9. p = SealedPayload(sha, salt, b, i)
    BY <2>8, FiveTokens DEF SealedPayload
  <2>10. DecodeSealed(p) = c
    BY <1>1, <2>2, <2>4, <2>5, <2>9, SealedIsReadBack DEF c
  <2>11. c # Refused
    BY <1>2, <2>7
  <2>12. Citation(p) = <<b, i>> /\ Read(p) # Refused
    BY <2>7, <2>10, <2>11 DEF Citation, Read
  <2>13. p \in Payloads
    BY <1>1, <2>2, <2>4, <2>5, <2>9 DEF Payloads, SealedPayloads
  <2>14. Matches(c, User, sha, salt)
    BY <2>7 DEF Matches
  <2>15. p # <<>>
    BY <2>10, <2>11, EmptyIsNotSealed
  <2>16. Fee(h) \in Fees
    BY <1>1, <2>5 DEF Fees
  <2> HIDE DEF p
  <2> QED
    BY <1>1, <1>3, <2>10, <2>11, <2>12, <2>13, <2>14, <2>15, <2>16, Zenon DEF p
<1>4. CASE ~sealed
  <2>1. Made(h, sha, salt, sealed) = Submission(Arena, User, sha, b, i, "")
    BY <1>4 DEF Made, b, i
  <2>2. User \in Users /\ Arena \in Arenas /\ Reference(b, i)
    BY <2>1 DEF Submission
  <2>3. i \in Places
    BY <1>1, <2>2 DEF Reference, Unread
  <2> DEFINE c == [kind |-> "open", arena |-> Arena, user |-> User, sha |-> sha,
                   block |-> b, index |-> i, profile |-> ""]
  <2>4. Made(h, sha, salt, sealed) = c
    BY <2>1, Zenon DEF Submission
  <2>5. /\ c.kind = "open" /\ c.profile = "" /\ c.arena = Arena /\ c.user = User /\ c.sha = sha
        /\ c.block = b /\ c.index = i
    OBVIOUS
  <2> HIDE DEF c
  <2>6. p = Capped((<<"mt2">> \o <<Arena, User, sha>>) \o <<Text(b), Text(i)>>)
    BY <2>4, <2>5 DEF Encode, EncodeOpen, Tagged
  <2>7. p = (<<"mt2">> \o <<Arena, User, sha>>) \o <<Text(b), Text(i)>>
    BY <2>6 DEF Capped
  <2>8. p = OpenPayload(sha, b, i)
    BY <2>7, SixTokens DEF OpenPayload
  <2>9. DecodeOpen(p) = c
    BY <1>1, <2>2, <2>3, <2>8, OpenIsReadBack DEF c
  <2>10. c # Refused
    BY <1>2, <2>5
  <2>11. p[1] = "mt2" /\ p # <<>>
    BY <2>8 DEF OpenPayload
  <2>12. DecodeSealed(p) = Refused
    BY <2>11, OpenIsNotSealed
  <2>13. Citation(p) = <<b, i>> /\ Read(p) # Refused
    BY <2>5, <2>9, <2>10, <2>12 DEF Citation, Read
  <2>14. p \in Payloads
    BY <1>1, <2>2, <2>3, <2>8 DEF Payloads, OpenPayloads
  <2>15. Fee(h) \in Fees
    BY <1>1, <2>3 DEF Fees
  <2> HIDE DEF p
  <2> QED
    BY <1>1, <1>4, <2>11, <2>12, <2>13, <2>14, <2>15, Zenon DEF p
<1> QED BY <1>3, <1>4

-----------------------------------------------------------------------------
(* The inductive invariant *)

Committing == {"publishing", "accepted", "writing"}
Running == [at : Committing, attempt : 1..Attempts, payload : Payloads,
            sealed : BOOLEAN, sha : Shas, salt : Salts]
Commands == {Idle, [at |-> "paying"]} \cup Running
Reveals == [state : {"whole"}, hotkey : Miners, user : {User}, sha : Shas, salt : Salts,
            commitment : Payloads]

TypeOK ==
    /\ height \in Heights
    /\ slot \in [Miners -> [payload : Payloads \cup {<<>>}, block : Heights]]
    /\ inFlight \in [Miners -> Seq(Payloads)]
    /\ paid \subseteq Fees
    /\ asked \in Nat /\ salts \in Nat /\ asked + salts <= MaxCommands
    /\ receipt \in [Miners -> Heights \X (Places \cup {Unread})]
    /\ file \in {NoFile, Torn} \cup Reveals
    /\ cmd \in [Miners -> Commands]
    /\ said \in [Miners -> {"nothing", "running", "failed", "died", "committed"}]

\* Every transfer that went out was asked for, and so is every one about to go out.
Paying == {h \in Miners : At(h, "paying")}
TransfersAreAsked == IsFiniteSet(paid) /\ Cardinality(paid) + Cardinality(Paying) <= asked

\* A payload that a slot holds, a command sends or the chain may still include cites a
\* transfer of the chain.
Cites(p) == Read(p) # Refused /\ Citation(p) \in paid
PayloadsArePaid ==
    Charged =>
        \A h \in Miners :
            /\ receipt[h] \in paid \/ receipt[h][2] = Unread
            /\ slot[h].payload # <<>> => Cites(slot[h].payload)
            /\ cmd[h].at \in Committing => Cites(cmd[h].payload)
            /\ \A k \in DOMAIN inFlight[h] : Cites(inFlight[h][k])

\* A running commit has the values that open its payload; once the payload is in the slot
\* nothing the hotkey sent before it can still be included.
RunningCommitOpens ==
    \A h \in Miners : cmd[h].at \in Committing =>
        /\ said[h] = "running"
        /\ IF cmd[h].sealed THEN Opens(Saved(h), cmd[h].payload)
           ELSE DecodeSealed(cmd[h].payload) = Refused
        /\ cmd[h].at = "writing" => cmd[h].sealed
        /\ cmd[h].at # "publishing" => slot[h].payload = cmd[h].payload /\ inFlight[h] = <<>>
NothingIsLate == \A h \in Miners : said[h] = "committed" => inFlight[h] = <<>>

Inv == /\ TypeOK /\ TransfersAreAsked /\ PayloadsArePaid
       /\ RunningCommitOpens /\ NothingIsLate /\ SavedRevealOpens

LEMMA Bounds ==
    /\ Heights \subseteq Nat /\ Places \subseteq Nat /\ 0 \in Heights /\ 0 \in Places
    /\ MaxHeight \in Nat /\ MaxCommands \in Nat /\ Attempts \in Nat \ {0}
BY SubmissionAssumption DEF SubmissionAssumption, Heights, Places

LEMMA NoPayloadIsEmpty == <<>> \notin Payloads
<1>1. \A sha, b, i : OpenPayload(sha, b, i) # <<>>
  BY DEF OpenPayload
<1>2. \A sha, salt, b, i : SealedPayload(sha, salt, b, i) # <<>>
  BY DEF SealedPayload
<1> QED BY <1>1, <1>2 DEF Payloads, OpenPayloads, SealedPayloads

LEMMA RunningCommand ==
    ASSUME TypeOK, NEW h \in Miners, cmd[h].at \in Committing
    PROVE  cmd[h] \in Running
BY DEF TypeOK, Commands, Idle, Committing

LEMMA PayingIsFinite == IsFiniteSet(Paying) /\ Cardinality(Paying) \in Nat
<1>1. Paying \subseteq Miners /\ IsFiniteSet(Miners)
  BY SubmissionAssumption DEF Paying, SubmissionAssumption
<1> QED BY <1>1, FS_Subset, FS_CardinalityType

\* A command that leaves the others alone changes who pays by itself only.
LEMMA OthersPayOn ==
    ASSUME TypeOK, NEW h \in Miners, NEW c, Goes(h, c)
    PROVE  /\ c.at = "paying" => Paying' = Paying \cup {h}
           /\ c.at # "paying" => Paying' = Paying \ {h}
BY DEF TypeOK, Goes, Paying, At

LEMMA TransfersStayAsked ==
    ASSUME TypeOK, TransfersAreAsked, NEW h \in Miners, ~At(h, "paying"), NEW c, c.at # "paying",
           Goes(h, c), UNCHANGED <<paid, asked>>
    PROVE  TransfersAreAsked'
<1>1. Paying' = Paying
  BY OthersPayOn DEF Paying
<1> QED BY <1>1 DEF TransfersAreAsked

LEMMA InitInv == Init => Inv
<1> SUFFICES ASSUME Init PROVE Inv
  OBVIOUS
<1>1. TypeOK
  BY Bounds, SubmissionAssumption
     DEF Init, TypeOK, NoSlot, NoReceipt, Commands, Idle, Fees
<1>2. TransfersAreAsked
  <2>1. Paying = {}
    BY DEF Init, Paying, At, Idle
  <2> QED BY <2>1, FS_EmptySet DEF Init, TransfersAreAsked
<1>3. PayloadsArePaid
  BY DEF Init, PayloadsArePaid, NoReceipt, NoSlot, Idle, Committing
<1>4. RunningCommitOpens /\ NothingIsLate /\ SavedRevealOpens
  BY DEF Init, RunningCommitOpens, NothingIsLate, SavedRevealOpens, Idle, Committing, NoFile
<1> QED BY <1>1, <1>2, <1>3, <1>4 DEF Inv

-----------------------------------------------------------------------------
(* One lemma for each step *)

LEMMA PayKeepsInv ==
    ASSUME Inv, NEW h \in Miners, Pay(h)
    PROVE  Inv'
<1> USE DEF Inv, At, Goes, Ends, chain, Holds
<1>1. TypeOK'
  BY Bounds DEF Pay, TypeOK, Commands, Running, Idle, Committing
<1>2. TransfersAreAsked'
  <2>1. Goes(h, [at |-> "paying"]) /\ h \notin Paying
    BY DEF Pay, Paying, Idle
  <2>2. Paying' = Paying \cup {h}
    BY <2>1, OthersPayOn
  <2>3. Cardinality(Paying') = Cardinality(Paying) + 1
    BY <2>1, <2>2, PayingIsFinite, FS_AddElement
  <2> QED
    BY <2>3, PayingIsFinite, FS_CardinalityType DEF Pay, TransfersAreAsked, TypeOK
<1>3. PayloadsArePaid'
  BY Bounds DEF Pay, PayloadsArePaid, Cites, TypeOK, Commands, Running, Idle, Committing
<1>4. RunningCommitOpens'
  BY Bounds DEF Pay, RunningCommitOpens, Saved, TypeOK, Commands, Running, Idle, Committing
<1>5. NothingIsLate'
  BY Bounds DEF Pay, NothingIsLate, TypeOK, RunningCommitOpens, Commands, Running, Idle, Committing
<1>6. SavedRevealOpens'
  BY Bounds DEF Pay, SavedRevealOpens, TypeOK, RunningCommitOpens, Commands, Running, Idle, Committing
<1> QED BY <1>1, <1>2, <1>3, <1>4, <1>5, <1>6

LEMMA TransferredKeepsInv ==
    ASSUME Inv, NEW h \in Miners, NEW yes \in BOOLEAN, Transferred(h, yes)
    PROVE  Inv'
<1> USE DEF Inv, At, Goes, Ends, chain, Holds
<1>a. /\ Goes(h, Idle) /\ h \in Paying /\ Idle.at # "paying"
  BY DEF Transferred, Paying, Idle
<1>b. Paying' = Paying \ {h}
  BY <1>a, OthersPayOn
<1>c. Cardinality(Paying') = Cardinality(Paying) - 1 /\ Cardinality(Paying) \in Nat /\ Cardinality(Paying') \in Nat
  BY <1>a, <1>b, PayingIsFinite, FS_RemoveElement, FS_CardinalityType, FS_Subset
<1>d. /\ Cardinality(paid) \in Nat /\ Cardinality(paid) + 1 <= asked
      /\ asked <= MaxCommands
  BY <1>a, <1>c, Bounds, FS_CardinalityType DEF TransfersAreAsked, TypeOK
<1>e. NextTransfer \in Fees
  BY <1>d, Bounds DEF NextTransfer, Fees, Places, TypeOK
<1>f. IsFiniteSet(paid \cup {NextTransfer}) /\ Cardinality(paid \cup {NextTransfer}) <= Cardinality(paid) + 1
      /\ Cardinality(paid \cup {NextTransfer}) \in Nat
  <2>1. IsFiniteSet(paid)
    BY DEF TransfersAreAsked
  <2>2. /\ IsFiniteSet(paid \cup {NextTransfer})
        /\ \/ Cardinality(paid \cup {NextTransfer}) = Cardinality(paid)
           \/ Cardinality(paid \cup {NextTransfer}) = Cardinality(paid) + 1
    BY <2>1, FS_AddElement
  <2> QED BY <1>d, <2>2
<1>1. TypeOK'
  <2>1. receipt' \in [Miners -> Heights \X (Places \cup {Unread})]
    BY <1>e, Bounds DEF Transferred, NextTransfer, Fees, TypeOK
  <2> QED
    BY <2>1, <1>e, Bounds DEF Transferred, TypeOK, Commands
<1>2. TransfersAreAsked'
  BY <1>c, <1>d, <1>f, Bounds DEF Transferred, TransfersAreAsked, TypeOK
<1>3. PayloadsArePaid'
  BY Bounds DEF Transferred, PayloadsArePaid, Cites, TypeOK, Commands, Running, Idle, Committing
<1>4. RunningCommitOpens'
  BY Bounds DEF Transferred, RunningCommitOpens, Saved, TypeOK, Commands, Running, Idle, Committing
<1>5. NothingIsLate'
  BY Bounds DEF Transferred, NothingIsLate, TypeOK, RunningCommitOpens, Commands, Running, Idle, Committing
<1>6. SavedRevealOpens'
  BY Bounds DEF Transferred, SavedRevealOpens, TypeOK, RunningCommitOpens, Commands, Running, Idle, Committing
<1> QED BY <1>1, <1>2, <1>3, <1>4, <1>5, <1>6

LEMMA TransferFailsKeepsInv ==
    ASSUME Inv, NEW h \in Miners, NEW yes \in BOOLEAN, TransferFails(h, yes)
    PROVE  Inv'
<1> USE DEF Inv, At, Goes, Ends, chain, Holds
<1>a. /\ Goes(h, Idle) /\ h \in Paying /\ Idle.at # "paying"
  BY DEF TransferFails, Paying, Idle
<1>b. Paying' = Paying \ {h}
  BY <1>a, OthersPayOn
<1>c. Cardinality(Paying') = Cardinality(Paying) - 1 /\ Cardinality(Paying) \in Nat /\ Cardinality(Paying') \in Nat
  BY <1>a, <1>b, PayingIsFinite, FS_RemoveElement, FS_CardinalityType, FS_Subset
<1>d. /\ Cardinality(paid) \in Nat /\ Cardinality(paid) + 1 <= asked
      /\ asked <= MaxCommands
  BY <1>a, <1>c, Bounds, FS_CardinalityType DEF TransfersAreAsked, TypeOK
<1>e. NextTransfer \in Fees
  BY <1>d, Bounds DEF NextTransfer, Fees, Places, TypeOK
<1>f. IsFiniteSet(paid \cup {NextTransfer}) /\ Cardinality(paid \cup {NextTransfer}) <= Cardinality(paid) + 1
      /\ Cardinality(paid \cup {NextTransfer}) \in Nat
  <2>1. IsFiniteSet(paid)
    BY DEF TransfersAreAsked
  <2>2. /\ IsFiniteSet(paid \cup {NextTransfer})
        /\ \/ Cardinality(paid \cup {NextTransfer}) = Cardinality(paid)
           \/ Cardinality(paid \cup {NextTransfer}) = Cardinality(paid) + 1
    BY <2>1, FS_AddElement
  <2> QED BY <1>d, <2>2
<1>1. TypeOK'
  BY <1>e, Bounds DEF TransferFails, NextTransfer, Fees, TypeOK, Commands
<1>2. TransfersAreAsked'
  BY <1>c, <1>d, <1>f, Bounds DEF TransferFails, TransfersAreAsked, TypeOK
<1>3. PayloadsArePaid'
  BY Bounds DEF TransferFails, PayloadsArePaid, Cites, TypeOK, Commands, Running, Idle, Committing
<1>4. RunningCommitOpens'
  BY Bounds DEF TransferFails, RunningCommitOpens, Saved, TypeOK, Commands, Running, Idle, Committing
<1>5. NothingIsLate'
  BY Bounds DEF TransferFails, NothingIsLate, TypeOK, RunningCommitOpens, Commands, Running, Idle, Committing
<1>6. SavedRevealOpens'
  BY Bounds DEF TransferFails, SavedRevealOpens, TypeOK, RunningCommitOpens, Commands, Running, Idle, Committing
<1> QED BY <1>1, <1>2, <1>3, <1>4, <1>5, <1>6

LEMMA CommitKeepsInv ==
    ASSUME Inv, NEW h \in Miners, NEW sha \in Shas, NEW sealed \in BOOLEAN, Commit(h, sha, sealed)
    PROVE  Inv'
<1> USE DEF Inv, At, Goes, Ends, chain, Holds
<1> DEFINE salt == Draws[salts + 1]
           made == Made(h, sha, salt, sealed)
           sent == [at |-> "publishing", attempt |-> 1, payload |-> Encode(made),
                    sealed |-> sealed, sha |-> sha, salt |-> salt]
<1>a. salt \in Salts
  <2>1. Draws \in Seq(Salts) /\ Len(Draws) >= MaxCommands
    BY SubmissionAssumption DEF SubmissionAssumption
  <2>2. salts + 1 \in 1..Len(Draws)
    BY <2>1, Bounds DEF Commit, TypeOK
  <2> QED BY <2>1, <2>2
<1>b. Fee(h) \in Heights \X (Places \cup {Unread})
  BY Bounds DEF Fee, TypeOK
<1>c. /\ At(h, "idle") /\ salts' = salts + 1 /\ asked + salts < MaxCommands
      /\ UNCHANGED <<height, slot, inFlight, paid, frozen, asked, receipt, file, entry>>
  BY DEF Commit
<1>d. \/ Ends(h, "failed")
      \/ /\ made # Refused /\ Encode(made) # TooLong
         /\ Goes(h, sent) /\ said' = [said EXCEPT ![h] = "running"]
  BY DEF Commit
<1>e. made # Refused /\ Encode(made) # TooLong =>
        /\ Fee(h) \in Fees
        /\ Encode(made) \in Payloads
        /\ Read(Encode(made)) # Refused /\ Citation(Encode(made)) = Fee(h)
        /\ IF sealed THEN /\ DecodeSealed(Encode(made)) # Refused
                          /\ Matches(DecodeSealed(Encode(made)), User, sha, salt)
           ELSE DecodeSealed(Encode(made)) = Refused
  <2> HIDE DEF salt
  <2>1. SUFFICES ASSUME made # Refused, Encode(made) # TooLong
                 PROVE  /\ Fee(h) \in Fees
                        /\ Encode(made) \in Payloads
                        /\ Read(Encode(made)) # Refused /\ Citation(Encode(made)) = Fee(h)
                        /\ IF sealed THEN /\ DecodeSealed(Encode(made)) # Refused
                                          /\ Matches(DecodeSealed(Encode(made)), User, sha, salt)
                           ELSE DecodeSealed(Encode(made)) = Refused
    OBVIOUS
  <2> QED BY <1>a, <1>b, <2>1, WhatIsSent, Zenon
<1> HIDE DEF salt, made
<1>f. /\ sent.at = "publishing" /\ sent.payload = Encode(made) /\ sent.sealed = sealed
      /\ sent.sha = sha /\ sent.salt = salt
  OBVIOUS
<1>g. Encode(made) \in Payloads => sent \in Running
  BY <1>a, Bounds DEF Running, Committing
<1> HIDE DEF sent
<1>1. TypeOK'
  <2>1. cmd' \in [Miners -> Commands]
    BY <1>d, <1>e, <1>g DEF TypeOK, Commands
  <2>2. said' \in [Miners -> {"nothing", "running", "failed", "died", "committed"}]
    BY <1>d DEF TypeOK
  <2> QED BY <1>c, <2>1, <2>2, Bounds DEF TypeOK
<1>2. TransfersAreAsked'
  <2>1. ~At(h, "paying") /\ UNCHANGED <<paid, asked>>
    BY <1>c
  <2>2. PICK c : Goes(h, c) /\ c.at # "paying"
    BY <1>d, <1>f DEF Idle
  <2> QED BY <2>1, <2>2, TransfersStayAsked
<1>3. PayloadsArePaid'
  <2> SUFFICES ASSUME Charged, NEW g \in Miners, cmd'[g].at \in Committing
               PROVE  Cites(cmd'[g].payload)
    BY <1>c DEF PayloadsArePaid, Cites
  <2>1. CASE g # h
    <3>1. cmd'[g] = cmd[g]
      BY <1>d, <2>1 DEF TypeOK
    <3> QED BY <3>1 DEF PayloadsArePaid
  <2>2. CASE g = h
    <3>1. made # Refused /\ Encode(made) # TooLong /\ cmd'[h] = sent
      BY <1>d, <2>2 DEF TypeOK, Idle, Committing
    <3>2. Fee(h) = receipt[h] /\ Fee(h) \in Fees
      BY <1>e, <3>1 DEF Fee
    <3>3. receipt[h][2] # Unread
      BY <3>2, Bounds DEF Fees, Unread
    <3>4. receipt[h] \in paid
      BY <3>3 DEF PayloadsArePaid
    <3> QED BY <1>e, <1>f, <2>2, <3>1, <3>2, <3>4 DEF Cites
  <2> QED BY <2>1, <2>2
<1>4. RunningCommitOpens'
  <2> SUFFICES ASSUME NEW g \in Miners, cmd'[g].at \in Committing
               PROVE  /\ said'[g] = "running"
                      /\ IF cmd'[g].sealed THEN Opens(Saved(g)', cmd'[g].payload)
                         ELSE DecodeSealed(cmd'[g].payload) = Refused
                      /\ cmd'[g].at = "writing" => cmd'[g].sealed
                      /\ cmd'[g].at # "publishing" => slot'[g].payload = cmd'[g].payload /\ inFlight'[g] = <<>>
    BY DEF RunningCommitOpens
  <2>1. CASE g # h
    <3>1. cmd'[g] = cmd[g] /\ said'[g] = said[g]
      BY <1>d, <2>1 DEF TypeOK
    <3>2. Saved(g)' = Saved(g)
      BY <3>1 DEF Saved
    <3> QED BY <1>c, <3>1, <3>2 DEF RunningCommitOpens
  <2>2. CASE g = h
    <3>1. made # Refused /\ Encode(made) # TooLong /\ cmd'[h] = sent /\ said'[h] = "running"
      BY <1>d, <2>2 DEF TypeOK, Idle, Committing
    <3>2. Saved(h)'.user = User /\ Saved(h)'.sha = sha /\ Saved(h)'.salt = salt
      BY <1>f, <3>1 DEF Saved
    <3> QED BY <1>e, <1>f, <2>2, <3>1, <3>2 DEF Opens
  <2> QED BY <2>1, <2>2
<1>5. NothingIsLate'
  BY Bounds DEF Commit, NothingIsLate, TypeOK, RunningCommitOpens, Commands, Running, Idle, Committing
<1>6. SavedRevealOpens'
  BY Bounds DEF Commit, SavedRevealOpens, TypeOK, RunningCommitOpens, Commands, Running, Idle, Committing
<1> QED BY <1>1, <1>2, <1>3, <1>4, <1>5, <1>6

LEMMA IncludedKeepsInv ==
    ASSUME Inv, NEW h \in Miners, Included(h)
    PROVE  Inv'
<1> USE DEF Inv, At, Goes, Ends, chain, Holds
<1>a. cmd[h] \in Running /\ [cmd[h] EXCEPT !.at = "accepted"] \in Running
  <2>1. cmd[h] \in Running
    BY RunningCommand DEF Included, Committing
  <2> QED BY <2>1 DEF Running, Committing
<1>b. cmd[h].payload \in Payloads
  BY <1>a DEF Running
<1>1. TypeOK'
  BY <1>a, <1>b DEF Included, TypeOK, Commands
<1>2. TransfersAreAsked'
  <2>1. [cmd[h] EXCEPT !.at = "accepted"].at # "paying"
    BY <1>a DEF Running
  <2>2. /\ ~At(h, "paying") /\ UNCHANGED <<paid, asked>>
        /\ Goes(h, [cmd[h] EXCEPT !.at = "accepted"])
    BY DEF Included
  <2> QED BY <2>1, <2>2, TransfersStayAsked
<1>3. PayloadsArePaid'
  BY Bounds DEF Included, PayloadsArePaid, Cites, TypeOK, Commands, Running, Idle, Committing
<1>4. RunningCommitOpens'
  BY Bounds DEF Included, RunningCommitOpens, Saved, TypeOK, Commands, Running, Idle, Committing
<1>5. NothingIsLate'
  BY Bounds DEF Included, NothingIsLate, TypeOK, RunningCommitOpens, Commands, Running, Idle, Committing
<1>6. SavedRevealOpens'
  BY Bounds DEF Included, SavedRevealOpens, TypeOK, RunningCommitOpens, Commands, Running, Idle, Committing
<1> QED BY <1>1, <1>2, <1>3, <1>4, <1>5, <1>6

LEMMA ChainRefusesKeepsInv ==
    ASSUME Inv, NEW h \in Miners, ChainRefuses(h)
    PROVE  Inv'
<1> USE DEF Inv, At, Goes, Ends, chain, Holds
<1>1. TypeOK'
  BY Bounds DEF ChainRefuses, TypeOK, Commands, Running, Idle, Committing
<1>2. TransfersAreAsked'
  BY Bounds DEF ChainRefuses, TransfersAreAsked, Paying, TypeOK, Commands, Idle
<1>3. PayloadsArePaid'
  BY Bounds DEF ChainRefuses, PayloadsArePaid, Cites, TypeOK, Commands, Running, Idle, Committing
<1>4. RunningCommitOpens'
  BY Bounds DEF ChainRefuses, RunningCommitOpens, Saved, TypeOK, Commands, Running, Idle, Committing
<1>5. NothingIsLate'
  BY Bounds DEF ChainRefuses, NothingIsLate, TypeOK, RunningCommitOpens, Commands, Running, Idle, Committing
<1>6. SavedRevealOpens'
  BY Bounds DEF ChainRefuses, SavedRevealOpens, TypeOK, RunningCommitOpens, Commands, Running, Idle, Committing
<1> QED BY <1>1, <1>2, <1>3, <1>4, <1>5, <1>6

LEMMA PublishRaisesKeepsInv ==
    ASSUME Inv, NEW h \in Miners, NEW yes \in BOOLEAN, PublishRaises(h, yes)
    PROVE  Inv'
<1> USE DEF Inv, At, Goes, Ends, chain, Holds
<1>a. cmd[h] \in Running
  BY RunningCommand DEF PublishRaises, Committing
<1> DEFINE again == [cmd[h] EXCEPT !.attempt = @ + 1]
<1>b. cmd[h].attempt < Attempts => again \in Running
  BY <1>a, Bounds DEF Running
<1>c. /\ again.at = cmd[h].at /\ again.payload = cmd[h].payload /\ again.sealed = cmd[h].sealed
      /\ again.sha = cmd[h].sha /\ again.salt = cmd[h].salt
  BY <1>a DEF Running
<1>d. \/ inFlight' = inFlight
      \/ inFlight' = [inFlight EXCEPT ![h] = Append(inFlight[h], cmd[h].payload)]
  BY DEF PublishRaises
<1>e. \/ cmd[h].attempt < Attempts /\ Goes(h, again) /\ UNCHANGED said
      \/ Ends(h, "failed")
  BY DEF PublishRaises
<1>f. At(h, "publishing") /\ UNCHANGED <<height, slot, paid, frozen, asked, receipt, file, salts, entry>>
  BY DEF PublishRaises
<1>g. inFlight[h] \in Seq(Payloads) /\ cmd[h].payload \in Payloads
  BY <1>a DEF TypeOK, Running
<1> HIDE DEF again
<1>1. TypeOK'
  <2>1. Append(inFlight[h], cmd[h].payload) \in Seq(Payloads)
    BY <1>g
  <2>2. inFlight' \in [Miners -> Seq(Payloads)]
    BY <1>d, <2>1 DEF TypeOK
  <2>3. cmd' \in [Miners -> Commands]
    BY <1>b, <1>e DEF TypeOK, Commands
  <2>4. said' \in [Miners -> {"nothing", "running", "failed", "died", "committed"}]
    BY <1>e DEF TypeOK
  <2> QED BY <1>f, <2>2, <2>3, <2>4 DEF TypeOK
<1>2. TransfersAreAsked'
  <2>1. PICK c : Goes(h, c) /\ c.at # "paying"
    BY <1>c, <1>e, <1>f DEF Idle
  <2> QED BY <1>f, <2>1, TransfersStayAsked
<1>3. PayloadsArePaid'
  <2> SUFFICES ASSUME Charged, NEW g \in Miners
               PROVE  /\ cmd'[g].at \in Committing => Cites(cmd'[g].payload)
                      /\ \A k \in DOMAIN inFlight'[g] : Cites(inFlight'[g][k])
    BY <1>f DEF PayloadsArePaid, Cites
  <2>1. Cites(cmd[h].payload)
    BY <1>f DEF PayloadsArePaid, Committing
  <2>2. CASE g # h
    <3>1. cmd'[g] = cmd[g] /\ inFlight'[g] = inFlight[g]
      BY <1>d, <1>e, <2>2 DEF TypeOK
    <3> QED BY <3>1 DEF PayloadsArePaid
  <2>3. CASE g = h
    <3>1. cmd'[h] \in {again, Idle}
      BY <1>e DEF TypeOK
    <3>2. cmd'[g].at \in Committing => Cites(cmd'[g].payload)
      BY <1>c, <2>1, <2>3, <3>1 DEF Idle, Committing
    <3>3. inFlight'[h] \in {inFlight[h], Append(inFlight[h], cmd[h].payload)}
      BY <1>d DEF TypeOK
    <3>4. \A k \in DOMAIN Append(inFlight[h], cmd[h].payload) :
             \/ k \in DOMAIN inFlight[h] /\ Append(inFlight[h], cmd[h].payload)[k] = inFlight[h][k]
             \/ Append(inFlight[h], cmd[h].payload)[k] = cmd[h].payload
      BY <1>g
    <3> QED BY <2>1, <2>3, <3>2, <3>3, <3>4 DEF PayloadsArePaid
  <2> QED BY <2>2, <2>3
<1>4. RunningCommitOpens'
  <2> SUFFICES ASSUME NEW g \in Miners, cmd'[g].at \in Committing
               PROVE  /\ said'[g] = "running"
                      /\ IF cmd'[g].sealed THEN Opens(Saved(g)', cmd'[g].payload)
                         ELSE DecodeSealed(cmd'[g].payload) = Refused
                      /\ cmd'[g].at = "writing" => cmd'[g].sealed
                      /\ cmd'[g].at # "publishing" => slot'[g].payload = cmd'[g].payload /\ inFlight'[g] = <<>>
    BY DEF RunningCommitOpens
  <2>1. CASE g = h
    <3>1. cmd'[h] = again /\ said'[h] = said[h]
      BY <1>e, <2>1 DEF TypeOK, Idle, Committing
    <3>2. Saved(h)' = Saved(h)
      BY <1>c, <3>1 DEF Saved
    <3> QED BY <1>c, <1>f, <2>1, <3>1, <3>2 DEF RunningCommitOpens, Committing
  <2>2. CASE g # h
    <3>1. cmd'[g] = cmd[g] /\ said'[g] = said[g] /\ inFlight'[g] = inFlight[g]
      BY <1>d, <1>e, <2>2 DEF TypeOK
    <3>2. Saved(g)' = Saved(g)
      BY <3>1 DEF Saved
    <3> QED BY <1>f, <3>1, <3>2 DEF RunningCommitOpens
  <2> QED BY <2>1, <2>2
<1>5. NothingIsLate'
  BY Bounds DEF PublishRaises, NothingIsLate, TypeOK, RunningCommitOpens, Commands, Running, Idle, Committing
<1>6. SavedRevealOpens'
  BY Bounds DEF PublishRaises, SavedRevealOpens, TypeOK, RunningCommitOpens, Commands, Running, Idle, Committing
<1> QED BY <1>1, <1>2, <1>3, <1>4, <1>5, <1>6

LEMMA OpenRevealKeepsInv ==
    ASSUME Inv, NEW h \in Miners, OpenReveal(h)
    PROVE  Inv'
<1> USE DEF Inv, At, Goes, Ends, chain, Holds
<1>a. cmd[h] \in Running /\ [cmd[h] EXCEPT !.at = "writing"] \in Running
  <2>1. cmd[h] \in Running
    BY RunningCommand DEF OpenReveal, Committing
  <2> QED BY <2>1 DEF Running, Committing
<1>1. TypeOK'
  <2>1. cmd' \in [Miners -> Commands]
    BY <1>a DEF OpenReveal, TypeOK, Commands
  <2>2. file' \in {NoFile, Torn} \cup Reveals
    BY DEF OpenReveal
  <2> QED BY <2>1, <2>2 DEF OpenReveal, TypeOK
<1>2. TransfersAreAsked'
  <2>1. [cmd[h] EXCEPT !.at = "writing"].at # "paying"
    BY <1>a DEF Running
  <2>2. /\ ~At(h, "paying") /\ UNCHANGED <<paid, asked>>
        /\ Goes(h, [cmd[h] EXCEPT !.at = "writing"])
    BY DEF OpenReveal
  <2> QED BY <2>1, <2>2, TransfersStayAsked
<1>3. PayloadsArePaid'
  BY Bounds DEF OpenReveal, PayloadsArePaid, Cites, TypeOK, Commands, Running, Idle, Committing
<1>4. RunningCommitOpens'
  BY Bounds DEF OpenReveal, RunningCommitOpens, Saved, TypeOK, Commands, Running, Idle, Committing
<1>5. NothingIsLate'
  BY Bounds DEF OpenReveal, NothingIsLate, TypeOK, RunningCommitOpens, Commands, Running, Idle, Committing
<1>6. SavedRevealOpens'
  <2>1. file'.state # "whole"
    BY DEF OpenReveal, Torn
  <2> QED BY <2>1 DEF SavedRevealOpens
<1> QED BY <1>1, <1>2, <1>3, <1>4, <1>5, <1>6

LEMMA SaveRevealKeepsInv ==
    ASSUME Inv, NEW h \in Miners, SaveReveal(h)
    PROVE  Inv'
<1> USE DEF Inv, At, Goes, Ends, chain, Holds
<1>a. cmd[h] \in Running
  BY RunningCommand DEF SaveReveal, Committing
<1>b. Saved(h) \in Reveals
  BY <1>a DEF Running, Saved, Reveals
<1>1. TypeOK'
  BY <1>b DEF SaveReveal, TypeOK, Commands
<1>2. TransfersAreAsked'
  BY Bounds DEF SaveReveal, TransfersAreAsked, Paying, TypeOK, Commands, Idle
<1>3. PayloadsArePaid'
  BY Bounds DEF SaveReveal, PayloadsArePaid, Cites, TypeOK, Commands, Running, Idle, Committing
<1>4. RunningCommitOpens'
  BY Bounds DEF SaveReveal, RunningCommitOpens, Saved, TypeOK, Commands, Running, Idle, Committing
<1>5. NothingIsLate'
  BY Bounds DEF SaveReveal, NothingIsLate, TypeOK, RunningCommitOpens, Commands, Running, Idle, Committing
<1>6. SavedRevealOpens'
  <2>1. file' = Saved(h) /\ Saved(h).hotkey = h /\ UNCHANGED slot
    BY DEF SaveReveal, Saved
  <2>2. Opens(Saved(h), slot[h].payload)
    BY DEF SaveReveal, RunningCommitOpens, Committing
  <2> QED BY <2>1, <2>2 DEF SavedRevealOpens
<1> QED BY <1>1, <1>2, <1>3, <1>4, <1>5, <1>6

LEMMA EndOpenKeepsInv ==
    ASSUME Inv, NEW h \in Miners, EndOpen(h)
    PROVE  Inv'
<1> USE DEF Inv, At, Goes, Ends, chain, Holds
<1>1. TypeOK'
  BY Bounds DEF EndOpen, TypeOK, Commands, Running, Idle, Committing
<1>2. TransfersAreAsked'
  BY Bounds DEF EndOpen, TransfersAreAsked, Paying, TypeOK, Commands, Idle
<1>3. PayloadsArePaid'
  BY Bounds DEF EndOpen, PayloadsArePaid, Cites, TypeOK, Commands, Running, Idle, Committing
<1>4. RunningCommitOpens'
  BY Bounds DEF EndOpen, RunningCommitOpens, Saved, TypeOK, Commands, Running, Idle, Committing
<1>5. NothingIsLate'
  BY Bounds DEF EndOpen, NothingIsLate, TypeOK, RunningCommitOpens, Commands, Running, Idle, Committing
<1>6. SavedRevealOpens'
  BY Bounds DEF EndOpen, SavedRevealOpens, TypeOK, RunningCommitOpens, Commands, Running, Idle, Committing
<1> QED BY <1>1, <1>2, <1>3, <1>4, <1>5, <1>6

LEMMA DieKeepsInv ==
    ASSUME Inv, NEW h \in Miners, Die(h)
    PROVE  Inv'
<1> USE DEF Inv, At, Goes, Ends, chain, Holds
<1>1. TypeOK'
  BY Bounds DEF Die, TypeOK, Commands, Running, Idle, Committing
<1>2. TransfersAreAsked'
  <2>1. CASE At(h, "paying")
    <3>1. h \in Paying /\ Idle.at # "paying" /\ Goes(h, Idle)
      BY <2>1 DEF Die, Paying, Idle
    <3>2. Paying' = Paying \ {h}
      BY <3>1, OthersPayOn
    <3>3. Cardinality(Paying') = Cardinality(Paying) - 1
      BY <3>1, <3>2, PayingIsFinite, FS_RemoveElement
    <3> QED
      BY <3>3, PayingIsFinite, FS_CardinalityType DEF Die, TransfersAreAsked, TypeOK
  <2>2. CASE ~At(h, "paying")
    <3>1. Idle.at # "paying" /\ Goes(h, Idle) /\ UNCHANGED <<paid, asked>>
      BY DEF Die, Idle
    <3> QED BY <2>2, <3>1, TransfersStayAsked
  <2> QED BY <2>1, <2>2
<1>3. PayloadsArePaid'
  BY Bounds DEF Die, PayloadsArePaid, Cites, TypeOK, Commands, Running, Idle, Committing
<1>4. RunningCommitOpens'
  BY Bounds DEF Die, RunningCommitOpens, Saved, TypeOK, Commands, Running, Idle, Committing
<1>5. NothingIsLate'
  BY Bounds DEF Die, NothingIsLate, TypeOK, RunningCommitOpens, Commands, Running, Idle, Committing
<1>6. SavedRevealOpens'
  BY Bounds DEF Die, SavedRevealOpens, TypeOK, RunningCommitOpens, Commands, Running, Idle, Committing
<1> QED BY <1>1, <1>2, <1>3, <1>4, <1>5, <1>6

LEMMA RevealKeepsInv ==
    ASSUME Inv, NEW h \in Miners, Reveal(h)
    PROVE  Inv'
<1> USE DEF Inv, At, Goes, Ends, chain, Holds
<1>1. TypeOK'
  BY Bounds DEF Reveal, TypeOK, Commands, Running, Idle, Committing
<1>2. TransfersAreAsked'
  BY Bounds DEF Reveal, TransfersAreAsked, Paying, TypeOK, Commands, Idle
<1>3. PayloadsArePaid'
  BY Bounds DEF Reveal, PayloadsArePaid, Cites, TypeOK, Commands, Running, Idle, Committing
<1>4. RunningCommitOpens'
  BY Bounds DEF Reveal, RunningCommitOpens, Saved, TypeOK, Commands, Running, Idle, Committing
<1>5. NothingIsLate'
  BY Bounds DEF Reveal, NothingIsLate, TypeOK, RunningCommitOpens, Commands, Running, Idle, Committing
<1>6. SavedRevealOpens'
  BY Bounds DEF Reveal, SavedRevealOpens, TypeOK, RunningCommitOpens, Commands, Running, Idle, Committing
<1> QED BY <1>1, <1>2, <1>3, <1>4, <1>5, <1>6

LEMMA IncludedLateKeepsInv ==
    ASSUME Inv, NEW h \in Miners, NEW k \in DOMAIN inFlight[h], IncludedLate(h, k)
    PROVE  Inv'
<1> USE DEF Inv, At, Goes, Ends, chain, Holds
<1>1. TypeOK'
  BY Bounds DEF IncludedLate, TypeOK, Commands, Running, Idle, Committing
<1>2. TransfersAreAsked'
  BY Bounds DEF IncludedLate, TransfersAreAsked, Paying, TypeOK, Commands, Idle
<1>3. PayloadsArePaid'
  BY Bounds DEF IncludedLate, PayloadsArePaid, Cites, TypeOK, Commands, Running, Idle, Committing
<1>4. RunningCommitOpens'
  BY Bounds DEF IncludedLate, RunningCommitOpens, Saved, TypeOK, Commands, Running, Idle, Committing
<1>5. NothingIsLate'
  BY Bounds DEF IncludedLate, NothingIsLate, TypeOK, RunningCommitOpens, Commands, Running, Idle, Committing
<1>6. SavedRevealOpens'
  <2>1. inFlight[h] # <<>>
    OBVIOUS
  <2>2. said[h] # "committed" /\ UNCHANGED <<said, file>>
    BY <2>1 DEF IncludedLate, NothingIsLate
  <2>3. \A g \in Miners : g # h => slot'[g] = slot[g]
    BY DEF IncludedLate, TypeOK
  <2> QED BY <2>2, <2>3 DEF SavedRevealOpens
<1> QED BY <1>1, <1>2, <1>3, <1>4, <1>5, <1>6

LEMMA BlockKeepsInv ==
    ASSUME Inv, Block
    PROVE  Inv'
<1> USE DEF Inv, At, Goes, Ends, chain, Holds
<1>1. TypeOK'
  BY Bounds DEF Block, TypeOK, Heights
<1>2. TransfersAreAsked'
  BY Bounds DEF Block, TransfersAreAsked, Paying, TypeOK, Commands, Idle
<1>3. PayloadsArePaid'
  BY Bounds DEF Block, PayloadsArePaid, Cites, TypeOK, Commands, Running, Idle, Committing
<1>4. RunningCommitOpens'
  BY Bounds DEF Block, RunningCommitOpens, Saved, TypeOK, Commands, Running, Idle, Committing
<1>5. NothingIsLate'
  BY Bounds DEF Block, NothingIsLate, TypeOK, RunningCommitOpens, Commands, Running, Idle, Committing
<1>6. SavedRevealOpens'
  BY Bounds DEF Block, SavedRevealOpens, TypeOK, RunningCommitOpens, Commands, Running, Idle, Committing
<1> QED BY <1>1, <1>2, <1>3, <1>4, <1>5, <1>6

-----------------------------------------------------------------------------
(* The theorems *)

LEMMA NextKeepsInv == Inv /\ [Next]_vars => Inv'
<1> SUFFICES ASSUME Inv, [Next]_vars PROVE Inv'
  OBVIOUS
<1>1. CASE UNCHANGED vars
  <2>1. Inv' = Inv
    BY <1>1 DEF Inv, vars, TypeOK, TransfersAreAsked, Paying, At, PayloadsArePaid, Cites,
                RunningCommitOpens, Saved, NothingIsLate, SavedRevealOpens
  <2> QED BY <2>1
<1>2. CASE Block
  BY <1>2, BlockKeepsInv
<1>3. ASSUME NEW h \in Miners,
             \/ Pay(h) \/ Included(h) \/ ChainRefuses(h) \/ OpenReveal(h) \/ SaveReveal(h)
             \/ EndOpen(h) \/ Die(h) \/ Reveal(h)
      PROVE  Inv'
  BY <1>3, PayKeepsInv, IncludedKeepsInv, ChainRefusesKeepsInv, OpenRevealKeepsInv,
     SaveRevealKeepsInv, EndOpenKeepsInv, DieKeepsInv, RevealKeepsInv
<1>4. ASSUME NEW h \in Miners, NEW yes \in BOOLEAN,
             Transferred(h, yes) \/ TransferFails(h, yes) \/ PublishRaises(h, yes)
      PROVE  Inv'
  BY <1>4, TransferredKeepsInv, TransferFailsKeepsInv, PublishRaisesKeepsInv
<1>5. ASSUME NEW h \in Miners, NEW sha \in Shas, NEW sealed \in BOOLEAN, Commit(h, sha, sealed)
      PROVE  Inv'
  BY <1>5, CommitKeepsInv
<1>6. ASSUME NEW h \in Miners, NEW k \in DOMAIN inFlight[h], IncludedLate(h, k)
      PROVE  Inv'
  BY <1>6, IncludedLateKeepsInv
<1> QED BY <1>1, <1>2, <1>3, <1>4, <1>5, <1>6 DEF Next

\* Every state the commands and the chain reach is well typed and satisfies the invariant.
THEOREM Invariance == Spec => []Inv
<1>1. Init => Inv
  BY InitInv
<1>2. Inv /\ [Next]_vars => Inv'
  BY NextKeepsInv
<1> QED BY <1>1, <1>2, PTL DEF Spec

\* The variables keep their types, whatever the tokens, the hotkeys and the windows are:
\* what a slot or the chain holds of a hotkey is always something commit() made.
THEOREM TypeCorrect == Spec => []TypeOK
<1>1. Inv => TypeOK
  BY DEF Inv
<1> QED BY <1>1, Invariance, PTL

\* After a commit that reported success the saved values open the slot of the hotkey
\* (cli/submit.py): no payload of an earlier, failed or killed command can be included
\* afterwards and replace it, for any number of hotkeys, retries and commands.
THEOREM SavedRevealAlwaysOpens == Spec => []SavedRevealOpens
<1>1. Inv => SavedRevealOpens
  BY DEF Inv
<1> QED BY <1>1, Invariance, PTL

\* Transfers never outnumber the payments asked for, although a failed one may have been
\* sent, and every slot of a charged arena cites a transfer of the chain.
THEOREM FeeIsAlwaysPaidOnce == Spec => []FeeIsPaidOnce
<1>1. Inv => FeeIsPaidOnce
  <2> SUFFICES ASSUME Inv PROVE FeeIsPaidOnce
    OBVIOUS
  <2>1. Cardinality(paid) <= asked
    BY PayingIsFinite, FS_CardinalityType DEF Inv, TransfersAreAsked, TypeOK
  <2>2. ASSUME Charged, NEW h \in Miners, slot[h].payload # <<>>
        PROVE  Read(slot[h].payload) # Refused /\ Citation(slot[h].payload) \in paid
    BY <2>2 DEF Inv, PayloadsArePaid, Cites
  <2> QED BY <2>1, <2>2, Zenon DEF FeeIsPaidOnce, Read, Citation
<1> QED BY <1>1, Invariance, PTL

-----------------------------------------------------------------------------
(* What was frozen *)

\* No slot is of a block to come; once the commit window is closed a slot of a block in
\* the window is what was frozen; and the server has only values of the user.
FrozenInv ==
    /\ \A h \in Miners : slot[h].block <= height
    /\ height >= OpenBlock(Epochs) =>
           \A h \in Miners : slot[h].block < OpenBlock(Epochs) => slot[h] = frozen[h]
    /\ DOMAIN entry = Miners
    /\ \A h \in Miners : entry[h].state = "unsealed" => entry[h].user = User

LEMMA OpenBlockType == OpenBlock(Epochs) \in Int
BY SubmissionAssumption DEF SubmissionAssumption, OpenBlock

\* A slot that takes a payload takes it in the block of now.
LEMMA HoldsKeepsFrozen ==
    ASSUME TypeOK, FrozenInv, NEW h \in Miners, NEW payload, Holds(h, payload),
           UNCHANGED <<height, frozen, entry>>
    PROVE  FrozenInv'
<1>1. height \in Int /\ OpenBlock(Epochs) \in Int
  BY OpenBlockType, Bounds DEF TypeOK
<1>2. /\ \A g \in Miners \ {h} : slot'[g] = slot[g]
      /\ slot'[h].block = height
  BY DEF Holds, TypeOK
<1>3. \A g \in Miners : slot'[g].block <= height'
  BY <1>1, <1>2 DEF FrozenInv
<1>4. ASSUME height' >= OpenBlock(Epochs), NEW g \in Miners, slot'[g].block < OpenBlock(Epochs)
      PROVE  slot'[g] = frozen'[g]
  BY <1>1, <1>2, <1>4 DEF FrozenInv
<1> QED BY <1>3, <1>4 DEF FrozenInv

LEMMA NextKeepsFrozen == Inv /\ FrozenInv /\ [Next]_vars => FrozenInv'
<1> SUFFICES ASSUME Inv, FrozenInv, [Next]_vars PROVE FrozenInv'
  OBVIOUS
<1>1. TypeOK
  BY DEF Inv
<1>2. CASE UNCHANGED <<height, slot, frozen, entry>>
  BY <1>2 DEF FrozenInv
<1>3. CASE Block
  <2>1. height \in Int /\ OpenBlock(Epochs) \in Int /\ height' = height + 1
    BY <1>1, <1>3, OpenBlockType, Bounds DEF TypeOK, Block
  <2>2. UNCHANGED <<slot, entry>> /\ frozen' = IF height' = OpenBlock(Epochs) THEN slot ELSE frozen
    BY <1>3 DEF Block
  <2>3. \A h \in Miners : slot[h].block \in Int
    <3>1. \A h \in Miners : slot[h].block \in Heights
      BY <1>1 DEF TypeOK
    <3>2. Heights \subseteq Int
      BY Bounds
    <3> QED BY <3>1, <3>2
  <2>4. \A h \in Miners : slot'[h].block <= height'
    <3>1. \A h \in Miners : slot'[h].block = slot[h].block /\ slot[h].block <= height
      BY <2>2 DEF FrozenInv
    <3> QED BY <2>1, <2>3, <3>1
  <2>5. ASSUME height' >= OpenBlock(Epochs), NEW h \in Miners, slot'[h].block < OpenBlock(Epochs)
        PROVE  slot'[h] = frozen'[h]
    <3>1. CASE height' = OpenBlock(Epochs)
      BY <2>2, <3>1
    <3>2. CASE height' # OpenBlock(Epochs)
      <4>1. height >= OpenBlock(Epochs)
        BY <2>1, <2>5, <3>2
      <4> QED BY <2>2, <2>5, <3>2, <4>1 DEF FrozenInv
    <3> QED BY <3>1, <3>2
  <2> QED BY <2>2, <2>4, <2>5 DEF FrozenInv
<1>4. ASSUME NEW h \in Miners, Included(h) \/ \E k \in DOMAIN inFlight[h] : IncludedLate(h, k)
      PROVE  FrozenInv'
  <2>1. PICK payload : Holds(h, payload)
    BY <1>4 DEF Included, IncludedLate
  <2>2. UNCHANGED <<height, frozen, entry>>
    BY <1>4 DEF Included, IncludedLate
  <2> QED BY <1>1, <2>1, <2>2, HoldsKeepsFrozen
<1>5. ASSUME NEW h \in Miners, Reveal(h)
      PROVE  FrozenInv'
  <2>1. file.user = User
    <3>1. file.state = "whole" /\ file \in {NoFile, Torn} \cup Reveals
      BY <1>1, <1>5 DEF Reveal, TypeOK
    <3> QED BY <3>1 DEF NoFile, Torn, Reveals
  <2>2. UNCHANGED <<height, slot, frozen>>
    BY <1>5 DEF Reveal, chain
  <2>3. \A g \in Miners : entry'[g].state = "unsealed" => entry'[g].user = User
    BY <1>5, <2>1 DEF Reveal, FrozenInv
  <2>4. DOMAIN entry' = Miners
    BY <1>5 DEF Reveal, FrozenInv
  <2> QED BY <2>2, <2>3, <2>4 DEF FrozenInv
<1>6. ASSUME NEW h \in Miners,
             \/ Pay(h) \/ ChainRefuses(h) \/ OpenReveal(h) \/ SaveReveal(h) \/ EndOpen(h) \/ Die(h)
             \/ \E yes \in BOOLEAN : Transferred(h, yes) \/ TransferFails(h, yes) \/ PublishRaises(h, yes)
             \/ \E sha \in Shas, sealed \in BOOLEAN : Commit(h, sha, sealed)
      PROVE  UNCHANGED <<height, slot, frozen, entry>>
  BY <1>6 DEF Pay, ChainRefuses, OpenReveal, SaveReveal, EndOpen, Die, Transferred, TransferFails,
              PublishRaises, Commit, chain
<1>7. CASE UNCHANGED vars
  BY <1>2, <1>7 DEF vars
<1> QED BY <1>2, <1>3, <1>4, <1>5, <1>6, <1>7 DEF Next

\* A submission keeps what it says (cli/submit.py, collect.candidates): the saved values
\* open the slot, the fee moves once, and whatever is published, revealed or overwritten
\* around the close of the window, a candidate is what its hotkey had in its slot then,
\* and a sealed one opens to the artifact that is fetched.
THEOREM SubmissionIsAlwaysKept == Spec => []SubmissionIsKept
<1>1. Init => FrozenInv
  <2> SUFFICES ASSUME Init PROVE FrozenInv
    OBVIOUS
  <2>1. \A h \in Miners : slot[h].block = 0 /\ slot[h] = frozen[h]
    BY DEF Init, NoSlot
  <2>2. \A h \in Miners : entry[h].state = "sealed"
    BY DEF Init, NoEntry
  <2> QED BY <2>1, <2>2 DEF Init, FrozenInv
<1>2. Inv /\ FrozenInv => CandidateIsCommitted
  <2> SUFFICES ASSUME TypeOK, FrozenInv, height >= OpenBlock(Epochs) PROVE CandidateIsCommitted
    BY DEF CandidateIsCommitted, Inv
  <2> DEFINE in == {h \in Miners : slot[h].payload # <<>>}
             slots == [h \in in |-> slot[h].payload]
             blocks == [h \in in |-> slot[h].block]
             decoded == Decoded(slots, entry)
  <2>1. ASSUME NEW h \in Candidates(slots, entry, blocks, Arena, OpenBlock(Epochs))
        PROVE  /\ h \in in /\ decoded[h] # Refused /\ decoded[h].arena = Arena
               /\ blocks[h] < OpenBlock(Epochs)
    BY <2>1 DEF Candidates
  <2>2. ASSUME NEW h \in in, blocks[h] < OpenBlock(Epochs)
        PROVE  slot[h] = frozen[h]
    BY <2>2 DEF FrozenInv
  <2>3. ASSUME NEW h \in in, decoded[h] # Refused, decoded[h].arena = Arena,
               DecodeSealed(slot[h].payload) # Refused
        PROVE  SealDigest(Arena, User, decoded[h].sha, entry[h].salt)
                   = DecodeSealed(slot[h].payload).digest
    <3> DEFINE sealed == DecodeSealed(slot[h].payload)
               open == Unseal(sealed, entry[h].user, entry[h].sha)
    <3>1. /\ entry[h].state = "unsealed" /\ Matches(sealed, entry[h].user, entry[h].sha, entry[h].salt)
          /\ decoded[h] = open
      BY <2>3 DEF Decoded
    <3>2. entry[h].user = User
      BY <3>1 DEF FrozenInv
    <3>3. open.arena = sealed.arena /\ open.sha = entry[h].sha
      BY <2>3, <3>1 DEF Unseal, Submission
    <3> QED BY <2>3, <3>1, <3>2, <3>3 DEF Matches
  <2> HIDE DEF decoded
  <2> QED BY <2>1, <2>2, <2>3 DEF CandidateIsCommitted, decoded
<1>3. Spec => []CandidateIsCommitted
  <2>1. Inv /\ FrozenInv /\ [Next]_vars => FrozenInv'
    BY NextKeepsFrozen
  <2> QED BY <1>1, <1>2, <2>1, Invariance, PTL DEF Spec
<1> QED BY <1>3, SavedRevealAlwaysOpens, FeeIsAlwaysPaidOnce, PTL DEF SubmissionIsKept

\* What the chain carries is read back: payloads, the order of the commitments, and the
\* blocks of epochs, phases, rounds and releases.
THEOREM ChainIsAlwaysReadRight == Spec => []ChainIsReadRight
<1>1. ChainIsReadRight
  BY PayloadsAreReadBack, OrderIsAlwaysOne, CalendarIsAlwaysWhole, Zenon DEF ChainIsReadRight, ReadRight
<1> QED BY <1>1, PTL
=============================================================================
