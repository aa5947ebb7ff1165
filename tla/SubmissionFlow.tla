---------------------------- MODULE SubmissionFlow ----------------------------
(***************************************************************************)
(* `mt submit pay`, `commit` and `reveal` (cli/submit.py) on the chain      *)
(* client (chain/client.py): the hotkeys of one home pay the fee of an      *)
(* arena, write their commitment slot and keep the salt of a sealed         *)
(* commitment in reveals/<arena>.json, one file for all of them.            *)
(*                                                                         *)
(* An extrinsic that was sent may be included after its call has failed;    *)
(* one whose nonce a later extrinsic used is gone (inFlight is in the order *)
(* of the nonces). MaxCommands and MaxHeight bound the run.                 *)
(***************************************************************************)
EXTENDS ChainReading

CONSTANTS Arena, User, Miners, Charged, Attempts, Draws, Epochs, MaxCommands, MaxHeight

ASSUME SubmissionAssumption ==
    /\ Attempts \in Nat \ {0} /\ MaxCommands \in Nat /\ MaxHeight \in Nat
    /\ Draws \in Seq(Salts) /\ Len(Draws) >= MaxCommands
    /\ Epochs \in [index : Int, start : Int, length : Int, commit : Int, margin : Int]
    /\ EpochIsWhole(Epochs) /\ Charged \in BOOLEAN
    /\ IsFiniteSet(Miners)

\* Every number of a fee reference has its token.
ASSUME TokensAssumption ==
    \A n \in 0..MaxHeight \cup 0..MaxCommands : \E t \in DOMAIN Value : Value[t] = n

VARIABLES height,     \* block of the chain
          slot,       \* CommitmentOf: the payload of a hotkey and its block
          inFlight,   \* extrinsics of a hotkey that were sent and may still be included
          paid,       \* transfers on chain: <<block, index>>
          frozen,     \* the slots as they were when the commit window closed
          asked,      \* payments the miner asked for
          receipt,    \* the fee reference the last payment of a hotkey printed
          file,       \* reveals/<arena>.json
          cmd,        \* the command a hotkey is running
          said,       \* how its last commit command ended
          salts,      \* salts drawn so far
          entry       \* what the server unsealed

vars == <<height, slot, inFlight, paid, frozen, asked, receipt, file, cmd, said, salts, entry>>
chain == <<height, slot, inFlight, paid, frozen>>

NoFile == [state |-> "none"]
Torn == [state |-> "torn"]
Idle == [at |-> "idle"]
NoSlot == [payload |-> <<>>, block |-> 0]
NoEntry == [state |-> "sealed", user |-> "", sha |-> "", salt |-> ""]
Unread == -1                   \* the extrinsic index that could not be read
NoReceipt == <<0, Unread>>

Init ==
    /\ height = 0 /\ slot = [h \in Miners |-> NoSlot] /\ inFlight = [h \in Miners |-> <<>>]
    /\ paid = {} /\ frozen = slot /\ asked = 0 /\ receipt = [h \in Miners |-> NoReceipt]
    /\ file = NoFile /\ cmd = [h \in Miners |-> Idle] /\ said = [h \in Miners |-> "nothing"]
    /\ salts = 0 /\ entry = [h \in Miners |-> NoEntry]

At(h, place) == cmd[h].at = place
Goes(h, c) == cmd' = [cmd EXCEPT ![h] = c]
Ends(h, result) == Goes(h, Idle) /\ said' = [said EXCEPT ![h] = result]

-----------------------------------------------------------------------------
(* mt submit pay *)

Pay(h) ==
    /\ At(h, "idle") /\ Charged /\ asked + salts < MaxCommands
    /\ asked' = asked + 1 /\ Goes(h, [at |-> "paying"])
    /\ UNCHANGED <<chain, receipt, file, said, salts, entry>>

NextTransfer == <<height, Cardinality(paid)>>

\* transfer(): included, and its place in the block read or not.
Transferred(h, read) ==
    /\ At(h, "paying")
    /\ paid' = paid \cup {NextTransfer}
    /\ receipt' = [receipt EXCEPT ![h] = IF read THEN NextTransfer ELSE <<height, Unread>>]
    /\ Goes(h, Idle)
    /\ UNCHANGED <<height, slot, inFlight, frozen, asked, file, said, salts, entry>>

\* No answer, or a failure on chain: sent once, whether it arrived or not.
TransferFails(h, sent) ==
    /\ At(h, "paying")
    /\ paid' = IF sent THEN paid \cup {NextTransfer} ELSE paid
    /\ Goes(h, Idle)
    /\ UNCHANGED <<height, slot, inFlight, frozen, asked, receipt, file, said, salts, entry>>

-----------------------------------------------------------------------------
(* mt submit commit *)

Fee(h) == IF Charged THEN receipt[h] ELSE <<0, 0>>
Made(h, sha, salt, sealed) ==
    IF sealed THEN Seal(Arena, User, sha, salt, Fee(h)[1], Fee(h)[2], "")
    ELSE Submission(Arena, User, sha, Fee(h)[1], Fee(h)[2], "")

Commit(h, sha, sealed) ==
    /\ At(h, "idle") /\ asked + salts < MaxCommands
    /\ salts' = salts + 1
    /\ LET salt == Draws[salts + 1]
           made == Made(h, sha, salt, sealed)
       IN  IF made = Refused \/ Encode(made) = TooLong THEN Ends(h, "failed")
           ELSE /\ Goes(h, [at |-> "publishing", attempt |-> 1, payload |-> Encode(made),
                            sealed |-> sealed, sha |-> sha, salt |-> salt])
                /\ said' = [said EXCEPT ![h] = "running"]
    /\ UNCHANGED <<chain, asked, receipt, file, entry>>

Holds(h, payload) == slot' = [slot EXCEPT ![h] = [payload |-> payload, block |-> height]]

Included(h) ==
    /\ At(h, "publishing")
    /\ Holds(h, cmd[h].payload)
    /\ inFlight' = [inFlight EXCEPT ![h] = <<>>]
    /\ Goes(h, [cmd[h] EXCEPT !.at = "accepted"])
    /\ UNCHANGED <<height, paid, frozen, asked, receipt, file, said, salts, entry>>

\* Variant: the answer of the chain is not looked at.
RefusalIsMissed(h) ==
    /\ At(h, "publishing")
    /\ Goes(h, [cmd[h] EXCEPT !.at = "accepted"])
    /\ UNCHANGED <<chain, asked, receipt, file, said, salts, entry>>

ChainRefuses(h) ==
    /\ At(h, "publishing")
    /\ Ends(h, "failed")
    /\ UNCHANGED <<chain, asked, receipt, file, salts, entry>>

\* publish() raised; with_retry sends the same payload again, up to Attempts times.
PublishRaises(h, sent) ==
    /\ At(h, "publishing")
    /\ inFlight' = IF sent /\ Contains(inFlight[h], cmd[h].payload) = FALSE
                   THEN [inFlight EXCEPT ![h] = Append(@, cmd[h].payload)] ELSE inFlight
    /\ IF cmd[h].attempt < Attempts
       THEN Goes(h, [cmd[h] EXCEPT !.attempt = @ + 1]) /\ UNCHANGED said
       ELSE Ends(h, "failed")
    /\ UNCHANGED <<height, slot, paid, frozen, asked, receipt, file, salts, entry>>

\* write_text: the file is emptied, then written.
OpenReveal(h) ==
    /\ At(h, "accepted") /\ cmd[h].sealed
    /\ file' = Torn /\ Goes(h, [cmd[h] EXCEPT !.at = "writing"])
    /\ UNCHANGED <<chain, asked, receipt, said, salts, entry>>

Saved(h) ==
    [state |-> "whole", hotkey |-> h, user |-> User, sha |-> cmd[h].sha, salt |-> cmd[h].salt,
     commitment |-> cmd[h].payload]

SaveReveal(h) ==
    /\ At(h, "writing")
    /\ file' = Saved(h) /\ Ends(h, "committed")
    /\ UNCHANGED <<chain, asked, receipt, salts, entry>>

EndOpen(h) ==
    /\ At(h, "accepted") /\ ~cmd[h].sealed
    /\ Ends(h, "committed")
    /\ UNCHANGED <<chain, asked, receipt, file, salts, entry>>

\* The process dies in the middle of a command.
Die(h) ==
    /\ ~At(h, "idle")
    /\ Goes(h, Idle)
    /\ said' = IF At(h, "paying") THEN said ELSE [said EXCEPT ![h] = "died"]
    /\ UNCHANGED <<chain, asked, receipt, file, salts, entry>>

-----------------------------------------------------------------------------
(* mt submit reveal, and the server's answer *)

Committed(h) == IF AcceptsCommitments(Epochs, height) THEN slot[h] ELSE frozen[h]

Reveal(h) ==
    /\ At(h, "idle")
    /\ file.state = "whole" /\ file.hotkey = h
    /\ height <= CloseBlock(Epochs)
    /\ LET sealed == DecodeSealed(Committed(h).payload)
       IN  sealed # Refused /\ Matches(sealed, file.user, file.sha, file.salt)
    /\ entry' = [entry EXCEPT ![h] = [state |-> "unsealed", user |-> file.user,
                                      sha |-> file.sha, salt |-> file.salt]]
    /\ UNCHANGED <<chain, asked, receipt, file, cmd, said, salts>>

-----------------------------------------------------------------------------
(* The chain *)

IncludedLate(h, k) ==
    /\ k \in DOMAIN inFlight[h]
    /\ Holds(h, inFlight[h][k])
    /\ inFlight' = [inFlight EXCEPT ![h] = SubSeq(@, k + 1, Len(@))]
    /\ UNCHANGED <<height, paid, frozen, asked, receipt, file, cmd, said, salts, entry>>

Block ==
    /\ height < MaxHeight
    /\ height' = height + 1
    /\ frozen' = IF height' = OpenBlock(Epochs) THEN slot ELSE frozen
    /\ UNCHANGED <<slot, inFlight, paid, asked, receipt, file, cmd, said, salts, entry>>

Next ==
    \/ Block
    \/ \E h \in Miners :
        \/ Pay(h) \/ Included(h) \/ ChainRefuses(h) \/ OpenReveal(h) \/ SaveReveal(h)
        \/ EndOpen(h) \/ Die(h) \/ Reveal(h)
        \/ \E yes \in BOOLEAN : Transferred(h, yes) \/ TransferFails(h, yes) \/ PublishRaises(h, yes)
        \/ \E sha \in Shas, sealed \in BOOLEAN : Commit(h, sha, sealed)
        \/ \E k \in DOMAIN inFlight[h] : IncludedLate(h, k)

Spec == Init /\ [][Next]_vars

-----------------------------------------------------------------------------
(* Properties *)

Opens(reveal, payload) ==
    LET sealed == DecodeSealed(payload)
    IN  sealed # Refused /\ Matches(sealed, reveal.user, reveal.sha, reveal.salt)

\* The values saved for a hotkey whose last commit command succeeded open what its
\* slot holds, whichever extrinsics of earlier commands are still under way.
SavedRevealOpens ==
    \A h \in Miners :
        /\ said[h] = "committed" /\ file.state = "whole" /\ file.hotkey = h
        /\ DecodeSealed(slot[h].payload) # Refused
        => Opens(file, slot[h].payload)

\* A payment moves the fee at most once, and a slot of a charged arena cites a
\* transfer that is on the chain.
FeeIsPaidOnce ==
    /\ Cardinality(paid) <= asked
    /\ Charged => \A h \in Miners :
                    slot[h].payload # <<>> =>
                        LET c == IF DecodeSealed(slot[h].payload) # Refused
                                 THEN DecodeSealed(slot[h].payload) ELSE DecodeOpen(slot[h].payload)
                        IN  c # Refused /\ <<c.block, c.index>> \in paid

\* A candidate is what its hotkey had in its slot when the window closed: a reveal
\* of an earlier commitment does not bring the earlier artifact back.
CandidateIsCommitted ==
    height >= OpenBlock(Epochs) =>
        LET in == {h \in Miners : slot[h].payload # <<>>}
            decoded == Decoded([h \in in |-> slot[h].payload], entry)
        IN  \A h \in Candidates([h \in in |-> slot[h].payload], entry,
                                [h \in in |-> slot[h].block], Arena, OpenBlock(Epochs)) :
                /\ slot[h] = frozen[h]
                /\ DecodeSealed(slot[h].payload) # Refused
                       => SealDigest(Arena, User, decoded[h].sha, entry[h].salt)
                            = DecodeSealed(slot[h].payload).digest

\* What stands in the slots is read right from the first block on, for every payload,
\* order and calendar (ChainReading).
ChainIsReadRight == height = 0 /\ salts = 0 /\ asked = 0 => ReadRight

\* A miner that pays, commits and reveals gets what it did: the saved values open the
\* slot, the fee moves once, and the candidate is the artifact of the slot.
SubmissionIsKept == SavedRevealOpens /\ FeeIsPaidOnce /\ CandidateIsCommitted

\* A sealed commitment on the chain is one that the saved file opens, once no
\* command runs.
SealedCanBeRevealed ==
    \A h \in Miners :
        At(h, "idle") /\ DecodeSealed(slot[h].payload) # Refused
            => file.state = "whole" /\ file.hotkey = h /\ Opens(file, slot[h].payload)
=============================================================================
