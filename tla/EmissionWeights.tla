---------------------------- MODULE EmissionWeights ----------------------------
(***************************************************************************)
(* The weight keeper of a validator (validator/epoch.py, cli/epoch.py).    *)
(*                                                                         *)
(* Two threads of one process decide what the chain pays.  The poll loop   *)
(* walks the live arenas: it burns emissions when a new round goes live,   *)
(* runs a settling epoch, sends its weights, reports, and writes the epoch *)
(* into <arena>.epochs.json.  The weights keeper sends the kept weights    *)
(* again whenever they are due.  Both go through _submit under             *)
(* WEIGHTS_LOCK and leave what they sent in weights.json.  The process may *)
(* die between any two steps; docker starts it again.                      *)
(*                                                                         *)
(* Simplifications: a weight vector is named by the decision behind it     *)
(* (Burn, or the round it settles); the epoch pipeline is one step with    *)
(* its possible outcomes; chain calls are atomic, as the chain client      *)
(* serialises them; transient failures are drawn from a budget.            *)
(***************************************************************************)
EXTENDS Integers, Sequences, FiniteSets

CONSTANTS
    ArenaOrder,     \* the live arenas, in the order the server lists them
    MaxIndex,       \* bound: epochs per arena
    StartBlock,     \* the chain's block when the model starts
    MaxBlock,       \* bound: the last block
    Gap, Refresh,   \* WEIGHTS_GAP_BLOCKS, WEIGHTS_REFRESH_BLOCKS
    MaxFaults,      \* bound: transient failures of the chain or the server
    MaxCrashes,     \* bound: deaths of the process that the code did not cause
    Burn,           \* the vector that pays the subnet owner everything
    NoWeights,      \* no vector at all: no weights.json, or an empty chain row
    NoThread        \* WEIGHTS_LOCK is free

Arenas == {ArenaOrder[k] : k \in DOMAIN ArenaOrder}
Indices == 1..MaxIndex
Rounds == Arenas \X Indices
Decisions == Rounds \cup {Burn}
Threads == {"poll", "keeper"}

ASSUME ArenaOrderAssumption == ArenaOrder \in Seq(Arenas) /\ ArenaOrder # << >>
ASSUME BoundsAssumption ==
    /\ MaxIndex \in Nat /\ MaxFaults \in Nat /\ MaxCrashes \in Nat
    /\ Gap \in Nat \ {0} /\ Refresh \in Nat /\ Gap <= Refresh
    /\ StartBlock \in Nat /\ MaxBlock \in Nat /\ Refresh <= StartBlock
ASSUME DistinctAssumption ==
    /\ Burn \notin Rounds /\ NoWeights \notin Decisions
    /\ NoThread \notin Threads

VARIABLES
    current,    \* server: the current epoch of every arena
    batch,      \* server: the state of every round's batch
    receipts,   \* server: the rounds whose Freeze 2 receipts are published
    chain,      \* chain: the vector this validator's row holds
    block,      \* chain: the head
    lastStep,   \* chain: LastMechanismStepBlock
    kept,       \* disk: weights.json
    record,     \* disk: <arena>.epochs.json of every arena
    torn,       \* disk: the arenas whose epochs.json is cut short
    reported,   \* server: rounds whose report this validator sent
    lock,       \* memory: holder of WEIGHTS_LOCK
    pc,         \* memory: where each thread stands
    hand,       \* memory: what each thread is sending
    pos,        \* memory: the arena the poll loop is at
    view,       \* memory: what the poll loop read of that arena
    orphan,     \* history: a vector a crash left on chain and not in weights.json
    faults, crashes

server == <<current, batch, receipts>>
head == <<block, lastStep>>
disk == <<kept, record, torn>>
memory == <<lock, pc, hand, pos, view>>
history == <<orphan, faults, crashes>>
vars == <<server, chain, head, disk, reported, memory, history>>

Phases == {"collecting", "settling"}
BatchStates == {"absent", "live", "settled"}
PollSteps == {"next", "burn?", "burn", "settling?", "run", "settle",
              "write", "stamp", "remember", "report", "truncate", "record"}
KeeperSteps == {"next", "write", "stamp", "remember"}

EmptyView == [index |-> 0, phase |-> "collecting", done |-> {}]
EmptyHand == [weights |-> NoWeights, rounds |-> {}, block |-> 0]
NoFile == EmptyHand

Sendings == [weights : Decisions \cup {NoWeights}, rounds : SUBSET Rounds, block : Nat]

TypeOK ==
    /\ current \in [Arenas -> [index : 0..MaxIndex, phase : Phases]]
    /\ batch \in [Rounds -> BatchStates]
    /\ receipts \in SUBSET Rounds
    /\ chain \in Decisions \cup {NoWeights}
    /\ block \in Nat /\ lastStep \in Nat
    /\ kept \in Sendings
    /\ record \in [Arenas -> SUBSET Indices] /\ torn \in SUBSET Arenas
    /\ reported \in SUBSET Rounds
    /\ lock \in Threads \cup {NoThread}
    /\ pc \in [Threads -> PollSteps \cup KeeperSteps]
    /\ hand \in [Threads -> Sendings]
    /\ pos \in DOMAIN ArenaOrder
    /\ view \in [index : 0..MaxIndex, phase : Phases, done : SUBSET Indices]
    /\ orphan \in Decisions \cup {NoWeights}
    /\ faults \in Nat /\ crashes \in Nat

Init ==
    /\ current = [a \in Arenas |-> [index |-> 0, phase |-> "collecting"]]
    /\ batch = [r \in Rounds |-> "absent"]
    /\ receipts = {}
    /\ chain = NoWeights
    /\ block = StartBlock /\ lastStep = StartBlock
    /\ kept = NoFile
    /\ record = [a \in Arenas |-> {}] /\ torn = {}
    /\ reported = {}
    /\ lock = NoThread
    /\ pc = [t \in Threads |-> "next"]
    /\ hand = [t \in Threads |-> EmptyHand]
    /\ pos = 1
    /\ view = EmptyView
    /\ orphan = NoWeights
    /\ faults = 0 /\ crashes = 0

-----------------------------------------------------------------------------
(* The subnet server and the chain, as the code in src/ reads them. *)

ChainStays == UNCHANGED <<chain, head>>
NothingElse == UNCHANGED <<disk, reported, memory, history>>

CurrentRound(a) == <<a, current[a].index>>

\* An epoch opens; until its batch is there the round is not live.
NextRound(a) ==
    /\ current[a].index < MaxIndex
    /\ current[a].index > 0 => current[a].phase = "settling"
    /\ current' = [current EXCEPT ![a] = [index |-> @.index + 1, phase |-> "collecting"]]
    /\ UNCHANGED <<batch, receipts>> /\ ChainStays /\ NothingElse

GoLive(a) ==
    /\ current[a].index > 0 /\ batch[CurrentRound(a)] = "absent"
    /\ batch' = [batch EXCEPT ![CurrentRound(a)] = "live"]
    /\ UNCHANGED <<current, receipts>> /\ ChainStays /\ NothingElse

\* Freeze 2, and then the receipt tree of the epoch.
StartSettling(a) ==
    /\ current[a].index > 0 /\ current[a].phase = "collecting"
    /\ batch[CurrentRound(a)] = "live"
    /\ current' = [current EXCEPT ![a].phase = "settling"]
    /\ UNCHANGED <<batch, receipts>> /\ ChainStays /\ NothingElse

PublishReceipts(a) ==
    /\ current[a].phase = "settling" /\ CurrentRound(a) \in Rounds \ receipts
    /\ receipts' = receipts \cup {CurrentRound(a)}
    /\ UNCHANGED <<current, batch>> /\ ChainStays /\ NothingElse

\* The server folds the validators' reports and settles the round.
SettleRound(a) ==
    /\ CurrentRound(a) \in receipts /\ batch[CurrentRound(a)] = "live"
    /\ batch' = [batch EXCEPT ![CurrentRound(a)] = "settled"]
    /\ UNCHANGED <<current, receipts>> /\ ChainStays /\ NothingElse

\* Blocks pass; a chain epoch may step on the new head.
Tick(steps) ==
    /\ block < MaxBlock
    /\ block' = block + 1
    /\ lastStep' = IF steps THEN block + 1 ELSE lastStep
    /\ UNCHANGED <<server, chain>> /\ NothingElse

Environment ==
    \/ \E a \in Arenas : NextRound(a) \/ GoLive(a) \/ StartSettling(a)
                         \/ PublishReceipts(a) \/ SettleRound(a)
    \/ \E steps \in BOOLEAN : Tick(steps)

-----------------------------------------------------------------------------
(* _submit: one chain call, one block read, one file write, under the lock. *)

Fault == faults < MaxFaults /\ faults' = faults + 1
NoFault == UNCHANGED faults

Goto(t, step) == pc' = [pc EXCEPT ![t] = step]

\* Variant: _submit runs without WEIGHTS_LOCK.
TakeLockUnguarded(t) == lock' = t

TakeLock(t) == lock = NoThread /\ lock' = t

Take(t, weights, rounds) ==
    /\ TakeLock(t)
    /\ hand' = [hand EXCEPT ![t] = [weights |-> weights, rounds |-> rounds, block |-> 0]]
    /\ Goto(t, "write")

\* chain.set_weights: accepted; or it landed and the answer was lost; or the
\* chain refused it, could not be read, or has none of the hotkeys.
Write(t) ==
    /\ pc[t] = "write"
    /\ \/ chain' = hand[t].weights /\ Goto(t, "stamp") /\ NoFault
       \/ chain' = hand[t].weights /\ Goto(t, "remember") /\ Fault
       \/ chain' = chain /\ Goto(t, "remember") /\ Fault
    /\ UNCHANGED <<server, head, disk, reported, lock, hand, pos, view, orphan, crashes>>

\* block = int(chain.block()), left at 0 by a ChainError.
Stamp(t) ==
    /\ pc[t] = "stamp"
    /\ Goto(t, "remember")
    /\ \/ hand' = [hand EXCEPT ![t].block = block] /\ NoFault
       \/ hand' = hand /\ Fault
    /\ UNCHANGED <<server, chain, head, disk, reported, lock, pos, view, orphan, crashes>>

\* Variant: a send that failed leaves the block of the one before it.
KeepsOldBlock(sent) ==
    [weights |-> sent.weights, rounds |-> kept.rounds \cup sent.rounds,
     block |-> IF sent.block = 0 THEN kept.block ELSE sent.block]

\* What remember_weights writes: block 0 when the send is not confirmed.
Remembered(sent) == [sent EXCEPT !.rounds = kept.rounds \cup @]

\* remember_weights, and the end of the with block.
Remember(t) ==
    /\ pc[t] = "remember"
    /\ kept' = Remembered(hand[t])
    /\ lock' = NoThread
    /\ hand' = [hand EXCEPT ![t] = EmptyHand]
    /\ orphan' = IF hand[t].block > 0 THEN NoWeights ELSE orphan
    /\ Goto(t, CASE t = "keeper" -> "next"
                 [] t = "poll" /\ hand[t].weights = Burn -> "settling?"
                 [] OTHER -> "report")
    /\ UNCHANGED <<server, chain, head, record, torn, reported, pos, view, faults, crashes>>

-----------------------------------------------------------------------------
(* The weights keeper: refresh_weights on every pass of _weights_keeper. *)

WeightsDue(since, stepRead) ==
    /\ block - since >= Gap
    /\ IF stepRead THEN since <= lastStep ELSE block - since >= Refresh

\* Variant: only weights the chain took once are sent again.
DueIfEverSent == kept.weights # NoWeights /\ kept.block > 0

HasKept == kept.weights # NoWeights

KeeperWakes ==
    /\ pc["keeper"] = "next" /\ HasKept
    /\ \/ WeightsDue(kept.block, TRUE) /\ NoFault
       \/ WeightsDue(kept.block, FALSE) /\ Fault
    /\ Take("keeper", kept.weights, {})
    /\ UNCHANGED <<server, chain, head, disk, reported, pos, view, orphan, crashes>>

-----------------------------------------------------------------------------
(* The poll loop: one arena after another, the rest of a pass lost when one fails. *)

Arena == ArenaOrder[pos]
Round == <<Arena, view.index>>
NextPos == IF pos = Len(ArenaOrder) THEN 1 ELSE pos + 1

PollOnly == UNCHANGED <<server, chain, head, reported, lock, hand, orphan, crashes>>

LeaveArena == Goto("poll", "next") /\ pos' = NextPos /\ view' = EmptyView

\* The done set, then server.arena: an arena without an epoch, or one whose
\* epoch is done, is left at once.  A torn record raises ValueError: see Die.
PollArena ==
    /\ pc["poll"] = "next" /\ Arena \notin torn
    /\ IF current[Arena].index \in record[Arena] \cup {0}
       THEN LeaveArena
       ELSE /\ view' = [index |-> current[Arena].index, phase |-> current[Arena].phase,
                        done |-> record[Arena]]
            /\ Goto("poll", "burn?") /\ UNCHANGED pos
    /\ UNCHANGED disk /\ NoFault /\ PollOnly

\* Variant: the round is burned for only once it settles.
BurnIfSettling ==
    /\ pc["poll"] = "burn?"
    /\ Goto("poll", IF Round \in kept.rounds \/ batch[Round] # "live" \/ view.phase # "settling"
                    THEN "settling?" ELSE "burn")
    /\ UNCHANGED <<disk, pos, view>> /\ NoFault /\ PollOnly

\* _burn_if_new_round
BurnIfNewRound ==
    /\ pc["poll"] = "burn?"
    /\ Goto("poll", IF Round \in kept.rounds \/ batch[Round] # "live"
                    THEN "settling?" ELSE "burn")
    /\ UNCHANGED <<disk, pos, view>> /\ NoFault /\ PollOnly

\* burn_for_round: the name is looked up again under the lock; an unknown
\* owner leaves the weights alone.
BurnForRound ==
    /\ pc["poll"] = "burn"
    /\ \/ Round \notin kept.rounds /\ Take("poll", Burn, {Round}) /\ NoFault
       \/ /\ lock = NoThread /\ Goto("poll", "settling?") /\ UNCHANGED <<lock, hand>>
          /\ \/ Round \in kept.rounds /\ NoFault
             \/ Round \notin kept.rounds /\ Fault
    /\ UNCHANGED <<server, chain, head, disk, reported, pos, view, orphan, crashes>>

\* The epoch runs when it settles and its receipts are out, by what was read.
CheckSettling ==
    /\ pc["poll"] = "settling?"
    /\ IF view.phase = "settling" /\ Round \in receipts
       THEN Goto("poll", "run") /\ UNCHANGED <<pos, view>>
       ELSE LeaveArena
    /\ UNCHANGED disk /\ NoFault /\ PollOnly

\* run_miner_mode_epoch up to its weights; they are empty when nothing is paid.
RunEpoch ==
    /\ pc["poll"] = "run"
    /\ \E step \in {"settle", "report"} : Goto("poll", step)
    /\ UNCHANGED <<disk, pos, view>> /\ NoFault /\ PollOnly

\* EpochError, ReleaseError, ChainError or ServerError: _loop logs it, and the
\* next pass starts over from the first arena.
PollFails ==
    /\ pc["poll"] \in {"next", "burn?", "run"} /\ Fault
    /\ Goto("poll", "next") /\ pos' = 1 /\ view' = EmptyView
    /\ UNCHANGED disk /\ PollOnly

SubmitWeights ==
    /\ pc["poll"] = "settle"
    /\ Take("poll", Round, {Round})
    /\ UNCHANGED <<server, chain, head, disk, reported, pos, view, history>>

\* miner_mode_report: the report leaves whether or not the weights did.
SubmitReport ==
    /\ pc["poll"] = "report"
    /\ reported' = reported \cup {Round}
    /\ Goto("poll", "truncate")
    /\ UNCHANGED <<server, chain, head, disk, lock, hand, pos, view, history>>

DoneSet == view.done \cup {view.index}

\* record.write_text: the file is cut first and filled after.
TruncateRecord ==
    /\ pc["poll"] = "truncate"
    /\ torn' = torn \cup {Arena}
    /\ Goto("poll", "record")
    /\ UNCHANGED <<kept, record, pos, view>> /\ NoFault /\ PollOnly

WriteRecord ==
    /\ pc["poll"] = "record"
    /\ record' = [record EXCEPT ![Arena] = DoneSet]
    /\ torn' = torn \ {Arena}
    /\ LeaveArena
    /\ UNCHANGED kept /\ NoFault /\ PollOnly

-----------------------------------------------------------------------------
(* Deaths of the process.  What is in memory is gone. *)

\* A thread whose vector is on chain and not in weights.json yet.
InGap(t) == pc[t] \in {"stamp", "remember"} /\ chain = hand[t].weights

Restart ==
    /\ lock' = NoThread
    /\ pc' = [t \in Threads |-> "next"]
    /\ hand' = [t \in Threads |-> EmptyHand]
    /\ pos' = 1 /\ view' = EmptyView
    /\ orphan' = IF \E t \in Threads : InGap(t) THEN chain ELSE orphan
    /\ UNCHANGED <<server, chain, head, disk, reported, faults>>

Crash == crashes < MaxCrashes /\ crashes' = crashes + 1 /\ Restart

\* json.loads raises ValueError, which _loop does not catch.
Die == pc["poll"] = "next" /\ Arena \in torn /\ UNCHANGED crashes /\ Restart

-----------------------------------------------------------------------------
Submitting(t) == Write(t) \/ Stamp(t) \/ Remember(t)

Keeper == KeeperWakes \/ Submitting("keeper")

Poll ==
    \/ PollArena \/ BurnIfNewRound \/ BurnForRound \/ CheckSettling
    \/ RunEpoch \/ PollFails \/ SubmitWeights \/ Submitting("poll")
    \/ SubmitReport \/ TruncateRecord \/ WriteRecord \/ Die

Next == Environment \/ Keeper \/ Poll \/ Crash

Spec == Init /\ [][Next]_vars

\* The threads run: the operating system schedules both, docker restarts the
\* process.  The server and the chain owe the validator nothing.
FairSpec == Spec /\ WF_vars(Keeper) /\ WF_vars(Poll)

-----------------------------------------------------------------------------
(* What the weight keeper promises. *)

\* With the lock free and the last send confirmed, the chain row holds what
\* weights.json says, so sending it again changes nothing.  Only a death between
\* set_weights and remember_weights leaves another vector on chain.
KeptIsOnChain ==
    lock = NoThread /\ kept.block > 0 =>
        chain = IF orphan = NoWeights THEN kept.weights ELSE orphan

\* A newer round of the arena is known to be live.
Outranked(vector) ==
    \E r \in kept.rounds : vector \in Rounds /\ r[1] = vector[1] /\ r[2] > vector[2]

\* Once a newer round of an arena was burned for, no thread puts an older result
\* of that arena back on chain, from the keeper's copy or from a slow epoch.
OldResultNeverReturns == [][chain' # chain => ~Outranked(chain')]_chain

\* weights.json goes to a burn only together with the name of the round it is
\* for: a round burns once, and never again after its own settlement.
BurnOnlyForNewRound ==
    [][kept'.weights = Burn /\ kept.weights # Burn =>
           \E r \in kept'.rounds : r \notin kept.rounds]_kept

Undecided(r) == current[r[1]].index = r[2] /\ batch[r] = "live"

\* A process that died while it wrote a record file dies at that file ever after; this
\* is what the two promises below except, and nothing else.
LeftTorn == [](torn # {})

\* docs: when a new round goes live, the validator burns for it, or has already
\* run it to the end.
LiveRoundIsBurned ==
    \A r \in Rounds : Undecided(r) ~>
        (r \in kept.rounds \/ r[2] \in record[r[1]] \/ ~Undecided(r) \/ LeftTorn)

\* Weights the chain refused, or whose chain epoch has stepped, are sent again.
DueIsSent ==
    kept.weights # NoWeights /\ WeightsDue(kept.block, TRUE)
        ~> (~WeightsDue(kept.block, TRUE) \/ LeftTorn)

\* A settling epoch whose receipts are out is run, reported and recorded.
SettlingRoundIsRun ==
    \A r \in Rounds : r \in receipts /\ current[r[1]].index = r[2]
        ~> (r[2] \in record[r[1]] \/ current[r[1]].index # r[2] \/ LeftTorn)

\* docs: a settled round reaches the chain and stays there: it is run, and what it
\* decided is sent again whenever it is due.
SettledIsPaid == SettlingRoundIsRun /\ DueIsSent

\* The decision in force: the vector the poll loop has sent but not yet kept, or
\* the kept one.
InForce == pc["poll"] \in {"stamp", "remember"}
standing == IF InForce THEN hand["poll"].weights ELSE kept.weights
named == kept.rounds \cup IF InForce THEN hand["poll"].rounds ELSE {}

Standing == INSTANCE StandingWeights WITH rounds <- named

\* While the process lives, both threads together behave as one decision maker.
ImplementsStanding == Standing!Spec
================================================================================
