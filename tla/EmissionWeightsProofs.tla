------------------------- MODULE EmissionWeightsProofs -------------------------
(* Theorems about EmissionWeights, for every list of arenas and every bound.  *)
EXTENDS EmissionWeights, TLAPS

Sending(t) == pc[t] \in {"write", "stamp", "remember"}

\* WEIGHTS_LOCK is held exactly while a thread is inside _submit.
LockInv == \A t \in Threads : Sending(t) <=> lock = t

\* What each thread may be sending: the keeper the kept weights, the poll loop
\* its round, or a burn for a round not yet named.
HandInv ==
    /\ Sending("keeper") =>
           /\ kept.weights # NoWeights
           /\ hand["keeper"].weights = kept.weights /\ hand["keeper"].rounds = {}
    /\ Sending("poll") =>
           /\ hand["poll"].rounds = {Round}
           /\ hand["poll"].weights \in {Burn, Round}
           /\ hand["poll"].weights = Burn => Round \notin kept.rounds

\* A vector whose send is confirmed, or is about to be, is on chain.
SentInv ==
    \A t \in Threads : 
        /\ pc[t] = "stamp" => chain = hand[t].weights
        /\ pc[t] = "remember" /\ hand[t].block > 0 => chain = hand[t].weights
        /\ pc[t] \in {"write", "stamp"} => hand[t].block = 0

ChainInv ==
    kept.block > 0 =>
        \/ chain = IF orphan = NoWeights THEN kept.weights ELSE orphan
        \/ \E t \in Threads : InGap(t)

\* Epoch numbers the validator holds never run ahead of the server's.
IndexInv ==
    /\ view.index <= current[Arena].index
    /\ pc["poll"] # "next" => view.index \in Indices
    /\ \A r \in kept.rounds : r[2] <= current[r[1]].index

\* The poll loop works on the newest round it ever named, and the kept weights
\* are not older than a named round.
OrderInv ==
    /\ pc["poll"] # "next" => \A r \in kept.rounds : r[1] = Arena => r[2] <= view.index
    /\ ~Outranked(kept.weights)

Inv == TypeOK /\ LockInv /\ HandInv /\ SentInv /\ ChainInv /\ IndexInv /\ OrderInv

-----------------------------------------------------------------------------
(* Every action preserves the types. *)

LEMMA PosAdvances ==
    ASSUME pos \in DOMAIN ArenaOrder
    PROVE  Arena \in Arenas /\ NextPos \in DOMAIN ArenaOrder /\ 1 \in DOMAIN ArenaOrder
BY ArenaOrderAssumption DEF Arena, Arenas, NextPos

LEMMA RoundIsRound ==
    ASSUME TypeOK, view.index \in Indices
    PROVE  Round \in Rounds
BY PosAdvances DEF TypeOK, Round, Rounds

LEMMA InitTypeOK == Init => TypeOK
<1> SUFFICES ASSUME Init PROVE TypeOK
    OBVIOUS
<1>1. EmptyHand \in Sendings
    BY DEF EmptyHand, Sendings
<1>2. pos \in DOMAIN ArenaOrder
    BY ArenaOrderAssumption DEF Init
<1>3. QED
    BY <1>1, <1>2, BoundsAssumption
       DEF Init, TypeOK, NoFile, EmptyView, Phases, BatchStates, Threads, PollSteps, Rounds

LEMMA EnvironmentTypeOK ==
    ASSUME TypeOK, Environment
    PROVE  TypeOK'
<1> USE DEF TypeOK, ChainStays, NothingElse, server, head, disk, memory, history,
            CurrentRound, Phases, BatchStates, Rounds, Indices
<1>1. ASSUME NEW a \in Arenas, NextRound(a) PROVE TypeOK'
    <2>1. current' \in [Arenas -> [index : 0..MaxIndex, phase : Phases]]
        BY <1>1, BoundsAssumption DEF NextRound
    <2>2. QED BY <1>1, <2>1 DEF NextRound
<1>2. ASSUME NEW a \in Arenas, GoLive(a) PROVE TypeOK'
    BY <1>2 DEF GoLive
<1>3. ASSUME NEW a \in Arenas, StartSettling(a) PROVE TypeOK'
    BY <1>3 DEF StartSettling
<1>4. ASSUME NEW a \in Arenas, PublishReceipts(a) PROVE TypeOK'
    BY <1>4 DEF PublishReceipts
<1>5. ASSUME NEW a \in Arenas, SettleRound(a) PROVE TypeOK'
    BY <1>5 DEF SettleRound
<1>6. ASSUME NEW steps \in BOOLEAN, Tick(steps) PROVE TypeOK'
    BY <1>6 DEF Tick
<1>7. QED
    BY <1>1, <1>2, <1>3, <1>4, <1>5, <1>6 DEF Environment

LEMMA TakeTypes ==
    ASSUME TypeOK, NEW t \in Threads, NEW w \in Decisions, NEW n \in SUBSET Rounds, Take(t, w, n)
    PROVE  /\ lock' \in Threads \cup {NoThread}
           /\ pc' \in [Threads -> PollSteps \cup KeeperSteps]
           /\ hand' \in [Threads -> Sendings]
BY DEF TypeOK, Take, TakeLock, Goto, Sendings, PollSteps

LEMMA SubmittingTypeOK ==
    ASSUME TypeOK, NEW t \in Threads, Submitting(t)
    PROVE  TypeOK'
<1> USE DEF TypeOK, server, head, disk, Goto, Fault, NoFault, PollSteps, KeeperSteps
<1>1. ASSUME Write(t) PROVE TypeOK'
    BY <1>1 DEF Write, Sendings
<1>2. ASSUME Stamp(t) PROVE TypeOK'
    <2>1. [hand[t] EXCEPT !.block = block] \in Sendings
        BY DEF Sendings
    <2>2. hand' \in [Threads -> Sendings]
        BY <1>2, <2>1 DEF Stamp
    <2>3. faults' \in Nat /\ pc' \in [Threads -> PollSteps \cup KeeperSteps]
        BY <1>2 DEF Stamp
    <2>4. QED BY <1>2, <2>2, <2>3 DEF Stamp
<1>3. ASSUME Remember(t) PROVE TypeOK'
    <2>1. kept' \in Sendings
        BY <1>3 DEF Remember, Remembered, Sendings
    <2>2. hand' \in [Threads -> Sendings]
        BY <1>3 DEF Remember, Sendings, EmptyHand
    <2>3. pc' \in [Threads -> PollSteps \cup KeeperSteps]
        BY <1>3 DEF Remember
    <2>4. QED BY <1>3, <2>1, <2>2, <2>3 DEF Remember
<1>4. QED
    BY <1>1, <1>2, <1>3 DEF Submitting

LEMMA KeeperTypeOK ==
    ASSUME TypeOK, KeeperWakes
    PROVE  TypeOK'
<1>1. kept.weights \in Decisions
    BY DEF TypeOK, KeeperWakes, HasKept, Sendings
<1>2. /\ lock' \in Threads \cup {NoThread}
      /\ pc' \in [Threads -> PollSteps \cup KeeperSteps]
      /\ hand' \in [Threads -> Sendings]
    BY <1>1, TakeTypes DEF KeeperWakes, Threads
<1>3. faults' \in Nat
    <2>1. NoFault \/ Fault
        BY DEF KeeperWakes
    <2>2. QED BY <2>1 DEF TypeOK, Fault, NoFault
<1>4. UNCHANGED <<server, chain, head, disk, reported, pos, view, orphan, crashes>>
    BY DEF KeeperWakes
<1>5. QED
    BY <1>2, <1>3, <1>4 DEF TypeOK, server, head, disk

LEMMA PollTypeOK ==
    ASSUME TypeOK, IndexInv, Poll, ~Submitting("poll"), ~Die
    PROVE  TypeOK'
<1> USE DEF TypeOK, server, head, disk, history, Goto, Fault, NoFault, PollOnly, PollSteps,
            Threads, LeaveArena
<1>1. Arena \in Arenas /\ NextPos \in DOMAIN ArenaOrder /\ 1 \in DOMAIN ArenaOrder
    BY PosAdvances
<1>2. EmptyView \in [index : 0..MaxIndex, phase : Phases, done : SUBSET Indices]
    BY BoundsAssumption DEF EmptyView, Phases
<1>3. pc["poll"] # "next" => Round \in Rounds /\ view.index \in Indices
    BY RoundIsRound DEF IndexInv
<1>4. CASE PollArena
    BY <1>1, <1>2, <1>4 DEF PollArena
<1>5. CASE BurnIfNewRound
    BY <1>5 DEF BurnIfNewRound
<1>6. CASE BurnForRound
    <2>1. CASE Take("poll", Burn, {Round})
        <3>1. Burn \in Decisions /\ {Round} \in SUBSET Rounds
            BY <1>3, <1>6 DEF BurnForRound, Decisions
        <3>2. /\ lock' \in Threads \cup {NoThread}
              /\ pc' \in [Threads -> PollSteps \cup KeeperSteps]
              /\ hand' \in [Threads -> Sendings]
            BY <2>1, <3>1, TakeTypes
        <3>3. faults' \in Nat
            BY <1>6 DEF BurnForRound
        <3>4. QED BY <1>6, <3>2, <3>3 DEF BurnForRound
    <2>2. CASE ~Take("poll", Burn, {Round})
        BY <1>6, <2>2 DEF BurnForRound
    <2>3. QED BY <2>1, <2>2
<1>7. CASE CheckSettling
    BY <1>1, <1>2, <1>7 DEF CheckSettling
<1>8. CASE RunEpoch
    BY <1>8 DEF RunEpoch
<1>9. CASE PollFails
    BY <1>1, <1>2, <1>9 DEF PollFails
<1>10. CASE SubmitWeights
    <2>1. /\ lock' \in Threads \cup {NoThread}
          /\ pc' \in [Threads -> PollSteps \cup KeeperSteps]
          /\ hand' \in [Threads -> Sendings]
        BY <1>3, <1>10, TakeTypes DEF SubmitWeights, Decisions
    <2>2. QED BY <1>10, <2>1 DEF SubmitWeights
<1>11. CASE SubmitReport
    BY <1>3, <1>11 DEF SubmitReport
<1>12. CASE TruncateRecord
    BY <1>1, <1>12 DEF TruncateRecord
<1>13. CASE WriteRecord
    <2>1. record' \in [Arenas -> SUBSET Indices]
        BY <1>3, <1>13 DEF WriteRecord, DoneSet
    <2>2. QED BY <1>1, <1>2, <1>13, <2>1 DEF WriteRecord
<1>14. QED
    BY <1>4, <1>5, <1>6, <1>7, <1>8, <1>9, <1>10, <1>11, <1>12, <1>13 DEF Poll

LEMMA RestartTypeOK ==
    ASSUME TypeOK, Restart, crashes' \in Nat
    PROVE  TypeOK'
<1>1. 1 \in DOMAIN ArenaOrder
    BY PosAdvances DEF TypeOK
<1>2. EmptyView \in [index : 0..MaxIndex, phase : Phases, done : SUBSET Indices]
    BY BoundsAssumption DEF EmptyView, Phases
<1>3. hand' \in [Threads -> Sendings]
    BY DEF Restart, EmptyHand, Sendings
<1>4. QED
    BY <1>1, <1>2, <1>3 DEF TypeOK, Restart, server, head, disk, PollSteps

LEMMA NextTypeOK ==
    ASSUME TypeOK, IndexInv, [Next]_vars
    PROVE  TypeOK'
<1>1. CASE Environment
    BY <1>1, EnvironmentTypeOK
<1>2. CASE \E t \in Threads : Submitting(t)
    BY <1>2, SubmittingTypeOK
<1>3. CASE KeeperWakes
    BY <1>3, KeeperTypeOK
<1>4. CASE Poll /\ ~Submitting("poll") /\ ~Die
    BY <1>4, PollTypeOK
<1>5. CASE Crash \/ Die
    <2>1. crashes' \in Nat /\ Restart
        BY <1>5 DEF TypeOK, Crash, Die
    <2>2. QED BY <2>1, RestartTypeOK
<1>6. CASE UNCHANGED vars
    BY <1>6 DEF TypeOK, vars, server, head, disk, memory, history
<1>7. QED
    BY <1>1, <1>2, <1>3, <1>4, <1>5, <1>6 DEF Next, Keeper, Threads

-----------------------------------------------------------------------------
(* Every action preserves the invariant.  Most steps leave the submission    *)
(* alone; these lemmas say how each kind of step moves what Inv speaks of.   *)

SubmissionStays == UNCHANGED <<chain, kept, lock, hand, orphan>>

\* A poll step outside _submit: the place in the walk moves, nothing else does.
PollMove ==
    /\ SubmissionStays /\ UNCHANGED current
    /\ pc'["keeper"] = pc["keeper"]
    /\ ~Sending("poll") /\ ~Sending("poll")'
    /\ \/ UNCHANGED <<pos, view>> /\ pc["poll"] # "next"
       \/ view' = EmptyView /\ pc'["poll"] = "next"
       \/ /\ UNCHANGED pos /\ view'.index = current[Arena].index
          /\ view'.index # 0

LEMMA EnvironmentMoves ==
    ASSUME TypeOK, Environment
    PROVE  /\ SubmissionStays /\ UNCHANGED <<pc, pos, view>>
           /\ \A a \in Arenas : current[a].index <= current'[a].index
<1> USE DEF ChainStays, NothingElse, disk, memory, history, SubmissionStays, TypeOK
<1>1. ASSUME NEW a \in Arenas, NextRound(a)
      PROVE  \A c \in Arenas : current[c].index <= current'[c].index
    BY <1>1, BoundsAssumption DEF NextRound
<1>2. ASSUME NEW a \in Arenas, StartSettling(a)
      PROVE  \A c \in Arenas : current[c].index <= current'[c].index
    BY <1>2, BoundsAssumption DEF StartSettling
<1>3. ASSUME NEW a \in Arenas, NextRound(a) \/ StartSettling(a)
      PROVE  SubmissionStays /\ UNCHANGED <<pc, pos, view>>
    BY <1>3 DEF NextRound, StartSettling
<1>4. ASSUME NEW a \in Arenas, GoLive(a) \/ PublishReceipts(a) \/ SettleRound(a)
      PROVE  SubmissionStays /\ UNCHANGED <<pc, pos, view, current>>
    BY <1>4 DEF GoLive, PublishReceipts, SettleRound
<1>5. ASSUME NEW steps \in BOOLEAN, Tick(steps)
      PROVE  SubmissionStays /\ UNCHANGED <<pc, pos, view, current>>
    BY <1>5 DEF Tick, server
<1>6. ASSUME UNCHANGED current
      PROVE  \A c \in Arenas : current[c].index <= current'[c].index
    BY <1>6, BoundsAssumption
<1>7. QED
    BY <1>1, <1>2, <1>3, <1>4, <1>5, <1>6 DEF Environment

\* The poll loop takes the lock for a burn or for a settlement.
PollTakes ==
    \/ BurnForRound /\ Round \notin kept.rounds /\ Take("poll", Burn, {Round})
    \/ SubmitWeights

LEMMA PollMoves ==
    ASSUME TypeOK, Poll, ~Submitting("poll"), ~Die, ~PollTakes
    PROVE  PollMove
<1> USE DEF TypeOK, Goto, PollOnly, PollMove, SubmissionStays, Sending, LeaveArena, disk, server,
            Threads, PollSteps
<1>1. CASE PollArena
    BY <1>1 DEF PollArena
<1>2. CASE BurnIfNewRound
    BY <1>2 DEF BurnIfNewRound
<1>3. CASE BurnForRound
    BY <1>3 DEF BurnForRound, PollTakes
<1>4. CASE CheckSettling
    BY <1>4 DEF CheckSettling
<1>5. CASE RunEpoch
    BY <1>5 DEF RunEpoch
<1>6. CASE PollFails
    BY <1>6 DEF PollFails
<1>7. CASE SubmitReport
    BY <1>7 DEF SubmitReport, history
<1>8. CASE TruncateRecord
    BY <1>8 DEF TruncateRecord
<1>9. CASE WriteRecord
    BY <1>9 DEF WriteRecord
<1>10. QED
    BY <1>1, <1>2, <1>3, <1>4, <1>5, <1>6, <1>7, <1>8, <1>9 DEF Poll, PollTakes

\* Taking the lock: a send begins with the thread's vector in hand.
LEMMA Takes ==
    ASSUME TypeOK, NEW t \in Threads, NEW w \in Decisions, NEW n \in SUBSET Rounds, Take(t, w, n)
    PROVE  /\ lock = NoThread /\ lock' = t /\ pc' = [pc EXCEPT ![t] = "write"]
           /\ hand'[t] = [weights |-> w, rounds |-> n, block |-> 0]
           /\ \A u \in Threads \ {t} : hand'[u] = hand[u] /\ pc'[u] = pc[u]
BY DEF TypeOK, Take, TakeLock, Goto

LEMMA PollTakesWhat ==
    ASSUME TypeOK, IndexInv, PollTakes
    PROVE  /\ \E w \in {Burn, Round} :
                  /\ hand'["poll"] = [weights |-> w, rounds |-> {Round}, block |-> 0]
                  /\ w = Burn => Round \notin kept.rounds
           /\ lock = NoThread /\ lock' = "poll" /\ pc' = [pc EXCEPT !["poll"] = "write"]
           /\ hand'["keeper"] = hand["keeper"]
           /\ {Burn, Round} \subseteq Decisions /\ {Round} \in SUBSET Rounds
           /\ UNCHANGED <<chain, kept, orphan, pos, view, current>>
           /\ ~Sending("poll") /\ pc["poll"] # "next"
<1> USE DEF disk, server, head, history, Sending
<1>1. pc["poll"] # "next" /\ ~Sending("poll")
    BY DEF PollTakes, BurnForRound, SubmitWeights
<1>2. Round \in Rounds
    BY <1>1, RoundIsRound DEF IndexInv
<1>3. Burn # Round
    BY <1>2, DistinctAssumption
<1>4. UNCHANGED <<chain, kept, orphan, pos, view, current>>
    BY DEF PollTakes, BurnForRound, SubmitWeights
<1>5. PICK w \in {Burn, Round} : Take("poll", w, {Round}) /\ (w = Burn => Round \notin kept.rounds)
    BY <1>3 DEF PollTakes, SubmitWeights
<1>6. w \in Decisions /\ {Round} \in SUBSET Rounds /\ "poll" \in Threads
    BY <1>2 DEF Decisions, Threads
<1>7. /\ lock = NoThread /\ lock' = "poll" /\ pc' = [pc EXCEPT !["poll"] = "write"]
      /\ hand'["poll"] = [weights |-> w, rounds |-> {Round}, block |-> 0]
      /\ \A u \in Threads \ {"poll"} : hand'[u] = hand[u]
    BY <1>5, <1>6, Takes
<1>8. QED
    BY <1>1, <1>2, <1>4, <1>5, <1>7 DEF Decisions, Threads

LEMMA KeeperTakesWhat ==
    ASSUME TypeOK, KeeperWakes
    PROVE  /\ lock = NoThread /\ lock' = "keeper" /\ pc' = [pc EXCEPT !["keeper"] = "write"]
           /\ hand'["keeper"] = [weights |-> kept.weights, rounds |-> {}, block |-> 0]
           /\ hand'["poll"] = hand["poll"]
           /\ kept.weights \in Decisions /\ kept.weights # NoWeights
           /\ UNCHANGED <<chain, kept, orphan, pos, view, current>>
           /\ ~Sending("keeper")
<1>1. UNCHANGED <<server, chain, head, disk, reported, pos, view, orphan, crashes>>
    BY DEF KeeperWakes
<1>2. /\ Take("keeper", kept.weights, {})
      /\ kept.weights # NoWeights /\ pc["keeper"] = "next"
    BY DEF KeeperWakes, HasKept
<1>3. kept.weights \in Decisions /\ {} \in SUBSET Rounds /\ "keeper" \in Threads
    BY <1>2 DEF TypeOK, Sendings, Threads
<1>4. /\ lock = NoThread /\ lock' = "keeper" /\ pc' = [pc EXCEPT !["keeper"] = "write"]
      /\ hand'["keeper"] = [weights |-> kept.weights, rounds |-> {}, block |-> 0]
      /\ \A u \in Threads \ {"keeper"} : hand'[u] = hand[u]
    BY <1>2, <1>3, Takes
<1>5. QED
    BY <1>1, <1>2, <1>3, <1>4 DEF Sending, server, disk, Threads

LEMMA LockStep ==
    ASSUME TypeOK, LockInv, IndexInv, [Next]_vars
    PROVE  LockInv'
<1> USE DistinctAssumption DEF LockInv, Threads
<1>1. CASE Environment
    BY <1>1, EnvironmentMoves DEF Sending, SubmissionStays
<1>2. ASSUME NEW t \in Threads, Submitting(t) PROVE LockInv'
    <2>1. CASE Write(t) \/ Stamp(t)
        BY <2>1 DEF Write, Stamp, Goto, Sending, TypeOK
    <2>2. CASE Remember(t)
        <3>1. pc'[t] \in {"next", "settling?", "report"} /\ lock' = NoThread
            BY <2>2 DEF Remember, Goto, TypeOK
        <3>2. lock = t /\ \A u \in Threads \ {t} : pc'[u] = pc[u]
            BY <2>2 DEF Remember, Goto, TypeOK, Sending
        <3>3. QED BY <3>1, <3>2 DEF Sending
    <2>3. QED BY <1>2, <2>1, <2>2 DEF Submitting
<1>3. CASE KeeperWakes
    BY <1>3, KeeperTakesWhat DEF Sending, TypeOK
<1>4. CASE PollTakes
    BY <1>4, PollTakesWhat DEF Sending, TypeOK
<1>5. CASE Poll /\ ~Submitting("poll") /\ ~Die /\ ~PollTakes
    BY <1>5, PollMoves DEF PollMove, Sending, SubmissionStays
<1>6. CASE Restart
    BY <1>6 DEF Restart, Sending
<1>7. CASE UNCHANGED vars
    BY <1>7 DEF vars, memory, Sending
<1>8. QED
    BY <1>1, <1>2, <1>3, <1>4, <1>5, <1>6, <1>7 DEF Next, Keeper, Crash, Die

\* What one step of _submit does to the submission, by its kind.
LEMMA SubmitMoves ==
    ASSUME TypeOK, NEW t \in Threads, Submitting(t)
    PROVE  /\ Sending(t) /\ UNCHANGED <<pos, view, current>>
           /\ \A u \in Threads \ {t} : hand'[u] = hand[u] /\ pc'[u] = pc[u]
           /\ \/ /\ pc[t] = "write" /\ UNCHANGED <<kept, hand, orphan, lock>>
                 /\ \/ pc'[t] = "stamp" /\ chain' = hand[t].weights
                    \/ pc'[t] = "remember" /\ chain' \in {chain, hand[t].weights}
              \/ /\ pc[t] = "stamp" /\ pc'[t] = "remember" /\ UNCHANGED <<chain, kept, orphan, lock>>
                 /\ hand'[t].weights = hand[t].weights /\ hand'[t].rounds = hand[t].rounds
              \/ /\ pc[t] = "remember" /\ pc'[t] \in {"next", "settling?", "report"}
                 /\ chain' = chain /\ lock' = NoThread
                 /\ kept'.weights = hand[t].weights /\ kept'.block = hand[t].block
                 /\ kept'.rounds = kept.rounds \cup hand[t].rounds
                 /\ orphan' = IF hand[t].block > 0 THEN NoWeights ELSE orphan
<1> USE DEF TypeOK, Sendings, Goto, Sending, disk, server, head
<1>1. CASE Write(t)
    BY <1>1 DEF Write
<1>2. CASE Stamp(t)
    BY <1>2 DEF Stamp
<1>3. CASE Remember(t)
    BY <1>3 DEF Remember, Remembered
<1>4. QED BY <1>1, <1>2, <1>3 DEF Submitting

LEMMA HandStep ==
    ASSUME TypeOK, LockInv, HandInv, IndexInv, [Next]_vars
    PROVE  HandInv'
<1> USE DEF HandInv, Threads
<1>1. CASE Environment
    BY <1>1, EnvironmentMoves DEF Sending, SubmissionStays, Round, Arena
<1>2. ASSUME NEW t \in Threads, Submitting(t) PROVE HandInv'
    <2>1. UNCHANGED <<pos, view>> /\ UNCHANGED Round
        BY <1>2, SubmitMoves DEF Round, Arena
    <2>2. \A u \in Threads \ {t} : ~Sending(u) /\ ~Sending(u)'
        BY <1>2, SubmitMoves DEF LockInv, Sending
    <2>3. CASE pc[t] \in {"write", "stamp"}
        BY <1>2, <2>1, <2>2, <2>3, SubmitMoves DEF Sending
    <2>4. CASE pc[t] = "remember"
        BY <1>2, <2>2, <2>4, SubmitMoves DEF Sending
    <2>5. QED BY <1>2, <2>3, <2>4, SubmitMoves DEF Sending
<1>3. CASE KeeperWakes
    <2>1. ~Sending("poll") /\ ~Sending("poll")'
        BY <1>3, KeeperTakesWhat, DistinctAssumption DEF LockInv, Sending, TypeOK
    <2>2. QED BY <1>3, <2>1, KeeperTakesWhat
<1>4. CASE PollTakes
    <2>1. PICK w \in {Burn, Round} :
              /\ hand'["poll"] = [weights |-> w, rounds |-> {Round}, block |-> 0]
              /\ w = Burn => Round \notin kept.rounds
        BY <1>4, PollTakesWhat
    <2>2. UNCHANGED <<pos, view, kept>> /\ UNCHANGED Round
        BY <1>4, PollTakesWhat DEF Round, Arena
    <2>3. ~Sending("keeper") /\ ~Sending("keeper")'
        BY <1>4, PollTakesWhat, DistinctAssumption DEF LockInv, Sending, TypeOK
    <2>4. QED BY <2>1, <2>2, <2>3
<1>5. CASE Poll /\ ~Submitting("poll") /\ ~Die /\ ~PollTakes
    BY <1>5, PollMoves DEF PollMove, Sending, SubmissionStays
<1>6. CASE Restart
    BY <1>6 DEF Restart, Sending
<1>7. CASE UNCHANGED vars
    BY <1>7 DEF vars, memory, disk, Sending, Round, Arena
<1>8. QED
    BY <1>1, <1>2, <1>3, <1>4, <1>5, <1>6, <1>7 DEF Next, Keeper, Crash, Die

\* While one thread is inside _submit, or takes the lock, the other one is not.
LEMMA OnlyOne ==
    ASSUME LockInv, NEW t \in Threads, Sending(t) \/ lock = NoThread
    PROVE  \A u \in Threads \ {t} : ~Sending(u)
BY DistinctAssumption DEF LockInv

LEMMA SentStep ==
    ASSUME TypeOK, LockInv, SentInv, IndexInv, [Next]_vars
    PROVE  SentInv'
<1> USE DEF SentInv, Threads
<1>1. CASE Environment
    BY <1>1, EnvironmentMoves DEF SubmissionStays
<1>2. ASSUME NEW t \in Threads, Submitting(t) PROVE SentInv'
    <2>1. \A u \in Threads \ {t} : ~Sending(u) /\ pc'[u] = pc[u]
        BY <1>2, SubmitMoves, OnlyOne
    <2>2. QED BY <1>2, <2>1, SubmitMoves DEF Sending
<1>3. CASE KeeperWakes
    <2>1. ~Sending("poll")
        BY <1>3, KeeperTakesWhat, OnlyOne
    <2>2. /\ pc'["keeper"] = "write" /\ pc'["poll"] = pc["poll"]
          /\ hand'["keeper"].block = 0
        BY <1>3, KeeperTakesWhat DEF TypeOK
    <2>3. QED BY <2>1, <2>2 DEF Sending
<1>4. CASE PollTakes
    <2>1. /\ lock = NoThread /\ pc'["poll"] = "write" /\ pc'["keeper"] = pc["keeper"]
          /\ hand'["poll"].block = 0
        BY <1>4, PollTakesWhat DEF TypeOK
    <2>2. ~Sending("keeper")
        BY <2>1, OnlyOne
    <2>3. QED BY <2>1, <2>2 DEF Sending
<1>5. CASE Poll /\ ~Submitting("poll") /\ ~Die /\ ~PollTakes
    BY <1>5, PollMoves DEF PollMove, Sending, SubmissionStays
<1>6. CASE Restart
    BY <1>6 DEF Restart
<1>7. CASE UNCHANGED vars
    BY <1>7 DEF vars, memory
<1>8. QED
    BY <1>1, <1>2, <1>3, <1>4, <1>5, <1>6, <1>7 DEF Next, Keeper, Crash, Die

\* A thread only ever sends a decision.
LEMMA SendsADecision ==
    ASSUME TypeOK, HandInv, IndexInv, NEW t \in Threads, Sending(t)
    PROVE  hand[t].weights \in Decisions
<1>1. CASE t = "keeper"
    BY <1>1 DEF HandInv, TypeOK, Sendings
<1>2. CASE t = "poll"
    <2>1. Round \in Rounds
        BY <1>2, RoundIsRound DEF IndexInv, Sending
    <2>2. QED BY <1>2, <2>1 DEF HandInv, Decisions
<1>3. QED BY <1>1, <1>2 DEF Threads

LEMMA ChainStep ==
    ASSUME TypeOK, LockInv, HandInv, SentInv, ChainInv, IndexInv, [Next]_vars
    PROVE  ChainInv'
<1> USE DEF ChainInv, Threads
<1>1. CASE Environment
    BY <1>1, EnvironmentMoves DEF SubmissionStays, InGap
<1>2. ASSUME NEW t \in Threads, Submitting(t) PROVE ChainInv'
    <2>1. \A u \in Threads \ {t} : ~InGap(u)
        BY <1>2, SubmitMoves, OnlyOne DEF Sending, InGap
    <2>2. CASE pc[t] = "write"
        BY <1>2, <2>1, <2>2, SubmitMoves DEF InGap
    <2>3. CASE pc[t] = "stamp"
        BY <1>2, <2>3, SubmitMoves DEF InGap, SentInv
    <2>4. CASE pc[t] = "remember"
        BY <1>2, <2>4, SubmitMoves DEF SentInv
    <2>5. QED BY <1>2, <2>2, <2>3, <2>4, SubmitMoves DEF Sending
<1>3. CASE KeeperWakes \/ PollTakes
    <2>1. lock = NoThread /\ UNCHANGED <<chain, kept, orphan>>
        BY <1>3, KeeperTakesWhat, PollTakesWhat
    <2>2. \A u \in Threads : ~InGap(u)
        BY <2>1, DistinctAssumption DEF LockInv, Sending, InGap
    <2>3. QED BY <2>1, <2>2
<1>4. CASE Poll /\ ~Submitting("poll") /\ ~Die /\ ~PollTakes
    BY <1>4, PollMoves DEF PollMove, Sending, SubmissionStays, InGap
<1>5. CASE Restart
    <2>1. \A t \in Threads : InGap(t) => chain # NoWeights
        BY SendsADecision, DistinctAssumption DEF InGap, Sending
    <2>2. QED BY <1>5, <2>1 DEF Restart, disk
<1>6. CASE UNCHANGED vars
    BY <1>6 DEF vars, memory, disk, history, InGap
<1>7. QED
    BY <1>1, <1>2, <1>3, <1>4, <1>5, <1>6 DEF Next, Keeper, Crash, Die

LEMMA IndexStep ==
    ASSUME TypeOK, TypeOK', HandInv, IndexInv, [Next]_vars
    PROVE  IndexInv'
<1> USE DEF IndexInv
<1>1. /\ Arena \in Arenas /\ Arena' \in Arenas
      /\ \A r \in kept.rounds : r \in Rounds /\ r[1] \in Arenas /\ r[2] \in Indices
      /\ \A a \in Arenas : current[a].index \in Nat /\ current'[a].index \in 0..MaxIndex
    <2>1. pos \in DOMAIN ArenaOrder /\ pos' \in DOMAIN ArenaOrder
        BY DEF TypeOK
    <2>2. Arena \in Arenas /\ Arena' \in Arenas
        BY <2>1 DEF Arena, Arenas
    <2>3. QED BY <2>2, BoundsAssumption DEF TypeOK, Sendings, Rounds, Indices
<1>2. CASE Environment
    <2>1. UNCHANGED <<kept, pc, view>> /\ Arena' = Arena
        BY <1>2, EnvironmentMoves DEF SubmissionStays, Arena
    <2>2. \A a \in Arenas : current[a].index <= current'[a].index
        BY <1>2, EnvironmentMoves
    <2>3. QED BY <1>1, <2>1, <2>2, BoundsAssumption DEF TypeOK, Indices
<1>3. ASSUME NEW t \in Threads, Submitting(t) PROVE IndexInv'
    <2>1. UNCHANGED <<view, current>> /\ Arena' = Arena
        BY <1>3, SubmitMoves DEF Arena
    <2>2. pc'["poll"] # "next" => pc["poll"] # "next"
        BY <1>3, SubmitMoves DEF Sending, Threads
    <2>3. hand[t].rounds \subseteq {Round}
        BY <1>3, SubmitMoves DEF HandInv, Threads
    <2>4. \A r \in kept'.rounds : r \in kept.rounds \/ r = Round
        BY <1>3, <2>3, SubmitMoves
    <2>5. QED BY <2>1, <2>2, <2>4 DEF Round
<1>4. CASE KeeperWakes \/ PollTakes
    <2>1. UNCHANGED <<kept, view, current>> /\ Arena' = Arena
        BY <1>4, KeeperTakesWhat, PollTakesWhat DEF Arena
    <2>2. pc'["poll"] # "next" => pc["poll"] # "next"
        BY <1>4, KeeperTakesWhat, PollTakesWhat DEF TypeOK, Threads
    <2>3. QED BY <2>1, <2>2
<1>5. CASE Restart \/ (Poll /\ ~Submitting("poll") /\ ~Die /\ ~PollTakes)
    <2>1. UNCHANGED <<kept, current>>
        BY <1>5, PollMoves DEF PollMove, SubmissionStays, Restart, disk, server
    <2>2. \/ UNCHANGED <<pos, view>> /\ pc["poll"] # "next"
          \/ view' = EmptyView /\ pc'["poll"] = "next"
          \/ UNCHANGED pos /\ view'.index = current[Arena].index /\ view'.index # 0
        BY <1>5, PollMoves DEF PollMove, Restart, Threads
    <2>3. QED BY <1>1, <2>1, <2>2, BoundsAssumption DEF EmptyView, Arena, Indices
<1>6. CASE UNCHANGED vars
    BY <1>6 DEF vars, memory, disk, server, Arena
<1>7. QED
    BY <1>2, <1>3, <1>4, <1>5, <1>6 DEF Next, Keeper, Crash, Die, Threads

LEMMA OrderStep ==
    ASSUME TypeOK, TypeOK', HandInv, IndexInv, OrderInv, [Next]_vars
    PROVE  OrderInv'
<1> USE DEF OrderInv
<1>1. CASE Environment
    BY <1>1, EnvironmentMoves DEF SubmissionStays, Arena, Outranked
<1>2. ASSUME NEW t \in Threads, Submitting(t) PROVE OrderInv'
    <2>1. UNCHANGED view /\ Arena' = Arena
        BY <1>2, SubmitMoves DEF Arena
    <2>2. pc'["poll"] # "next" => pc["poll"] # "next"
        BY <1>2, SubmitMoves DEF Sending, Threads
    <2>3. CASE pc[t] \in {"write", "stamp"}
        BY <1>2, <2>1, <2>2, <2>3, SubmitMoves DEF Outranked
    <2>4. CASE pc[t] = "remember" /\ t = "keeper"
        <3>1. kept'.weights = kept.weights /\ kept'.rounds = kept.rounds
            BY <1>2, <2>4, SubmitMoves DEF HandInv, Sending
        <3>2. QED BY <2>1, <2>2, <3>1 DEF Outranked
    <2>5. CASE pc[t] = "remember" /\ t = "poll"
        <3>1. kept'.weights \in {Burn, Round} /\ kept'.rounds = kept.rounds \cup {Round}
            BY <1>2, <2>5, SubmitMoves DEF HandInv, Sending
        <3>2. \A r \in kept'.rounds : r[1] = Arena => r[2] <= view.index
            BY <2>5, <3>1 DEF Round, IndexInv, Indices
        <3>3. ~Outranked(kept.weights)'
            <4>1. \A r \in kept'.rounds : r[2] \in Int
                BY BoundsAssumption DEF TypeOK, Sendings, Rounds, Indices
            <4>2. view.index \in Int /\ Round[1] = Arena /\ Round[2] = view.index
                BY BoundsAssumption DEF TypeOK, Round
            <4>3. CASE kept'.weights = Burn
                BY <4>3, DistinctAssumption DEF Outranked
            <4>4. CASE kept'.weights = Round
                BY <3>2, <4>1, <4>2, <4>4 DEF Outranked
            <4>5. QED BY <3>1, <4>3, <4>4
        <3>4. QED BY <2>1, <3>2, <3>3
    <2>6. QED BY <1>2, <2>3, <2>4, <2>5, SubmitMoves DEF Sending, Threads
<1>3. CASE KeeperWakes \/ PollTakes
    <2>1. UNCHANGED <<kept, view>> /\ Arena' = Arena
        BY <1>3, KeeperTakesWhat, PollTakesWhat DEF Arena
    <2>2. pc'["poll"] # "next" => pc["poll"] # "next"
        BY <1>3, KeeperTakesWhat, PollTakesWhat DEF TypeOK, Threads
    <2>3. QED BY <2>1, <2>2 DEF Outranked
<1>4. CASE Restart \/ (Poll /\ ~Submitting("poll") /\ ~Die /\ ~PollTakes)
    <2>1. UNCHANGED kept
        BY <1>4, PollMoves DEF PollMove, SubmissionStays, Restart, disk
    <2>2. \/ UNCHANGED <<pos, view>> /\ pc["poll"] # "next"
          \/ view' = EmptyView /\ pc'["poll"] = "next"
          \/ UNCHANGED pos /\ view'.index = current[Arena].index /\ view'.index # 0
        BY <1>4, PollMoves DEF PollMove, Restart, Threads
    <2>3. QED BY <2>1, <2>2 DEF Arena, Outranked, IndexInv
<1>5. CASE UNCHANGED vars
    BY <1>5 DEF vars, memory, disk, Arena, Outranked
<1>6. QED
    BY <1>1, <1>2, <1>3, <1>4, <1>5 DEF Next, Keeper, Crash, Die, Threads

-----------------------------------------------------------------------------
(* The theorems. *)

LEMMA InitInv == Init => Inv
<1> SUFFICES ASSUME Init PROVE Inv
    OBVIOUS
<1>1. TypeOK
    BY InitTypeOK
<1>2. kept.rounds = {} /\ kept.block = 0 /\ view.index = 0 /\ lock = NoThread
      /\ pc = [t \in Threads |-> "next"]
    BY DEF Init, NoFile, EmptyHand, EmptyView
<1>3. LockInv /\ HandInv /\ SentInv /\ ChainInv
    BY <1>2, DistinctAssumption DEF LockInv, HandInv, SentInv, ChainInv, Sending, Threads
<1>4. Arena \in Arenas /\ current[Arena].index = 0
    BY <1>1, PosAdvances DEF TypeOK, Init
<1>5. IndexInv /\ OrderInv
    BY <1>2, <1>4 DEF IndexInv, OrderInv, Outranked, Threads
<1>6. QED BY <1>1, <1>3, <1>5 DEF Inv

LEMMA NextInv == Inv /\ [Next]_vars => Inv'
<1> SUFFICES ASSUME Inv, [Next]_vars PROVE Inv'
    OBVIOUS
<1> USE DEF Inv
<1>1. TypeOK'
    BY NextTypeOK
<1>2. QED
    BY <1>1, LockStep, HandStep, SentStep, ChainStep, IndexStep, OrderStep

\* The inductive invariant holds in every reachable state of the weight keeper.
THEOREM Invariance == Spec => []Inv
<1>1. QED BY InitInv, NextInv, PTL DEF Spec

\* Every variable of the weight keeper stays within its type.
THEOREM TypeCorrect == Spec => []TypeOK
<1>1. Inv => TypeOK
    BY DEF Inv
<1>2. QED BY <1>1, Invariance, PTL

\* Whatever the threads, the failures and the deaths of the process: with
\* WEIGHTS_LOCK free, a confirmed weights.json is what the chain row holds.
THEOREM KeptIsOnChainAlways == Spec => []KeptIsOnChain
<1>1. Inv => KeptIsOnChain
    <2>1. ASSUME Inv, lock = NoThread PROVE \A t \in Threads : ~InGap(t)
        BY <2>1, DistinctAssumption DEF Inv, LockInv, Sending, InGap
    <2>2. QED BY <2>1 DEF Inv, ChainInv, KeptIsOnChain
<1>2. QED BY <1>1, Invariance, PTL

\* The chain row and weights.json change in _submit alone (submit_weights, keep_weights).
LEMMA OnlySubmitWrites ==
    ASSUME Inv, [Next]_vars, chain' # chain \/ kept' # kept
    PROVE  \E t \in Threads : Submitting(t)
<1> USE DEF Inv
<1>1. ~Environment /\ ~(KeeperWakes \/ PollTakes)
    BY EnvironmentMoves, KeeperTakesWhat, PollTakesWhat DEF SubmissionStays
<1>2. ~Restart
    BY DEF Restart, disk
<1>3. Keeper \/ Poll
    BY <1>1, <1>2 DEF Next, Crash, vars, disk
<1>4. Keeper => Submitting("keeper")
    BY <1>1 DEF Keeper
<1>5. Poll => Submitting("poll")
    BY <1>1, <1>2, PollMoves DEF PollMove, SubmissionStays, Die
<1>6. QED BY <1>3, <1>4, <1>5 DEF Threads

\* What any step writes to the chain is not outranked by a newer named round.
LEMMA WritesAreCurrent ==
    ASSUME Inv, [Next]_vars, chain' # chain
    PROVE  ~Outranked(chain')
<1> USE DEF Inv
<1>1. PICK t \in Threads : Submitting(t)
    BY OnlySubmitWrites
<1>2. pc[t] = "write" /\ chain' = hand[t].weights
    BY <1>1, SubmitMoves
<1>3. CASE t = "keeper"
    BY <1>2, <1>3 DEF HandInv, OrderInv, Sending
<1>4. CASE t = "poll"
    <2>1. chain' \in {Burn, Round}
        BY <1>2, <1>4 DEF HandInv, Sending
    <2>2. Round[1] = Arena /\ Round[2] = view.index /\ view.index \in Int
          /\ \A r \in kept.rounds : r[2] \in Int
        BY BoundsAssumption DEF Round, TypeOK, Sendings, Rounds, Indices
    <2>3. \A r \in kept.rounds : r[1] = Arena => r[2] <= view.index
        BY <1>2, <1>4 DEF OrderInv
    <2>4. CASE chain' = Burn
        BY <2>4, DistinctAssumption DEF Outranked
    <2>5. CASE chain' = Round
        BY <2>2, <2>3, <2>5 DEF Outranked
    <2>6. QED BY <2>1, <2>4, <2>5
<1>5. QED BY <1>3, <1>4 DEF Threads

\* No thread puts a result back on chain after a newer round of its arena was
\* burned for: not the keeper's copy, not an epoch that took long, not a restart.
THEOREM OldResultStaysAway == Spec => OldResultNeverReturns
<1>1. Inv /\ [Next]_vars => [chain' # chain => ~Outranked(chain')]_chain
    BY WritesAreCurrent
<1>2. QED BY <1>1, Invariance, PTL DEF Spec, OldResultNeverReturns

\* weights.json turns to a burn only together with the new round it is for, so a
\* settled round is never burned over by a copy taken before its settlement.
THEOREM BurnsAreForNewRounds == Spec => BurnOnlyForNewRound
<1>1. ASSUME Inv, [Next]_vars, kept'.weights = Burn, kept.weights # Burn
      PROVE  \E r \in kept'.rounds : r \notin kept.rounds
    <2> USE <1>1 DEF Inv
    <2>1. PICK t \in Threads : Submitting(t)
        BY OnlySubmitWrites
    <2>2. pc[t] = "remember" /\ kept'.weights = hand[t].weights
          /\ kept'.rounds = kept.rounds \cup hand[t].rounds
        BY <2>1, SubmitMoves
    <2>3. t = "poll"
        BY <2>2 DEF HandInv, Sending, Threads
    <2>4. hand[t].rounds = {Round} /\ Round \notin kept.rounds
        BY <2>2, <2>3 DEF HandInv, Sending
    <2>5. QED BY <2>2, <2>4
<1>2. Inv /\ [Next]_vars =>
          [kept'.weights = Burn /\ kept.weights # Burn =>
               \E r \in kept'.rounds : r \notin kept.rounds]_kept
    BY <1>1
<1>3. QED BY <1>2, Invariance, PTL DEF Spec, BurnOnlyForNewRound

-----------------------------------------------------------------------------
(* While the process lives, the two threads implement one decision maker. *)

LEMMA SubmittingImplements ==
    ASSUME Inv, NEW t \in Threads, Submitting(t)
    PROVE  Standing!Next \/ UNCHANGED <<standing, named, chain>>
<1> USE DEF Inv, standing, named, InForce
<1>1. \A u \in Threads \ {t} : ~Sending(u) /\ pc'[u] = pc[u] /\ hand'[u] = hand[u]
    BY SubmitMoves, OnlyOne
<1>2. CASE t = "keeper"
    <2>1. ~InForce /\ ~InForce'
        BY <1>1, <1>2 DEF Threads, Sending
    <2>2. kept.weights # NoWeights /\ hand["keeper"].weights = kept.weights
          /\ hand["keeper"].rounds = {}
        BY <1>2, SubmitMoves DEF HandInv
    <2>3. chain' \in {chain, kept.weights} /\ kept'.weights = kept.weights
          /\ kept'.rounds = kept.rounds
        BY <1>2, <2>2, SubmitMoves
    <2>4. QED BY <2>1, <2>2, <2>3 DEF Standing!Next, Standing!SendAgain
<1>3. CASE t = "poll"
    <2>1. hand["poll"].weights \in {Burn, Round} /\ hand["poll"].rounds = {Round}
          /\ (hand["poll"].weights = Burn => Round \notin kept.rounds)
        BY <1>3, SubmitMoves DEF HandInv
    <2>2. Round \in Rounds /\ Round[1] = Arena /\ Round[2] = view.index
        BY <1>3, SubmitMoves, RoundIsRound DEF IndexInv, Sending, Round
    <2>3. CASE pc["poll"] = "write"
        <3>1. /\ UNCHANGED <<kept, hand>> /\ pc'["poll"] \in {"stamp", "remember"}
              /\ chain' \in {chain, hand["poll"].weights}
            BY <1>3, <2>3, SubmitMoves
        <3>2. Standing!Decide(hand["poll"].weights, Round)
            BY <2>1, <2>3, <3>1 DEF Standing!Decide
        <3>3. CASE hand["poll"].weights = Burn
            BY <2>1, <2>2, <2>3, <3>2, <3>3 DEF Standing!Next, Standing!BurnFor
        <3>4. CASE hand["poll"].weights = Round
            <4>1. \A s \in named : s[1] = Round[1] => s[2] <= Round[2]
                BY <2>2, <2>3 DEF OrderInv
            <4>2. Standing!Pay(Round)
                BY <3>2, <3>4, <4>1 DEF Standing!Pay
            <4>3. QED BY <2>2, <4>2 DEF Standing!Next
        <3>5. QED BY <2>1, <3>3, <3>4
    <2>4. CASE pc["poll"] = "stamp"
        BY <1>3, <2>4, SubmitMoves
    <2>5. CASE pc["poll"] = "remember"
        BY <1>3, <2>1, <2>5, SubmitMoves
    <2>6. QED BY <1>3, <2>3, <2>4, <2>5, SubmitMoves DEF Sending
<1>4. QED BY <1>2, <1>3 DEF Threads

LEMMA StepImplements ==
    ASSUME Inv, [Next]_vars, ~Die, ~Crash
    PROVE  Standing!Next \/ UNCHANGED <<standing, named, chain>>
<1> USE DEF Inv, standing, named, InForce
<1>1. CASE Environment
    BY <1>1, EnvironmentMoves DEF SubmissionStays
<1>2. CASE \E t \in Threads : Submitting(t)
    BY <1>2, SubmittingImplements
<1>3. CASE KeeperWakes \/ PollTakes
    <2>1. lock = NoThread /\ UNCHANGED <<chain, kept>> /\ pc'["poll"] \in {pc["poll"], "write"}
        BY <1>3, KeeperTakesWhat, PollTakesWhat DEF TypeOK, Threads
    <2>2. ~Sending("poll")
        BY <2>1, DistinctAssumption DEF LockInv, Threads
    <2>3. QED BY <2>1, <2>2 DEF Sending
<1>4. CASE Poll /\ ~Submitting("poll") /\ ~Die /\ ~PollTakes
    BY <1>4, PollMoves DEF PollMove, SubmissionStays, Sending
<1>5. CASE UNCHANGED vars
    BY <1>5 DEF vars, memory, disk
<1>6. QED
    BY <1>1, <1>2, <1>3, <1>4, <1>5 DEF Next, Keeper, Threads

\* Without deaths of the process no record stays torn, so none follows.
LiveInv == crashes = 0 /\ (torn # {} => pc["poll"] = "record" /\ torn = {Arena})

LEMMA LiveStep ==
    ASSUME MaxCrashes = 0, Inv, LiveInv, [Next]_vars
    PROVE  LiveInv' /\ ~Die /\ ~Crash
<1>1. ~Die /\ ~Crash
    BY DEF LiveInv, Die, Crash
<1>2. TypeOK /\ IndexInv
    BY DEF Inv
<1> SUFFICES LiveInv'
    BY <1>1
<1>3. CASE Environment
    <2>1. UNCHANGED <<disk, history>>
        BY <1>3 DEF Environment, NextRound, GoLive, StartSettling, PublishReceipts,
            SettleRound, Tick, NothingElse
    <2>2. UNCHANGED <<pc, pos>>
        BY <1>2, <1>3, EnvironmentMoves
    <2>3. QED BY <1>1, <2>1, <2>2 DEF LiveInv, disk, history, Arena
<1>4. ASSUME NEW t \in Threads, Submitting(t) PROVE LiveInv'
    <2>1. crashes' = crashes /\ torn' = torn
        BY <1>4 DEF Submitting, Write, Stamp, Remember, disk
    <2>2. pc["poll"] = "record" => pc'["poll"] = "record"
        BY <1>2, <1>4, SubmitMoves DEF Threads, Sending
    <2>3. pos' = pos
        BY <1>2, <1>4, SubmitMoves
    <2>4. QED BY <2>1, <2>2, <2>3 DEF LiveInv, Arena
<1>5. CASE KeeperWakes
    <2>1. UNCHANGED <<server, chain, head, disk, reported, pos, view, orphan, crashes>>
        BY <1>5 DEF KeeperWakes
    <2>2. pc'["poll"] = pc["poll"]
        BY <1>2, <1>5, KeeperTakesWhat DEF TypeOK, Threads
    <2>3. QED BY <2>1, <2>2 DEF LiveInv, disk, Arena
<1>6. CASE Poll /\ ~Submitting("poll")
    <2>1. CASE TruncateRecord
        <3>1. torn' = {Arena} /\ UNCHANGED <<pos, crashes>> /\ pc'["poll"] = "record"
            BY <1>2, <2>1 DEF TruncateRecord, LiveInv, Goto, PollOnly, TypeOK, Threads
        <3>2. QED BY <3>1 DEF LiveInv, Arena
    <2>2. CASE WriteRecord
        <3>1. torn' = {} /\ UNCHANGED crashes
            BY <2>2 DEF WriteRecord, LiveInv, PollOnly
        <3>2. QED BY <3>1 DEF LiveInv
    <2>3. CASE PollArena \/ BurnIfNewRound \/ CheckSettling \/ RunEpoch \/ PollFails
        <3>1. pc["poll"] # "record" /\ UNCHANGED <<disk, crashes>>
            BY <2>3 DEF PollArena, BurnIfNewRound, CheckSettling, RunEpoch, PollFails, PollOnly
        <3>2. QED BY <3>1 DEF LiveInv, disk
    <2>4. CASE BurnForRound \/ SubmitReport \/ SubmitWeights
        <3>1. pc["poll"] # "record" /\ UNCHANGED <<disk, crashes>>
            BY <2>4 DEF BurnForRound, SubmitReport, SubmitWeights, history
        <3>2. QED BY <3>1 DEF LiveInv, disk
    <2>5. QED BY <1>1, <1>6, <2>1, <2>2, <2>3, <2>4 DEF Poll
<1>7. CASE UNCHANGED vars
    BY <1>7 DEF LiveInv, vars, memory, disk, history, Arena
<1>8. QED
    BY <1>1, <1>3, <1>4, <1>5, <1>6, <1>7 DEF Next, Keeper, Threads

\* A process that does not die takes one decision at a time, sends nothing else,
\* and never pays a round after a newer one of its arena was named.
THEOREM Implementation ==
    ASSUME MaxCrashes = 0
    PROVE  Spec => ImplementsStanding
<1>1. Init => Standing!Init
    BY DEF Init, Standing!Init, standing, named, InForce, NoFile, EmptyHand, Threads
<1>2. Init => LiveInv
    BY DEF Init, LiveInv
<1>3. Inv /\ LiveInv /\ [Next]_vars => LiveInv'
    BY LiveStep
<1>4. Inv /\ LiveInv /\ [Next]_vars => [Standing!Next]_<<standing, named, chain>>
    <2>1. ASSUME Inv, LiveInv, [Next]_vars
          PROVE  Standing!Next \/ UNCHANGED <<standing, named, chain>>
        BY <2>1, LiveStep, StepImplements
    <2>2. QED BY <2>1
<1>5. QED
    BY <1>1, <1>2, <1>3, <1>4, Invariance, PTL DEF Spec, ImplementsStanding, Standing!Spec
================================================================================
