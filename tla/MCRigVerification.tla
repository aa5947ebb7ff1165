--------------------------- MODULE MCRigVerification ---------------------------
(* Two rigs of one miner: the miner's limit is the one that bites.  What the    *)
(* probes and the passes are worth is checked at the first state, over every    *)
(* small ledger, roster and vector of scores.                                   *)
EXTENDS RigVerification, RigScores

CONSTANTS r1, r2

MCRigs == {r1, r2}
MCOwner == [r \in MCRigs |-> "miner"]

---------------------------------------------------------------------------------
(* Histories of the ledger: up to five probes, saves and restarts, the probes one
   or three seconds after the event before. *)

EventKinds ==
    {[kind |-> "probe", online |-> online, gap |-> gap] : online \in BOOLEAN, gap \in {1, 3}}
    \cup {[kind |-> kind, online |-> FALSE, gap |-> 1] : kind \in {"save", "restart"}}

Timed(kinds) ==
    [i \in DOMAIN kinds |->
        [kind |-> kinds[i].kind, online |-> kinds[i].online,
         at |-> 1 + FoldLeft(LAMBDA sum, e : sum + e.gap, 0, SubSeq(kinds, 1, i))]]

MCHistories == {Timed(kinds) : kinds \in UNION {[1..n -> EventKinds] : n \in 1..5}}

\* The probes of a history that a restart does not forget before they are saved.
Kept(events) ==
    {i \in DOMAIN events :
        /\ events[i].kind = "probe"
        /\ \A j \in i..Len(events) :
              events[j].kind = "restart" => \E k \in i..j : events[k].kind = "save"}

\* The seconds between two kept probes in a row that were both answered, no further apart
\* than the gap.
WitnessedSeconds(events) ==
    {t \in 1..Max({0} \cup {events[i].at : i \in Kept(events)}) :
        \E i, j \in Kept(events) :
           /\ i < j /\ ~\E k \in Kept(events) : i < k /\ k < j
           /\ events[i].online /\ events[j].online
           /\ events[i].at < t /\ t <= events[j].at
           /\ events[j].at - events[i].at <= MAX_GAP_SECONDS}

\* For every history of probes, saves and restarts, the uptime the ledger holds is the
\* time between two answered probes in a row, no further apart than MAX_GAP_SECONDS, of
\* the probes that were not lost with the memory of a process that died: nothing counts
\* twice after a reload, and a failed probe breaks the count (UptimeLedger.observe, load).
UptimeIsWitnessed ==
    Init => \A events \in MCHistories :
        UptimeSeconds(LedgerAfter(events).memory) = Cardinality(WitnessedSeconds(events))

---------------------------------------------------------------------------------
MCUidOf == [h \in {"a", "b", "c"} |-> CASE h = "a" -> 2 [] h = "b" -> 0 [] h = "c" -> 1]
MCHotkeys == DOMAIN MCUidOf \cup {"unregistered"}
MCScores == UNION {[S -> 0..3] : S \in SUBSET MCHotkeys}
ServerWithScores == [epoch |-> 1, weights |-> [h \in {"a", "b"} |-> IF h = "a" THEN 0 ELSE 2]]
MCServers ==
    {[epoch |-> None, weights |-> [h \in {"a"} |-> 1]],
     [epoch |-> 1, weights |-> [h \in {"a", "b"} |-> 0]], ServerWithScores}

Sum(weights) == MapThenSumSet(LAMBDA uid : weights[uid], DOMAIN weights)
Weight(vector, uid) == IF uid \in DOMAIN vector THEN vector[uid] ELSE 0

\* For every scores, online hotkeys and reserve: the vector is of the server's scores when
\* it has any above zero and of the local ones otherwise, every weight is at least one,
\* keeping rigs eligible changes no sum, a miner with the higher score never weighs less,
\* every registered hotkey that is online has a weight unless there is no reserve or it is
\* down to one, and the reserve has its share but for what it gave and what rounding takes
\* (main.set_weights_once, Chain.submit, weights.build).
VectorIsOwed ==
    Init => \A server \in MCServers, local \in MCScores, active \in SUBSET MCHotkeys,
               reserve \in {None, 0, 3}, held \in {0, 5, 40} :
        LET used == IF server = ServerWithScores THEN server.weights ELSE local
            vector == SubmittedVector(server, local, active, MCUidOf, reserve, held)
            plain == SubmittedVector(server, local, {}, MCUidOf, reserve, held)
            score(h) == IF h \in DOMAIN used THEN used[h] ELSE 0
            miners == {h \in DOMAIN MCUidOf : MCUidOf[h] # reserve}
        IN  /\ \A uid \in DOMAIN vector : vector[uid] \in 1..U16_MAX
            /\ Sum(vector) = Sum(plain)
            /\ \A h \in miners : score(h) > 0 => MCUidOf[h] \in DOMAIN vector
            /\ \A g, h \in miners :
                  score(g) > score(h) => Weight(vector, MCUidOf[g]) >= Weight(vector, MCUidOf[h])
            /\ reserve \in DOMAIN plain =>
                  /\ \/ \A h \in active \cap miners : MCUidOf[h] \in DOMAIN vector
                     \/ vector[reserve] = 1
                  /\ 100 * (vector[reserve] + 2 * Cardinality(DOMAIN vector))
                        >= held * Sum(vector)

---------------------------------------------------------------------------------
MCCards ==
    {[accepted |-> TRUE, model |-> "known", tier |-> "entry"],
     [accepted |-> TRUE, model |-> "new", tier |-> "standard"],
     [accepted |-> FALSE, model |-> "known", tier |-> "entry"]}

MCRoster(cards, state, passed, jobs, optedOut) ==
    [r \in MCRigs |->
        [state |-> state[r], passed |-> passed[r], cards |-> cards[r], hotkey |-> "hotkey",
         isolated |-> r = r1, driver |-> <<535, 54>>, jobs |-> jobs, optedOut |-> optedOut,
         since |-> None]]

Policy == [minimum |-> <<535, 104>>, cutoff |-> TRUE]
Demand == [m \in {"known"} |-> 40]

\* What one card earns by the formula, in the units of a rig's score.
CardWorth(card, rig, uptime) ==
    CardScale * DemandWeight(Demand, card) * (IF rig.isolated THEN 100 ELSE 80) * uptime
        * (IF rig.jobs = {"rental"} THEN 1 ELSE 0) * (IF rig.optedOut THEN 85 ELSE 100)

\* For every roster, a hotkey's score is what its accepted cards of rigs that passed are
\* worth one by one: the cards of a rig count alike however they are spread over rigs,
\* and a rig that did not pass, or whose driver is past the cutoff while nobody rents it,
\* adds nothing (weights.local_scores, formula.breakdown).
ScoreIsOfItsCards ==
    Init => \A cards \in [MCRigs -> UNION {[1..n -> MCCards] : n \in 0..3}],
               state \in [MCRigs -> {"active", "suspended"}], passed \in [MCRigs -> BOOLEAN],
               jobs \in {{}, {"rental"}}, optedOut \in BOOLEAN :
        LET rigs == MCRoster(cards, state, passed, jobs, optedOut)
            uptime == [r \in MCRigs |-> IF r = r1 THEN 1 ELSE UPTIME_RAMP]
            ledger == [r \in MCRigs |-> [Unseen(1) EXCEPT !.uptime = uptime[r] * uptime[r]]]
            total(r) == FoldSeq(LAMBDA card, sum : sum + CardWorth(card, rigs[r], uptime[r]), 0,
                                SelectSeq(cards[r], LAMBDA card : card.accepted))
            worth == MapThenSumSet(total, {r \in MCRigs : state[r] = "active" /\ passed[r]})
            scores == LocalScores(rigs, Demand, ledger, 1, Policy)
        IN  worth = IF "hotkey" \in DOMAIN scores THEN scores["hotkey"] ELSE 0

\* What a rig and its miner are owed is of what was witnessed: uptime of the probes,
\* scores of the cards, the vector of the scores.
RigsAreOwed == UptimeIsWitnessed /\ VectorIsOwed /\ ScoreIsOfItsCards
================================================================================
