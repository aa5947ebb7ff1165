-------------------------------- MODULE RigScores --------------------------------
(***************************************************************************)
(* What a compute validator makes of the rigs it verified                  *)
(* (rigs/validator/scoring): the uptime ledger the express lane fills, the  *)
(* score of a rig, and the weights a round puts on chain.                  *)
(*                                                                         *)
(* Operators only.  Money and shares are whole numbers over a common       *)
(* denominator, which a vector that is scaled to its top never shows; time *)
(* is whole seconds, so the rounding of a saved uptime is exact.           *)
(***************************************************************************)
EXTENDS Integers, Sequences, FiniteSets, FiniteSetsExt, SequencesExt

CONSTANTS
    U16_MAX,
    MAX_GAP_SECONDS,
    UPTIME_RAMP,        \* fourteen days, in the unit of the ledger's time
    None                \* no reserve uid, no epoch, no entry

---------------------------------------------------------------------------------
(* The ledger: one entry per rig, in memory and in reliability.json. *)

Unseen(now) == [uptime |-> 0, first |-> now, last |-> 0, online |-> FALSE]

\* An interval counts when the probes at both its ends were answered.
CountsAlways(entry, online, gap) == entry.last # 0 /\ online /\ gap \in 1..MAX_GAP_SECONDS

Counts(entry, online, gap) ==
    entry.last # 0 /\ entry.online /\ online /\ gap \in 1..MAX_GAP_SECONDS

Observe(entry, online, now) ==
    LET rig == IF entry = None THEN Unseen(now) ELSE entry
        gap == now - rig.last
    IN  [rig EXCEPT !.uptime = IF Counts(rig, online, gap) THEN @ + gap ELSE @,
                    !.last = now, !.online = online]

UptimeSeconds(entry) == IF entry = None THEN 0 ELSE entry.uptime

\* A tick of the express lane ends in a save when the last one is old; a process that
\* starts reads what was saved last.
AfterEvent(ledger, event) ==
    CASE event.kind = "probe" ->
            [ledger EXCEPT !.memory = Observe(@, event.online, event.at)]
      [] event.kind = "save" -> [ledger EXCEPT !.file = ledger.memory]
      [] event.kind = "restart" -> [ledger EXCEPT !.memory = ledger.file]

LedgerAfter(events) ==
    FoldLeft(AfterEvent, [memory |-> None, file |-> None], events)

\* pool server: the moment since which it has seen the rig up, if it says so.
UptimeOf(rig, entry, now) ==
    LET known == UptimeSeconds(entry)
    IN  IF rig.since = None THEN known ELSE Max({known, now - rig.since})

---------------------------------------------------------------------------------
(* The score of a rig, over the denominators of its multipliers. *)

ISOLATION_MULTIPLIER == 80
OPT_OUT_MULTIPLIER == 85
MIN_WEIGHT == 1             \* hundredths, as the priors
STATIC_PRIOR == [flagship |-> 100, professional |-> 60, standard |-> 35, entry |-> 15]

\* Revenue seen for the model, else the prior of the card's tier.
DemandWeight(demand, card) ==
    CASE card.model \in DOMAIN demand -> Max({MIN_WEIGHT, demand[card.model]})
      [] card.model \notin DOMAIN demand /\ card.tier \in DOMAIN STATIC_PRIOR ->
            STATIC_PRIOR[card.tier]
      [] OTHER -> MIN_WEIGHT

\* Cards share one weight, their average.  Sums of up to four cards divide exactly.
CardScale == 12

AverageDemand(demand, cards) ==
    (CardScale * FoldSeq(LAMBDA card, sum : sum + DemandWeight(demand, card), 0, cards))
        \div Len(cards)

UptimeMultiplier(uptime) == Min({UPTIME_RAMP, Max({0, uptime})})

\* Versions are compared as tuples of numbers: of two equal prefixes the longer is newer.
NewerOrSame(current, floor) ==
    \/ IsPrefix(floor, current)
    \/ \E i \in 1..Min({Len(current), Len(floor)}) :
          /\ current[i] > floor[i]
          /\ \A j \in 1..i - 1 : current[j] = floor[j]

DriverOk(driver, minimum) ==
    driver = <<>> \/ minimum = <<>> \/ NewerOrSame(driver, minimum)

InRental(rig) == "rental" \in rig.jobs

\* An outdated driver is paid until the cutoff, and while a customer holds the machine.
DriverMultiplier(rig, policy) ==
    IF DriverOk(rig.driver, policy.minimum) \/ InRental(rig) \/ ~policy.cutoff THEN 1 ELSE 0

AcceptedCards(rig) == SelectSeq(rig.cards, LAMBDA card : card.accepted)

Verified(rig) ==
    /\ rig.state \in {"probation", "active"} /\ rig.passed
    /\ AcceptedCards(rig) # <<>>

\* Its cards, of the cards of the fleet: the fleet is the denominator every score has.
RigScore(rig, demand, uptime, policy) ==
    LET cards == AcceptedCards(rig)
    IN  AverageDemand(demand, cards) * Len(cards)
        * (IF rig.isolated THEN 100 ELSE ISOLATION_MULTIPLIER)
        * UptimeMultiplier(uptime)
        * DriverMultiplier(rig, policy)
        * (IF rig.optedOut THEN OPT_OUT_MULTIPLIER ELSE 100)

\* The rigs of a hotkey add up.  One without a hotkey counts in the fleet only.
LocalScores(roster, demand, ledger, now, policy) ==
    LET fleet == {r \in DOMAIN roster : Verified(roster[r])}
        scored == {r \in fleet : roster[r].hotkey # None}
    IN  [h \in {roster[r].hotkey : r \in scored} |->
            MapThenSumSet(LAMBDA r : RigScore(roster[r], demand, UptimeOf(roster[r], ledger[r], now), policy),
                          {r \in scored : roster[r].hotkey = h})]

\* The server's scores stand in for the local ones when it has any above zero.
ComputeScores(server, local) ==
    LET above == {h \in DOMAIN server.weights : server.weights[h] > 0}
    IN  IF server.epoch # None /\ above # {}
        THEN [h \in above |-> server.weights[h]] ELSE local

---------------------------------------------------------------------------------
(* The weights on chain.  A vector is a function of the uids that are listed. *)

Positive(shares) == {uid \in DOMAIN shares : shares[uid] > 0}

\* Shares of the positive scores, over their sum.
Normalised(scores) == [uid \in Positive(scores) |-> scores[uid]]

\* The held share, in hundredths, goes to the reserve; what the reserve scored does not.
WithReserve(shares, reserve, held) ==
    LET total == MapThenSumSet(LAMBDA uid : shares[uid], DOMAIN shares)
    IN  IF reserve = None \/ held <= 0 THEN shares
        ELSE [uid \in DOMAIN shares \cup {reserve} |->
                 IF uid = reserve THEN held * Max({1, total}) ELSE shares[uid] * (100 - held)]

\* round() of Python: to the nearest, and to the even one of two.
Rounded(n, d) ==
    LET low == n \div d  rest == 2 * (n % d)
    IN  IF rest > d \/ (rest = d /\ low % 2 = 1) THEN low + 1 ELSE low

ToU16(shares) ==
    LET top == Max({shares[uid] : uid \in DOMAIN shares})
    IN  [uid \in Positive(shares) |-> Max({1, Rounded(shares[uid] * U16_MAX, top)})]

\* A rig that is online and has no weight is kept eligible by one unit of the reserve's,
\* in the order of the uids, while the reserve has one to spare.
FloorOf(missing, spare) ==
    SubSeq(missing, 1, Min({Len(missing), spare}))

WithFloor(u16, active, reserve) ==
    LET missing == SetToSortSeq({uid \in active : uid \notin DOMAIN u16 /\ uid # reserve},
                                LAMBDA a, b : a < b)
        floored == IF reserve \in DOMAIN u16
                   THEN Range(FloorOf(missing, u16[reserve] - 1)) ELSE {}
    IN  [uid \in DOMAIN u16 \cup floored |->
            CASE uid \in floored -> 1
              [] uid = reserve -> u16[uid] - Cardinality(floored)
              [] OTHER -> u16[uid]]

BuildVector(scores, active, reserve, held) ==
    WithFloor(ToU16(WithReserve(Normalised(scores), reserve, held)), active, reserve)

\* Hotkeys the chain does not know are left out, of the scores and of the floor.
VectorOnChain(scores, active, uids, reserve, held) ==
    LET known == {h \in DOMAIN scores : h \in DOMAIN uids}
    IN  BuildVector([uid \in {uids[h] : h \in known} |->
                        scores[CHOOSE h \in known : uids[h] = uid]],
                    {uids[h] : h \in {a \in active : a \in DOMAIN uids}}, reserve, held)

\* A round with no scores, or with a vector of nobody, puts nothing on chain.
SubmittedVector(server, local, active, uids, reserve, held) ==
    LET scores == ComputeScores(server, local)
    IN  IF DOMAIN scores = {} THEN <<>>
        ELSE VectorOnChain(scores, active, uids, reserve, held)

================================================================================
