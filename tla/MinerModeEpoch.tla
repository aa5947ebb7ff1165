----------------------------- MODULE MinerModeEpoch -----------------------------
(***************************************************************************)
(* One validator settles the rounds of an arena (validator/epoch.py,       *)
(* run_miner_mode_epoch) while the coordinator goes on publishing signed   *)
(* rows in the spotcheck documents of this round and of earlier ones       *)
(* (validator/spotcheck.py).                                               *)
(*                                                                         *)
(* A round: every mirrored miner is fetched, replayed and graded in commit *)
(* order; the validator waits for the coordinator, zeroes the flagged,     *)
(* compares for duplicates, scores and posts each miner, sets weights and  *)
(* reports.  What a step computes about a miner is a choice; whether it    *)
(* failed is what the later steps see.                                     *)
(*                                                                         *)
(* Simplifications: one flag per miner and round, so that an appeal lifts  *)
(* it as a whole; a later spot check of a miner does not turn round an     *)
(* earlier one; the reference answers, the canaries, the measured figures  *)
(* and the change sketches of routers are left out; the escalation pool    *)
(* goes with the harness pool.                                             *)
(***************************************************************************)
EXTENDS MinerPreparation

CONSTANTS
    Miners,         \* the roster
    Position,       \* Position[m]: the place in the chain's commit order
    Weights,        \* Weights[m]: the digest of the model's weights
    Changes,        \* Changes[m]: what the change sketch tells apart
    Routers,        \* Routers[m]: the digest of the router's weights
    Outputs,        \* Outputs[m]: the answers in the transcript
    Worth,          \* the sets of pools a miner may have a score above zero in
    MaxEpoch,       \* bound: the last round
    BanEpochs,      \* evaluation.ban.epochs
    MaxRows,        \* bound: rows the coordinator publishes
    MaxFaults,      \* bound: reads of a spotcheck document that fail
    MaxCrashes,     \* bound: deaths of the process
    Nothing         \* no digest, no document, no result

Epochs == 0..MaxEpoch
Pools == {"slm", "harness", "router", "system"}

ASSUME BoundsAssumption ==
    /\ MaxEpoch \in Nat /\ BanEpochs \in Nat \ {0}
    /\ MaxRows \in Nat /\ MaxFaults \in Nat /\ MaxCrashes \in Nat
ASSUME MinersAssumption == IsFiniteSet(Miners)
ASSUME PositionAssumption ==
    /\ Position \in [Miners -> Nat]
    /\ \A m, n \in Miners : Position[m] = Position[n] => m = n
ASSUME WorthAssumption == Worth \subseteq SUBSET Pools

Parts == {"model", "router"}

\* The rows of the spotcheck documents that are about a miner's leaf: a check that
\* matched, a check or a failure that settles nothing, and evidence that stands.
Row == [epoch: Epochs, miner: Miners, kind: {"matched", "unsettled", "evidence"}]

\* A document, as read for a round.
Document == [rows: SUBSET Row, complete: BOOLEAN, upheld: SUBSET Miners]

ASSUME NothingAssumption == Nothing \notin Document

VARIABLES
    published, upheld,              \* the documents: their rows, the lifted flags
    complete,                       \* the document of this round is marked complete
    epoch, pc,                      \* the round being settled, and the phase
    banned, mirror,                 \* the server's bans; runner.mirror without them
    records, failed,                \* runner.records; those with a failure
    sketched, graded,               \* miners with a change sketch; with an outcome
    late,                           \* the wait for the coordinator is over
    coordinated,                    \* runner.coordinated
    zeroed,                         \* record.duplicates, as parts
    scores,                         \* record.scores: pools with a score above zero
    known, unread,                  \* history: flags that stood when the wait ended;
                                    \* rounds whose document could not be read
    faults, crashes

doc == <<published, complete, upheld>>
found == <<sketched, graded>>
round == <<banned, mirror, records, failed, found, late, coordinated, zeroed, scores,
           known, unread>>
vars == <<doc, epoch, pc, round, faults, crashes>>

Phases == {"idle", "miners", "wait", "fraud", "duplicates", "scores", "weights"}

TypeOK ==
    /\ published \in SUBSET Row /\ complete \in BOOLEAN
    /\ upheld \in SUBSET (Epochs \X Miners)
    /\ epoch \in 0..MaxEpoch + 1 /\ pc \in Phases
    /\ banned \in SUBSET Miners /\ mirror \in SUBSET Miners
    /\ records \in SUBSET Miners /\ failed \in SUBSET Miners
    /\ sketched \in SUBSET Miners /\ graded \in SUBSET Miners
    /\ late \in BOOLEAN /\ coordinated \in Document \cup {Nothing}
    /\ zeroed \in [Miners -> SUBSET Parts] /\ scores \in [Miners -> SUBSET Pools]
    /\ known \in SUBSET (Epochs \X Miners) /\ unread \in SUBSET Epochs
    /\ faults \in 0..MaxFaults /\ crashes \in 0..MaxCrashes

Init ==
    /\ published = {} /\ complete = FALSE /\ upheld = {}
    /\ epoch = 0 /\ pc = "idle" /\ faults = 0 /\ crashes = 0
    /\ banned = {} /\ mirror = {} /\ records = {} /\ failed = {}
    /\ sketched = {} /\ graded = {} /\ late = FALSE /\ coordinated = Nothing
    /\ zeroed = [m \in Miners |-> {}] /\ scores = [m \in Miners |-> {}]
    /\ known = {} /\ unread = {}

\* The runner and its records go with run_miner_mode_epoch, however it ends.
Forget ==
    /\ banned' = {} /\ mirror' = {} /\ records' = {} /\ failed' = {}
    /\ sketched' = {} /\ graded' = {} /\ late' = FALSE /\ coordinated' = Nothing
    /\ zeroed' = [m \in Miners |-> {}] /\ scores' = [m \in Miners |-> {}]
    /\ known' = {} /\ unread' = {}

\* merge: the flags of all reports, without those an appeal has lifted.
Standing(p) == {m \in Miners :
    /\ [epoch |-> p, miner |-> m, kind |-> "evidence"] \in published
    /\ <<p, m>> \notin upheld}

\* The document of this round, once a report was published.
fetch ==
    LET rows == {r \in published : r.epoch = epoch}
    IN  IF rows = {} /\ ~complete THEN Nothing
        ELSE [rows |-> rows, complete |-> complete,
              upheld |-> {m \in Miners : <<epoch, m>> \in upheld}]

\* Miners a document read for this round names in rows of a kind.
Named(document, kinds) == {m \in Miners : \E r \in document.rows : r.miner = m /\ r.kind \in kinds}

-----------------------------------------------------------------------------
(* The coordinator and the clock. *)

\* Rows of an earlier round matter by their evidence only.
Publish ==
    /\ Cardinality(published) < MaxRows
    /\ \E r \in Row \ published :
        /\ r.epoch = epoch \/ (r.epoch < epoch /\ r.kind = "evidence")
        /\ published' = published \cup {r}
    /\ UNCHANGED <<complete, upheld>>

Complete == ~complete /\ complete' = TRUE /\ UNCHANGED <<published, upheld>>

\* An appeal is upheld: the flag no longer stands.
Uphold ==
    /\ \E p \in Epochs : \E m \in Standing(p) : upheld' = upheld \cup {<<p, m>>}
    /\ UNCHANGED <<published, complete>>

Coordinator ==
    /\ Publish \/ Complete \/ Uphold
    /\ UNCHANGED <<epoch, pc, round, faults, crashes>>

\* The deadline block, or coordinator_wait_seconds.
Deadline ==
    /\ pc = "wait" /\ ~late /\ late' = TRUE
    /\ UNCHANGED <<doc, epoch, pc, banned, mirror, records, failed, found, coordinated,
                   zeroed, scores, known, unread, faults, crashes>>

-----------------------------------------------------------------------------
(* The round. *)

\* set_up_miner_mode: a miner that is not mirrored is a record with a failure, a
\* banned one that is mirrored is left out.
SetUp ==
    /\ pc = "idle" /\ epoch \in Epochs /\ pc' = "miners"
    /\ \E mirrored \in SUBSET Miners : \E bans \in SUBSET mirrored :
        /\ banned' = bans
        /\ mirror' = mirrored \ bans
        /\ records' = Miners \ mirrored /\ failed' = Miners \ mirrored
    /\ UNCHANGED <<doc, epoch, found, late, coordinated, zeroed, scores, known, unread,
                   faults, crashes>>

\* The loop over ordered_miners, prepare_miner and grade_miner of each: a failure
\* is the miner's or the validator's own; a change sketch may be there before a
\* late failure.
EvaluateMiners ==
    /\ pc = "miners" /\ pc' = "wait"
    /\ \E ok \in SUBSET mirror : \E sketch \in SUBSET mirror :
        /\ records' = records \cup mirror
        /\ failed' = failed \cup (mirror \ ok)
        /\ graded' = ok /\ sketched' = sketch
    /\ UNCHANGED <<doc, epoch, banned, mirror, late, coordinated, zeroed, scores, known,
                   unread, faults, crashes>>

\* Variant: the wait has no deadline.
ReadyOnly(document) ==
    /\ document # Nothing
    /\ document.complete \/ graded \ failed \subseteq Named(document, {"matched", "unsettled"})

\* poll_coordinator returns: all wanted miners are covered, or time is over; with
\* nobody to wait for the document is read once.
Ready(document) ==
    \/ graded \ failed = {}
    \/ late
    \/ /\ document # Nothing
       /\ document.complete \/ graded \ failed \subseteq Named(document, {"matched", "unsettled"})

\* wait_for_coordinator and coordinator_phase.
CoordinatorPhase ==
    /\ pc = "wait" /\ pc' = "fraud"
    /\ \/ coordinated' = fetch /\ UNCHANGED <<unread, faults>>
       \/ /\ faults < MaxFaults /\ faults' = faults + 1
          /\ coordinated' = Nothing /\ unread' = unread \cup {epoch}
    /\ Ready(coordinated')
    /\ known' = UNION {{<<p, m>> : m \in Standing(p)} : p \in Epochs}
    /\ late' = FALSE
    /\ UNCHANGED <<doc, epoch, banned, mirror, records, failed, found, zeroed, scores,
                   crashes>>

\* Variant: the window of the ban is one round short.
ShortWindow == {p \in Epochs : epoch - BanEpochs + 1 < p /\ p <= epoch}

Window == {p \in Epochs : epoch - BanEpochs < p /\ p <= epoch}

\* Flags of the document read in the wait, and of earlier documents, read now.
Flagged(p) ==
    IF p # epoch THEN Standing(p)
    ELSE IF coordinated = Nothing THEN {}
    ELSE Named(coordinated, {"evidence"}) \ coordinated.upheld

\* collect_fraud: an earlier document or its receipts may not be read.
CollectFraud ==
    /\ pc = "fraud" /\ pc' = "duplicates"
    /\ \E missed \in SUBSET (Window \ {epoch}) :
        /\ Cardinality(missed) <= MaxFaults - faults
        /\ faults' = faults + Cardinality(missed)
        /\ unread' = unread \cup missed
        /\ failed' = failed \cup (records \cap UNION {Flagged(p) : p \in Window \ missed})
    /\ UNCHANGED <<doc, epoch, banned, mirror, records, found, late, coordinated, zeroed,
                   scores, known, crashes>>

-----------------------------------------------------------------------------
(* duplicates_phase and duplicates.compare. *)

Same(parts, m, n) == parts[m] # Nothing /\ parts[m] = parts[n]

\* Variant: a miner with a failure counts as an earlier output.
AnyCounts(m) == coordinated # Nothing /\ m \in Named(coordinated, {"matched"})

\* outputs_checked: a clean record, and a spot check that matched.
OutputsChecked(m) ==
    /\ m \in graded \ failed
    /\ coordinated # Nothing /\ m \in Named(coordinated, {"matched"})

SameModel(later, earlier) ==
    \/ Same(Weights, later, earlier)
    \/ {later, earlier} \subseteq sketched /\ Same(Changes, later, earlier)
    \/ OutputsChecked(earlier) /\ later \notin failed /\ Same(Outputs, later, earlier)

\* POOLS_OF
PoolsOf(part) == IF part = "model" THEN {"slm", "system"} ELSE {"router", "system"}

Matches(part, later, earlier) ==
    IF part = "model" THEN SameModel(later, earlier) ELSE Same(Routers, later, earlier)

DuplicatesPhase ==
    /\ pc = "duplicates" /\ pc' = "scores"
    /\ zeroed' = [m \in Miners |-> IF m \notin mirror THEN {} ELSE
                    {part \in Parts : \E n \in mirror :
                        Position[n] < Position[m] /\ Matches(part, m, n)}]
    /\ UNCHANGED <<doc, epoch, banned, mirror, records, failed, found, late, coordinated, scores,
                   known, unread, faults, crashes>>

-----------------------------------------------------------------------------
(* Scores, results, weights and the report. *)

\* router_phase, miner_mode_scores and post_miner_mode_result of every record:
\* scoring may raise, and the pools of duplicated parts are zero.
ScoreMiners ==
    /\ pc = "scores" /\ pc' = "weights"
    /\ \E raised \in SUBSET (records \ failed) : \E worth \in [Miners -> Worth] :
        /\ failed' = failed \cup raised
        /\ scores' = [m \in Miners |->
                        IF m \notin records \ (failed \cup raised) THEN {}
                        ELSE worth[m] \ UNION {PoolsOf(part) : part \in zeroed[m]}]
    /\ UNCHANGED <<doc, epoch, banned, mirror, records, found, late, coordinated, zeroed,
                   known, unread, faults, crashes>>

\* miner_mode_weights: the ranks of each pool are paid, an empty pool is burned.
paid == {m \in records \ failed : scores[m] # {}}

\* miner_mode_weights and miner_mode_report end the round.
MinerModeReport ==
    /\ pc = "weights" /\ pc' = "idle" /\ epoch' = epoch + 1 /\ Forget
    /\ complete' = FALSE
    /\ UNCHANGED <<published, upheld, faults, crashes>>

\* The process dies: the round is not recorded, and is settled again from its start.
Crash ==
    /\ pc # "idle" /\ crashes < MaxCrashes
    /\ pc' = "idle" /\ crashes' = crashes + 1 /\ Forget
    /\ UNCHANGED <<doc, epoch, faults>>

Settle == SetUp \/ EvaluateMiners \/ CoordinatorPhase \/ CollectFraud
          \/ DuplicatesPhase \/ ScoreMiners \/ MinerModeReport

Next == Settle \/ Coordinator \/ Deadline \/ Crash

Spec == Init /\ [][Next]_vars

\* The process runs on and time passes; the coordinator promises nothing.
FairSpec == Spec /\ WF_vars(Settle) /\ WF_vars(Deadline)

-----------------------------------------------------------------------------
(* What settling a round promises. *)

\* A miner with evidence that stood when the wait ended, in this round or an
\* earlier one of the ban, and that no appeal has lifted since, is not paid, as
\* long as the documents of those rounds could be read.
FlaggedIsNotPaid ==
    pc = "weights" =>
        \A m \in paid, p \in Epochs :
            /\ <<p, m>> \in known /\ p <= epoch /\ epoch < p + BanEpochs
            => <<p, m>> \in upheld \/ p \in unread

\* Every miner of the roster has a verdict in the report, but for the mirrored
\* ones the server lists as banned.
RosterIsReported == pc = "weights" => Miners \ banned \subseteq records

\* A miner loses its model pools to an earlier one with other weights and another
\* change only if that one has neither a failure nor a flag.
CopiedFromClean ==
    pc = "scores" =>
        \A m \in mirror : "model" \in zeroed[m] =>
            \E n \in mirror :
                /\ Position[n] < Position[m]
                /\ n \notin failed \/ Weights[n] = Weights[m] \/ Changes[n] = Changes[m]

\* No weights and no router are paid twice in their own pool.
NoPartPaidTwice ==
    pc = "weights" =>
        \A m, n \in paid :
            m # n => /\ Same(Weights, m, n) => "slm" \notin scores[m] \cap scores[n]
                     /\ Same(Routers, m, n) => "router" \notin scores[m] \cap scores[n]

\* The report has everybody, a copy costs the copy, and an original keeps its pools.
RoundIsSettledRight == TypeOK /\ RosterIsReported /\ CopiedFromClean /\ NoPartPaidTwice

\* Whatever the coordinator does, the round is reported.
RoundsAreReported == <>(epoch = MaxEpoch + 1)

-----------------------------------------------------------------------------
(* The preparation of one miner, which the round leaves to choices (MinerPreparation). *)

\* What is put in place is the blob, a mirror that resumes gets it there however often it
\* is cut, and what is measured in the name of an artifact is its own weights, whatever
\* earlier processes left in the folder (client.mirror_file, pull_weights, drop_weights).
MeasuredIsMirrored == Init => DownloadIsExact /\ FolderIsOfTheEntry

\* Everybody has one record, whatever fails for another at which step (run_miner_mode_epoch,
\* prepare_miner, grade_miner, unmirrored_records).
RecordsAreWhole == Init => EveryoneIsRecorded
================================================================================
