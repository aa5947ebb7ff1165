---------------------------- MODULE RigVerification ----------------------------
(***************************************************************************)
(* A compute validator checks rented machines in two lanes of one event    *)
(* loop (rigs/validator/schedule): the express lane probes every rig that  *)
(* is online, the deep pass opens a session on the rigs that are due and   *)
(* runs the checks (verify/) one after the other.  A rig that fails some   *)
(* probes in a row is due early.  Each lane has a limiter of its own, of   *)
(* one class: it is modelled in the deep pass, and a probe is one step.    *)
(*                                                                         *)
(* What a check measures is a choice of passing, failing, failing because  *)
(* the link is lost, or raising.  The uptime ledger, the scores and what   *)
(* the verdicts say are left out; the sweep that frees wedged cards is     *)
(* part of the last check.  A cancelled validator is one that dies.        *)
(***************************************************************************)
EXTENDS Integers, FiniteSets

CONSTANTS
    Rigs,
    Owner,              \* Owner[r]: the hotkey of the rig's miner
    MaxInflight,        \* settings.max_inflight
    PerMiner,           \* settings.per_miner
    UNREACHABLE_TICKS,
    MaxErrors,          \* bound: refusals of the pool server
    MaxCrashes          \* bound: deaths of the process

ASSUME LimitsAssumption ==
    /\ MaxInflight \in Nat \ {0} /\ PerMiner \in Nat \ {0} /\ UNREACHABLE_TICKS \in Nat \ {0}
    /\ MaxErrors \in Nat /\ MaxCrashes \in Nat
ASSUME RigsAssumption == IsFiniteSet(Rigs)

Checks == {"version", "attestation", "host", "scrape", "specs", "duplicates",
           "challenge", "inspector", "exclusivity"}

VARIABLES
    enrolled,           \* rigs on the roster, in a verifiable state
    unreachable, early, \* express.unreachable, express.early_due
    round, roster,      \* where run_once is, and the roster it has read
    deep,               \* deep[r]: where the deep pass is
    ran, failure,       \* the outcome: checks with a verdict, and the worst of them
    left,               \* left[r]: what the last pass has open on it: the grant, the directory
    lost,               \* history: rigs whose last pass had a command or call that failed,
                        \* or the validator die
    errors, crashes

pass == <<deep, ran, failure, left, lost>>
lane == <<unreachable, early>>
vars == <<enrolled, lane, round, roster, pass, errors, crashes>>

Passing == {"out", "queued", "owner", "version", "open", "dir", "host", "scrape",
            "challenge", "inspect", "exclusivity", "clean", "close", "report"}

TypeOK ==
    /\ enrolled \subseteq Rigs /\ roster \subseteq Rigs /\ early \subseteq Rigs
    /\ unreachable \in [Rigs -> 0..UNREACHABLE_TICKS + 1]
    /\ round \in {"idle", "due", "passes"}
    /\ deep \in [Rigs -> Passing]
    /\ ran \in [Rigs -> SUBSET Checks]
    /\ failure \in [Rigs -> {"none", "failed", "aborted"}]
    /\ left \in [Rigs -> SUBSET {"grant", "dir"}]
    /\ lost \subseteq Rigs
    /\ errors \in 0..MaxErrors /\ crashes \in 0..MaxCrashes

\* Nothing in memory, as after a restart.
Fresh ==
    /\ unreachable = [r \in Rigs |-> 0] /\ early = {}
    /\ round = "idle" /\ roster = {}
    /\ deep = [r \in Rigs |-> "out"]
    /\ ran = [r \in Rigs |-> {}] /\ failure = [r \in Rigs |-> "none"]

Init ==
    /\ Fresh
    /\ enrolled = Rigs /\ left = [r \in Rigs |-> {}] /\ lost = {}
    /\ errors = 0 /\ crashes = 0

\* The rig leaves the roster or a state in which it is verified, or comes back.
Enrol(r) ==
    /\ enrolled' = IF r \in enrolled THEN enrolled \ {r} ELSE enrolled \cup {r}
    /\ UNCHANGED <<lane, round, roster, pass, errors, crashes>>

-----------------------------------------------------------------------------
(* Limiter.slot: the miner's semaphore, then the lane's. *)

OwnerSlots(r) == {q \in Rigs : deep[q] \notin {"out", "queued"} /\ Owner[q] = Owner[r]}

Slots == {q \in Rigs : deep[q] \notin {"out", "queued", "owner"}}

MinerHasRoom(r) == Cardinality(OwnerSlots(r)) < PerMiner

LaneHasRoom == Cardinality(Slots) < MaxInflight

-----------------------------------------------------------------------------
(* The express lane. *)

\* bound: the count has no effect past the one that makes the rig due.
Counted(count) == IF count > UNREACHABLE_TICKS THEN UNREACHABLE_TICKS + 1 ELSE count

\* probe: the failures in a row are counted, and the rig is due early when they
\* are exactly enough.
Probe(r) ==
    /\ \/ /\ unreachable' = [unreachable EXCEPT ![r] = 0]
          /\ UNCHANGED early
       \/ LET count == unreachable[r] + 1
          IN  /\ unreachable' = [unreachable EXCEPT ![r] = Counted(count)]
              /\ early' = IF count = UNREACHABLE_TICKS THEN early \cup {r} ELSE early
    /\ UNCHANGED <<enrolled, round, roster, pass, errors, crashes>>

-----------------------------------------------------------------------------
(* The rounds of the deep pass. *)

\* due_rigs reads the roster; if it is refused, the loop sleeps and tries again.
ReadRoster ==
    /\ round = "idle" /\ round' = "due" /\ roster' = enrolled
    /\ UNCHANGED <<enrolled, lane, pass, errors, crashes>>

\* Variant: the early rigs are taken before the due ones are asked for.
TakenAtOnce(answered) == {}

\* take_early_due, once the due rigs are known.
EarlyLeft(answered) == IF answered THEN {} ELSE early

\* due_rigs goes on, and run_once: the due rigs are the server's choice.
RunOnce ==
    /\ round = "due" /\ roster' = {}
    /\ \E answered \in BOOLEAN :
        /\ early' = EarlyLeft(answered)
        /\ \/ /\ ~answered /\ errors < MaxErrors /\ errors' = errors + 1
              /\ round' = "idle" /\ UNCHANGED pass
           \/ \E due \in SUBSET (roster \cup enrolled) :
                LET chosen == due \cup (early \cap roster)
                IN  /\ answered /\ UNCHANGED errors
                    /\ round' = IF chosen = {} THEN "idle" ELSE "passes"
                    /\ deep' = [r \in Rigs |-> IF r \in chosen THEN "queued" ELSE deep[r]]
                    /\ left' = [r \in Rigs |-> IF r \in chosen THEN {} ELSE left[r]]
                    /\ lost' = lost \ chosen
                    /\ UNCHANGED <<ran, failure>>
    /\ UNCHANGED <<enrolled, unreachable, crashes>>

\* The gather returns.
RoundOver ==
    /\ round = "passes" /\ \A r \in Rigs : deep[r] = "out"
    /\ round' = "idle"
    /\ UNCHANGED <<enrolled, lane, roster, pass, errors, crashes>>

DeepSlot(r) ==
    /\ \/ /\ deep[r] = "queued" /\ MinerHasRoom(r)
          /\ deep' = [deep EXCEPT ![r] = "owner"]
       \/ /\ deep[r] = "owner" /\ LaneHasRoom
          /\ deep' = [deep EXCEPT ![r] = "version"]
    /\ UNCHANGED <<enrolled, lane, round, roster, ran, failure, left, lost, errors, crashes>>

-----------------------------------------------------------------------------
(* verify, pipeline and in_session, one step per check. *)

Others == <<enrolled, lane, round, roster, errors, crashes>>

Goto(r, step) == deep' = [deep EXCEPT ![r] = step]

Judge(r, checks, ok) ==
    /\ ran' = [ran EXCEPT ![r] = @ \cup checks]
    /\ failure' = [failure EXCEPT ![r] = IF ok THEN @ ELSE "failed"]

\* The pass is over and its outcome is forgotten.
Done(r) ==
    /\ Goto(r, "out")
    /\ ran' = [ran EXCEPT ![r] = {}] /\ failure' = [failure EXCEPT ![r] = "none"]

Loses(r) == lost' = lost \cup {r}

\* The check ends in a verdict of transport failure, which ends the session.
Cut(r, check) == Judge(r, {check}, FALSE) /\ Goto(r, "clean") /\ Loses(r) /\ UNCHANGED left

\* Variant: the directory is removed where the checks end, not in a finally.
RaisesUnclean(r) ==
    /\ failure' = [failure EXCEPT ![r] = "aborted"] /\ Goto(r, "close")
    /\ UNCHANGED <<ran, left, lost>>

\* The check raises something else than AgentError (what the rig has printed, an upload
\* in prepare, ChallengeUnavailable): the session is torn down and nothing is reported.
Raises(r) ==
    /\ failure' = [failure EXCEPT ![r] = "aborted"] /\ Goto(r, "clean")
    /\ UNCHANGED <<ran, left, lost>>

\* version.fetch.
Version(r) ==
    /\ deep[r] = "version"
    /\ \E ok \in BOOLEAN :
        Judge(r, {"version"}, ok) /\ Goto(r, IF ok THEN "open" ELSE "report")
    /\ UNCHANGED <<Others, left, lost>>

\* AgentClient.open: the call is refused; its answer is lost or cannot be read, which
\* leaves a grant nobody closes; the grant is no use, and is closed; or the session is open.
Open(r) ==
    /\ deep[r] = "open"
    /\ \/ Judge(r, {}, FALSE) /\ Goto(r, "report") /\ UNCHANGED <<left, lost>>
       \/ /\ left' = [left EXCEPT ![r] = @ \cup {"grant"}]
          /\ \/ Judge(r, {}, FALSE) /\ Goto(r, "report") /\ Loses(r)
             \/ Done(r) /\ Loses(r)
             \/ Judge(r, {}, FALSE) /\ Goto(r, "close") /\ UNCHANGED lost
             \/ Goto(r, "dir") /\ UNCHANGED <<ran, failure, lost>>
    /\ UNCHANGED Others

\* attestation_verdict and the session directory; a directory whose command has failed
\* may be there, and is not removed.
MakeDir(r) ==
    /\ deep[r] = "dir"
    /\ \/ /\ \E ok \in BOOLEAN : Judge(r, {"attestation"}, ok)
          /\ left' = [left EXCEPT ![r] = @ \cup {"dir"}]
          /\ Goto(r, "host") /\ UNCHANGED lost
       \/ /\ Judge(r, {"attestation"}, FALSE)
          /\ \E made \in SUBSET {"dir"} : left' = [left EXCEPT ![r] = @ \cup made]
          /\ Goto(r, "close") /\ Loses(r)
    /\ UNCHANGED Others

\* host_reality.run.
Host(r) ==
    /\ deep[r] = "host"
    /\ \/ /\ \E ok \in BOOLEAN : Judge(r, {"host"}, ok)
          /\ Goto(r, "scrape") /\ UNCHANGED <<left, lost>>
       \/ Cut(r, "host")
       \/ Raises(r)
    /\ UNCHANGED Others

\* A scrape that cannot be read: the checks that need it are left out.
ScrapedNothing(r) == Judge(r, {"scrape"}, FALSE)

\* scrape_check.run, specs.check and duplicates.check.
Scrape(r) ==
    /\ deep[r] = "scrape"
    /\ \/ /\ \/ \E ok \in BOOLEAN : Judge(r, {"scrape", "specs", "duplicates"}, ok)
             \/ ScrapedNothing(r)
          /\ Goto(r, "challenge") /\ UNCHANGED <<left, lost>>
       \/ Cut(r, "scrape")
       \/ Raises(r)
    /\ UNCHANGED Others

\* challenge.run.
Challenge(r) ==
    /\ deep[r] = "challenge"
    /\ \/ /\ \E ok \in BOOLEAN : Judge(r, {"challenge"}, ok)
          /\ Goto(r, "inspect") /\ UNCHANGED <<left, lost>>
       \/ Cut(r, "challenge")
       \/ Raises(r)
    /\ UNCHANGED Others

\* DeepPass.inspect.
Inspect(r) ==
    /\ deep[r] = "inspect"
    /\ \/ /\ \E ok \in BOOLEAN : Judge(r, {"inspector"}, ok)
          /\ Goto(r, "exclusivity") /\ UNCHANGED <<left, lost>>
       \/ Cut(r, "inspector")
       \/ Raises(r)
    /\ UNCHANGED Others

\* own_containers, exclusivity.check and, if nothing has failed, gpu_wedge.sweep.
Exclusivity(r) ==
    /\ deep[r] = "exclusivity"
    /\ \/ /\ \E ok \in BOOLEAN : Judge(r, {"exclusivity"}, ok)
          /\ Goto(r, "clean") /\ UNCHANGED <<left, lost>>
       \/ Raises(r)
    /\ UNCHANGED Others

\* The session directory is removed, unless the command fails.
Clean(r) ==
    /\ deep[r] = "clean" /\ Goto(r, "close")
    /\ \/ left' = [left EXCEPT ![r] = @ \ {"dir"}] /\ UNCHANGED lost
       \/ Loses(r) /\ UNCHANGED left
    /\ UNCHANGED <<Others, ran, failure>>

\* The session is closed; a call that fails is passed over.
Close(r) ==
    /\ deep[r] = "close"
    /\ \/ left' = [left EXCEPT ![r] = @ \ {"grant"}] /\ UNCHANGED lost
       \/ Loses(r) /\ UNCHANGED left
    /\ IF failure[r] = "aborted" THEN Done(r) ELSE Goto(r, "report") /\ UNCHANGED <<ran, failure>>
    /\ UNCHANGED Others

\* report, posted or refused; guarded's slot is given back.
Report(r) == deep[r] = "report" /\ Done(r) /\ UNCHANGED <<Others, left, lost>>

\* The process dies and starts again.
Crash ==
    /\ crashes < MaxCrashes /\ crashes' = crashes + 1
    /\ unreachable' = [r \in Rigs |-> 0] /\ early' = {}
    /\ round' = "idle" /\ roster' = {}
    /\ deep' = [r \in Rigs |-> "out"]
    /\ ran' = [r \in Rigs |-> {}] /\ failure' = [r \in Rigs |-> "none"]
    /\ lost' = lost \cup {r \in Rigs : deep[r] \notin {"out", "queued", "owner"}}
    /\ UNCHANGED <<enrolled, left, errors>>

-----------------------------------------------------------------------------
DeepStep(r) ==
    \/ DeepSlot(r) \/ Version(r) \/ Open(r) \/ MakeDir(r)
    \/ Host(r) \/ Scrape(r) \/ Challenge(r) \/ Inspect(r) \/ Exclusivity(r)
    \/ Clean(r) \/ Close(r) \/ Report(r)

Round == ReadRoster \/ RunOnce \/ RoundOver

Next ==
    \/ Round \/ Crash
    \/ \E r \in Rigs : Enrol(r) \/ Probe(r) \/ DeepStep(r)

\* Every await of a pass has a timeout, and loop comes back to run_once.
Fairness == WF_vars(Round) /\ \A r \in Rigs : WF_vars(DeepStep(r))

Spec == Init /\ [][Next]_vars /\ Fairness

-----------------------------------------------------------------------------
\* A miner has at most per_miner of its rigs in a pass, and the pass at most max_inflight
\* rigs (Limiter.slot), whatever rounds come and go and however the passes end.
LanesLimited ==
    /\ \A r \in Rigs : Cardinality(OwnerSlots(r)) <= PerMiner
    /\ Cardinality(Slots) <= MaxInflight

\* A rig is reported as passing only by a pass that has run every check: no lost link,
\* refused call or unreadable answer shortens a pass that passes (Outcome.finish).
PassIsComplete ==
    \A r \in Rigs : deep[r] = "report" /\ failure[r] = "none" => ran[r] = Checks

\* What a pass has opened on a rig, the grant and the session directory, is gone when the
\* pass is over, however it ended, unless a command or a call failed or the validator
\* died (the two finally blocks of open and in_session).
SessionsClosed ==
    \A r \in Rigs : deep[r] = "out" /\ left[r] # {} => r \in lost

\* The lane, the verdicts and the sessions at once.
PassesAreSound == LanesLimited /\ PassIsComplete /\ SessionsClosed

\* A rig due early gets a deep pass if it stays on the roster, although the rounds fail
\* and the passes of its miner's other rigs come first: take_early_due runs once the
\* server has answered.  A round that has read the roster already may miss the rig.
EarlyIsVerified ==
    \A r \in Rigs :
        [](/\ r \in early /\ crashes = MaxCrashes
           /\ round = "due" => r \in roster
           /\ [](r \in enrolled)
           => <>(deep[r] # "out"))
================================================================================
