------------------------------- MODULE RowReplay -------------------------------
(***************************************************************************)
(* A transcript from its recording to the verdict of a validator's replay  *)
(* (validator/runner.py, sandbox/services.py, validator/replay.py).        *)
(*                                                                         *)
(* The runner posts each row to main.py and records the calls main.py      *)
(* makes, with what the services answered; a row that goes wrong is run    *)
(* again with a new recorder.  The validator posts the same rows to the    *)
(* same main.py, answers its model, router and relay calls from the        *)
(* transcript and its tool calls from the bundle, and wants every call and *)
(* the output again.                                                       *)
(*                                                                         *)
(* RowRecording has the failures of the recording, MinerRun its journal;   *)
(* here is what the two sides must agree on: the fault injected into the   *)
(* first model call, the limit on model calls, what main.py hears.  main.py*)
(* is any program that follows the rules of docs/miner.md: its next step   *)
(* depends on the request and on what it heard, and it waits for each      *)
(* answer.  Router calls are replayed as relay calls are, and left out.    *)
(***************************************************************************)
EXTENDS Integers, Sequences, FiniteSets, Functions, ReceiptRoot

CONSTANTS
    Plan,               \* the rows the runner has to make: pool and item of each
    Step(_, _),         \* main.py: the row and what it heard, to a call or an answer
    Texts,              \* what the engine may answer
    FaultOf,            \* FaultPlan.fault_for: "none", "status" or "garbled", by item
    ModelFaults,        \* whether the arena's faults reach model calls
    MaxModelCalls,      \* the arena's limit for an item, 0 for none
    Tokens,             \* tokens of each prompt
    MaxInput,           \* max_input_tokens
    Allowance,          \* relay calls the epoch allowance pays for
    Edits(_),           \* transcripts that may be handed in for a recorded one
    Patience,           \* bound: answers main.py hears before its request times out
    MaxFailures         \* bound: rows that go wrong, and failures at the validator

\* The rows are of the items that are known; a limit and a bound are numbers.
ASSUME ReplayAssumption ==
    /\ Plan \in Seq(Range(Plan)) /\ \A r \in DOMAIN Plan : Plan[r].item \in DOMAIN FaultOf
    /\ MaxModelCalls \in Nat /\ Patience \in Nat

VARIABLES
    phase,              \* "record", "replay" or "done"
    row,                \* the row being recorded or replayed
    main,               \* main.py: where it is, what it heard for this request
    made,               \* item_calls of the current item
    recorder,           \* attempt it belongs to, calls, whether the row has to be redone
    threads,            \* requests at the recording services
    transcript, edited,
    replay,             \* Replay: position, mismatch
    tap,                \* TapState: POSTs counted, prompts by their number
    result,             \* ReplayResult: ok, over_calls, item_failures, relay receipts
    failures,
    mixed               \* a request of an earlier attempt was served in a later one

recording == <<recorder, threads>>
replaying == <<replay, tap, result>>
rowVars == <<phase, row, main, made, recording, transcript, edited, replaying, failures, mixed>>

Item(r) == Plan[r].item
Call(kind, ask, fault, resp) ==
    [kind |-> kind, ask |-> ask, fault |-> fault, resp |-> resp,
     tokens |-> IF kind = "slm" THEN Tokens[ask] ELSE 0,
     receipt |-> IF kind = "relay" /\ resp # "refused" THEN "own" ELSE "none"]
ItemEntry(r, calls, output) ==
    [pool |-> Plan[r].pool, item |-> Item(r), seed |-> "own", request |-> "own",
     calls |-> calls, output |-> output]

\* What main.py gets for a call that was recorded: _serve_tool, model_fault, _send.
Heard(call) == IF call.fault = "none" THEN call.resp ELSE call.fault

\* tools.serve on the item's database: the same here and there.
ToolAnswer == "rows"

-----------------------------------------------------------------------------
(* The limit and the faults, the same code on both sides *)

\* _model_fault, and the fault of a tool.  n: model calls made before this one.
Fault(kind, item, n) ==
    IF kind = "tool" \/ (kind = "slm" /\ ModelFaults /\ n = 0) THEN FaultOf[item] ELSE "none"

\* admit_model_call
Refused(kind, n) == kind = "slm" /\ MaxModelCalls > 0 /\ n >= MaxModelCalls
Counted(kind, n) == IF kind = "slm" THEN n + 1 ELSE n

-----------------------------------------------------------------------------
(* Recording *)

Fails == failures < MaxFailures /\ failures' = failures + 1
Idle == [at |-> "idle", heard |-> <<>>]
NewRecorder(n) == [n |-> n, calls |-> <<>>, failed |-> FALSE]

RowInit ==
    /\ phase = "record" /\ row = 1 /\ main = Idle /\ made = 0
    /\ recorder = NewRecorder(0) /\ threads = {}
    /\ transcript = <<>> /\ edited = FALSE
    /\ replay = [position |-> 0, mismatch |-> FALSE] /\ tap = [n |-> 0, prompts |-> {}]
    /\ result = [ok |-> TRUE, over |-> {}, failed |-> {}, relay |-> {}, trouble |-> FALSE]
    /\ failures = 0 /\ mixed = FALSE

Recording == phase = "record" /\ UNCHANGED <<phase, edited, replaying>>

\* Runner.generate: the engine is asked directly; a failed call is made again.
Generate ==
    /\ Recording /\ row <= Len(Plan) /\ Plan[row].pool = "slm"
    /\ \E text \in Texts :
           transcript' = Append(transcript, ItemEntry(row, <<Call("slm", "direct", "none", text)>>, text))
    /\ row' = row + 1
    /\ UNCHANGED <<main, made, recording, failures, mixed>>

\* run_main: main.py is running, begin_item, the request is posted.
BeginItem ==
    /\ Recording /\ row <= Len(Plan) /\ Plan[row].pool # "slm" /\ main.at = "idle"
    /\ recorder' = NewRecorder(recorder.n + 1)
    /\ made' = 0 /\ main' = [at |-> "working", heard |-> <<>>]
    /\ UNCHANGED <<row, threads, transcript, failures, mixed>>

Who(r) == [pool |-> r.pool, item |-> r.item]
\* main.py goes on, until call_main times out.
Does(who, heard) ==
    IF Len(heard) < Patience THEN Step(who, heard) ELSE [kind |-> "answer", ask |-> "timeout"]
Next1 == Does(Who(Plan[row]), main.heard)

Ask ==
    /\ Recording /\ main.at = "working" /\ Next1.kind # "answer"
    /\ threads' = threads \cup {[n |-> recorder.n, kind |-> Next1.kind, ask |-> Next1.ask,
                                 at |-> "in", fault |-> "none"]}
    /\ main' = [main EXCEPT !.at = "waiting"]
    /\ UNCHANGED <<row, made, recorder, transcript, failures, mixed>>

Own(t) == t.n = recorder.n

Answered(t, heard) ==
    /\ threads' = threads \ {t}
    /\ main' = IF Own(t) /\ main.at = "waiting"
               THEN [at |-> "working", heard |-> Append(main.heard, heard)] ELSE main

\* A thread writes on the recorder it found when its request came in.
Recorded(t, call) ==
    /\ recorder' = IF Own(t) THEN [recorder EXCEPT !.calls = Append(@, call)] ELSE recorder
    /\ Answered(t, Heard(call))

\* current_item is set, and is not the item this request came for in this attempt.
Mixes(t) == mixed' = (mixed \/ (~Own(t) /\ main.at # "idle"))

\* Both look at the current item, whoever asks; there is none between two rows.
FaultNow(kind) == IF main.at = "idle" THEN "none" ELSE Fault(kind, Item(row), made)

\* The limit refuses the call, or a fault answers for the engine, or it is passed on.
Admit(t) ==
    LET fault == FaultNow("slm")
    IN  /\ Recording /\ t.kind = "slm" /\ t.at = "in" /\ Mixes(t)
        /\ IF Refused("slm", made)
           THEN Answered(t, "limit") /\ UNCHANGED <<made, recorder>>
           ELSE /\ made' = IF main.at = "idle" THEN made ELSE Counted("slm", made)
                /\ IF fault = "status"
                   THEN Recorded(t, Call("slm", t.ask, fault, ""))
                   ELSE /\ threads' = (threads \ {t}) \cup {[t EXCEPT !.at = "open", !.fault = fault]}
                        /\ UNCHANGED <<main, recorder>>
        /\ UNCHANGED <<row, transcript, failures>>

EngineAnswers(t) ==
    /\ Recording /\ t.at = "open"
    /\ \E text \in Texts : Recorded(t, Call("slm", t.ask, t.fault, text))
    /\ UNCHANGED <<row, made, transcript, failures, mixed>>

\* _tool is served from the database; _relay is answered, or refused with no receipt.
Serve(t) ==
    /\ Recording /\ t.kind # "slm"
    /\ \E resp \in IF t.kind = "tool" THEN {ToolAnswer} ELSE {"frontier", "refused"} :
           Recorded(t, Call(t.kind, t.ask, FaultNow(t.kind), resp))
    /\ UNCHANGED <<row, made, transcript, failures, mixed>>

\* The engine or the relay does not answer, or a handler raises: Recorder.fail.
ServiceFails(t) ==
    /\ Recording /\ (t.at = "open" \/ t.kind # "slm") /\ Fails
    /\ recorder' = IF Own(t) THEN [recorder EXCEPT !.failed = TRUE] ELSE recorder
    /\ Answered(t, "error")
    /\ UNCHANGED <<row, made, transcript, mixed>>

\* main.py dies, or is killed at record_seconds: its request is still on the way.
MainDies ==
    /\ Recording /\ main.at \in {"working", "waiting"} /\ Fails
    /\ main' = [main EXCEPT !.at = "dead"]
    /\ UNCHANGED <<row, made, recording, transcript, mixed>>

Redo == main' = Idle /\ UNCHANGED <<row, transcript>>

\* Variant: what main.py answered is a row, whatever failed meanwhile.
NoProblem == FALSE

\* _row_problem: a timeout, something failed, or a call is still open.
RowProblem == Len(main.heard) >= Patience \/ recorder.failed \/ \E t \in threads : Own(t) /\ t.at = "open"

\* call_main returns: the row is kept, or run again with main.py started afresh.
RowEnds ==
    /\ Recording
    /\ \/ main.at = "dead" /\ Redo
       \/ /\ main.at = "working" /\ Next1.kind = "answer"
          /\ IF RowProblem THEN Redo
             ELSE /\ transcript' = Append(transcript, ItemEntry(row, recorder.calls, Next1.ask))
                  /\ row' = row + 1 /\ main' = Idle
    /\ UNCHANGED <<made, recording, failures, mixed>>

\* items_of and calls_of take lists only.
IsTranscript(t) ==
    /\ t \in Seq(Range(t))
    /\ \A r \in DOMAIN t : t[r].calls \in Seq(Range(t[r].calls))

\* The transcript is sealed and uploaded; the validator has what is under the root.
Seal ==
    /\ phase = "record" /\ row > Len(Plan) /\ phase' = "replay" /\ row' = 1 /\ threads' = {}
    /\ main' = Idle /\ made' = 0
    /\ \/ UNCHANGED <<transcript, edited>>
       \/ edited' = TRUE /\ transcript' \in {t \in Edits(transcript) : IsTranscript(t)}
    /\ UNCHANGED <<recorder, replaying, failures, mixed>>

-----------------------------------------------------------------------------
(* Replay *)

Replaying == phase = "replay" /\ UNCHANGED <<recording, transcript, edited, mixed>>
Now == transcript[row]
InReplay == row <= Len(transcript)
Done(found) == phase' = "done" /\ result' = found
Failed == Done([result EXCEPT !.ok = FALSE])

\* replay and _request_reason: the item is known, the seed and the request are its own.
RowKnown(r) == r.item \in DOMAIN FaultOf /\ r.seed = "own"
RequestOwn(r) == r.request = "own"

\* _direct: one model call, the item's prompt, no fault, its text is the output.
Direct(r) ==
    /\ Len(r.calls) = 1 /\ r.calls[1].kind = "slm"
    /\ r.calls[1].fault = "none" /\ r.calls[1].ask = "direct" /\ r.output = r.calls[1].resp

(***************************************************************************)
(* _budget: the model calls of the transcript against the limit, the       *)
(* tokens the miner claims and those the validator counts of the prompts   *)
(* its tap saw, by the call's number.                                      *)
(***************************************************************************)
SlmCalls(r) == {k \in 1..Len(r.calls) : r.calls[k].kind = "slm"}
Over(r) == MaxModelCalls > 0 /\ Cardinality(SlmCalls(r)) > MaxModelCalls

TooLong(r, prompts) ==
    \E k \in SlmCalls(r) :
        r.calls[k].tokens > MaxInput \/ \E p \in prompts : p.seq = k - 1 /\ Tokens[p.ask] > MaxInput

RelayCalls(r) == {k \in DOMAIN r.calls : r.calls[k].kind = "relay" /\ r.calls[k].receipt # "none"}
Budget(r, prompts) ==
    [result EXCEPT !.over = IF Over(r) THEN @ \cup {row} ELSE @,
                   !.failed = IF TooLong(r, prompts) THEN @ \cup {row} ELSE @,
                   !.relay = @ \cup {<<row, k>> : k \in RelayCalls(r)}]

\* The row is checked against the plan; a direct row is checked whole.
ReplayRow ==
    /\ Replaying /\ InReplay /\ main.at = "idle"
    /\ IF ~RowKnown(Now) THEN Failed /\ UNCHANGED <<row, main, made, replay, tap>>
       ELSE IF Now.pool = "slm"
       THEN /\ IF Direct(Now)
               THEN result' = Budget(Now, {[seq |-> 0, ask |-> "direct"]}) /\ row' = row + 1
                    /\ UNCHANGED phase
               ELSE Failed /\ UNCHANGED row
            /\ UNCHANGED <<main, made, replay, tap>>
       ELSE IF ~RequestOwn(Now) THEN Failed /\ UNCHANGED <<row, main, made, replay, tap>>
       ELSE /\ main' = [at |-> "working", heard |-> <<>>] /\ made' = 0
            /\ replay' = [position |-> 0, mismatch |-> FALSE]
            /\ tap' = [n |-> 0, prompts |-> {}]
            /\ UNCHANGED <<phase, row, result>>
    /\ UNCHANGED failures

Next2 == Does(Who(Now), main.heard)

\* slm_request_matches, and what _tool, _relay and check_receipt compare.
CallMatches(call, item, kind, ask, n) ==
    /\ call.kind = kind /\ call.ask = ask
    /\ call.fault = Fault(kind, item, n)
    /\ kind = "tool" => call.resp = ToolAnswer
    /\ kind = "relay" => (call.receipt = "own" \/ (call.resp = "refused" /\ call.receipt = "none"))

\* Replay.take: the first mismatch stays, and no call is served after it.
Taken(match) ==
    [position |-> IF match THEN replay.position + 1 ELSE replay.position,
     mismatch |-> replay.mismatch \/ ~match]

\* PromptTap._record counts every POST and keeps the prompts of model calls.
Tapped(kind, ask) ==
    [n |-> tap.n + 1,
     prompts |-> IF kind = "slm" THEN tap.prompts \cup {[seq |-> tap.n, ask |-> ask]}
                 ELSE tap.prompts]

\* main.py's request passes the tap and comes to the services.
ReplayCall ==
    LET kind == Next2.kind  ask == Next2.ask
        match == /\ ~replay.mismatch /\ replay.position < Len(Now.calls)
                 /\ CallMatches(Now.calls[replay.position + 1], Now.item, kind, ask, made)
        Hears(what) == main' = [main EXCEPT !.heard = Append(@, what)]
    IN  /\ Replaying /\ InReplay /\ main.at = "working" /\ kind # "answer"
        /\ tap' = Tapped(kind, ask)
        /\ IF Refused(kind, made) THEN Hears("limit") /\ UNCHANGED <<made, replay>>
           ELSE /\ made' = Counted(kind, made)
                /\ replay' = Taken(match)
                /\ Hears(IF match THEN Heard(Now.calls[replay.position + 1]) ELSE "mismatch")
        /\ UNCHANGED <<phase, row, result, failures>>

\* Variant: calls of the transcript that were not asked for are let be.
NoMismatch == ~replay.mismatch

\* Replay.verdict
Verdict == ~replay.mismatch /\ replay.position = Len(Now.calls)

\* main.py answers: the verdict, then the output.
ReplayAnswer ==
    /\ Replaying /\ InReplay /\ main.at = "working" /\ Next2.kind = "answer"
    /\ IF Verdict /\ Next2.ask = Now.output
       THEN result' = Budget(Now, tap.prompts) /\ row' = row + 1 /\ main' = Idle /\ UNCHANGED phase
       ELSE Failed /\ UNCHANGED <<row, main>>
    /\ UNCHANGED <<made, replay, tap, failures>>

\* The validator's container dies or its docker fails: also a failed replay.
ValidatorFails ==
    /\ Replaying /\ Fails /\ Done([result EXCEPT !.ok = FALSE, !.trouble = TRUE])
    /\ UNCHANGED <<row, main, made, replay, tap>>

\* The receipts of the whole transcript against the allowance.
ReplayEnds ==
    /\ Replaying /\ ~InReplay
    /\ Done([result EXCEPT !.ok = Cardinality(result.relay) <= Allowance])
    /\ UNCHANGED <<row, main, made, replay, tap, failures>>

Stopped == phase = "done" /\ UNCHANGED rowVars

Record ==
    \/ Generate \/ BeginItem \/ Ask \/ MainDies \/ RowEnds \/ Seal
    \/ \E t \in threads : Admit(t) \/ EngineAnswers(t) \/ Serve(t) \/ ServiceFails(t)
Replay == ReplayRow \/ ReplayCall \/ ReplayAnswer \/ ValidatorFails \/ ReplayEnds
RowNext == Record \/ Replay \/ Stopped
RowSpec == RowInit /\ [][RowNext]_rowVars

-----------------------------------------------------------------------------
(* What a row of a transcript says, without the machinery *)

\* main.py goes on by one answer: the limit, or the next call the row has for it.
After(r, s) ==
    LET next == Does(Who(r), s.heard)
        call == r.calls[s.used + 1]
    IN  IF next.kind = "answer" THEN s
        ELSE IF Refused(next.kind, s.made) THEN [s EXCEPT !.heard = Append(@, "limit")]
        ELSE IF s.used >= Len(r.calls) THEN [s EXCEPT !.right = FALSE]
        ELSE [heard |-> Append(s.heard, Heard(call)), used |-> s.used + 1,
              made |-> Counted(next.kind, s.made),
              right |-> s.right /\ CallMatches(call, r.item, next.kind, next.ask, s.made)]

\* main.py fed with the answers the row has for it, up to k of them.
Start == [heard |-> <<>>, used |-> 0, made |-> 0, right |-> TRUE]
RunOf(r) == LET f[k \in 0..Patience] == IF k = 0 THEN Start ELSE After(r, f[k - 1]) IN f
Follow(r) == RunOf(r)[Patience]

Faithful(r) ==
    /\ RowKnown(r)
    /\ IF r.pool = "slm" THEN Direct(r)
       ELSE LET s == Follow(r)
                next == Does(Who(r), s.heard)
            IN  /\ RequestOwn(r) /\ s.right /\ s.used = Len(r.calls)
                /\ next.kind = "answer" /\ next.ask = r.output

\* The receipts of a transcript.
Receipts(t) == UNION {{<<r, k>> : k \in RelayCalls(t[r])} : r \in DOMAIN t}

(***************************************************************************)
(* A replay that came to its end without trouble of the validator's own    *)
(* passes exactly the transcripts whose every row main.py makes again and  *)
(* whose receipts fit the allowance (replay.py Replayer.replay).           *)
(***************************************************************************)
VerdictIsRight ==
    phase = "done" /\ ~result.trouble =>
        (result.ok <=> /\ \A r \in 1..Len(transcript) : Faithful(transcript[r])
                       /\ Cardinality(Receipts(transcript)) <= Allowance)

(***************************************************************************)
(* A program that follows the rules is never failed for what happened      *)
(* while it was recorded: whatever failed, died and was run again, the     *)
(* recorded transcript is one main.py makes again - unless a request of an *)
(* attempt that was given up was served in a later one.                    *)
(***************************************************************************)
RecordedIsFaithful ==
    phase # "record" /\ ~edited /\ ~mixed =>
        \A r \in 1..Len(transcript) : Faithful(transcript[r])

(***************************************************************************)
(* A row that was passed is counted against the limits by its prompts, not *)
(* by what the miner claims (replay.py _budget).                           *)
(***************************************************************************)
BudgetIsCounted ==
    phase = "done" /\ result.ok =>
        \A r \in 1..Len(transcript) :
            LET calls == transcript[r].calls
                slm == {k \in DOMAIN calls : calls[k].kind = "slm"}
            IN  (\E k \in slm : Tokens[calls[k].ask] > MaxInput) => r \in result.failed

\* What a program that follows the rules recorded is passed, and what is passed is
\* counted by its own prompts: neither the miner's failures nor its claims decide.
RecordedIsHonoured == RecordedIsFaithful /\ BudgetIsCounted

(***************************************************************************)
(* What is replayed is what the root binds: the receipts of an epoch       *)
(* cannot be exchanged for others under it (RootBinds, of all receipts;    *)
(* looked at before the first row is run).                                 *)
(***************************************************************************)
RootBindsReceipts == row = 1 /\ recorder.n = 0 => RootBinds
=============================================================================
