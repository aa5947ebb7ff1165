------------------------------ MODULE RowRecording ------------------------------
(***************************************************************************)
(* The recording of one row of a miner's evaluation                        *)
(* (validator/sandbox/services.py): the runner posts an item to main.py,   *)
(* the artifact's own program, and every call main.py makes goes through   *)
(* the gateway to a thread of the services process, which passes it on to  *)
(* the engine, the relay or a local tool, and writes it on the recorder    *)
(* it found when the request came in.  A row that is run again gets a new  *)
(* recorder; a thread may outlive the row it belongs to.                   *)
(*                                                                         *)
(* What the calls carry is left out: prompts, tokens, faults injected on   *)
(* purpose, and the limit on model calls, which depend on the item alone.  *)
(* The gateway passes a request on at once.  MinerRun drives this module.  *)
(***************************************************************************)
EXTENDS Integers, Sequences

CONSTANTS
    MaxCalls,           \* bound: calls main.py makes for one request
    MaxFaults           \* bound: failures of engine, relay, main.py and server together

ASSUME RecordingAssumption == MaxCalls \in Nat /\ MaxFaults \in Nat

Kinds == {"model", "relay", "tool"}         \* router calls are recorded as tools are
Sources == {"engine", "relay", "service"}   \* ENGINE_SOURCE, RELAY_SOURCE, SERVICE_SOURCE

VARIABLES
    recorder,           \* session.recorder: its number, calls, open_calls, failure
    threads,            \* the handler threads of Services
    main,               \* main.py: where it is, how many calls it made for this request,
                        \* and (history) whether it answered with a call still running
    engine,             \* "up" or "gone"
    faults

recording == <<recorder, threads, main, engine, faults>>

Call == [rec : Nat, n : 1..MaxCalls]
Thread == [rec : Nat, n : 1..MaxCalls, kind : Kinds, at : {"in", "open", "good", "bad"}]

Recorder == [id : Nat, calls : Seq(Call), open : Nat, failure : Sources \cup {"none"}]

RecordingTypeOK ==
    /\ recorder \in Recorder
    /\ threads \subseteq Thread
    /\ main \in [at : {"down", "idle", "working", "waiting", "answered"},
                 asked : 0..MaxCalls]
    /\ engine \in {"up", "gone"}
    /\ faults \in 0..MaxFaults

NewRecorder(id) == [id |-> id, calls |-> <<>>, open |-> 0, failure |-> "none"]
MainAt(at) == [at |-> at, asked |-> 0]
MainDown == MainAt("down")
Fault == faults < MaxFaults /\ faults' = faults + 1

\* Variant: the thread looks its recorder up when it has the answer.
OnTapeNow(t, written) == recorder' = written

(***************************************************************************)
(* A thread holds the recorder of the time its request came in.  What it   *)
(* writes on an earlier one is read by nobody.                             *)
(***************************************************************************)
OnTape(t, written) == recorder' = IF t.rec = recorder.id THEN written ELSE recorder
Added(t) == [recorder EXCEPT !.calls = Append(@, [rec |-> t.rec, n |-> t.n])]
Failed(r, source) == [r EXCEPT !.failure = IF @ = "none" THEN source ELSE @]
Opened(t) == [recorder EXCEPT !.open = @ + 1]
Closed(t) == [recorder EXCEPT !.open = @ - 1]

\* The thread answers: main.py goes on, if it waits for this call.
Answered(t) ==
    /\ threads' = threads \ {t}
    /\ main' = IF main.at = "waiting" /\ t.rec = recorder.id /\ t.n = main.asked
               THEN [main EXCEPT !.at = "working"] ELSE main

MovesTo(t, at) == threads' = (threads \ {t}) \cup {[t EXCEPT !.at = at]}

---------------------------------------------------------------------------
(* main.py *)

\* It makes its next call; do_POST finds the session and its recorder.
Ask(kind) ==
    /\ main.at = "working" /\ main.asked < MaxCalls
    /\ main' = [main EXCEPT !.at = "waiting", !.asked = @ + 1]
    /\ threads' = threads \cup
         {[rec |-> recorder.id, n |-> main.asked + 1, kind |-> kind, at |-> "in"]}
    /\ UNCHANGED <<recorder, engine, faults>>

AnswerRequest ==
    /\ main.at = "working"
    /\ main' = [main EXCEPT !.at = "answered"]
    /\ UNCHANGED <<recorder, threads, engine, faults>>

MainDies ==
    /\ main.at # "down" /\ Fault
    /\ main' = [main EXCEPT !.at = "down"]
    /\ UNCHANGED <<recorder, threads, engine>>

---------------------------------------------------------------------------
(* The threads of Services: _slm, _relay, _tool and _router *)

\* _tool and _router: served and recorded at once.
ServeTool(t) ==
    /\ t.kind = "tool" /\ t.at = "in"
    /\ OnTape(t, Added(t))
    /\ Answered(t)
    /\ UNCHANGED <<engine, faults>>

\* An exception in the handler: do_POST notes it and answers 500.
ToolFails(t) ==
    /\ t.kind = "tool" /\ t.at = "in" /\ Fault
    /\ OnTape(t, Failed(recorder, "service"))
    /\ Answered(t)
    /\ UNCHANGED engine

\* _slm and _complete count the call as open and pass it on.
PassOn(t) ==
    /\ t.kind # "tool" /\ t.at = "in"
    /\ OnTape(t, Opened(t))
    /\ MovesTo(t, "open")
    /\ UNCHANGED <<main, engine, faults>>

\* The engine or the relay answers; the count goes down before the call is recorded.
\* The relay answers, too, when it refuses: that is an answer like another.
UpstreamAnswers(t) ==
    /\ t.at = "open" /\ (t.kind = "model" => engine = "up")
    /\ OnTape(t, Closed(t))
    /\ MovesTo(t, "good")
    /\ UNCHANGED <<main, engine, faults>>

\* The engine answers with an error, or with no token ids; the relay is not answering.
UpstreamFails(t) ==
    /\ t.at = "open" /\ (t.kind = "model" => engine = "up")
    /\ Fault
    /\ OnTape(t, Closed(t))
    /\ MovesTo(t, "bad")
    /\ UNCHANGED <<main, engine>>

\* Nobody listens on the engine's port: the failure is noted before the count goes down.
EngineNotReached(t) ==
    /\ t.at = "open" /\ t.kind = "model" /\ engine = "gone"
    /\ OnTape(t, Failed(Closed(t), "engine"))
    /\ Answered(t)
    /\ UNCHANGED <<engine, faults>>

\* The end of _slm and of _relay: the call or the failure is written, then answered.  An
\* answer the handler cannot read is an exception, which do_POST notes.
FailsWith(t) == {IF t.kind = "model" THEN "engine" ELSE "relay", "service"}
Record(t) ==
    /\ \/ t.at = "good" /\ OnTape(t, Added(t))
       \/ t.at = "bad" /\ \E source \in FailsWith(t) : OnTape(t, Failed(recorder, source))
    /\ Answered(t)
    /\ UNCHANGED <<engine, faults>>

EngineDies ==
    /\ engine = "up" /\ Fault
    /\ engine' = "gone"
    /\ UNCHANGED <<recorder, threads, main>>

ServeNext == \E t \in threads :
    \/ ServeTool(t) \/ ToolFails(t) \/ PassOn(t) \/ UpstreamAnswers(t)
    \/ UpstreamFails(t) \/ EngineNotReached(t) \/ Record(t)

---------------------------------------------------------------------------
(* What run_main asks of the session *)

\* recorded: the calls of the recorder; and those main.py made for this request.
Recorded == recorder.calls
CallsMade == [k \in 1..main.asked |-> [rec |-> recorder.id, n |-> k]]

\* _row_problem: main.py first, then what the recorder has.
RowProblem ==
    IF main.at = "down" THEN "service"
    ELSE IF recorder.failure # "none" THEN recorder.failure
    ELSE IF recorder.open > 0 THEN "service" ELSE "none"

================================================================================
