----------------------------- MODULE MinerRunProofs -----------------------------
(***************************************************************************)
(* Theorems about MinerRun, for any plan, numbers of attempts and bounds.  *)
(* One lemma for each part of the invariant says that every step keeps it: *)
(* RecStep for the recorder and its threads, TypeStep, RowsStep for rows   *)
(* and journal, TicketStep, and SealStep for the transcripts.              *)
(***************************************************************************)
EXTENDS MinerRun, TLAPS

\* The threads of the recorder in use.
Mine == {t \in threads : t.rec = recorder.id}

\* The first n calls of this request.
Calls(n) == [k \in 1..n |-> [rec |-> recorder.id, n |-> k]]

\* main.py waits for each of its calls, so there is at most one, and it is counted.
CallInv ==
    /\ \A t \in threads : t.rec <= recorder.id
    /\ \A t, u \in Mine : t = u
    /\ main.at \in {"working", "idle", "answered"} => Mine = {}
    /\ main.at = "waiting" => \E t \in Mine : t.n = main.asked
    /\ recorder.open = IF \E t \in Mine : t.at = "open" THEN 1 ELSE 0

\* While nothing has failed, the recorder has all calls but the one that is waited for.
TapeInv ==
    /\ main.at \in {"working", "answered"} /\ recorder.failure = "none"
         => recorder.calls = Calls(main.asked)
    /\ main.at = "waiting" /\ recorder.failure = "none"
         => recorder.calls = Calls(main.asked - 1)
    /\ pc = "take" => /\ main.at \in {"answered", "down"} /\ Mine = {}
                      /\ recorder.calls = Calls(main.asked)

Over == {"down", "done"}
AtRow == {"direct", "revive", "ticket", "main", "call", "take", "redo", "finish"}

\* The journal has the rows up to some row of the plan, of the inputs it is for.
DiskInv ==
    /\ Len(journal.rows) <= Len(Plan) /\ journal.version <= version
    /\ \A k \in 1..Len(journal.rows) :
         /\ journal.rows[k].row = k /\ journal.rows[k].version = journal.version
         /\ journal.rows[k].exact

\* A run is somewhere in it, or at its end.
RunInv ==
    /\ pc \in Over => entries = <<>> /\ row = 1
    /\ pc \notin Over =>
         /\ ~journal.torn /\ journal.version = version
         /\ Len(entries) = row - 1 /\ Len(entries) <= Len(journal.rows)
         /\ \A k \in 1..Len(entries) : entries[k] = journal.rows[k]
    /\ pc \in AtRow => row \in Rows /\ Len(journal.rows) = row - 1
    /\ pc \in {"save", "upload"} => row = Len(Plan) + 1
    /\ pc = "ticket" => Plan[row].purpose # "none"

HandInv ==
    /\ pc # "finish" => hand = <<>>
    /\ pc = "finish" => /\ Len(hand) = 1
                        /\ hand[1].row = row /\ hand[1].version = version /\ hand[1].exact

\* The inputs a transcript is from.
V(t) == t.items[1].version
Sealed == received \cup ({saved} \ {NoTranscript})

Whole(t) ==
    /\ Len(t.items) = Len(Plan)
    /\ \A k \in 1..Len(Plan) : t.items[k].row = k /\ t.items[k].version = V(t)
    /\ V(t) <= journal.version /\ (V(t) = journal.version => t.items = journal.rows)

\* The newest transcript is the saved one; one of the journal's inputs has its rows.
SealInv ==
    /\ \A t \in Sealed : Whole(t)
    /\ \A t \in received : saved # NoTranscript /\ (t = saved \/ V(t) < V(saved))
    /\ \A s, t \in received : V(s) = V(t) => s = t
    /\ pc = "save" => /\ signed # NoTranscript /\ signed.items = entries
                      /\ saved \in {signed, NoTranscript} \/ saved.items # signed.items
    /\ pc = "upload" => signed # NoTranscript /\ signed = saved

TicketInv ==
    /\ OneTicketPerItem
    /\ \A k \in DOMAIN tickets : tickets[k] <= issued
    /\ \A j, k \in DOMAIN tickets : tickets[j] = tickets[k] => j = k \/ tickets[j] = 0

Inv == TypeOK /\ CallInv /\ TapeInv /\ DiskInv /\ RunInv /\ HandInv /\ SealInv /\ TicketInv

USE DEF recording, attempt, desks, files, outside, Kinds, Sources, Rows, Purposes

RecInv == RecordingTypeOK /\ CallInv /\ TapeInv

-----------------------------------------------------------------------------
(* Recording *)

\* A thread of an earlier recorder changes nothing that is looked at.
LEMMA LateThread ==
    ASSUME RecInv, NEW t \in threads, t.rec # recorder.id,
           \/ ServeTool(t) \/ ToolFails(t) \/ PassOn(t) \/ UpstreamAnswers(t)
           \/ UpstreamFails(t) \/ EngineNotReached(t) \/ Record(t),
           UNCHANGED pc
    PROVE  RecInv'
<1> USE RecordingAssumption DEF RecInv, RecordingTypeOK, Recorder, Thread
<1>1. recorder' = recorder /\ main' = main
    BY DEF ServeTool, ToolFails, PassOn, UpstreamAnswers, UpstreamFails, EngineNotReached,
           Record, OnTape, Answered
<1>2. threads' \subseteq Thread /\ engine' = engine /\ faults' \in 0..MaxFaults
    BY DEF ServeTool, ToolFails, PassOn, UpstreamAnswers, UpstreamFails, EngineNotReached,
           Record, Answered, MovesTo, Fault
<1>3. PICK u \in Thread :
        u.rec = t.rec /\ threads' \in {threads \ {t}, (threads \ {t}) \cup {u}}
    BY DEF ServeTool, ToolFails, PassOn, UpstreamAnswers, UpstreamFails, EngineNotReached,
           Record, Answered, MovesTo
<1>4. Mine' = Mine
    BY <1>1, <1>3 DEF Mine
<1>5. CallInv' /\ TapeInv'
    BY <1>1, <1>3, <1>4 DEF CallInv, TapeInv, Calls
<1>6. QED BY <1>1, <1>2, <1>5

\* A thread of the recorder in use is the only one, and main.py waits for it or is down.
LEMMA OwnThread ==
    ASSUME RecInv, NEW t \in Mine
    PROVE  /\ Mine = {t} /\ main.at \in {"waiting", "down"} /\ pc # "take"
           /\ recorder.open = IF t.at = "open" THEN 1 ELSE 0
           /\ main.at = "waiting" => t.n = main.asked
           /\ main.at = "waiting" /\ recorder.failure = "none" =>
                Append(recorder.calls, [rec |-> recorder.id, n |-> t.n]) = Calls(main.asked)
<1> USE RecordingAssumption DEF RecInv, RecordingTypeOK, Recorder, Thread
<1>1. Mine = {t}
    BY DEF CallInv
<1>2. main.at \in {"waiting", "down"} /\ pc # "take"
    BY DEF CallInv, TapeInv
<1>3. recorder.open = (IF t.at = "open" THEN 1 ELSE 0) /\ (main.at = "waiting" => t.n = main.asked)
    BY <1>1 DEF CallInv
<1>4. ASSUME main.at = "waiting", recorder.failure = "none"
      PROVE  Append(recorder.calls, [rec |-> recorder.id, n |-> t.n]) = Calls(main.asked)
    <2>1. recorder.calls = Calls(main.asked - 1) /\ t.n = main.asked /\ main.asked \in 1..MaxCalls
        BY <1>3, <1>4 DEF TapeInv, Mine
    <2>2. QED BY <2>1 DEF Calls
<1>5. QED BY <1>1, <1>2, <1>3, <1>4

\* It has answered.
LEMMA ThreadEnds ==
    ASSUME RecInv, NEW t \in Mine, Answered(t), UNCHANGED <<pc, engine>>,
           recorder'.id = recorder.id, recorder'.open = 0,
           recorder' \in Recorder,
           faults' \in 0..MaxFaults,
           recorder'.failure = "none" =>
             /\ recorder.failure = "none"
             /\ recorder'.calls = Append(recorder.calls, [rec |-> recorder.id, n |-> t.n])
    PROVE  RecInv'
<1> USE RecordingAssumption DEF RecInv, RecordingTypeOK, Recorder, Thread
<1>1. threads' = threads \ {t} /\ Mine' = {}
    BY OwnThread DEF Mine, Answered
<1>2. /\ main' = IF main.at = "waiting" THEN [main EXCEPT !.at = "working"] ELSE main
      /\ main'.at \in {"working", "down"} /\ main'.asked = main.asked /\ pc' # "take"
    BY OwnThread DEF Answered, Mine
<1>3. RecordingTypeOK'
    BY <1>1, <1>2
<1>4. CallInv'
    BY <1>1, <1>2 DEF CallInv
<1>5. ASSUME main'.at = "working", recorder'.failure = "none"
      PROVE  recorder'.calls = Calls(main.asked)
    BY <1>2, <1>5, OwnThread DEF Mine
<1>6. \A n : Calls(n)' = Calls(n)
    BY DEF Calls
<1>7. TapeInv'
    BY <1>2, <1>5, <1>6 DEF TapeInv
<1>8. QED BY <1>3, <1>4, <1>7

\* It goes on to its next step.
LEMMA ThreadMoves ==
    ASSUME RecInv, NEW t \in Mine, NEW at \in {"open", "good", "bad"}, MovesTo(t, at),
           UNCHANGED <<pc, main, engine>>, faults' \in 0..MaxFaults,
           recorder' = [recorder EXCEPT !.open = IF at = "open" THEN 1 ELSE 0]
    PROVE  RecInv'
<1> USE RecordingAssumption DEF RecInv, RecordingTypeOK, Recorder, Thread
<1> DEFINE u == [t EXCEPT !.at = at]
<1>1. u \in Thread /\ u.rec = t.rec /\ u.n = t.n /\ u.at = at
    BY DEF Mine
<1>2. threads' = (threads \ {t}) \cup {u}
    BY DEF MovesTo
<1> HIDE DEF u
<1>3. Mine' = {u}
    BY <1>1, <1>2, OwnThread DEF Mine
<1>4. RecordingTypeOK'
    BY <1>1, <1>2
<1>5. CallInv'
    <2>1. \A v \in threads' : v.rec <= recorder'.id
        BY <1>1, <1>2 DEF CallInv, Mine
    <2>2. /\ main'.at \in {"waiting", "down"} /\ (main'.at = "waiting" => u.n = main'.asked)
          /\ recorder'.open = IF u.at = "open" THEN 1 ELSE 0
        BY <1>1, OwnThread
    <2>3. QED BY <1>3, <2>1, <2>2 DEF CallInv
<1>6. TapeInv'
    BY OwnThread DEF TapeInv, Calls
<1>7. QED BY <1>4, <1>5, <1>6

LEMMA ServeStep ==
    ASSUME RecInv, ServeNext, UNCHANGED pc
    PROVE  RecInv'
<1>1. PICK t \in threads :
        \/ ServeTool(t) \/ ToolFails(t) \/ PassOn(t) \/ UpstreamAnswers(t)
        \/ UpstreamFails(t) \/ EngineNotReached(t) \/ Record(t)
    BY DEF ServeNext
<1>2. CASE t.rec # recorder.id
    BY <1>1, <1>2, LateThread
<1>3. CASE t.rec = recorder.id
    <2> USE RecordingAssumption DEF RecInv, RecordingTypeOK, Recorder, Thread, OnTape, Added, Failed
    <2>1. t \in Mine /\ t.n \in 1..MaxCalls /\ recorder.id \in Nat
        BY <1>3 DEF Mine
    <2>2. [rec |-> t.rec, n |-> t.n] \in Call
        BY <1>3, <2>1 DEF Call
    <2>3. recorder.open = IF t.at = "open" THEN 1 ELSE 0
        BY <2>1, OwnThread
    <2> DEFINE Told == Append(recorder.calls, [rec |-> recorder.id, n |-> t.n])
    <2>Told. Told \in Seq(Call) /\ Added(t) = [recorder EXCEPT !.calls = Told]
        BY <1>3, <2>2
    <2> HIDE DEF Told, Added
    <2>Added. /\ Added(t) \in Recorder /\ Added(t).id = recorder.id /\ Added(t).open = recorder.open
          /\ Added(t).failure = recorder.failure /\ Added(t).calls = Told
        BY <2>Told
    <2>4. CASE ServeTool(t)
        <3>1. recorder' = Added(t) /\ Answered(t) /\ UNCHANGED <<pc, engine, faults>>
            BY <1>3, <2>4 DEF ServeTool
        <3>2. /\ recorder' \in Recorder /\ recorder'.id = recorder.id /\ recorder'.open = 0
              /\ recorder'.failure = recorder.failure /\ recorder'.calls = Told
            BY <2>Added, <2>3, <2>4, <3>1 DEF ServeTool
        <3>3. QED BY <2>1, <3>1, <3>2, ThreadEnds DEF Told
    <2>5. CASE ToolFails(t)
        <3>1. /\ recorder' = Failed(recorder, "service") /\ Answered(t) /\ UNCHANGED <<pc, engine>>
              /\ faults' \in 0..MaxFaults
            BY <1>3, <2>5 DEF ToolFails, Fault
        <3>2. /\ recorder' \in Recorder /\ recorder'.id = recorder.id /\ recorder'.open = 0
              /\ recorder'.failure # "none"
            BY <2>3, <2>5, <3>1 DEF ToolFails
        <3>3. QED BY <2>1, <3>1, <3>2, ThreadEnds
    <2>6. CASE PassOn(t)
        <3>1. /\ recorder' = [recorder EXCEPT !.open = @ + 1] /\ recorder.open = 0
              /\ MovesTo(t, "open") /\ UNCHANGED <<pc, main, engine>> /\ faults' \in 0..MaxFaults
            BY <1>3, <2>3, <2>6 DEF PassOn, Opened
        <3>2. recorder' = [recorder EXCEPT !.open = IF "open" = "open" THEN 1 ELSE 0]
            BY <3>1
        <3> HIDE DEF RecInv, RecordingTypeOK, Recorder, Thread, OnTape, Added, Failed
        <3>3. QED BY <2>1, <3>1, <3>2, ThreadMoves
    <2>7. CASE UpstreamAnswers(t)
        <3>1. /\ recorder' = [recorder EXCEPT !.open = @ - 1] /\ recorder.open = 1
              /\ MovesTo(t, "good") /\ UNCHANGED <<pc, main, engine>> /\ faults' \in 0..MaxFaults
            BY <1>3, <2>3, <2>7 DEF UpstreamAnswers, Closed
        <3>2. recorder' = [recorder EXCEPT !.open = IF "good" = "open" THEN 1 ELSE 0]
            BY <3>1
        <3> HIDE DEF RecInv, RecordingTypeOK, Recorder, Thread, OnTape, Added, Failed
        <3>3. QED BY <2>1, <3>1, <3>2, ThreadMoves
    <2>8. CASE UpstreamFails(t)
        <3>1. /\ recorder' = [recorder EXCEPT !.open = @ - 1] /\ recorder.open = 1
              /\ MovesTo(t, "bad") /\ UNCHANGED <<pc, main, engine>> /\ faults' \in 0..MaxFaults
            BY <1>3, <2>3, <2>8 DEF UpstreamFails, Closed, Fault
        <3>2. recorder' = [recorder EXCEPT !.open = IF "bad" = "open" THEN 1 ELSE 0]
            BY <3>1
        <3> HIDE DEF RecInv, RecordingTypeOK, Recorder, Thread, OnTape, Added, Failed
        <3>3. QED BY <2>1, <3>1, <3>2, ThreadMoves
    <2>9. CASE EngineNotReached(t)
        <3>1. /\ recorder' = Failed(Closed(t), "engine") /\ Answered(t)
              /\ UNCHANGED <<pc, engine, faults>> /\ t.at = "open"
            BY <1>3, <2>9 DEF EngineNotReached
        <3>2. Closed(t) \in Recorder /\ Closed(t).open = 0 /\ Closed(t).id = recorder.id
            BY <2>3, <3>1 DEF Closed
        <3>3. /\ recorder' \in Recorder /\ recorder'.id = recorder.id /\ recorder'.open = 0
              /\ recorder'.failure # "none"
            BY <3>1, <3>2
        <3>4. QED BY <2>1, <3>1, <3>3, ThreadEnds
    <2>10. CASE Record(t)
        <3>1. Answered(t) /\ UNCHANGED <<pc, engine, faults>> /\ t.at # "open"
            BY <2>10 DEF Record
        <3>2. \/ recorder' = Added(t)
              \/ \E source \in Sources : recorder' = Failed(recorder, source)
            BY <1>3, <2>10 DEF Record, FailsWith
        <3>3. CASE recorder' = Added(t)
            <4>1. /\ recorder' \in Recorder /\ recorder'.id = recorder.id /\ recorder'.open = 0
                  /\ recorder'.failure = recorder.failure /\ recorder'.calls = Told
                BY <2>Added, <2>3, <3>1, <3>3
            <4>2. QED BY <2>1, <3>1, <4>1, ThreadEnds DEF Told
        <3>4. CASE \E source \in Sources : recorder' = Failed(recorder, source)
            <4>1. /\ recorder' \in Recorder /\ recorder'.id = recorder.id /\ recorder'.open = 0
                  /\ recorder'.failure # "none"
                BY <2>3, <3>1, <3>4
            <4>2. QED BY <2>1, <3>1, <4>1, ThreadEnds
        <3>5. QED BY <3>2, <3>3, <3>4
    <2>11. QED BY <1>1, <2>4, <2>5, <2>6, <2>7, <2>8, <2>9, <2>10
<1>4. QED BY <1>2, <1>3

-----------------------------------------------------------------------------
(* main.py, and what the runner does to it and to the session. *)

LEMMA CallsFrame == UNCHANGED recorder => \A n : Calls(n)' = Calls(n)
BY DEF Calls

LEMMA MainAtType ==
    ASSUME NEW at \in {"down", "idle", "working"}
    PROVE  MainAt(at) \in [at : {"down", "idle", "working"}, asked : 0..MaxCalls]
<1>1. 0 \in 0..MaxCalls
    BY RecordingAssumption
<1>2. QED BY <1>1 DEF MainAt

\* main.py and the engine come and go beside the recorder and its threads.
LEMMA MainStep ==
    ASSUME RecInv, UNCHANGED <<recorder, threads>>, engine' \in {"up", "gone"},
           faults' \in 0..MaxFaults,
           \/ main' = main /\ (pc' # "take" \/ pc' = pc)
           \/ main' = [main EXCEPT !.at = "down"] /\ (pc' # "take" \/ pc' = pc)
           \/ main' = MainDown /\ pc' # "take"
           \/ main' = MainAt("idle") /\ Mine = {} /\ pc' # "take"
    PROVE  RecInv'
<1> USE RecordingAssumption DEF RecInv, RecordingTypeOK, MainDown
<1>1. RecordingTypeOK'
    <2>1. CASE main' = main
        BY <2>1
    <2>2. CASE main' = [main EXCEPT !.at = "down"]
        BY <2>2
    <2>3. CASE main' = MainAt("down") \/ main' = MainAt("idle")
        BY <2>3, MainAtType
    <2>4. QED BY <2>1, <2>2, <2>3
<1>2. Mine' = Mine /\ \A n : Calls(n)' = Calls(n)
    BY CallsFrame DEF Mine
<1>3. CallInv'
    BY <1>2 DEF CallInv, MainAt
<1>4. TapeInv'
    BY <1>2 DEF TapeInv, MainAt
<1>5. QED BY <1>1, <1>3, <1>4

LEMMA AskStep ==
    ASSUME RecInv, NEW kind \in Kinds, Ask(kind), UNCHANGED pc
    PROVE  RecInv'
<1> USE RecordingAssumption DEF RecInv, RecordingTypeOK, Recorder, Thread, Ask
<1> DEFINE u == [rec |-> recorder.id, n |-> main.asked + 1, kind |-> kind, at |-> "in"]
<1>1. /\ u \in Thread /\ u.rec = recorder.id /\ u.n = main.asked + 1 /\ u.at = "in"
      /\ main' = [main EXCEPT !.at = "waiting", !.asked = main.asked + 1]
      /\ threads' = threads \cup {u} /\ Mine = {} /\ UNCHANGED <<recorder, engine, faults>>
      /\ main'.at = "waiting" /\ main'.asked = main.asked + 1
    BY DEF CallInv
<1> HIDE DEF u
<1>2. Mine' = {u}
    BY <1>1 DEF Mine
<1>3. RecordingTypeOK'
    <2>1. main'.asked \in 0..MaxCalls
        BY <1>1
    <2>2. main' \in [at : {"waiting"}, asked : 0..MaxCalls]
        BY <1>1, <2>1
    <2>3. QED BY <1>1, <2>2
<1>4. CallInv'
    BY <1>1, <1>2 DEF CallInv
<1>5. TapeInv'
    BY <1>1, CallsFrame DEF TapeInv
<1>6. QED BY <1>3, <1>4, <1>5

LEMMA AnswerStep == ASSUME RecInv, AnswerRequest, UNCHANGED pc PROVE RecInv'
<1> USE RecordingAssumption DEF RecInv, RecordingTypeOK, AnswerRequest
<1>1. /\ RecordingTypeOK' /\ main'.at = "answered" /\ main'.asked = main.asked
      /\ main.at = "working" /\ UNCHANGED <<recorder, threads>>
    OBVIOUS
<1>2. Mine' = Mine /\ \A n : Calls(n)' = Calls(n)
    BY CallsFrame DEF Mine
<1>3. CallInv' /\ TapeInv'
    BY <1>1, <1>2 DEF CallInv, TapeInv
<1>4. QED BY <1>1, <1>3

\* A new request: no thread has the number of the new recorder.
LEMMA PostStep == ASSUME RecInv, Post PROVE RecInv'
<1> USE RecordingAssumption DEF RecInv, RecordingTypeOK, Recorder, Thread, Post, MainAt
<1>1. /\ recorder' = NewRecorder(recorder.id + 1) /\ threads' = threads /\ recorder.id \in Nat
      /\ main'.at \in {"working", "down"} /\ main'.asked = 0 /\ pc' = "call"
    OBVIOUS
<1>2. Mine' = {}
    BY <1>1 DEF Mine, CallInv, NewRecorder
<1>3. recorder'.calls = Calls(0)'
    BY <1>1 DEF Calls, NewRecorder
<1>4. RecordingTypeOK'
    BY <1>1 DEF NewRecorder
<1>5. CallInv'
    BY <1>1, <1>2 DEF CallInv, NewRecorder
<1>6. TapeInv'
    BY <1>1, <1>3 DEF TapeInv
<1>7. QED BY <1>4, <1>5, <1>6

\* The recording of a row is taken when it is complete.
LEMMA ReturnStep == ASSUME RecInv, CallReturns PROVE RecInv'
<1> USE RecordingAssumption DEF RecInv, RecordingTypeOK, CallReturns
<1>1. CASE pc' # "take"
    BY <1>1, MainStep
<1>2. CASE pc' = "take"
    <2>1. main.at = "answered" /\ recorder.failure = "none" /\ UNCHANGED recording
        BY <1>2 DEF RowProblem
    <2>2. Mine = {} /\ Mine' = Mine /\ \A n : Calls(n)' = Calls(n)
        BY <2>1, CallsFrame DEF Mine, CallInv
    <2>3. QED BY <2>1, <2>2 DEF CallInv, TapeInv
<1>3. QED BY <1>1, <1>2

LEMMA EndedRec ==
    ASSUME NEW where, Ended(where), where # "take", faults' \in 0..MaxFaults
    PROVE  RecInv'
BY RecordingAssumption
   DEF Ended, NewRecorder, MainDown, MainAt, RecInv, RecordingTypeOK, Recorder, CallInv,
       TapeInv, Mine

LEMMA RecStep == ASSUME RecInv, Next PROVE RecInv'
<1> USE RecordingAssumption
<1>1. faults \in 0..MaxFaults /\ engine \in {"up", "gone"}
    BY DEF RecInv, RecordingTypeOK
<1>2. Fault => faults' \in 0..MaxFaults
    BY <1>1 DEF Fault
<1>3. CASE Start \/ Reuse \/ Finish \/ Generate \/ GenerateAgain \/ HasTicket \/ IssueTicket
    BY <1>1, <1>2, <1>3, MainStep
       DEF Start, Reuse, Finish, Generate, GenerateAgain, EngineFails, HasTicket, IssueTicket
<1>4. CASE RunRow \/ Revive \/ RedoOutage \/ RedoRow
    <2>1. FirstStep # "take"
        BY DEF FirstStep
    <2>2. QED BY <1>1, <1>4, <2>1, MainStep DEF RunRow, Revive, RedoOutage, RedoRow, StopMain
<1>5. CASE TimeOut \/ Sign \/ Save \/ AnswerLost \/ UploadSaved \/ InputsChange \/ WindowEnds
    BY <1>1, <1>2, <1>5, MainStep
       DEF TimeOut, Sign, StopMain, Save, AnswerLost, UploadSaved, InputsChange, WindowEnds
<1>6. CASE Take
    <2>1. Mine = {}
        BY <1>6 DEF RecInv, TapeInv, Take
    <2>2. main' = MainDown \/ main' = MainAt("idle")
        BY <1>6 DEF Take, MainDown
    <2>3. QED BY <1>1, <1>6, <2>1, <2>2, MainStep DEF Take
<1>7. CASE Stop \/ Death \/ Uploaded
    BY <1>1, <1>2, <1>7, EndedRec DEF Stop, EngineFails, Death, Uploaded
<1>8. CASE Recording
    <2>1. UNCHANGED pc
        BY <1>8 DEF Recording
    <2>2. CASE MainDies \/ EngineDies
        BY <1>1, <1>2, <2>1, <2>2, MainStep DEF MainDies, EngineDies
    <2>3. QED BY <1>8, <2>1, <2>2, AskStep, AnswerStep, ServeStep DEF Recording
<1>9. QED BY <1>3, <1>4, <1>5, <1>6, <1>7, <1>8, PostStep, ReturnStep DEF Next, Runner

-----------------------------------------------------------------------------
(* The types of the run. *)

RunTypeOK ==
    /\ pc \in {"down"} \cup AtRow \cup {"row", "save", "upload", "done"}
    /\ row \in 1..Len(Plan) + 1
    /\ failures \in Nat /\ why \in Sources \cup {"none"}
    /\ renew \in BOOLEAN /\ window \in {"shut", "open", "over"}

FileTypeOK ==
    /\ hand \in Seq(Entry) /\ entries \in Seq(Entry)
    /\ journal \in [version : Nat, rows : Seq(Entry), torn : BOOLEAN]
    /\ signed \in Transcript \cup {NoTranscript} /\ saved \in Transcript \cup {NoTranscript}
    /\ received \subseteq Transcript

LEMMA ElementType == ASSUME NEW S, NEW s \in Seq(S), NEW k \in 1..Len(s) PROVE s[k] \in S
OBVIOUS

LEMMA AppendIs ==
    ASSUME NEW S, NEW s \in Seq(S), NEW e \in S
    PROVE  /\ Append(s, e) \in Seq(S) /\ Len(Append(s, e)) = Len(s) + 1
           /\ Append(s, e)[Len(s) + 1] = e
           /\ \A k \in 1..Len(s) : Append(s, e)[k] = s[k]
OBVIOUS

LEMMA FirstStepType == FirstStep \in {"direct", "ticket", "main"}
BY DEF FirstStep

LEMMA TypeStep == ASSUME TypeOK, RecInv, RecInv', HandInv, RunInv, SealInv, Next PROVE TypeOK'
<1>1. RecordingTypeOK /\ RecordingTypeOK' /\ RowProblem \in Sources \cup {"none"}
    BY DEF RecInv, RecordingTypeOK, Recorder, RowProblem
<1>2. RunTypeOK /\ FileTypeOK
    BY DEF TypeOK, RunTypeOK, FileTypeOK, AtRow
<1>3. /\ tree \in {"none", "own", "reference"}
      /\ tickets \in [Items \X Purposes -> Nat] /\ desk \subseteq Nat /\ issued \in Nat
      /\ version \in Nat /\ life \in Nat
    BY DEF TypeOK
<1>4. Len(Plan) \in Nat \ {0} /\ \A r \in 1..Len(Plan) : Plan[r] \in RowType
    BY PlanAssumption
<1>5. RunTypeOK'
    <2> USE <1>1, <1>2, <1>4, FirstStepType DEF RunTypeOK, AtRow
    <2>1. ASSUME NEW where \in {"down", "done"}, Ended(where) PROVE RunTypeOK'
        <3>1. renew' \in BOOLEAN
            BY <2>1, Zenon DEF Ended, Fresh
        <3>2. row' \in 1..Len(Plan) + 1
            BY <2>1 DEF Ended, Fresh
        <3>3. QED BY <2>1, <3>1, <3>2 DEF Ended, Fresh
    <2>2. CASE Stop \/ Death \/ Uploaded
        BY <2>1, <2>2 DEF Stop, Death, Uploaded
    <2>3. CASE Reuse \/ Finish
        <3>1. renew' = renew \/ renew' = FALSE
            BY <2>3 DEF Reuse, Finish, Fresh
        <3>2. renew' \in BOOLEAN
            BY <3>1, Zenon
        <3>3. row' \in 1..Len(Plan) + 1
            BY <2>3 DEF Reuse, Finish, RunInv
        <3>4. /\ pc' \in {"finish", "row"} /\ failures' \in Nat /\ why' \in Sources \cup {"none"}
              /\ window' \in {"shut", "open", "over"}
            BY <2>3 DEF Reuse, Finish, Fresh
        <3>5. QED BY <3>2, <3>3, <3>4
    <2>4. CASE Start \/ Generate \/ GenerateAgain \/ HasTicket \/ IssueTicket \/ RunRow \/ Revive
        BY <2>4 DEF Start, Generate, GenerateAgain, HasTicket, IssueTicket, RunRow, Revive
    <2>5. CASE RedoOutage \/ RedoRow
        <3>1. renew' = TRUE
            BY <2>5 DEF RedoOutage, RedoRow
        <3>2. renew' \in BOOLEAN
            BY <3>1, Zenon
        <3>3. QED BY <2>5, <3>2 DEF RedoOutage, RedoRow
    <2>6. CASE Post \/ CallReturns \/ TimeOut \/ Take \/ Sign \/ Save
        BY <2>6 DEF Post, CallReturns, TimeOut, Take, Sign, Save
    <2>7. CASE AnswerLost \/ UploadSaved \/ InputsChange \/ WindowEnds \/ Recording
        BY <2>7 DEF AnswerLost, UploadSaved, InputsChange, WindowEnds, Recording
    <2>8. QED BY <2>2, <2>3, <2>4, <2>5, <2>6, <2>7 DEF Next, Runner
<1>6. FileTypeOK'
    <2> USE <1>2, <1>3 DEF FileTypeOK
    <2> DEFINE File == [version : Nat, rows : Seq(Entry), torn : BOOLEAN]
    <2>1. Loaded(journal) \in File
        <3>1. [version |-> version, rows |-> <<>>, torn |-> FALSE] \in File
            OBVIOUS
        <3>2. [journal EXCEPT !.torn = FALSE] \in File
            OBVIOUS
        <3>3. QED BY <3>1, <3>2 DEF Loaded
    <2>2. [journal EXCEPT !.torn = TRUE] \in File
        OBVIOUS
    <2>3. CASE Start
        BY <2>1, <2>3 DEF Start
    <2>Ended. ASSUME NEW where, Ended(where)
          PROVE  /\ hand' \in Seq(Entry) /\ entries' \in Seq(Entry)
                 /\ signed' \in Transcript \cup {NoTranscript}
        BY <2>Ended DEF Ended, Fresh
    <2>4. CASE Stop \/ Death
        <3>1. journal' \in File /\ UNCHANGED <<saved, received>>
            BY <2>2, <2>4 DEF Stop, Death
        <3>2. QED BY <2>4, <2>Ended, <3>1 DEF Stop, Death
    <2>5. CASE Uploaded \/ AnswerLost \/ UploadSaved
        <3>1. /\ \/ pc = "upload" /\ received' = received \cup {signed}
                 \/ saved # NoTranscript /\ received' = received \cup {saved}
              /\ UNCHANGED <<journal, saved>>
            BY <2>5 DEF Uploaded, AnswerLost, UploadSaved
        <3>2. received' \subseteq Transcript
            BY <3>1 DEF SealInv
        <3>3. QED BY <2>5, <2>Ended, <3>1, <3>2 DEF Uploaded, AnswerLost, UploadSaved
    <2>6. CASE Reuse
        <3>1. PICK k \in 1..Len(journal.rows) : entries' = Append(entries, journal.rows[k])
            BY <2>6 DEF Reuse, Kept
        <3>2. journal.rows[k] \in Entry
            OBVIOUS
        <3>3. QED BY <2>6, <3>1, <3>2 DEF Reuse
    <2>7. CASE Finish
        <3>1. pc = "finish"
            BY <2>7 DEF Finish
        <3>2. Len(hand) = 1
            BY <3>1 DEF HandInv
        <3>3. hand \in Seq(Entry) /\ 1 \in 1..Len(hand)
            BY <3>2
        <3>4. hand[1] \in Entry
            BY <3>3, ElementType
        <3>5. Append(journal.rows, hand[1]) \in Seq(Entry)
            BY <3>4
        <3>6. [journal EXCEPT !.rows = Append(@, hand[1])] \in File
            BY <3>5
        <3>7. Lengthened(journal, hand[1]) \in File
            BY <3>6 DEF Lengthened
        <3>8. QED BY <2>7, <3>4, <3>7 DEF Finish, Fresh
    <2>8. CASE Generate
        <3>1. DirectEntry \in Entry
            BY <2>8 DEF DirectEntry, Entry, Generate, RunInv, AtRow
        <3>2. QED BY <2>8, <3>1 DEF Generate
    <2>9. CASE Take
        <3>1. /\ row \in Rows /\ (Recorded = CallsMade) \in BOOLEAN
            BY <1>1, <2>9 DEF Take, RunInv, AtRow, RecordingTypeOK
        <3>2. [row |-> row, life |-> life, version |-> version,
               exact |-> Recorded = CallsMade] \in Entry
            BY <3>1 DEF Entry
        <3>3. QED BY <2>9, <3>2 DEF Take
    <2>10. CASE Sign
        <3>1. SignedAgain \in Transcript
            BY DEF SignedAgain, Transcript
        <3>2. QED BY <2>10, <3>1 DEF Sign
    <2>11. CASE Save
        BY <2>11 DEF Save
    <2>12. CASE RunRow \/ GenerateAgain \/ Revive \/ HasTicket \/ IssueTicket \/ Post \/ CallReturns
        BY <2>12 DEF RunRow, GenerateAgain, Revive, HasTicket, IssueTicket, Post, CallReturns
    <2>13. CASE TimeOut \/ RedoOutage \/ RedoRow \/ InputsChange \/ WindowEnds \/ Recording
        BY <2>13 DEF TimeOut, RedoOutage, RedoRow, InputsChange, WindowEnds, Recording
    <2>14. QED BY <2>3, <2>4, <2>5, <2>6, <2>7, <2>8, <2>9, <2>10, <2>11, <2>12, <2>13
               DEF Next, Runner
<1>7. /\ tree' \in {"none", "own", "reference"}
      /\ tickets' \in [Items \X Purposes -> Nat] /\ desk' \subseteq Nat /\ issued' \in Nat
      /\ version' \in Nat /\ life' \in Nat
    <2> USE <1>3
    <2>1. CASE Start \/ Stop \/ Death \/ Uploaded \/ AnswerLost \/ UploadSaved
        BY <2>1 DEF Start, Stop, Death, Uploaded, AnswerLost, UploadSaved, Ended
    <2>2. CASE Reuse \/ Finish \/ Generate \/ Take \/ Sign \/ Save
        BY <2>2 DEF Reuse, Finish, Generate, Take, Sign, Save, StopMain
    <2>3. CASE IssueTicket
        <3>1. issued + 1 \in Nat
            OBVIOUS
        <3>2. Honoured \subseteq Nat
            BY <3>1, Zenon DEF Honoured
        <3>3. [tickets EXCEPT ![Needs(row)] = issued + 1] \in [Items \X Purposes -> Nat]
            BY <3>1
        <3>4. QED BY <2>3, <3>1, <3>2, <3>3 DEF IssueTicket
    <2>4. CASE Post
        BY <1>2, <1>4, <2>4 DEF Post, RunInv, AtRow, RowType
    <2>5. CASE RunRow \/ GenerateAgain \/ Revive \/ HasTicket \/ CallReturns
        BY <2>5 DEF RunRow, GenerateAgain, Revive, HasTicket, CallReturns
    <2>6. CASE TimeOut \/ RedoOutage \/ RedoRow \/ WindowEnds \/ Recording
        BY <2>6 DEF TimeOut, RedoOutage, RedoRow, StopMain, WindowEnds, Recording
    <2>7. CASE InputsChange
        BY <2>7 DEF InputsChange
    <2>8. QED BY <2>1, <2>2, <2>3, <2>4, <2>5, <2>6, <2>7 DEF Next, Runner
<1>8. QED BY <1>1, <1>5, <1>6, <1>7 DEF TypeOK, RunTypeOK, FileTypeOK, AtRow

-----------------------------------------------------------------------------
(* The rows, and the journal. *)

RowsInv == DiskInv /\ RunInv /\ HandInv

\* Steps within a row, and those that change nothing of rows and journal.
LEMMA WithinRow ==
    ASSUME TypeOK, RowsInv, UNCHANGED <<row, entries, journal, version>>,
           \/ pc' = pc /\ hand' = hand
           \/ /\ pc \in AtRow /\ pc' \in AtRow \ {"finish", "ticket"}
              /\ hand' = hand /\ pc # "finish"
           \/ /\ pc \in AtRow /\ pc' = "ticket" /\ Plan[row].purpose # "none"
              /\ hand' = hand /\ pc # "finish"
           \/ /\ pc \in AtRow /\ pc' = "finish" /\ Len(hand') = 1
              /\ hand'[1].row = row /\ hand'[1].version = version /\ hand'[1].exact
           \/ pc = "row" /\ row = Len(Plan) + 1 /\ pc' = "save" /\ hand' = hand
           \/ pc = "save" /\ pc' = "upload" /\ hand' = hand
    PROVE  RowsInv'
<1>1. DiskInv'
    BY DEF RowsInv, DiskInv
<1>2. RunInv'
    BY DEF RowsInv, RunInv, Over, AtRow
<1>3. HandInv'
    BY DEF RowsInv, HandInv, AtRow
<1>4. QED BY <1>1, <1>2, <1>3 DEF RowsInv

\* The end of a process leaves the journal, but for a line cut short.
LEMMA EndedRows ==
    ASSUME RowsInv, NEW where \in Over, Ended(where), UNCHANGED version,
           \/ journal' = journal
           \/ journal' = [journal EXCEPT !.torn = TRUE],
           journal \in [version : Nat, rows : Seq(Entry), torn : BOOLEAN]
    PROVE  RowsInv'
<1>1. journal'.rows = journal.rows /\ journal'.version = journal.version
    OBVIOUS
<1>2. pc' \in Over /\ entries' = <<>> /\ hand' = <<>> /\ row' = 1
    BY DEF Ended, Fresh
<1>3. DiskInv'
    BY <1>1 DEF RowsInv, DiskInv
<1>4. RunInv' /\ HandInv'
    BY <1>2 DEF RunInv, HandInv, Over, AtRow
<1>5. QED BY <1>3, <1>4 DEF RowsInv

\* A row of the journal is at its own place.
LEMMA KeptIs ==
    ASSUME RowsInv, TypeOK, NEW r \in Rows
    PROVE  Kept(r) = IF r <= Len(journal.rows) THEN {r} ELSE {}
<1>1. Len(journal.rows) \in Nat /\ \A k \in 1..Len(journal.rows) : journal.rows[k].row = k
    BY DEF RowsInv, DiskInv, TypeOK
<1>2. QED BY <1>1 DEF Kept

LEMMA StartRows == ASSUME TypeOK, RowsInv, Start PROVE RowsInv'
<1>1. /\ journal' = Loaded(journal) /\ version' = version /\ entries' = entries /\ hand' = hand
      /\ row' = row /\ pc' = "row" /\ pc \in Over
    BY DEF Start, Over
<1>2. entries = <<>> /\ row = 1
    BY <1>1 DEF RowsInv, RunInv
<1>3. /\ ~journal'.torn /\ journal'.version = version
      /\ journal'.rows = <<>> \/ (journal'.rows = journal.rows /\ journal.version = version)
    <2>1. /\ Loaded(journal).torn = FALSE /\ Loaded(journal).version = version
          /\ \/ Loaded(journal).rows = <<>>
             \/ Loaded(journal).rows = journal.rows /\ journal.version = version
        <3>1. CASE journal.version # version
            BY <3>1 DEF Loaded
        <3>2. CASE journal.version = version
            BY <3>2 DEF Loaded, TypeOK
        <3>3. QED BY <3>1, <3>2
    <2>2. ~journal'.torn
        BY <1>1, <2>1, Zenon
    <2>3. /\ journal'.version = version
          /\ journal'.rows = <<>> \/ (journal'.rows = journal.rows /\ journal.version = version)
        BY <1>1, <2>1
    <2>4. QED BY <2>2, <2>3
<1>4. DiskInv'
    <2>1. CASE journal'.rows = <<>>
        BY <1>1, <1>3, <2>1 DEF DiskInv, TypeOK
    <2>2. CASE journal'.rows = journal.rows /\ journal.version = version
        BY <1>1, <1>3, <2>2 DEF RowsInv, DiskInv
    <2>3. QED BY <1>3, <2>1, <2>2
<1>5. RunInv'
    BY <1>1, <1>2, <1>3 DEF RunInv, Over, AtRow, TypeOK
<1>6. HandInv'
    BY <1>1 DEF RowsInv, HandInv, Over
<1>7. QED BY <1>4, <1>5, <1>6 DEF RowsInv

LEMMA ReuseRows == ASSUME TypeOK, RowsInv, Reuse PROVE RowsInv'
<1>1. PICK k \in Kept(row) : entries' = Append(entries, journal.rows[k])
    BY DEF Reuse
<1>2. /\ row \in Rows /\ pc = "row" /\ pc' = "row" /\ row' = row + 1
      /\ UNCHANGED <<hand, journal, version>>
    BY DEF Reuse
<1>3. k = row /\ row <= Len(journal.rows)
    BY <1>1, <1>2, KeptIs
<1>4. Len(entries) = row - 1 /\ Len(entries) \in Nat /\ entries \in Seq(Entry)
    BY <1>2 DEF RowsInv, RunInv, Over, TypeOK
<1>5. /\ Len(entries') = row /\ entries'[row] = journal.rows[row]
      /\ \A j \in 1..row - 1 : entries'[j] = entries[j]
    <2>1. journal.rows[row] \in Entry
        BY <1>2, <1>3, ElementType DEF TypeOK
    <2>2. /\ Len(entries') = Len(entries) + 1 /\ entries'[Len(entries) + 1] = journal.rows[row]
          /\ \A j \in 1..Len(entries) : entries'[j] = entries[j]
        BY <1>1, <1>3, <1>4, <2>1, AppendIs
    <2>3. QED BY <1>2, <1>4, <2>2
<1>6. DiskInv' /\ HandInv'
    BY <1>2 DEF RowsInv, DiskInv, HandInv
<1>7. RunInv'
    <2>1. \A j \in 1..Len(entries') : entries'[j] = journal'.rows[j]
        BY <1>2, <1>4, <1>5 DEF RowsInv, RunInv, Over
    <2>2. ~journal'.torn /\ journal'.version = version'
        BY <1>2 DEF RowsInv, RunInv, Over
    <2>3. QED BY <1>2, <1>3, <1>5, <2>1, <2>2 DEF RunInv, Over, AtRow
<1>8. QED BY <1>6, <1>7 DEF RowsInv

\* The row that is run is the next one of the journal.
LEMMA RunRowRows == ASSUME TypeOK, RowsInv, RunRow PROVE RowsInv'
<1>1. /\ row \in Rows /\ pc = "row" /\ pc' = FirstStep
      /\ UNCHANGED <<row, entries, hand, journal, version>> /\ Kept(row) = {}
    BY DEF RunRow
<1>2. /\ FirstStep \in {"direct", "ticket", "main"}
      /\ FirstStep = "ticket" => Plan[row].purpose # "none"
    BY DEF FirstStep
<1>3. Len(journal.rows) = row - 1
    <2>1. Len(journal.rows) \in Nat /\ row \in Nat
        BY <1>1 DEF TypeOK
    <2>2. ~(row <= Len(journal.rows))
        BY <1>1, KeptIs
    <2>3. QED BY <1>1, <2>1, <2>2 DEF RowsInv, RunInv, Over
<1>4. DiskInv' /\ HandInv'
    BY <1>1, <1>2 DEF RowsInv, DiskInv, HandInv
<1>5. RunInv'
    BY <1>1, <1>2, <1>3 DEF RowsInv, RunInv, Over, AtRow
<1>6. QED BY <1>4, <1>5 DEF RowsInv

\* A finished row goes to the journal, where its place is.
LEMMA FinishRows == ASSUME TypeOK, RowsInv, Finish PROVE RowsInv'
<1> DEFINE e == hand[1]
<1>1. /\ pc = "finish" /\ journal' = Lengthened(journal, e) /\ entries' = Append(entries, e)
      /\ row' = row + 1 /\ pc' = "row" /\ hand' = <<>> /\ version' = version
    BY DEF Finish, Fresh
<1>2. Len(hand) = 1 /\ e.row = row /\ e.version = version /\ e.exact
    BY <1>1 DEF RowsInv, HandInv
<1>3. e \in Entry /\ entries \in Seq(Entry) /\ journal.rows \in Seq(Entry)
    <2>1. hand \in Seq(Entry) /\ 1 \in 1..Len(hand)
        BY <1>2 DEF TypeOK
    <2>2. QED BY <2>1, ElementType DEF TypeOK
<1>4. /\ row \in Rows /\ Len(journal.rows) = row - 1 /\ Len(entries) = row - 1
      /\ ~journal.torn /\ journal.version = version
      /\ \A k \in 1..Len(entries) : entries[k] = journal.rows[k]
    BY <1>1 DEF RowsInv, RunInv, Over, AtRow
<1> HIDE DEF e
<1>5. journal' = [journal EXCEPT !.rows = Append(journal.rows, e)]
    BY <1>1, <1>4 DEF Lengthened
<1>6. /\ journal'.rows = Append(journal.rows, e) /\ journal'.version = version /\ ~journal'.torn
    BY <1>4, <1>5 DEF TypeOK
<1>7. /\ Len(journal'.rows) = row /\ journal'.rows[row] = e
      /\ \A k \in 1..row - 1 : journal'.rows[k] = journal.rows[k]
    BY <1>3, <1>4, <1>6, AppendIs
<1>8. /\ Len(entries') = row /\ entries'[row] = e
      /\ \A k \in 1..row - 1 : entries'[k] = entries[k]
    BY <1>1, <1>3, <1>4, AppendIs
<1>9. DiskInv'
    BY <1>1, <1>2, <1>4, <1>6, <1>7 DEF RowsInv, DiskInv, TypeOK
<1>10. RunInv'
    <2>1. \A k \in 1..Len(entries') : entries'[k] = journal'.rows[k]
        BY <1>4, <1>7, <1>8
    <2>2. QED BY <1>1, <1>4, <1>6, <1>7, <1>8, <2>1 DEF RunInv, Over, AtRow
<1>11. HandInv'
    BY <1>1 DEF HandInv
<1>12. QED BY <1>9, <1>10, <1>11 DEF RowsInv

\* What is taken has the calls that were made, and no other.
LEMMA TakeRows == ASSUME TypeOK, TapeInv, RowsInv, Take PROVE RowsInv'
<1>1. Recorded = CallsMade
    BY DEF TapeInv, Take, Recorded, CallsMade, Calls
<1>2. /\ pc = "take" /\ pc' = "finish" /\ UNCHANGED <<row, entries, journal, version>>
      /\ hand' = <<[row |-> row, life |-> life, version |-> version,
                    exact |-> Recorded = CallsMade]>>
    BY DEF Take
<1>3. Len(hand') = 1 /\ hand'[1].row = row /\ hand'[1].version = version /\ hand'[1].exact
    BY <1>1, <1>2
<1>4. QED BY <1>2, <1>3, WithinRow DEF AtRow

LEMMA RowsStep == ASSUME TypeOK, TapeInv, RowsInv, Next PROVE RowsInv'
<1>1. CASE Stop \/ Death \/ Uploaded
    <2>1. /\ \E where \in Over : Ended(where)
          /\ journal' = journal \/ journal' = [journal EXCEPT !.torn = TRUE]
          /\ UNCHANGED version
        BY <1>1 DEF Stop, Death, Uploaded, Over
    <2>2. journal \in [version : Nat, rows : Seq(Entry), torn : BOOLEAN]
        BY DEF TypeOK
    <2>3. QED BY <2>1, <2>2, EndedRows
<1>2. CASE Generate
    <2>1. Len(hand') = 1 /\ hand'[1].row = row /\ hand'[1].version = version /\ hand'[1].exact
        BY <1>2 DEF Generate, DirectEntry
    <2>2. QED BY <1>2, <2>1, WithinRow DEF Generate, AtRow
<1>3. CASE GenerateAgain \/ HasTicket \/ IssueTicket \/ Post \/ CallReturns \/ TimeOut
    BY <1>3, WithinRow
       DEF GenerateAgain, EngineFails, HasTicket, IssueTicket, Post, CallReturns, TimeOut, AtRow
<1>4. CASE Revive \/ RedoOutage \/ RedoRow
    <2>1. /\ FirstStep \in {"direct", "ticket", "main"}
          /\ FirstStep = "ticket" => Plan[row].purpose # "none"
        BY DEF FirstStep
    <2>2. QED BY <1>4, <2>1, WithinRow DEF Revive, RedoOutage, RedoRow, AtRow
<1>5. CASE Sign \/ Save
    BY <1>5, WithinRow DEF Sign, Save
<1>6. CASE AnswerLost \/ UploadSaved \/ WindowEnds \/ Recording
    BY <1>6, WithinRow DEF AnswerLost, UploadSaved, WindowEnds, Recording
<1>7. CASE InputsChange
    <2>1. DiskInv'
        BY <1>7 DEF InputsChange, RowsInv, DiskInv, TypeOK
    <2>2. RunInv' /\ HandInv'
        BY <1>7 DEF InputsChange, RowsInv, RunInv, HandInv, Over, AtRow
    <2>3. QED BY <2>1, <2>2 DEF RowsInv
<1>8. QED BY <1>1, <1>2, <1>3, <1>4, <1>5, <1>6, <1>7, StartRows, ReuseRows, RunRowRows,
             FinishRows, TakeRows DEF Next, Runner

-----------------------------------------------------------------------------
(* Tickets *)

LEMMA IssueKeeps == ASSUME TypeOK, RunInv, TicketInv, IssueTicket PROVE TicketInv'
<1> DEFINE n == Needs(row)
<1>1. n \in DOMAIN tickets
    <2>1. row \in Rows /\ Plan[row].purpose # "none"
        BY DEF IssueTicket, RunInv, AtRow
    <2>2. Plan[row] \in RowType
        BY <2>1, PlanAssumption, ElementType
    <2>3. QED BY <2>1, <2>2 DEF Needs, Items, RowType, TypeOK
<1> HIDE DEF n
<1>2. /\ issued \in Nat /\ issued' = issued + 1 /\ desk' = (desk \ {tickets[n]}) \cup {issued'}
      /\ tickets' = [tickets EXCEPT ![n] = issued'] /\ \A k \in DOMAIN tickets : tickets[k] \in Nat
    BY DEF IssueTicket, Honoured, n, TypeOK
<1>3. /\ DOMAIN tickets' = DOMAIN tickets /\ tickets'[n] = issued'
      /\ \A k \in DOMAIN tickets : k # n => tickets'[k] = tickets[k]
    BY <1>1, <1>2 DEF TypeOK
<1>4. \A k \in DOMAIN tickets : tickets[k] <= issued /\ tickets[k] # issued'
    BY <1>2 DEF TicketInv
<1>5. \A k \in DOMAIN tickets' : tickets'[k] <= issued'
    BY <1>2, <1>3, <1>4
<1>6. \A j, k \in DOMAIN tickets' : tickets'[j] = tickets'[k] => j = k \/ tickets'[j] = 0
    BY <1>3, <1>4 DEF TicketInv
<1>7. desk' = {tickets'[k] : k \in DOMAIN tickets'} \ {0}
    <2>1. desk = {tickets[k] : k \in DOMAIN tickets} \ {0}
        BY DEF TicketInv, OneTicketPerItem
    <2>2. ASSUME NEW x \in desk' PROVE x # 0 /\ \E k \in DOMAIN tickets' : x = tickets'[k]
        <3>1. CASE x = issued'
            BY <1>1, <1>2, <1>3, <3>1
        <3>2. CASE x # issued'
            BY <1>2, <1>3, <2>1, <2>2, <3>2
        <3>3. QED BY <3>1, <3>2
    <2>3. ASSUME NEW k \in DOMAIN tickets', tickets'[k] # 0 PROVE tickets'[k] \in desk'
        <3>1. CASE k = n
            BY <1>2, <1>3, <3>1
        <3>2. CASE k # n
            BY <1>1, <1>2, <1>3, <2>1, <2>3, <3>2 DEF TicketInv
        <3>3. QED BY <3>1, <3>2
    <2>4. QED BY <2>2, <2>3
<1>8. QED BY <1>5, <1>6, <1>7 DEF TicketInv, OneTicketPerItem

LEMMA TicketStep == ASSUME TypeOK, RunInv, TicketInv, Next PROVE TicketInv'
<1>1. ASSUME UNCHANGED desks PROVE TicketInv'
    BY <1>1 DEF TicketInv, OneTicketPerItem
<1>2. ASSUME NEW where, Ended(where) PROVE TicketInv'
    <2>1. tickets' = [k \in Items \X Purposes |-> 0] /\ desk' = {} /\ issued' = 0
        BY <1>2 DEF Ended
    <2>2. QED BY <2>1 DEF TicketInv, OneTicketPerItem
<1>3. CASE Stop \/ Death \/ Uploaded
    BY <1>2, <1>3 DEF Stop, Death, Uploaded
<1>4. CASE Start \/ Reuse \/ RunRow \/ Finish \/ Generate \/ GenerateAgain \/ Revive \/ HasTicket
    BY <1>1, <1>4 DEF Start, Reuse, RunRow, Finish, Generate, GenerateAgain, Revive, HasTicket
<1>5. CASE Post \/ CallReturns \/ TimeOut \/ Take \/ RedoOutage \/ RedoRow \/ Sign \/ Save
    BY <1>1, <1>5 DEF Post, CallReturns, TimeOut, Take, RedoOutage, RedoRow, Sign, Save
<1>6. CASE AnswerLost \/ UploadSaved \/ InputsChange \/ WindowEnds \/ Recording
    BY <1>1, <1>6 DEF AnswerLost, UploadSaved, InputsChange, WindowEnds, Recording
<1>7. QED BY <1>3, <1>4, <1>5, <1>6, IssueKeeps DEF Next, Runner

-----------------------------------------------------------------------------
(* Transcripts *)

\* At its end a run has the rows of the journal, which are all there are.
LEMMA AllRows ==
    ASSUME TypeOK, RowsInv, pc \notin Over, row = Len(Plan) + 1
    PROVE  /\ entries = journal.rows /\ Len(entries) = Len(Plan) /\ Len(Plan) \in Nat \ {0}
           /\ entries[1].version = journal.version
           /\ \A k \in 1..Len(Plan) : entries[k].row = k /\ entries[k].version = journal.version
<1>1. /\ Len(Plan) \in Nat \ {0} /\ entries \in Seq(Entry) /\ journal.rows \in Seq(Entry)
    BY PlanAssumption DEF TypeOK
<1>2. Len(entries) = Len(Plan) /\ Len(journal.rows) = Len(Plan)
    BY <1>1 DEF RowsInv, DiskInv, RunInv
<1>3. \A k \in 1..Len(Plan) : entries[k] = journal.rows[k]
    BY <1>1, <1>2 DEF RowsInv, RunInv
<1>4. entries = journal.rows
    BY <1>1, <1>2, <1>3
<1>5. \A k \in 1..Len(Plan) : journal.rows[k].row = k /\ journal.rows[k].version = journal.version
    BY <1>2 DEF RowsInv, DiskInv
<1>6. QED BY <1>1, <1>2, <1>4, <1>5

LEMMA SealedType == ASSUME TypeOK, SealInv, NEW t \in Sealed PROVE Whole(t) /\ V(t) \in Nat
<1>1. Whole(t) /\ t \in Transcript
    BY DEF SealInv, Sealed, TypeOK
<1>2. t.items \in Seq(Entry) /\ 1 \in 1..Len(t.items)
    BY <1>1, PlanAssumption DEF Whole, Transcript
<1>3. t.items[1] \in Entry
    BY <1>2, ElementType
<1>4. QED BY <1>1, <1>3 DEF V, Entry

\* Steps that leave transcripts and the rows of the journal alone.
LEMMA SealFrame ==
    ASSUME SealInv, UNCHANGED <<saved, received>>,
           journal'.rows = journal.rows, journal'.version = journal.version,
           \/ pc' \notin {"save", "upload"}
           \/ UNCHANGED <<pc, signed, entries>>
    PROVE  SealInv'
<1>1. Sealed' = Sealed /\ \A t : Whole(t)' = Whole(t) /\ V(t)' = V(t)
    BY DEF Sealed, Whole, V
<1>2. QED BY <1>1 DEF SealInv

\* A journal that starts over is of newer inputs than every transcript.
LEMMA StartSeals == ASSUME TypeOK, RowsInv, SealInv, Start PROVE SealInv'
<1>1. /\ journal' = Loaded(journal) /\ UNCHANGED <<saved, received>> /\ pc' = "row"
    BY DEF Start
<1>2. CASE journal.version = version
    <2>1. journal'.rows = journal.rows /\ journal'.version = journal.version
        BY <1>1, <1>2 DEF Loaded, TypeOK
    <2>2. QED BY <1>1, <2>1, SealFrame
<1>3. CASE journal.version # version
    <2>1. journal'.version = version /\ journal.version < version /\ journal.version \in Nat
          /\ version \in Nat
        BY <1>1, <1>3 DEF Loaded, RowsInv, DiskInv, TypeOK
    <2>2. Sealed' = Sealed /\ \A t : V(t)' = V(t)
        BY <1>1 DEF Sealed, V
    <2>3. ASSUME NEW t \in Sealed PROVE Whole(t)'
        <3>1. Whole(t) /\ V(t) \in Nat
            BY SealedType
        <3>2. QED BY <2>1, <2>2, <3>1 DEF Whole
    <2>4. QED BY <1>1, <2>2, <2>3 DEF SealInv
<1>4. QED BY <1>2, <1>3

\* A row is finished when there is no transcript of the inputs yet.
LEMMA FinishSeals == ASSUME TypeOK, RowsInv, SealInv, Finish PROVE SealInv'
<1>1. /\ journal' = Lengthened(journal, hand[1]) /\ UNCHANGED <<saved, received>> /\ pc' = "row"
      /\ pc = "finish"
    BY DEF Finish
<1>2. journal'.version = journal.version
    BY <1>1 DEF Lengthened, TypeOK
<1>3. Len(journal.rows) # Len(Plan)
    BY <1>1, PlanAssumption DEF RowsInv, RunInv, AtRow
<1>4. Sealed' = Sealed /\ \A t : V(t)' = V(t)
    BY <1>1 DEF Sealed, V
<1>5. ASSUME NEW t \in Sealed PROVE Whole(t)'
    <2>1. Whole(t)
        BY SealedType
    <2>2. V(t) # journal.version
        BY <1>3, <2>1 DEF Whole
    <2>3. QED BY <1>2, <1>4, <2>1, <2>2 DEF Whole
<1>6. QED BY <1>1, <1>4, <1>5 DEF SealInv

LEMMA SignSeals == ASSUME TypeOK, RowsInv, SealInv, Sign PROVE SealInv'
<1>1. /\ signed' = SignedAgain /\ UNCHANGED <<saved, received, entries, journal>> /\ pc' = "save"
    BY DEF Sign
<1>2. Sealed' = Sealed /\ \A t : Whole(t)' = Whole(t) /\ V(t)' = V(t)
    BY <1>1 DEF Sealed, Whole, V
<1>3. SignedAgain.items = entries /\ SignedAgain \in Transcript
    BY DEF SignedAgain, Transcript, TypeOK
<1>4. \/ saved \in {SignedAgain, NoTranscript}
      \/ saved.items # SignedAgain.items
    BY DEF SignedAgain
<1>5. QED BY <1>1, <1>2, <1>3, <1>4, NoTranscriptAssumption DEF SealInv

\* The transcript that replaces another is of newer inputs.
LEMMA SaveSeals == ASSUME TypeOK, RowsInv, SealInv, Save PROVE SealInv'
<1>1. /\ saved' = signed /\ UNCHANGED <<signed, entries, journal, received>> /\ pc' = "upload"
      /\ pc = "save"
    BY DEF Save
<1>2. signed # NoTranscript /\ signed.items = entries
    BY <1>1 DEF SealInv
<1>3. row = Len(Plan) + 1
    BY <1>1 DEF RowsInv, RunInv
<1>4. /\ V(signed) = journal.version /\ Whole(signed) /\ signed.items = journal.rows
      /\ journal.version \in Nat
    BY <1>1, <1>2, <1>3, AllRows DEF V, Whole, Over, TypeOK
<1>5. \A t : Whole(t)' = Whole(t) /\ V(t)' = V(t)
    BY <1>1 DEF Whole, V
<1>6. ASSUME NEW t \in Sealed' PROVE Whole(t)'
    BY <1>1, <1>4, <1>5, <1>6 DEF Sealed, SealInv
<1>7. ASSUME NEW t \in received PROVE t = signed \/ V(t) < V(signed)
    <2>1. saved # NoTranscript /\ (t = saved \/ V(t) < V(saved)) /\ saved \in Sealed /\ t \in Sealed
        BY DEF SealInv, Sealed
    <2>2. Whole(saved) /\ V(saved) \in Nat /\ V(t) \in Nat
        BY <2>1, SealedType
    <2>3. CASE saved = signed
        BY <2>1, <2>3
    <2>4. CASE saved # signed
        <3>1. saved.items # signed.items
            BY <1>1, <2>1, <2>4 DEF SealInv
        <3>2. V(saved) < V(signed)
            BY <1>4, <2>2, <3>1 DEF Whole
        <3>3. QED BY <1>4, <2>1, <2>2, <3>2
    <2>5. QED BY <2>3, <2>4
<1>8. QED BY <1>1, <1>2, <1>5, <1>6, <1>7 DEF SealInv

\* What is sent is what is saved.
LEMMA SendSeals ==
    ASSUME TypeOK, SealInv, saved # NoTranscript, received' = received \cup {saved},
           UNCHANGED <<saved, journal>>,
           pc' \in Over \/ UNCHANGED <<pc, signed, entries>>
    PROVE  SealInv'
<1>1. Sealed' = Sealed
    BY DEF Sealed
<1>2. \A t : Whole(t)' = Whole(t) /\ V(t)' = V(t)
    BY DEF Whole, V
<1>3. \A t \in Sealed : V(t) \in Nat
    BY SealedType
<1>4. ASSUME NEW t \in received' PROVE t = saved \/ V(t) < V(saved)
    BY <1>4 DEF SealInv
<1>5. ASSUME NEW s \in received', NEW t \in received', V(s) = V(t) PROVE s = t
    <2>1. V(saved) \in Nat /\ V(s) \in Nat /\ V(t) \in Nat
        BY <1>1, <1>3 DEF Sealed
    <2>2. CASE s \in received /\ t \in received
        BY <1>5, <2>2 DEF SealInv
    <2>3. CASE s = saved \/ t = saved
        BY <1>4, <1>5, <2>1, <2>3
    <2>4. QED BY <2>2, <2>3
<1>6. QED BY <1>1, <1>2, <1>4, <1>5 DEF SealInv, Over

LEMMA SealStep == ASSUME TypeOK, RowsInv, SealInv, Next PROVE SealInv'
<1>1. CASE Stop \/ Death
    <2>1. /\ journal' = journal \/ journal' = [journal EXCEPT !.torn = TRUE]
          /\ UNCHANGED <<saved, received>> /\ pc' = "down"
        BY <1>1 DEF Stop, Death, Ended
    <2>2. journal'.rows = journal.rows /\ journal'.version = journal.version
        BY <2>1 DEF TypeOK
    <2>3. QED BY <2>1, <2>2, SealFrame
<1>2. CASE Uploaded \/ AnswerLost \/ UploadSaved
    <2>1. pc = "upload" => signed = saved /\ signed # NoTranscript
        BY DEF SealInv
    <2>2. /\ saved # NoTranscript /\ received' = received \cup {saved}
          /\ UNCHANGED <<saved, journal>>
          /\ pc' \in Over \/ UNCHANGED <<pc, signed, entries>>
        BY <1>2, <2>1 DEF Uploaded, AnswerLost, UploadSaved, Ended, Over
    <2>3. QED BY <2>2, SendSeals
<1>3. CASE Reuse \/ RunRow \/ Generate \/ GenerateAgain \/ Revive \/ HasTicket \/ IssueTicket
    <2>1. pc' \notin {"save", "upload"} /\ UNCHANGED <<saved, received, journal>>
        BY <1>3, FirstStepType
           DEF Reuse, RunRow, Generate, GenerateAgain, Revive, HasTicket, IssueTicket
    <2>2. QED BY <2>1, SealFrame
<1>4. CASE Post \/ CallReturns \/ TimeOut \/ Take \/ RedoOutage \/ RedoRow
    <2>1. pc' \notin {"save", "upload"} /\ UNCHANGED <<saved, received, journal>>
        BY <1>4, FirstStepType DEF Post, CallReturns, TimeOut, Take, RedoOutage, RedoRow
    <2>2. QED BY <2>1, SealFrame
<1>5. CASE InputsChange \/ WindowEnds \/ Recording
    BY <1>5, SealFrame DEF InputsChange, WindowEnds, Recording
<1>6. QED BY <1>1, <1>2, <1>3, <1>4, <1>5, StartSeals, FinishSeals, SignSeals, SaveSeals
          DEF Next, Runner

-----------------------------------------------------------------------------
(* The invariant *)

LEMMA InitInv == Init => Inv
<1> SUFFICES ASSUME Init PROVE Inv
    OBVIOUS
<1> USE RecordingAssumption, RunAssumption DEF Init
<1>1. Len(Plan) \in Nat \ {0}
    BY PlanAssumption
<1>2. RecInv
    BY DEF RecInv, RecordingTypeOK, Recorder, NewRecorder, MainDown, MainAt, CallInv, TapeInv, Mine
<1>3. TypeOK
    <2>1. journal \in [version : Nat, rows : Seq(Entry), torn : BOOLEAN]
        OBVIOUS
    <2>2. renew \in BOOLEAN
        BY Zenon
    <2>3. /\ pc = "down" /\ row \in 1..Len(Plan) + 1 /\ failures \in Nat
          /\ why \in Sources \cup {"none"} /\ window \in {"shut", "open", "over"}
        BY <1>1
    <2>4. hand \in Seq(Entry) /\ entries \in Seq(Entry) /\ tree = "none"
        OBVIOUS
    <2>5. tickets \in [Items \X Purposes -> Nat] /\ desk \subseteq Nat /\ issued \in Nat
        OBVIOUS
    <2>6. QED BY <1>2, <2>1, <2>2, <2>3, <2>4, <2>5 DEF RecInv, TypeOK
<1>4. RowsInv
    BY <1>1 DEF RowsInv, DiskInv, RunInv, HandInv, Over, AtRow
<1>5. SealInv
    BY DEF SealInv, Sealed
<1>6. TicketInv
    BY DEF TicketInv, OneTicketPerItem
<1>7. QED BY <1>2, <1>3, <1>4, <1>5, <1>6 DEF Inv, RecInv, RowsInv

LEMMA NextInv == Inv /\ [Next]_vars => Inv'
<1>1. ASSUME Inv, Next PROVE Inv'
    <2>1. RecInv /\ RowsInv
        BY <1>1 DEF Inv, RecInv, RowsInv, TypeOK
    <2>2. RecInv'
        BY <1>1, <2>1, RecStep
    <2>3. TypeOK'
        BY <1>1, <2>1, <2>2, TypeStep DEF Inv
    <2>4. RowsInv'
        BY <1>1, <2>1, RowsStep DEF Inv
    <2>5. SealInv' /\ TicketInv'
        BY <1>1, <2>1, SealStep, TicketStep DEF Inv
    <2>6. QED BY <2>2, <2>3, <2>4, <2>5 DEF Inv, RecInv, RowsInv
<1>2. ASSUME Inv, UNCHANGED vars PROVE Inv'
    <2>1. TypeOK'
        BY <1>2 DEF Inv, TypeOK, vars, RecordingTypeOK
    <2>2. CallInv' /\ TapeInv'
        BY <1>2 DEF Inv, CallInv, TapeInv, Mine, Calls, vars
    <2>3. DiskInv' /\ RunInv' /\ HandInv'
        BY <1>2 DEF Inv, DiskInv, RunInv, HandInv, vars
    <2>4. SealInv' /\ TicketInv'
        BY <1>2 DEF Inv, SealInv, Sealed, Whole, V, TicketInv, OneTicketPerItem, vars
    <2>5. QED BY <2>1, <2>2, <2>3, <2>4 DEF Inv
<1>3. QED BY <1>1, <1>2

LEMMA AlwaysInv == Spec => []Inv
BY InitInv, NextInv, PTL DEF Spec

\* The variables keep their types, whatever the plan and the bounds.
THEOREM TypeCorrect == Spec => []TypeOK
<1>1. Inv => TypeOK
    BY DEF Inv
<1>2. QED BY <1>1, AlwaysInv, PTL

\* A row that is kept has the calls main.py made for it, and no others: a thread that
\* outlives an attempt never writes on the next one's recorder.
THEOREM RowsAreClean == Spec => []KeptRowsAreClean
<1>1. Inv => KeptRowsAreClean
    <2> SUFFICES ASSUME Inv, NEW e \in Held PROVE e.exact
        BY DEF KeptRowsAreClean
    <2>1. \A k \in 1..Len(journal.rows) : journal.rows[k].exact
        BY DEF Inv, DiskInv
    <2>2. \A k \in 1..Len(hand) : hand[k].exact
        BY DEF Inv, HandInv
    <2>3. \A k \in 1..Len(entries) : entries[k].exact
        <3>1. CASE pc \in Over
            BY <3>1 DEF Inv, RunInv
        <3>2. CASE pc \notin Over
            <4>1. /\ Len(entries) \in Nat /\ Len(journal.rows) \in Nat
                  /\ Len(entries) <= Len(journal.rows)
                  /\ \A k \in 1..Len(entries) : entries[k] = journal.rows[k]
                BY <3>2 DEF Inv, RunInv, TypeOK
            <4>2. QED BY <2>1, <4>1
        <3>3. QED BY <3>1, <3>2
    <2>4. QED BY <2>1, <2>2, <2>3 DEF Held
<1>2. QED BY <1>1, AlwaysInv, PTL

\* What a run has finished is in the journal, so a death costs the row in flight only.
THEOREM RowsOnDisk == Spec => []FinishedRowsAreOnDisk
<1>1. Inv => FinishedRowsAreOnDisk
    <2> SUFFICES ASSUME Inv, pc \notin {"down", "done"}
                 PROVE  /\ Len(entries) = row - 1 /\ Len(entries) <= Len(journal.rows)
                        /\ \A k \in 1..Len(entries) :
                             entries[k] = journal.rows[k] /\ entries[k].row = k
        BY DEF FinishedRowsAreOnDisk
    <2>1. /\ Len(entries) = row - 1 /\ Len(entries) <= Len(journal.rows)
          /\ \A k \in 1..Len(entries) : entries[k] = journal.rows[k]
          /\ Len(entries) \in Nat /\ Len(journal.rows) \in Nat
        BY DEF Inv, RunInv, Over, TypeOK
    <2>2. \A k \in 1..Len(journal.rows) : journal.rows[k].row = k
        BY DEF Inv, DiskInv
    <2>3. QED BY <2>1, <2>2
<1>2. QED BY <1>1, AlwaysInv, PTL

\* The desk honours the tickets the runner holds and no other, after any number of
\* attempts at any rows.
THEOREM TicketsAreOne == Spec => []OneTicketPerItem
<1>1. Inv => OneTicketPerItem
    BY DEF Inv, TicketInv
<1>2. QED BY <1>1, AlwaysInv, PTL

\* A transcript that is saved or sent has every row of the plan, from the same inputs.
THEOREM TranscriptsAreWhole == Spec => []TranscriptIsWhole
<1>1. Inv => TranscriptIsWhole
    BY DEF Inv, SealInv, Sealed, Whole, V, TranscriptIsWhole
<1>2. QED BY <1>1, AlwaysInv, PTL

\* Two transcripts of the same inputs that the server was sent are one.
THEOREM SentOnce == Spec => []OneTranscriptSent
<1>1. Inv => OneTranscriptSent
    <2> SUFFICES ASSUME Inv, NEW s \in received, NEW t \in received,
                        \A k \in 1..Len(Plan) : s.items[k].version = t.items[k].version
                 PROVE  s = t
        BY DEF OneTranscriptSent
    <2>1. 1 \in 1..Len(Plan)
        BY PlanAssumption
    <2>2. V(s) = V(t)
        BY <2>1 DEF V
    <2>3. QED BY <2>2 DEF Inv, SealInv
<1>2. QED BY <1>1, AlwaysInv, PTL

\* The rows, the journal, the tickets and the transcripts at once.
THEOREM RowsStayKeptOnce == Spec => []RowsAreKeptOnce
<1>1. QED BY RowsAreClean, RowsOnDisk, TicketsAreOne, SentOnce, PTL DEF RowsAreKeptOnce

-----------------------------------------------------------------------------
(* The sealed log *)

LEMMA LogStep == ASSUME Inv, Next
                 PROVE  Log!Next \/ UNCHANGED <<journal.rows, journal.version, saved, received>>
<1> USE DEF Log!Next
<1>1. TypeOK /\ RowsInv /\ SealInv
    BY DEF Inv, RowsInv
<1>2. CASE Start
    <2>1. journal' = Loaded(journal) /\ UNCHANGED <<saved, received>>
        BY <1>2 DEF Start
    <2>2. CASE journal.version = version
        BY <1>1, <2>1, <2>2 DEF Loaded, TypeOK
    <2>3. CASE journal.version # version
        <3>1. journal.version < version
            BY <1>1, <2>3 DEF RowsInv, DiskInv, TypeOK
        <3>2. Log!StartOver
            BY <2>1, <2>3, <3>1 DEF Loaded, Log!StartOver
        <3>3. QED BY <3>2
    <2>4. QED BY <2>2, <2>3
<1>3. CASE Finish
    <2> DEFINE e == hand[1]
    <2>1. /\ pc = "finish" /\ journal' = Lengthened(journal, e) /\ UNCHANGED <<saved, received>>
        BY <1>3 DEF Finish
    <2>2. Len(hand) = 1 /\ e.row = row /\ e.version = version
        BY <1>1, <2>1 DEF RowsInv, HandInv
    <2>3. hand \in Seq(Entry) /\ 1 \in 1..Len(hand)
        BY <1>1, <2>2 DEF TypeOK
    <2>4. e \in Entry /\ journal.rows \in Seq(Entry)
        BY <1>1, <2>3, ElementType DEF TypeOK
    <2>5. /\ row \in Rows /\ Len(journal.rows) = row - 1 /\ ~journal.torn
          /\ journal.version = version
        BY <1>1, <2>1 DEF RowsInv, RunInv, Over, AtRow
    <2> HIDE DEF e
    <2>6. journal' = [journal EXCEPT !.rows = Append(journal.rows, e)]
        BY <2>1, <2>5 DEF Lengthened
    <2>7. journal'.rows = Append(journal.rows, e) /\ journal'.version = journal.version
        BY <1>1, <2>6 DEF TypeOK
    <2>8. /\ Len(journal'.rows) = Len(journal.rows) + 1 /\ journal'.rows[row] = e
          /\ \A k \in 1..Len(journal.rows) : journal'.rows[k] = journal.rows[k]
        BY <2>4, <2>5, <2>7, AppendIs
    <2>9. Log!Finish
        BY <2>1, <2>2, <2>5, <2>7, <2>8, PlanAssumption DEF Log!Finish
    <2>10. QED BY <2>9
<1>4. CASE Save
    <2>1. saved' = signed /\ UNCHANGED <<journal, received>> /\ pc = "save"
        BY <1>4 DEF Save
    <2>2. /\ signed # NoTranscript /\ signed.items = entries
          /\ saved \in {signed, NoTranscript} \/ saved.items # signed.items
        BY <1>1, <2>1 DEF SealInv
    <2>3. entries = journal.rows /\ Len(entries) = Len(Plan)
        BY <1>1, <2>1, AllRows DEF RowsInv, RunInv, Over
    <2>4. saved = signed \/ Log!Seal
        BY <2>1, <2>2, <2>3 DEF Log!Seal
    <2>5. QED BY <2>1, <2>4
<1>5. CASE Uploaded \/ AnswerLost \/ UploadSaved
    <2>1. saved # NoTranscript /\ received' = received \cup {saved} /\ UNCHANGED <<saved, journal>>
        BY <1>1, <1>5 DEF SealInv, Uploaded, AnswerLost, UploadSaved
    <2>2. Log!Publish
        BY <2>1 DEF Log!Publish
    <2>3. QED BY <2>2
<1>6. CASE Stop \/ Death
    <2>1. /\ journal' = journal \/ journal' = [journal EXCEPT !.torn = TRUE]
          /\ UNCHANGED <<saved, received>>
        BY <1>6 DEF Stop, Death
    <2>2. QED BY <1>1, <2>1 DEF TypeOK
<1>7. CASE Reuse \/ RunRow \/ Generate \/ GenerateAgain \/ Revive \/ HasTicket \/ IssueTicket
    BY <1>7 DEF Reuse, RunRow, Generate, GenerateAgain, Revive, HasTicket, IssueTicket
<1>8. CASE Post \/ CallReturns \/ TimeOut \/ Take \/ RedoOutage \/ RedoRow \/ Sign
    BY <1>8 DEF Post, CallReturns, TimeOut, Take, RedoOutage, RedoRow, Sign
<1>9. CASE InputsChange \/ WindowEnds \/ Recording
    BY <1>9 DEF InputsChange, WindowEnds, Recording
<1>10. QED BY <1>2, <1>3, <1>4, <1>5, <1>6, <1>7, <1>8, <1>9 DEF Next, Runner

\* The journal and the transcripts are a sealed log: no finished row is lost, a set of
\* rows is sealed once, and only what was sealed is published.
THEOREM Implementation == Spec => ImplementsLog
<1>1. Init => Log!Init
    BY DEF Init, Log!Init
<1>2. Inv /\ [Next]_vars => [Log!Next]_<<journal.rows, journal.version, saved, received>>
    BY LogStep DEF vars
<1>3. QED BY <1>1, <1>2, AlwaysInv, PTL DEF Spec, ImplementsLog, Log!Spec

================================================================================
