-------------------------------- MODULE MinerRun --------------------------------
(***************************************************************************)
(* mt miner run (validator/runner.py): it runs every row of the plan, one  *)
(* after the other, keeps each finished row in a journal, signs the        *)
(* transcript and uploads it.  A row with a problem is run again with a    *)
(* new recorder and a new ticket; the process may die at any point and is  *)
(* started again by hand; the inputs may change between two runs.          *)
(*                                                                         *)
(* Left out: dry runs, the pre-flight checks of what is downloaded, the    *)
(* progress posts, container limits.  A pause and a deadline are choices:  *)
(* the retry window of the relay ends at some point once it is open.       *)
(***************************************************************************)
EXTENDS RowRecording

CONSTANTS
    Plan,               \* the rows in the order of run_pools; direct rows ask the engine,
                        \* the others main.py of the tree; purpose # "none" needs a ticket
    ENGINE_ATTEMPTS, ROW_ATTEMPTS,
    MaxLives,           \* bound: times the command is given
    MaxVersion,         \* bound: changes of the manifest, the weights or the inputs bundle
    NoTranscript

RowType == [direct : BOOLEAN, tree : {"own", "reference"}, item : Nat,
            purpose : {"none", "repair", "system"}]
Rows == 1..Len(Plan)

ASSUME PlanAssumption == Plan \in Seq(RowType) /\ Plan # <<>>
ASSUME RunAssumption ==
    /\ ENGINE_ATTEMPTS \in Nat \ {0} /\ ROW_ATTEMPTS \in Nat \ {0}
    /\ MaxLives \in Nat /\ MaxVersion \in Nat

VARIABLES
    pc, row,            \* where the run is
    failures, why,      \* of this row; the source of its last problem
    renew, window,      \* the ticket is to be renewed; the relay's retry window
    hand,               \* the entry on its way to the journal
    entries,            \* session.entries
    tree,               \* session.current_tree
    tickets, desk,      \* the runner's tickets by item and purpose; those the desk honours
    issued,
    journal,            \* rows.jsonl: identity, whole lines, and a line cut short
    signed, saved,      \* the transcript in memory, and transcript.json
    received,           \* transcripts the server has
    version, life       \* the inputs in force; the number of this process

attempt == <<failures, why, renew, window, hand>>
desks == <<tickets, desk, issued>>
files == <<journal, saved>>
outside == <<received, version, life>>
vars == <<recording, pc, row, attempt, entries, tree, desks, files, signed, outside>>

\* Of an entry: its row, the process and the inputs it is from, and (history) whether it has
\* the calls main.py made, and whether one was still running when main.py answered.
Entry == [row : Rows, life : Nat, version : Nat, exact : BOOLEAN]
Transcript == [items : Seq(Entry), signature : Nat]
ASSUME NoTranscriptAssumption == NoTranscript \notin Transcript
Purposes == {"repair", "system"}
Items == {Plan[r].item : r \in Rows}
Needs(r) == <<Plan[r].item, Plan[r].purpose>>

TypeOK ==
    /\ RecordingTypeOK
    /\ pc \in {"down", "row", "direct", "revive", "ticket", "main", "call", "take", "redo",
               "finish", "save", "upload", "done"}
    /\ row \in 1..Len(Plan) + 1
    /\ failures \in Nat /\ why \in Sources \cup {"none"}
    /\ renew \in BOOLEAN /\ window \in {"shut", "open", "over"}
    /\ hand \in Seq(Entry) /\ entries \in Seq(Entry)
    /\ tree \in {"none", "own", "reference"}
    /\ tickets \in [Items \X Purposes -> Nat] /\ desk \subseteq Nat /\ issued \in Nat
    /\ journal \in [version : Nat, rows : Seq(Entry), torn : BOOLEAN]
    /\ signed \in Transcript \cup {NoTranscript} /\ saved \in Transcript \cup {NoTranscript}
    /\ received \subseteq Transcript
    /\ version \in Nat /\ life \in Nat

Fresh == failures' = 0 /\ why' = "none" /\ renew' = FALSE /\ window' = "shut" /\ hand' = <<>>

Init ==
    /\ recorder = NewRecorder(0) /\ threads = {} /\ main = MainDown
    /\ engine = "gone" /\ faults = 0
    /\ pc = "down" /\ row = 1 /\ entries = <<>> /\ tree = "none"
    /\ failures = 0 /\ why = "none" /\ renew = FALSE /\ window = "shut" /\ hand = <<>>
    /\ tickets = [k \in Items \X Purposes |-> 0] /\ desk = {} /\ issued = 0
    /\ journal = [version |-> 0, rows |-> <<>>, torn |-> FALSE]
    /\ signed = NoTranscript /\ saved = NoTranscript /\ received = {}
    /\ version = 0 /\ life = 0

\* The process ends: engine, main.py and threads go with it, or are swept at the next start.
Ended(where) ==
    /\ pc' = where /\ row' = 1 /\ entries' = <<>> /\ tree' = "none" /\ Fresh
    /\ recorder' = NewRecorder(0) /\ threads' = {} /\ main' = MainDown /\ engine' = "gone"
    /\ tickets' = [k \in Items \X Purposes |-> 0] /\ desk' = {} /\ issued' = 0
    /\ signed' = NoTranscript

---------------------------------------------------------------------------
(* Journal *)

\* Variant: the lines of other inputs are taken.
LoadedAnyInputs(j) == [j EXCEPT !.torn = FALSE]

\* Journal._load: the lines of other inputs are dropped, half a line is cut off.
Loaded(j) == IF j.version # version THEN [version |-> version, rows |-> <<>>, torn |-> FALSE]
             ELSE [j EXCEPT !.torn = FALSE]

\* Journal.add.  A line written after half a line is no line, and ends the next load.
Lengthened(j, e) == IF j.torn THEN j ELSE [j EXCEPT !.rows = Append(@, e)]

\* Journal.take
Kept(r) == {k \in 1..Len(journal.rows) : journal.rows[k].row = r}

---------------------------------------------------------------------------
(* run and run_pools *)

\* run up to session.open: the inputs are read, the journal is loaded, the engine starts.
Start ==
    /\ pc \in {"down", "done"} /\ life < MaxLives
    /\ journal' = Loaded(journal)
    /\ pc' = "row" /\ engine' = "up" /\ life' = life + 1
    /\ UNCHANGED <<recorder, threads, main, faults, row, attempt, entries, tree, desks, saved,
                   signed, received, version>>

\* reused: a row of the journal is not run.
Reuse ==
    /\ pc = "row" /\ row \in Rows
    /\ \E k \in Kept(row) : entries' = Append(entries, journal.rows[k])
    /\ row' = row + 1
    /\ UNCHANGED <<recording, pc, attempt, tree, desks, files, signed, outside>>

\* Where an attempt at the row begins: in generate, in ticket, or in main.
FirstStep == CASE Plan[row].direct -> "direct"
               [] ~Plan[row].direct /\ Plan[row].purpose # "none" -> "ticket"
               [] OTHER -> "main"

RunRow ==
    /\ pc = "row" /\ row \in Rows /\ Kept(row) = {}
    /\ pc' = FirstStep
    /\ UNCHANGED <<recording, row, attempt, entries, tree, desks, files, signed, outside>>

\* finish: the row goes to the journal, then to the entries.
Finish ==
    /\ pc = "finish"
    /\ journal' = Lengthened(journal, hand[1])
    /\ entries' = Append(entries, hand[1])
    /\ row' = row + 1 /\ pc' = "row" /\ Fresh
    /\ UNCHANGED <<recording, tree, desks, saved, signed, outside>>

---------------------------------------------------------------------------
(* generate *)

\* A row with one call, made by the runner itself: no recorder has a part in it.
DirectEntry == [row |-> row, life |-> life, version |-> version, exact |-> TRUE]

Generate ==
    /\ pc = "direct" /\ engine = "up"
    /\ hand' = <<DirectEntry>> /\ pc' = "finish"
    /\ UNCHANGED <<recording, row, failures, why, renew, window, entries, tree, desks, files,
                   signed, outside>>

EngineFails == pc = "direct" /\ IF engine = "up" THEN Fault ELSE UNCHANGED faults

\* No answer, or a bad one: the engine is looked at before the next attempt.
GenerateAgain ==
    /\ EngineFails /\ failures + 1 < ENGINE_ATTEMPTS
    /\ failures' = failures + 1 /\ pc' = "revive"
    /\ UNCHANGED <<recorder, threads, main, engine, row, why, renew, window, hand, entries, tree,
                   desks, files, signed, outside>>

\* revive_engine: started again when forced, gone, or not answering.
Revive ==
    /\ pc = "revive"
    /\ engine' = "up" /\ pc' = FirstStep
    /\ UNCHANGED <<recorder, threads, main, faults, row, attempt, entries, tree, desks, files,
                   signed, outside>>

---------------------------------------------------------------------------
(* run_main *)

\* ticket: the one the item has, unless the row is run again: then the desk forgets it.
HasTicket ==
    /\ pc = "ticket" /\ tickets[Needs(row)] # 0 /\ ~renew
    /\ pc' = "main"
    /\ UNCHANGED <<recording, row, attempt, entries, tree, desks, files, signed, outside>>

\* forget, then issue.
Honoured == (desk \ {tickets[Needs(row)]}) \cup {issued + 1}

IssueTicket ==
    /\ pc = "ticket" /\ (tickets[Needs(row)] = 0 \/ renew)
    /\ issued' = issued + 1
    /\ desk' = Honoured
    /\ tickets' = [tickets EXCEPT ![Needs(row)] = issued + 1]
    /\ pc' = "main"
    /\ UNCHANGED <<recording, row, attempt, entries, tree, files, signed, outside>>

\* main and begin_item; the main.py of this tree is taken to run if it was started.
Post ==
    /\ pc = "main"
    /\ LET alive == tree # Plan[row].tree \/ main.at # "down"
       IN  main' = MainAt(IF alive THEN "working" ELSE "down")
    /\ recorder' = NewRecorder(recorder.id + 1)
    /\ tree' = Plan[row].tree /\ pc' = "call"
    /\ UNCHANGED <<threads, engine, faults, row, attempt, entries, desks, files, signed, outside>>

\* call_main returns or is refused: _row_problem looks at main.py and at the recorder.
CallReturns ==
    /\ pc = "call" /\ main.at \in {"answered", "down"}
    /\ why' = RowProblem
    /\ pc' = IF RowProblem = "none" THEN "take" ELSE "redo"
    /\ UNCHANGED <<recording, row, failures, renew, window, hand, entries, tree, desks, files,
                   signed, outside>>

\* Variant: main.py is waited for without a limit.
WaitOn == FALSE /\ UNCHANGED vars

\* record_seconds are over.
TimeOut ==
    /\ pc = "call" /\ main.at \in {"working", "waiting"}
    /\ why' = "service" /\ pc' = "redo"
    /\ UNCHANGED <<recording, row, failures, renew, window, hand, entries, tree, desks, files,
                   signed, outside>>

\* recorded and finish_item; recorded takes the lock again.
Take ==
    /\ pc = "take"
    /\ hand' = <<[row |-> row, life |-> life, version |-> version,
                  exact |-> Recorded = CallsMade]>>
    /\ main' = MainAt(IF main.at = "down" THEN "down" ELSE "idle")
    /\ pc' = "finish"
    /\ UNCHANGED <<recorder, threads, engine, faults, row, failures, why, renew, window, entries,
                   tree, desks, files, signed, outside>>

StopMain == main' = MainDown /\ tree' = "none"

\* A relay that is not answering costs no attempt while its window is open.
RedoOutage ==
    /\ pc = "redo" /\ why = "relay" /\ window # "over"
    /\ StopMain
    /\ renew' = TRUE /\ why' = "none" /\ window' = "open" /\ pc' = FirstStep
    /\ UNCHANGED <<recorder, threads, engine, faults, row, failures, hand, entries, desks,
                   files, signed, outside>>

WindowEnds ==
    /\ window = "open" /\ window' = "over"
    /\ UNCHANGED <<recording, pc, row, failures, why, renew, hand, entries, tree, desks, files,
                   signed, outside>>

RedoRow ==
    /\ pc = "redo" /\ why # "relay" /\ failures + 1 < ROW_ATTEMPTS
    /\ StopMain
    /\ failures' = failures + 1 /\ renew' = TRUE /\ why' = "none"
    /\ pc' = IF why = "engine" THEN "revive" ELSE FirstStep
    /\ UNCHANGED <<recorder, threads, engine, faults, row, window, hand, entries, desks,
                   files, signed, outside>>

---------------------------------------------------------------------------
(* The end of a run *)

\* RunnerError, by which the run stops and uploads nothing.
Stop ==
    /\ \/ EngineFails /\ failures + 1 >= ENGINE_ATTEMPTS
       \/ pc = "ticket" /\ (tickets[Needs(row)] = 0 \/ renew) /\ Fault
       \/ pc \in {"main", "revive", "upload"} /\ Fault
       \/ /\ pc = "redo" /\ UNCHANGED faults
          /\ IF why = "relay" THEN window = "over" ELSE failures + 1 >= ROW_ATTEMPTS
    /\ Ended("down")
    /\ UNCHANGED <<files, outside>>

\* The process dies; the line it is adding may be cut short.
Death ==
    /\ pc \notin {"down", "done"}
    /\ journal' \in {journal} \cup (IF pc = "finish" THEN {[journal EXCEPT !.torn = TRUE]} ELSE {})
    /\ Ended("down")
    /\ UNCHANGED <<faults, saved, outside>>

\* signed_again: a signature differs each time.
SignedAgain == IF saved # NoTranscript /\ saved.items = entries THEN saved
               ELSE [items |-> entries, signature |-> life]

\* session.close and build_transcript.
Sign ==
    /\ pc = "row" /\ row = Len(Plan) + 1
    /\ signed' = SignedAgain
    /\ StopMain /\ engine' = "gone" /\ pc' = "save"
    /\ UNCHANGED <<recorder, threads, faults, row, attempt, entries, desks, files, outside>>

\* The transcript is written beside transcript.json and renamed.
Save ==
    /\ pc = "save"
    /\ saved' = signed /\ pc' = "upload"
    /\ UNCHANGED <<recording, row, attempt, entries, tree, desks, journal, signed, outside>>

\* send_transcript: a lost answer is sent again, a refusal stops the run.
Uploaded ==
    /\ pc = "upload"
    /\ received' = received \cup {signed}
    /\ Ended("done")
    /\ UNCHANGED <<faults, files, version, life>>

AnswerLost ==
    /\ pc = "upload" /\ Fault
    /\ received' = received \cup {signed}
    /\ UNCHANGED <<recorder, threads, main, engine, pc, row, attempt, entries, tree, desks, files,
                   signed, version, life>>

\* mt miner upload: the saved transcript is sent by another command.
UploadSaved ==
    /\ pc \in {"down", "done"} /\ saved # NoTranscript
    /\ received' = received \cup {saved}
    /\ UNCHANGED <<recording, pc, row, attempt, entries, tree, desks, files, signed, version, life>>

\* A run reads the inputs when it starts, so a change matters only between two runs.
InputsChange ==
    /\ pc \in {"down", "done"} /\ life > 0
    /\ version < MaxVersion /\ version' = version + 1
    /\ UNCHANGED <<recording, pc, row, attempt, entries, tree, desks, files, signed, received, life>>

Runner ==
    \/ Reuse \/ RunRow \/ Finish \/ Generate \/ GenerateAgain \/ Revive
    \/ HasTicket \/ IssueTicket \/ Post \/ CallReturns \/ TimeOut \/ Take
    \/ RedoOutage \/ RedoRow \/ Stop \/ Sign \/ Save \/ Uploaded

\* main.py, the threads, and the engine.
Recording ==
    /\ \/ \E kind \in Kinds : Ask(kind) /\ (kind = "relay" => Plan[row].purpose # "none")
       \/ AnswerRequest \/ MainDies \/ ServeNext \/ EngineDies
    /\ UNCHANGED <<pc, row, attempt, entries, tree, desks, files, signed, outside>>

Next == Start \/ Runner \/ WindowEnds \/ Death \/ AnswerLost \/ UploadSaved \/ InputsChange
        \/ Recording

Spec == Init /\ [][Next]_vars
FairSpec == Spec /\ WF_vars(Runner)

---------------------------------------------------------------------------
(* Properties *)

\* The entries there are: on the way to the journal, in it, and in the session.
Held == {hand[k] : k \in 1..Len(hand)} \cup {entries[k] : k \in 1..Len(entries)}
        \cup {journal.rows[k] : k \in 1..Len(journal.rows)}

\* A row that is kept has the calls main.py made for it, all of them, in the order they
\* were made, and none of an earlier attempt whose thread was still running: replay
\* requires every request to match the recording, in order.
KeptRowsAreClean ==
    \A e \in Held : e.exact

\* What a run has finished is in the journal, in the order of the plan, so that a death
\* at any point costs the row in flight and no other, also after a line cut short.
FinishedRowsAreOnDisk ==
    pc \notin {"down", "done"} =>
        /\ Len(entries) = row - 1 /\ Len(entries) <= Len(journal.rows)
        /\ \A k \in 1..Len(entries) : entries[k] = journal.rows[k] /\ entries[k].row = k

\* A transcript that is saved or sent has one entry for each row of the plan, in its
\* order, all recorded from the same inputs, whatever runs and deaths it took.
TranscriptIsWhole ==
    \A t \in received \cup ({saved} \ {NoTranscript}) :
        /\ Len(t.items) = Len(Plan)
        /\ \A k \in 1..Len(t.items) :
             t.items[k].row = k /\ t.items[k].version = t.items[1].version

\* Runs of the same inputs send one transcript, signature included: the server takes few
\* uploads, and sending the same one again costs none.
OneTranscriptSent ==
    \A s, t \in received :
        (\A k \in 1..Len(Plan) : s.items[k].version = t.items[k].version) => s = t

\* An item has one ticket, which all its rows share: the desk honours those the runner
\* holds and no other, so that an item cannot spend beyond one cap.
OneTicketPerItem == desk = {tickets[k] : k \in DOMAIN tickets} \ {0}

\* What is kept, resumed, billed and sent is right at once: the rows are clean and on disk,
\* one ticket to an item, one transcript to a set of rows.
RowsAreKeptOnce ==
    KeptRowsAreClean /\ FinishedRowsAreOnDisk /\ OneTicketPerItem /\ OneTranscriptSent

\* The journal and the transcripts are a log that loses no finished row, and is sealed once.
Log == INSTANCE SealedLog WITH
    Length <- Len(Plan), NoSeal <- NoTranscript, log <- journal.rows,
    inputs <- journal.version, sealed <- saved, published <- received
ImplementsLog == Log!Spec

\* A run ends, whatever main.py and the engine do.
RunEnds == pc \notin {"down", "done"} ~> pc \in {"down", "done"}

================================================================================
