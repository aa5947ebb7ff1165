----------------------------- MODULE GatewaySession -----------------------------
(***************************************************************************)
(* One agent's websocket session with the gateway                          *)
(* (serving/wire/session.py).                                              *)
(*                                                                         *)
(* One coroutine reads the frames; every accepted request runs as a task;  *)
(* a task that ends schedules _finish_drains, and so does the drain frame  *)
(* itself.  All of them run on one event loop: what lies between two       *)
(* awaits is one step, and a send may leave a coroutine suspended after    *)
(* its frame is in the socket.                                             *)
(*                                                                         *)
(* Simplifications: all cards hold the same model and frames carry labels  *)
(* of the welcome; answers, errors and chunks are one answer; heartbeats   *)
(* and ready frames, which read this state and change none, are left out.  *)
(***************************************************************************)
EXTENDS Integers, Sequences, FiniteSets

CONSTANTS
    Cards,      \* how many cards the hello announces
    Limit,      \* requests a card takes at a time; 0 for a card without a model
    Requests,   \* request ids; the gateway uses each once
    Slow,       \* requests that may outlive DRAIN_SECONDS
    MaxInbox,   \* bound: frames on their way
    MaxDials,   \* bound: sessions
    All,        \* the empty label: the whole host
    None        \* no card

Gpus == 1..Cards

ASSUME GpusAssumption == Cards \in Nat /\ Limit \in [Gpus -> Nat]
ASSUME RequestsAssumption == IsFiniteSet(Requests) /\ Slow \subseteq Requests
ASSUME BoundsAssumption == MaxInbox \in Nat /\ MaxDials \in Nat
ASSUME NamesAssumption == All \notin Gpus /\ None \notin Gpus /\ All # None
                          /\ "reader" \notin Requests

VARIABLES
    link,       \* where run and its session stand
    dials,      \* sessions so far
    drain,      \* the host's drain event is set
    inbox,      \* frames from the gateway, not yet read
    task,       \* what became of each request
    holds,      \* the card whose slot a task holds
    inflight,   \* Inflight.running of every card
    running,    \* the running dict: requests with a task
    draining,   \* Capacity.draining
    pending,    \* drains still to be confirmed
    finisher,   \* the _finish_drains calls: the reader's, and one per ended task
    told        \* what the gateway was told is drained

vars == <<link, dials, drain, inbox, task, holds, inflight, running, draining, pending,
          finisher, told>>

Links == {"closed", "open", "drain_out", "closing", "over"}
Open == {"working", "sending"}
Ended == {"answered", "refused", "cancelled", "lost"}
Owners == Requests \cup {"reader"}

Frames == [type : {"request"}, id : Requests, gpu : Gpus \cup {None}]
          \cup [type : {"cancel"}, id : Requests]
          \cup [type : {"drain"}, gpu : Gpus \cup {All}]

\* A _finish_drains call suspended in a send: the cards still to look at, what
\* it is sending, and the size of the dict when it was called.
Finishers == [todo : SUBSET Gpus, sent : Gpus \cup {All, None}, count : Nat]
Off == [todo |-> {}, sent |-> None, count |-> 0]

TypeOK ==
    /\ link \in Links /\ dials \in Nat /\ drain \in BOOLEAN
    /\ inbox \in Seq(Frames)
    /\ task \in [Requests -> {"unsent", "inbox", "cancelling"} \cup Open \cup Ended]
    /\ holds \in [Requests -> Gpus \cup {None}]
    /\ inflight \in [Gpus -> Nat]
    /\ running \in SUBSET Requests
    /\ draining \in SUBSET Gpus
    /\ pending \in SUBSET (Gpus \cup {All})
    /\ finisher \in [Owners -> Finishers]
    /\ told \in SUBSET (Gpus \cup {All})

Fresh ==
    /\ inbox = << >> /\ holds = [r \in Requests |-> None]
    /\ inflight = [g \in Gpus |-> 0] /\ running = {} /\ draining = {} /\ pending = {}
    /\ finisher = [k \in Owners |-> Off] /\ told = {}

Init ==
    /\ link = "closed" /\ dials = 0 /\ drain = FALSE
    /\ task = [r \in Requests |-> "unsent"]
    /\ Fresh

-----------------------------------------------------------------------------
(* The gateway, and the host around the session. *)

Post(frame) == Len(inbox) < MaxInbox /\ inbox' = Append(inbox, frame)

InInbox(frame) == \E i \in DOMAIN inbox : inbox[i] = frame

Gateway ==
    /\ link \in {"open", "drain_out", "closing"}
    /\ \/ \E r \in Requests, g \in Gpus \cup {None} :
             /\ task[r] = "unsent" /\ task' = [task EXCEPT ![r] = "inbox"]
             /\ Post([type |-> "request", id |-> r, gpu |-> g])
       \/ \E r \in Requests :
             /\ task[r] \in {"inbox"} \cup Open
             /\ ~InInbox([type |-> "cancel", id |-> r])
             /\ Post([type |-> "cancel", id |-> r]) /\ UNCHANGED task
       \/ \E d \in Gpus \cup {All} :
             /\ d \notin pending \cup told
             /\ ~InInbox([type |-> "drain", gpu |-> d])
             /\ Post([type |-> "drain", gpu |-> d]) /\ UNCHANGED task
    /\ UNCHANGED <<link, dials, drain, holds, inflight, running, draining, pending, finisher, told>>

\* SIGTERM, or a new agent image.
SetDrain ==
    /\ ~drain /\ drain' = TRUE
    /\ UNCHANGED <<link, dials, inbox, task, holds, inflight, running, draining, pending,
                   finisher, told>>

\* The finally block of session: every task still in the dict is cancelled.
SessionEnds(next) ==
    /\ link' = next
    /\ task' = [r \in Requests |-> IF task[r] \in Ended \cup {"unsent"} THEN task[r] ELSE "lost"]
    /\ inbox' = << >> /\ holds' = [r \in Requests |-> None]
    /\ inflight' = [g \in Gpus |-> 0] /\ running' = {} /\ draining' = {} /\ pending' = {}
    /\ finisher' = [k \in Owners |-> Off] /\ told' = {}
    /\ UNCHANGED <<dials, drain>>

\* The connection drops, or the gateway closes it.
GatewayCloses == link \in {"open", "drain_out", "closing"} /\ SessionEnds("closed")

\* The host cancels the dial to announce other holdings.
HostCancels == link # "over" /\ SessionEnds("over")

-----------------------------------------------------------------------------
(* run: one session after another until the drain event is set. *)

Dial ==
    /\ link = "closed" /\ ~drain /\ dials < MaxDials
    /\ link' = "open" /\ dials' = dials + 1
    /\ UNCHANGED <<drain, inbox, task, holds, inflight, running, draining, pending, finisher, told>>

RunReturns ==
    /\ link = "closed" /\ drain
    /\ link' = "over"
    /\ UNCHANGED <<dials, drain, inbox, task, holds, inflight, running, draining, pending,
                   finisher, told>>

-----------------------------------------------------------------------------
(* Capacity *)

Free(g) == IF inflight[g] < Limit[g] THEN Limit[g] - inflight[g] ELSE 0

\* Variant: a card that drains still takes what it has room for.
TakesWhileDraining(g) == Free(g) > 0

Takes(g) == Free(g) > 0 /\ g \notin draining

Freest == {g \in Gpus : /\ Limit[g] > 0 /\ g \notin draining
                        /\ \A h \in Gpus : Limit[h] > 0 /\ h \notin draining => Free(h) <= Free(g)}

\* Variant: a task cancelled on its way keeps its slot.
KeepSlot(r) == UNCHANGED <<inflight, holds>>

\* Inflight.release; a task that has released holds no card any more.
Release(r) ==
    /\ inflight' = [g \in Gpus |->
           IF g = holds[r] /\ inflight[g] > 0 THEN inflight[g] - 1 ELSE inflight[g]]
    /\ holds' = [holds EXCEPT ![r] = None]

-----------------------------------------------------------------------------
(* _finish_drains, up to its next send: the first card with nothing in flight is
   told; without one, the whole host is, when the count given to the call is 0. *)

Tell(k, sent, todo, count) ==
    /\ finisher' = [finisher EXCEPT ![k] = [todo |-> todo, sent |-> sent, count |-> count]]
    /\ told' = told \cup {sent}

\* Coroutine k enters or resumes its walk over cards.
Walk(k, cards, count) ==
    LET idle == {g \in cards : inflight'[g] = 0}
    IN  \/ \E g \in idle : /\ \A h \in idle : g <= h
                           /\ Tell(k, g, {h \in cards : h > g}, count)
        \/ idle = {} /\ All \in pending' /\ count = 0 /\ Tell(k, All, {}, count)
        \/ /\ idle = {} /\ (All \notin pending' \/ count # 0)
           /\ finisher' = [finisher EXCEPT ![k] = Off] /\ UNCHANGED told

-----------------------------------------------------------------------------
(* The reader: handle, one frame at a time. *)

Idle == link = "open" /\ finisher["reader"] = Off /\ inbox # << >>

\* Variant: frames are read before the drain event is looked at.
ReadingFirst == Idle

Reading == Idle /\ ~drain

Frame == Head(inbox)

\* take, create_task and the entry in the dict, with no await in between.
Accept(r, g) ==
    /\ Takes(g)
    /\ inflight' = [inflight EXCEPT ![g] = @ + 1]
    /\ holds' = [holds EXCEPT ![r] = g]
    /\ running' = running \cup {r}
    /\ task' = [task EXCEPT ![r] = "working"]

\* A late request is refused whatever room there is.
Refuse(r) ==
    /\ task' = [task EXCEPT ![r] = "refused"]
    /\ UNCHANGED <<inflight, holds, running>>

HandleRequest ==
    /\ Reading /\ Frame.type = "request"
    /\ \/ \E g \in (IF Frame.gpu = None THEN Freest ELSE {Frame.gpu}) : Accept(Frame.id, g)
       \/ Refuse(Frame.id)
    /\ inbox' = Tail(inbox)
    /\ UNCHANGED <<link, dials, drain, draining, pending, finisher, told>>

HandleCancel ==
    /\ Reading /\ Frame.type = "cancel"
    /\ running' = running \ {Frame.id}
    /\ task' = IF Frame.id \in running THEN [task EXCEPT ![Frame.id] = "cancelling"] ELSE task
    /\ inbox' = Tail(inbox)
    /\ UNCHANGED <<link, dials, drain, holds, inflight, draining, pending, finisher, told>>

Drains(label) == IF label = All THEN {g \in Gpus : Limit[g] > 0} ELSE {label}

\* The drain frame, with its own call of _finish_drains.
HandleDrain ==
    /\ Reading /\ Frame.type = "drain"
    /\ draining' = draining \cup Drains(Frame.gpu)
    /\ pending' = pending \cup {Frame.gpu}
    /\ inbox' = Tail(inbox)
    /\ UNCHANGED <<link, dials, drain, task, holds, inflight, running>>
    /\ Walk("reader", pending' \ {All}, Cardinality(running))

-----------------------------------------------------------------------------
(* A task: serve_one or serve_chat inside _finished, then its callbacks. *)

\* Variant: a task that ends leaves the drains alone.
NoCallback(r) == UNCHANGED <<finisher, told>>

\* _drop has run: the count is what is left in the dict.
Callback(r) == Walk(r, pending \ {All}, Cardinality(running \ {r}))

\* The handler returns or raises; the slot is free before the answer is sent.
HandlerReturns(r) ==
    /\ task[r] = "working" /\ Release(r)
    /\ task' = [task EXCEPT ![r] = "sending"]
    /\ UNCHANGED <<link, dials, drain, inbox, running, draining, pending, finisher, told>>

AnswerSent(r) ==
    /\ task[r] = "sending"
    /\ task' = [task EXCEPT ![r] = "answered"]
    /\ running' = running \ {r}
    /\ UNCHANGED <<link, dials, drain, inbox, holds, inflight, draining, pending>>
    /\ Callback(r)

\* CancelledError unwinds the task; it releases the slot it still holds.
Unwind(r) ==
    /\ task[r] = "cancelling" /\ Release(r)
    /\ task' = [task EXCEPT ![r] = "cancelled"]
    /\ running' = running \ {r}
    /\ UNCHANGED <<link, dials, drain, inbox, draining, pending>>
    /\ Callback(r)

-----------------------------------------------------------------------------
(* A send of _finish_drains returns, and the walk goes on. *)

Finish(k) ==
    /\ finisher[k].sent # None
    /\ pending' = pending \ {finisher[k].sent}
    /\ UNCHANGED <<link, dials, drain, inbox, task, holds, inflight, running, draining>>
    /\ Walk(k, finisher[k].todo, finisher[k].count)

-----------------------------------------------------------------------------
(* _drain_out: the reader stops reading and waits for the dict to empty. *)

DrainOut ==
    /\ link = "open" /\ drain /\ finisher["reader"] = Off
    /\ link' = "drain_out"
    /\ draining' = draining \cup Drains(All)
    /\ UNCHANGED <<dials, drain, inbox, task, holds, inflight, running, pending, finisher, told>>

\* The dict is empty, or DRAIN_SECONDS are over and only slow requests are left.
OnlySlowOpen == running \subseteq Slow

Drained ==
    /\ link = "drain_out" /\ OnlySlowOpen
    /\ link' = "closing" /\ told' = told \cup {All}
    /\ UNCHANGED <<dials, drain, inbox, task, holds, inflight, running, draining, pending, finisher>>

DrainReturns == link = "closing" /\ SessionEnds("over")

-----------------------------------------------------------------------------
Reader == HandleRequest \/ HandleCancel \/ HandleDrain \/ Finish("reader")
          \/ DrainOut \/ Drained \/ DrainReturns \/ Dial \/ RunReturns

Task(r) == HandlerReturns(r) \/ AnswerSent(r) \/ Unwind(r) \/ Finish(r)

Next == Gateway \/ SetDrain \/ GatewayCloses \/ HostCancels
        \/ Reader \/ \E r \in Requests : Task(r)

Spec == Init /\ [][Next]_vars

\* The event loop runs every coroutine that is ready, handlers have a timeout,
\* and a suspended send ends when the socket drains.
FairSpec == Spec /\ WF_vars(Reader) /\ \A r \in Requests : WF_vars(Task(r))

-----------------------------------------------------------------------------
(* What the session promises. *)

Holders(g) == {r \in Requests : holds[r] = g /\ task[r] \in {"working", "cancelling"}}

\* Every slot in use belongs to exactly one task that will give it back, and no
\* card runs more than it declared: Capacity against serve_one and serve_chat.
SlotsMatchTasks ==
    \A g \in Gpus : inflight[g] = Cardinality(Holders(g)) /\ inflight[g] <= Limit[g]

\* A card the gateway was told is drained has nothing in flight, then and for
\* the rest of the session: _finish_drains against refusal.
DrainedCardIsIdle == \A g \in told \cap Gpus : inflight[g] = 0

\* docs: before the agent stops, open requests finish and then it says drained;
\* only one that outlives DRAIN_SECONDS is cut off.
OpenRequestsFinish ==
    link = "closing" => \A r \in Requests : task[r] \in Open => r \in Slow

\* docs: what the gateway and the open requests are promised of a drain, of one card or
\* of the agent, holds: drained cards are idle and only slow requests are cut off.
DrainIsClean == DrainedCardIsIdle /\ OpenRequestsFinish

\* A drain frame is confirmed, or the session it came in is over.
DrainIsConfirmed == \A d \in Gpus \cup {All} : d \in pending ~> d \notin pending

\* A request that reached the agent is answered, refused, cancelled or lost with
\* the session: none is left open.
RequestEnds == \A r \in Requests : task[r] = "inbox" ~> task[r] \in Ended

\* Once the host's drain event is set, run returns: the stop is not held up.
StopsWhenDrained == drain ~> link = "over"

\* Nothing is left waiting: drains are confirmed, requests end, and the stop comes.
EverythingEnds == DrainIsConfirmed /\ RequestEnds /\ StopsWhenDrained

\* What the host sees of it.
stage == CASE link \in {"closed", "open"} -> "serving"
           [] link \in {"drain_out", "closing"} -> "draining"
           [] OTHER -> "over"

open == {r \in Requests : task[r] \in Open}

Dialled == INSTANCE AgentDial

\* The session keeps the promise the host is built on: once the drain event is
\* set nothing new is taken, and run returns with nothing open that could end.
ImplementsDial == Dialled!Spec
================================================================================
