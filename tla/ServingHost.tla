------------------------------ MODULE ServingHost ------------------------------
(***************************************************************************)
(* The inference agent around its dial (serving/host/__init__.py).         *)
(*                                                                         *)
(* One coroutine, run, reviews in a loop: it looks for a newer agent       *)
(* image, reads the catalogue, plans which model each card holds, applies  *)
(* the plan in a thread, and dials the gateway with what is held.  The     *)
(* dial is a task of its own and serves while the loop is suspended; it is *)
(* AgentDial, which GatewaySession implements.  SIGTERM may arrive at any  *)
(* await.                                                                  *)
(*                                                                         *)
(* Simplifications: plan.build is any assignment of offered models to      *)
(* cards; a card answers one request at a time, so that a request is named *)
(* by its card; phases, suggestions and logs are left out.                 *)
(***************************************************************************)
EXTENDS Integers, FiniteSets

CONSTANTS
    Gpus,           \* the cards the host was given
    Offered,         \* (model, artifact digest) pairs of the catalogue
    Slow,           \* cards whose request may outlive DRAIN_SECONDS
    MaxReviews,     \* bound: passes of the loop that change the plan
    NoModel         \* no model

Kinds == {"held", "plain", "images_held"}

ASSUME NoModelAssumption == NoModel \notin Offered
ASSUME BoundsAssumption == MaxReviews \in Nat /\ Slow \subseteq Gpus

VARIABLES
    pc,         \* where run stands
    halt,       \* the stop was asked for: SIGTERM, or an update was applied
    raised,     \* an exception ended the loop
    reviews,    \* passes so far
    store,      \* the dicts held, plain and images_held
    wanted,     \* the plan being applied
    before,     \* settings() before it was applied
    announced,  \* the holdings in the hello of the dial
    tried,      \* cards whose holding was taken up, or could not be
    stage, drain, open  \* the dial, see AgentDial

host == <<pc, halt, raised, reviews, store, wanted, before, announced, tried>>
vars == <<host, stage, drain, open>>

Dial == INSTANCE AgentDial WITH Requests <- Gpus

Assignments == [Gpus -> Offered \cup {NoModel}]
Empty == [g \in Gpus |-> NoModel]

Steps == {"review", "check", "drain", "update", "catalogue", "apply", "compare",
          "cancel", "finally", "stop", "over"}

TypeOK ==
    /\ pc \in Steps /\ halt \in BOOLEAN /\ raised \in BOOLEAN /\ reviews \in 0..MaxReviews
    /\ store \in [Kinds -> Assignments]
    /\ wanted \in Assignments /\ before \in Assignments /\ announced \in Assignments
    /\ tried \in SUBSET Gpus
    /\ Dial!TypeOK

Init ==
    /\ pc = "review" /\ halt = FALSE /\ raised = FALSE /\ reviews = 0
    /\ store = [k \in Kinds |-> Empty]
    /\ wanted = Empty /\ before = Empty /\ announced = Empty /\ tried = {}
    /\ stage = "none" /\ drain = FALSE /\ open = {}

\* A card is in one dict at most; holding() looks into all three.
holding == [g \in Gpus |-> IF \E k \in Kinds : store[k][g] # NoModel
                           THEN store[CHOOSE k \in Kinds : store[k][g] # NoModel][g]
                           ELSE NoModel]

DialStays == UNCHANGED <<stage, drain, open>>
Goto(step) == pc' = step

-----------------------------------------------------------------------------
(* The dial runs beside the loop. *)

\* The gateway sends work to the cards the hello announced.
Serving ==
    /\ \/ \E g \in Gpus : announced[g] # NoModel /\ Dial!Take(g)
       \/ \E g \in Gpus : Dial!Leave(g)
       \/ Dial!LoseLink \/ Dial!DrainOut \/ Dial!Return
    /\ UNCHANGED host

\* stopping: the handler of SIGTERM and SIGINT.
Stopping ==
    /\ ~halt /\ pc # "over"
    /\ Dial!SetDrain /\ halt' = TRUE
    /\ UNCHANGED <<pc, raised, reviews, store, wanted, before, announced, tried>>

Dialling(settings) == announced' = settings /\ stage' = "serving" /\ UNCHANGED <<drain, open>>

\* There is no dial, or the task is done.
NoDial == stage \in {"none", "over"}

-----------------------------------------------------------------------------
(* run, from one await to the next. *)

\* The loop is left: finally waits for a dial that drains, and cancels any other.
Leave == IF drain THEN Goto("finally") /\ DialStays
         ELSE Goto("stop") /\ IF stage = "none" THEN DialStays ELSE Dial!Cancel

\* The first pass, and the end of wait_for: halt, or review_seconds are over.
Review ==
    /\ pc = "review"
    /\ IF halt THEN Leave ELSE Goto("check") /\ DialStays
    /\ UNCHANGED <<halt, raised, reviews, store, wanted, before, announced, tried>>

\* pending_update has returned: a newer image sets the drain event.
PendingUpdate ==
    /\ pc = "check"
    /\ \/ Goto("catalogue") /\ DialStays
       \/ Goto(IF stage = "none" THEN "update" ELSE "drain") /\ Dial!SetDrain
    /\ UNCHANGED <<halt, raised, reviews, store, wanted, before, announced, tried>>

Gathered == pc = "drain" /\ stage = "over" /\ stage' = "none" /\ UNCHANGED <<drain, open>>

DrainForUpdate ==
    /\ Gathered /\ Goto("update")
    /\ UNCHANGED <<halt, raised, reviews, store, wanted, before, announced, tried>>

NewEvent == drain' = FALSE

\* apply_update: the process is to be replaced, or serves on with a new event.
ApplyUpdate ==
    /\ pc = "update"
    /\ \/ Goto("finally") /\ halt' = TRUE /\ UNCHANGED drain
       \/ Goto("catalogue") /\ NewEvent /\ UNCHANGED halt
    /\ UNCHANGED <<raised, reviews, store, wanted, before, announced, tried, stage, open>>

\* The catalogue was read, or could not be; plan_now; a dial for what is held;
\* changed sends the plan to the thread.
PlanNow ==
    /\ pc = "catalogue"
    /\ \E plan \in Assignments :
        /\ plan # holding => reviews < MaxReviews
        /\ reviews' = IF plan # holding THEN reviews + 1 ELSE reviews
        /\ wanted' = plan
        /\ Goto(IF plan # holding THEN "apply" ELSE "compare")
    /\ before' = holding /\ tried' = {}
    /\ IF NoDial THEN Dialling(holding) ELSE UNCHANGED announced /\ DialStays
    /\ UNCHANGED <<halt, raised, store>>

\* A catalogue row plan_now cannot read, or an exception outside SERVE_FAILURES.
Raise ==
    /\ pc \in {"catalogue", "apply"}
    /\ raised' = TRUE /\ Leave
    /\ UNCHANGED <<halt, reviews, store, wanted, before, announced, tried>>

-----------------------------------------------------------------------------
(* apply, in a thread: the drops, then the holdings, one card after another. *)

\* release: the first dict that has the card gives it up.
Release(g) ==
    \E k \in Kinds : /\ store[k][g] # NoModel
                     /\ store' = [store EXCEPT ![k][g] = NoModel]

\* Variant: every holding is dropped and taken up again.
DropAll == {g \in Gpus : holding[g] # NoModel /\ (tried = {} \/ holding[g] # wanted[g])}

Drops == {g \in Gpus : holding[g] # NoModel /\ holding[g] # wanted[g]}

Drop ==
    /\ pc = "apply" /\ tried = {}
    /\ \E g \in Drops : Release(g)
    /\ UNCHANGED <<pc, halt, raised, reviews, wanted, before, announced, tried>>
    /\ DialStays

\* Variant: holdings are taken up before the drops.
TakesOver == {g \in Gpus \ tried : wanted[g] # NoModel /\ holding[g] # wanted[g]}

ToTakeUp == IF Drops = {} THEN {g \in Gpus \ tried : wanted[g] # NoModel /\ holding[g] = NoModel}
            ELSE {}

\* take_up: the entry's kind picks the dict; a SERVE_FAILURE leaves it empty.
TakeUp ==
    /\ pc = "apply"
    /\ \E g \in ToTakeUp :
        /\ tried' = tried \cup {g}
        /\ \/ \E k \in Kinds : store' = [store EXCEPT ![k][g] = wanted[g]]
           \/ UNCHANGED store
    /\ UNCHANGED <<pc, halt, raised, reviews, wanted, before, announced>> /\ DialStays

Applied ==
    /\ pc = "apply" /\ Drops = {} /\ ToTakeUp = {}
    /\ Goto("compare")
    /\ UNCHANGED <<halt, raised, reviews, store, wanted, before, announced, tried>>
    /\ DialStays

-----------------------------------------------------------------------------
(* The second half of a review. *)

\* Variant: a dial that runs is left alone.
KeepsDialling == NoDial

NeedsDial == NoDial \/ holding # before

\* break when the event is set; the wait is over at once when halt is.
Rest == IF drain \/ halt THEN Leave ELSE Goto("review") /\ DialStays

\* A dial that no longer announces what is held is cancelled.
Compare ==
    /\ pc = "compare"
    /\ IF NeedsDial THEN Goto("cancel") /\ Dial!Cancel ELSE Rest
    /\ UNCHANGED <<halt, raised, reviews, store, wanted, before, announced, tried>>

\* With halt set and the event not, finally cancels the new dial before it connects.
DialAgain ==
    /\ pc = "cancel"
    /\ announced' = holding /\ UNCHANGED <<drain, open>>
    /\ IF halt /\ ~drain
       THEN stage' = "over" /\ Goto("stop")
       ELSE stage' = "serving" /\ Goto(IF drain THEN "finally" ELSE "review")
    /\ UNCHANGED <<halt, raised, reviews, store, wanted, before, tried>>

Finally ==
    /\ pc = "finally" /\ NoDial /\ Goto("stop")
    /\ UNCHANGED <<halt, raised, reviews, store, wanted, before, announced, tried>>
    /\ DialStays

ReleaseAll == [k \in Kinds |-> Empty]

Stop ==
    /\ pc = "stop" /\ Goto("over")
    /\ store' = ReleaseAll
    /\ UNCHANGED <<halt, raised, reviews, wanted, before, announced, tried>> /\ DialStays

-----------------------------------------------------------------------------
Run == Review \/ PendingUpdate \/ DrainForUpdate \/ ApplyUpdate \/ PlanNow
       \/ Drop \/ TakeUp \/ Applied \/ Compare \/ DialAgain \/ Finally \/ Stop

Next == Run \/ Raise \/ Serving \/ Stopping

Spec == Init /\ [][Next]_vars

\* The event loop and the thread of apply make progress; requests end or are
\* slow; the dial does what GatewaySession shows of it under its own fairness.
FairSpec == Spec /\ WF_vars(Run)
            /\ WF_vars(Dial!DrainOut /\ UNCHANGED host) /\ WF_vars(Dial!Return /\ UNCHANGED host)
            /\ \A g \in Gpus \ Slow : WF_vars(Dial!Leave(g) /\ UNCHANGED host)

-----------------------------------------------------------------------------
(* What the agent promises. *)

\* No card ever holds two systems: holding() and release() see one of three
\* dicts, so that a second entry would be an engine nobody closes.
OneSystemPerCard ==
    \A g \in Gpus : \A k, l \in Kinds :
        store[k][g] # NoModel /\ store[l][g] # NoModel => k = l

\* Between two reviews the gateway is told exactly what the cards hold.
AnnouncesWhatIsHeld ==
    pc = "review" /\ stage # "none" /\ ~drain => ~NoDial /\ announced = holding

\* docs: before it updates itself, the agent drains.
UpdateFindsNoWork == pc = "update" => open = {} /\ stage = "none"

\* When run is over, nothing is held and no request is open.
StopsClean == pc = "over" => open = {} /\ stage \in {"none", "over"} /\ holding = Empty

\* The cards, the hello, the update and the end of run agree, however reviews end.
AgentIsConsistent == AnnouncesWhatIsHeld /\ UpdateFindsNoWork /\ StopsClean

\* Nothing but SIGTERM, an applied update or an exception ends the agent.
StopsOnlyWhenAsked == pc \in {"finally", "stop", "over"} => halt \/ raised

\* A card whose model stays in the plan keeps its engine through the review.
PlannedCardIsKept ==
    [][\A g \in Gpus : pc = "apply" /\ holding[g] # NoModel /\ holding[g] = wanted[g]
           => holding'[g] = holding[g]]_vars

\* SIGTERM is obeyed: run gets to its end.
StopIsReached == halt ~> pc = "over"

\* A review costs no planned card its engine, and a stop is not held up by one.
CardsStayAndStopsCome == PlannedCardIsKept /\ StopIsReached
================================================================================
