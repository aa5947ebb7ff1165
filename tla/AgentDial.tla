------------------------------- MODULE AgentDial -------------------------------
(***************************************************************************)
(* What the serving host may rely on when it dials the gateway             *)
(* (serving/wire/session.py, run): the promise of GatewaySession, and the  *)
(* part ServingHost is composed with.                                      *)
(***************************************************************************)

CONSTANTS Requests, Slow    \* as in GatewaySession

VARIABLES
    stage,  \* run serves, drains, or has returned; "none" before it is called
    drain,  \* the host's drain event is set
    open    \* the requests somebody waits for an answer to

dialVars == <<stage, drain, open>>

Stages == {"none", "serving", "draining", "over"}

TypeOK == stage \in Stages /\ drain \in BOOLEAN /\ open \in SUBSET Requests

Init == stage = "serving" /\ drain = FALSE /\ open = {}

\* A request is taken; none is once the event is set.
Take(r) ==
    /\ stage = "serving" /\ ~drain /\ r \notin open
    /\ open' = open \cup {r} /\ UNCHANGED <<stage, drain>>

\* It is answered, or the gateway takes it back.
Leave(r) == r \in open /\ open' = open \ {r} /\ UNCHANGED <<stage, drain>>

\* The connection is gone and everything open with it; run dials again.
LoseLink ==
    /\ stage \in {"serving", "draining"}
    /\ stage' = "serving" /\ open' = {} /\ UNCHANGED drain

DrainOut == stage = "serving" /\ drain /\ stage' = "draining" /\ UNCHANGED <<drain, open>>

\* run returns by itself only when it was asked to drain, and leaves nothing
\* open that ends within DRAIN_SECONDS.
Return ==
    /\ stage = "draining" \/ (stage = "serving" /\ drain /\ open = {})
    /\ open \subseteq Slow
    /\ stage' = "over" /\ open' = {} /\ UNCHANGED drain

\* The host cancels the dial.
Cancel == stage' = "over" /\ open' = {} /\ UNCHANGED drain

SetDrain == drain' = TRUE /\ UNCHANGED <<stage, open>>

Next == (\E r \in Requests : Take(r) \/ Leave(r))
        \/ LoseLink \/ DrainOut \/ Return \/ Cancel \/ SetDrain

Spec == Init /\ [][Next]_dialVars
================================================================================
