------------------------------ MODULE HostEngines ------------------------------
(***************************************************************************)
(* The engines of an inference host: what ServingHost.apply does to        *)
(* containers, downloads and the agent's own image (serving/host/fetch.py, *)
(* image.py, plain.py, serving/update.py, validator/sandbox/docker.py).    *)
(*                                                                         *)
(* ServingHost has the review loop around its dial and takes any plan; here*)
(* the plan is ServingPlan's, and a take-up is the steps another process   *)
(* sees: files, container, readiness, declaration.  Docker keeps what it   *)
(* runs when the agent dies, and a docker command may fail.                *)
(*                                                                         *)
(* Simplifications: a certified system opened from its repositories is a   *)
(* model here (its sandbox opens and closes the same way, with more        *)
(* containers under one key); shims and --engine-url, which start nothing, *)
(* are left out; both manifests of a model name the same revision.         *)
(***************************************************************************)
EXTENDS ServingPlan

CONSTANTS
    Imaged,         \* models the catalogue has a certified image for
    Wrong,          \* pairs whose manifest is not what the repository holds
    Catalogues,     \* what the catalogue may say: functions to Offers
    Wishes,         \* what the gateway may suggest: functions from Cards
    MaxChanges,     \* bound: changes of the catalogue and the suggestions
    Keys,           \* names of containers, drawn at random: one not in use
    MaxFaults,      \* bound: commands, downloads and calls that fail
    MaxEnds,        \* bound: stops and kills of the agent
    Old, New        \* the agent's image, and the one that is published

ASSUME NamesAssumption == None \notin Keys \cup Models \cup Digests

\* What the catalogue says is offers of models.
ASSUME CataloguesAssumption ==
    \A seen \in Catalogues :
        DOMAIN seen \subseteq Models /\ IsFiniteSet(DOMAIN seen) /\ seen \in [DOMAIN seen -> Offers]

VARIABLES
    thread,             \* where the thread of apply, or run, stands
    card,           \* the card of the plan being taken up
    offers, wished, \* the catalogue and the gateway's suggestions
    plan,           \* wanted_of of the plan being applied
    key,            \* of the container it is opening
    held,           \* holding(): what each card holds, and in which container
    docker,         \* containers: card, key and pair
    files, marker,  \* digests whose files are all in the folder; what .complete says
    env, pulled, running, helper,   \* the agent's image: .env, docker's store, this process
    faults, ends, changes,
    lost            \* containers left by a death or a kill that failed

agent == <<thread, card, key, offers, wished, plan, held>>
cache == <<files, marker>>
image == <<env, pulled, running, helper>>
count == <<faults, ends, changes>>
engineVars == <<agent, docker, cache, image, count, lost>>

Idle == [pair |-> Nothing, key |-> None]
Pair(c) == held[c].pair
Holding == [c \in Cards |-> Pair(c)]
Containers == [card : Cards, key : Keys, pair : Pairs]
Free == {k \in Keys : \A d \in docker : d.key # k}

EnginesInit ==
    /\ thread = "review" /\ card = 0 /\ key = None
    /\ offers \in Catalogues /\ wished \in Wishes
    /\ plan = [c \in Cards |-> Nothing] /\ held = [c \in Cards |-> Idle]
    /\ docker = {} /\ lost = {}
    /\ files = [m \in Models |-> {}] /\ marker = [m \in Models |-> None]
    /\ env = Old /\ pulled = {Old} /\ running = Old /\ helper = FALSE
    /\ faults = 0 /\ ends = 0 /\ changes = 0

Fault == faults < MaxFaults /\ faults' = faults + 1
NoFault == UNCHANGED faults

-----------------------------------------------------------------------------
(* Containers.  kill and remove_network log a command that fails, and go on. *)

Kill(gone) ==
    \E left \in SUBSET gone :
        /\ docker' = docker \ (gone \ left) /\ lost' = (lost \ gone) \cup left
        /\ IF left = {} THEN NoFault ELSE Fault

Of(c) == {d \in docker : d.card = c /\ d.key = held[c].key}

-----------------------------------------------------------------------------
(* A review: the catalogue, the plan, and whether it is applied. *)

\* Variant: a plan is applied when it is another one than the last.
ChangedPlan(found) == found # plan

\* plan.changed: it is not what the cards hold.
Changed(found) == found # Holding

\* plan_now with what the catalogue says.
PlanCards ==
    /\ plan' = Assign(offers', Holding, wished')
    /\ thread' = IF Changed(plan') THEN "drop" ELSE "review"

ReviewCatalogue ==
    /\ thread = "review" /\ card' = 0
    /\ \/ UNCHANGED <<offers, wished, changes>>
       \/ /\ changes < MaxChanges /\ changes' = changes + 1
          /\ offers' \in Catalogues /\ wished' \in Wishes
    /\ PlanCards
    /\ UNCHANGED <<key, held, docker, cache, image, faults, ends, lost>>

\* apply releases what the plan drops before it takes anything up.
ToDrop == Dropped(plan, Holding)

DropCard ==
    /\ thread = "drop"
    /\ IF ToDrop = {}
       THEN thread' = "take" /\ UNCHANGED <<held, docker, lost, faults>>
       ELSE \E c \in ToDrop :
            /\ \A d \in ToDrop : c <= d
            /\ Kill(Of(c)) /\ held' = [held EXCEPT ![c] = Idle] /\ UNCHANGED thread
    /\ UNCHANGED <<card, key, offers, wished, plan, cache, image, ends, changes>>

\* The next holding of the plan that is not there: a card that holds something
\* else is released first.
Waiting == {c \in Cards : c > card /\ plan[c] # Nothing /\ Pair(c) # plan[c]}

Take ==
    /\ thread = "take"
    /\ IF Waiting = {}
       THEN thread' = "review" /\ card' = 0 /\ UNCHANGED <<held, docker, lost, faults>>
       ELSE \E c \in Waiting :
            /\ \A d \in Waiting : c <= d
            /\ card' = c /\ thread' = "fetch"
            /\ IF held[c] = Idle THEN UNCHANGED <<held, docker, lost, faults>>
               ELSE Kill(Of(c)) /\ held' = [held EXCEPT ![c] = Idle]
    /\ UNCHANGED <<key, offers, wished, plan, cache, image, ends, changes>>

-----------------------------------------------------------------------------
(* take_up: files, container, readiness, declaration. *)

Model == plan[card][1]
Digest == plan[card][2]

\* fetch_model when .complete does not name this digest: snapshot_download adds
\* the files the manifest lists; if they are not the manifest's, the folder goes.
Download ==
    IF plan[card] \in Wrong
    THEN /\ files' = [files EXCEPT ![Model] = {}] /\ marker' = [marker EXCEPT ![Model] = None]
         /\ thread' = "take"
    ELSE /\ files' = [files EXCEPT ![Model] = @ \cup {Digest}]
         /\ marker' = [marker EXCEPT ![Model] = Digest] /\ thread' = "start"

\* ensure_digest pulls by digest, and looks at what was pulled.
Fetch ==
    /\ thread = "fetch"
    /\ \/ /\ Model \in Imaged \/ marker[Model] = Digest
          /\ thread' = "start" /\ NoFault /\ UNCHANGED cache
       \/ /\ Model \notin Imaged /\ marker[Model] # Digest
          /\ Download /\ NoFault
       \/ /\ Model \in Imaged \/ marker[Model] # Digest
          /\ thread' = "take" /\ Fault /\ UNCHANGED cache
    /\ UNCHANGED <<card, key, offers, wished, plan, held, docker, image, ends, changes, lost>>

\* A certified image listens on PORT_BASE + slot: docker does not start it
\* while another container has the port.
PortTaken == Model \in Imaged /\ \E d \in docker : d.card = card /\ d.pair[1] \in Imaged

Start ==
    /\ thread = "start" /\ Free # {}
    /\ \/ /\ ~PortTaken /\ NoFault
          /\ key' = (CHOOSE k \in Free : TRUE)
          /\ docker' = docker \cup {[card |-> card, key |-> key', pair |-> plan[card]]}
          /\ thread' = "ready"
       \/ /\ IF PortTaken THEN NoFault ELSE Fault
          /\ thread' = "take" /\ UNCHANGED <<key, docker>>
    /\ UNCHANGED <<card, offers, wished, plan, held, cache, image, ends, changes, lost>>

\* The container apply has started and does not hold yet.
Opening == {d \in docker : d.key = key}

\* The memory of the card: an engine asks for most of it.
CardTaken == \E d \in docker \ Opening : d.card = card

\* Variant: a container that did not get ready is left.
LeaveIt == UNCHANGED <<docker, lost, faults>>

GiveUp == Kill(Opening)

\* wait_ready returns, or raises: then the container is killed.
Ready ==
    /\ thread = "ready"
    /\ \/ /\ ~CardTaken
          /\ held' = [held EXCEPT ![card] = [pair |-> plan[card], key |-> key]]
          /\ thread' = "declare" /\ UNCHANGED <<docker, lost, faults>>
       \/ /\ CardTaken
          /\ thread' = "take" /\ GiveUp /\ UNCHANGED held
       \/ /\ ~CardTaken /\ Fault
          /\ thread' = "take" /\ docker' = docker \ Opening /\ UNCHANGED <<held, lost>>
    /\ UNCHANGED <<card, key, offers, wished, plan, cache, image, ends, changes>>

\* The system is declared to the server.  ServerError is not one of
\* SERVE_FAILURES: it leaves apply and run, and the agent stops.
Declare ==
    /\ thread = "declare"
    /\ \/ thread' = "take" /\ NoFault
       \/ thread' = "stop" /\ Fault
    /\ UNCHANGED <<card, key, offers, wished, plan, held, docker, cache, image, ends, changes, lost>>

-----------------------------------------------------------------------------
(* The agent's own image, when no dial is left (ServingHost). *)

\* check: ensure_digest, then rewrite_env, which writes beside .env and renames.
PullThenEnv ==
    \/ pulled' = pulled \cup {New} /\ env' = New /\ NoFault
    \/ pulled' \in {pulled, pulled \cup {New}} /\ UNCHANGED env /\ Fault

CheckUpdate ==
    /\ thread = "review" /\ running # New /\ env # New
    /\ PullThenEnv
    /\ UNCHANGED <<agent, docker, cache, running, helper, ends, changes, lost>>

\* restart: a helper container runs compose up, and run ends.
Restart ==
    /\ thread = "review" /\ running # New /\ env = New
    /\ \/ helper' = TRUE /\ thread' = "stop" /\ NoFault
       \/ Fault /\ UNCHANGED <<helper, thread>>
    /\ UNCHANGED <<card, key, offers, wished, plan, held, docker, cache, env, pulled, running,
                   ends, changes, lost>>

-----------------------------------------------------------------------------
(* Stop, death and start. *)

StopComes ==
    /\ thread = "review" /\ thread' = "stop"
    /\ ends < MaxEnds /\ ends' = ends + 1
    /\ UNCHANGED <<card, key, offers, wished, plan, held, docker, cache, image, faults, changes, lost>>

\* stop releases every card, and sweep kills what carries the label.
Sweep == Kill(docker)

StopHost ==
    /\ thread = "stop" /\ thread' = "off"
    /\ held' = [c \in Cards |-> Idle] /\ Sweep
    /\ UNCHANGED <<card, key, offers, wished, plan, cache, image, ends, changes>>

\* SIGKILL: containers and files stay as they are.
Death ==
    /\ thread # "off" /\ ends < MaxEnds /\ ends' = ends + 1
    /\ thread' = "off" /\ held' = [c \in Cards |-> Idle]
    /\ lost' = docker
    /\ UNCHANGED <<card, key, offers, wished, plan, docker, cache, image, faults, changes>>

\* start does not sweep.  Compose starts what .env names, docker what ran.
Boot ==
    /\ thread = "off" /\ thread' = "review"
    /\ card' = 0 /\ plan' = [c \in Cards |-> Nothing]
    /\ running' \in IF helper THEN {env} ELSE {running, env}
    /\ helper' = FALSE
    /\ UNCHANGED <<key, offers, wished, held, docker, cache, env, pulled, count, lost>>

-----------------------------------------------------------------------------
Apply == DropCard \/ Take \/ Fetch \/ Start \/ Ready \/ Declare
EnginesNext == ReviewCatalogue \/ Apply \/ CheckUpdate \/ Restart \/ StopComes \/ StopHost \/ Death \/ Boot
EnginesSpec == EnginesInit /\ [][EnginesNext]_engineVars

\* The thread of apply goes on; a review follows; a host that is off is started.
FairEngines == EnginesSpec /\ WF_engineVars(Apply) /\ WF_engineVars(ReviewCatalogue) /\ WF_engineVars(StopHost) /\ WF_engineVars(Boot)

EnginesTypeOK ==
    /\ thread \in {"review", "drop", "take", "fetch", "start", "ready", "declare", "stop", "off"}
    /\ card \in 0..NCards /\ plan \in Holdings
    /\ \A c \in Cards : held[c].pair \in Pairs \cup {Nothing} /\ held[c].key \in Keys \cup {None}
    /\ docker \subseteq Containers /\ lost \subseteq docker
    /\ env \in {Old, New} /\ pulled \subseteq {Old, New} /\ running \in {Old, New}

-----------------------------------------------------------------------------
(* What the host promises. *)

\* A container that no card holds and apply is not opening was left by a death of
\* the agent or a docker command that failed, whatever path a take-up ended on.
EveryEngineIsKnown ==
    \A d \in docker \ lost :
        held[d.card].key = d.key \/ (thread = "ready" /\ d.key = key)

\* The files under an engine that runs are those of its manifest, all of them,
\* from its start until it is released: no later download takes them away.
EnginesKeepTheirFiles ==
    \A c \in Cards : Pair(c) # Nothing /\ Pair(c)[1] \notin Imaged =>
        Pair(c)[2] \in files[Pair(c)[1]] /\ Pair(c) \notin Wrong

\* .env never names an image docker has not pulled and verified: the next start
\* of the agent finds its image, wherever the update was cut off.
EnvNamesPulledImage == env \in pulled /\ running \in pulled

\* What runs, the files under it and the image of the agent are accounted for, wherever a
\* take-up, a download or an update was cut off.
NothingIsStray ==
    EnginesTypeOK /\ EveryEngineIsKnown /\ EnginesKeepTheirFiles /\ EnvNamesPulledImage

(***************************************************************************)
(* Whatever the cards hold and whatever the catalogue and the gateway say, *)
(* planning again for what the plan holds changes nothing: the review loop *)
(* comes to rest, and no engine is closed and loaded in turns (plan.py     *)
(* assign, changed).                                                       *)
(***************************************************************************)
PlanSettles ==
    \A seen \in Catalogues, wishes \in Wishes :
        LET first == Assign(seen, Holding, wishes)
        IN  Assign(seen, first, wishes) = first

\* Once faults, deaths and changes are over, every card holds what is planned for
\* it, unless a container that nobody closed stands in its way, the manifest is
\* wrong, or the agent was told to stop.
PlanIsReached ==
    <>[](thread # "off" /\ \A c \in Cards :
           \/ Pair(c) = plan[c] \/ plan[c] \in Wrong
           \/ \E d \in lost : d.card = c)
================================================================================
