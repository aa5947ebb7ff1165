-------------------------- MODULE GatewaySessionProofs --------------------------
(* Theorems about GatewaySession, for any number of cards and requests. *)
EXTENDS GatewaySession, FiniteSetTheorems, TLAPS

\* A request frame on its way is the only one of its request, not taken yet.
InboxInv ==
    \A i \in DOMAIN inbox : inbox[i].type = "request" =>
        /\ task[inbox[i].id] = "inbox"
        /\ \A j \in DOMAIN inbox :
              inbox[j].type = "request" /\ inbox[j].id = inbox[i].id => j = i

\* The running dict holds the tasks that were not cancelled and have not ended.
OpenInv == \A r \in Requests : r \in running <=> task[r] \in Open

\* Only a task that will release it holds a slot.
HoldInv == \A r \in Requests : holds[r] # None => task[r] \in {"working", "cancelling"}

\* Whatever is told, pending or being walked is a card that drains.
DrainInv ==
    /\ (told \cup pending) \cap Gpus \subseteq draining
    /\ \A k \in Owners : finisher[k].todo \subseteq draining

Inv == /\ TypeOK /\ InboxInv /\ OpenInv /\ HoldInv /\ SlotsMatchTasks /\ DrainInv
       /\ DrainedCardIsIdle /\ OpenRequestsFinish

-----------------------------------------------------------------------------
(* Facts about the state that several actions need. *)

LEMMA Counts ==
    ASSUME NEW S \in SUBSET Requests
    PROVE  IsFiniteSet(S) /\ Cardinality(S) \in Nat
BY RequestsAssumption, FS_Subset, FS_CardinalityType

\* What a walk of _finish_drains may change.
LEMMA WalkFinds ==
    ASSUME TypeOK, NEW k \in Owners, NEW cards \in SUBSET Gpus, NEW count \in Nat,
           inflight' \in [Gpus -> Nat], Walk(k, cards, count)
    PROVE  /\ finisher' \in [Owners -> Finishers]
           /\ told' \in SUBSET (Gpus \cup {All})
           /\ told' \subseteq told \cup cards \cup {All}
           /\ \A j \in Owners : finisher'[j].todo \subseteq finisher[j].todo \cup cards
           /\ \A g \in told' \cap Gpus : g \in told \/ inflight'[g] = 0
<1> USE NamesAssumption DEF TypeOK, Finishers
<1>1. CASE \E g \in cards : inflight'[g] = 0 /\ Tell(k, g, {h \in cards : h > g}, count)
    BY <1>1 DEF Tell
<1>2. CASE Tell(k, All, {}, count)
    BY <1>2 DEF Tell
<1>3. CASE finisher' = [finisher EXCEPT ![k] = Off] /\ UNCHANGED told
    BY <1>3 DEF Off
<1>4. QED BY <1>1, <1>2, <1>3 DEF Walk

\* The slots of a card whose holders stay the same.
LEMMA SameHolders ==
    ASSUME NEW g, Holders(g)' = Holders(g), inflight'[g] = inflight[g],
           inflight[g] = Cardinality(Holders(g)), inflight[g] <= Limit[g]
    PROVE  inflight'[g] = Cardinality(Holders(g)') /\ inflight'[g] <= Limit[g]
OBVIOUS

\* A task that gives its slot back takes exactly one off its card.
LEMMA ReleaseGivesBack ==
    ASSUME Inv, NEW r \in Requests, Release(r), task[r] \in {"working", "cancelling"},
           NEW s \in {"sending", "cancelled"}, task' = [task EXCEPT ![r] = s]
    PROVE  /\ inflight' \in [Gpus -> Nat] /\ holds' \in [Requests -> Gpus \cup {None}]
           /\ SlotsMatchTasks' /\ HoldInv'
           /\ \A g \in Gpus : inflight'[g] <= inflight[g]
<1> USE DEF Inv, TypeOK
<1>1. inflight' \in [Gpus -> Nat] /\ \A g \in Gpus : inflight'[g] <= inflight[g]
    BY DEF Release
<1>2. holds' \in [Requests -> Gpus \cup {None}]
    BY DEF Release
<1>3. HoldInv'
    BY DEF Release, HoldInv
<1>4. ASSUME NEW g \in Gpus
      PROVE  inflight'[g] = Cardinality(Holders(g)') /\ inflight'[g] <= Limit[g]
    <2>1. Holders(g) \in SUBSET Requests /\ IsFiniteSet(Holders(g))
        BY Counts DEF Holders
    <2>2. inflight[g] = Cardinality(Holders(g)) /\ inflight[g] <= Limit[g] /\ Limit[g] \in Nat
        BY GpusAssumption DEF SlotsMatchTasks
    <2>3. CASE holds[r] = g
        <3>1. r \in Holders(g) /\ Holders(g)' = Holders(g) \ {r}
            BY <2>3, NamesAssumption DEF Holders, Release
        <3>2. Cardinality(Holders(g)') = Cardinality(Holders(g)) - 1 /\ Cardinality(Holders(g)') \in Nat
            BY <2>1, <3>1, FS_RemoveElement, FS_CardinalityType
        <3>3. inflight'[g] = inflight[g] - 1
            BY <2>2, <2>3, <3>2 DEF Release
        <3>4. QED BY <2>2, <3>2, <3>3
    <2>4. CASE holds[r] # g
        <3>1. Holders(g)' = Holders(g)
            BY <2>4, NamesAssumption DEF Holders, Release
        <3>2. inflight'[g] = inflight[g]
            BY <2>4 DEF Release
        <3>3. QED BY <2>2, <3>1, <3>2
    <2>5. QED BY <2>3, <2>4
<1>5. SlotsMatchTasks'
    BY <1>4 DEF SlotsMatchTasks
<1>6. QED BY <1>1, <1>2, <1>3, <1>5

-----------------------------------------------------------------------------
(* One lemma per action, or per group of actions that touch the same state. *)

SameSlots == UNCHANGED <<holds, inflight>>

LEMMA GatewayStep == ASSUME Inv, Gateway PROVE Inv'
<1> USE DEF Inv, TypeOK
<1>1. PICK f \in Frames :
         /\ inbox' = Append(inbox, f)
         /\ \/ /\ f.type = "request" /\ f.id \in Requests /\ task[f.id] = "unsent"
               /\ task' = [task EXCEPT ![f.id] = "inbox"]
            \/ f.type # "request" /\ UNCHANGED task
    <2>1. CASE \E r \in Requests, g \in Gpus \cup {None} :
                  /\ task[r] = "unsent" /\ task' = [task EXCEPT ![r] = "inbox"]
                  /\ Post([type |-> "request", id |-> r, gpu |-> g])
        <3>1. PICK r \in Requests, g \in Gpus \cup {None} :
                  /\ task[r] = "unsent" /\ task' = [task EXCEPT ![r] = "inbox"]
                  /\ Post([type |-> "request", id |-> r, gpu |-> g])
            BY <2>1
        <3> DEFINE f == [type |-> "request", id |-> r, gpu |-> g]
        <3>2. f \in Frames /\ f.type = "request" /\ f.id = r
            BY DEF Frames
        <3>3. QED BY <3>1, <3>2 DEF Post
    <2>2. CASE \E r \in Requests : Post([type |-> "cancel", id |-> r]) /\ UNCHANGED task
        <3>1. PICK r \in Requests : Post([type |-> "cancel", id |-> r]) /\ UNCHANGED task
            BY <2>2
        <3> DEFINE f == [type |-> "cancel", id |-> r]
        <3>2. f \in Frames /\ f.type = "cancel"
            BY DEF Frames
        <3>3. QED BY <3>1, <3>2 DEF Post
    <2>3. CASE \E d \in Gpus \cup {All} : Post([type |-> "drain", gpu |-> d]) /\ UNCHANGED task
        <3>1. PICK d \in Gpus \cup {All} : Post([type |-> "drain", gpu |-> d]) /\ UNCHANGED task
            BY <2>3
        <3> DEFINE f == [type |-> "drain", gpu |-> d]
        <3>2. f \in Frames /\ f.type = "drain"
            BY DEF Frames
        <3>3. QED BY <3>1, <3>2 DEF Post
    <2>4. QED BY <2>1, <2>2, <2>3 DEF Gateway
<1>2. UNCHANGED <<link, dials, drain, holds, inflight, running, draining, pending, finisher, told>>
    BY DEF Gateway
<1>3. \A r \in Requests : task'[r] = task[r] \/ (task[r] = "unsent" /\ task'[r] = "inbox")
    BY <1>1
<1>4. task' \in [Requests -> {"unsent", "inbox", "cancelling"} \cup Open \cup Ended]
    BY <1>1
<1>5. inbox' \in Seq(Frames)
    BY <1>1
<1>6. TypeOK'
    BY <1>2, <1>4, <1>5
<1>7. InboxInv'
    <2>1. \A i \in DOMAIN inbox' : inbox'[i] \in Frames
        BY <1>5
    <2>2. \A i \in DOMAIN inbox' : inbox'[i].type = "request" => inbox'[i].id \in Requests
        BY <2>1 DEF Frames
    <2>3. \A i \in DOMAIN inbox' : \/ i \in DOMAIN inbox /\ inbox'[i] = inbox[i]
                                   \/ i = Len(inbox) + 1 /\ inbox'[i] = f
        BY <1>1
    <2>4. \A i \in DOMAIN inbox : i # Len(inbox) + 1
        OBVIOUS
    <2>5. QED BY <1>1, <2>2, <2>3, <2>4 DEF InboxInv
<1>8. OpenInv' /\ HoldInv' /\ OpenRequestsFinish'
    BY <1>2, <1>3 DEF OpenInv, HoldInv, OpenRequestsFinish, Open
<1>9. \A g \in Gpus : Holders(g)' = Holders(g)
    BY <1>2, <1>3 DEF Holders
<1>10. SlotsMatchTasks'
    BY <1>2, <1>9 DEF SlotsMatchTasks
<1>11. DrainInv' /\ DrainedCardIsIdle'
    BY <1>2 DEF DrainInv, DrainedCardIsIdle
<1>12. QED BY <1>6, <1>7, <1>8, <1>10, <1>11

LEMMA SessionEndsStep == ASSUME Inv, NEW next \in {"closed", "over"}, SessionEnds(next) PROVE Inv'
<1> USE DEF Inv, TypeOK, SessionEnds
<1>1. TypeOK'
    BY NamesAssumption DEF Links, Finishers, Off, Ended
<1>2. InboxInv' /\ DrainInv' /\ DrainedCardIsIdle' /\ OpenRequestsFinish'
    BY DEF InboxInv, DrainInv, DrainedCardIsIdle, OpenRequestsFinish, Off
<1>3. OpenInv' /\ HoldInv'
    BY DEF OpenInv, HoldInv, Open, Ended
<1>4. ASSUME NEW g \in Gpus PROVE inflight'[g] = Cardinality(Holders(g)') /\ inflight'[g] <= Limit[g]
    <2>1. Holders(g)' = {}
        BY NamesAssumption DEF Holders, Gpus
    <2>2. QED BY <2>1, FS_EmptySet, GpusAssumption
<1>5. QED BY <1>1, <1>2, <1>3, <1>4 DEF SlotsMatchTasks

\* Steps of run, of the drain event and of _drain_out: no slot and no task moves.
LEMMA LinkStep ==
    ASSUME Inv, SetDrain \/ Dial \/ RunReturns \/ DrainOut \/ Drained PROVE Inv'
<1> USE DEF Inv, TypeOK
<1>1. UNCHANGED <<inbox, task, holds, inflight, running, pending, finisher>>
    BY DEF SetDrain, Dial, RunReturns, DrainOut, Drained
<1>2. /\ link' \in Links /\ dials' \in Nat /\ drain' \in BOOLEAN
      /\ draining \subseteq draining' /\ draining' \in SUBSET Gpus
      /\ told' \in {told, told \cup {All}}
    <2>1. Drains(All) \in SUBSET Gpus
        BY DEF Drains
    <2>2. CASE SetDrain
        BY <2>2 DEF SetDrain
    <2>5. CASE Dial
        BY <2>5 DEF Dial, Links
    <2>6. CASE RunReturns
        BY <2>6 DEF RunReturns, Links
    <2>3. CASE DrainOut
        BY <2>1, <2>3 DEF DrainOut, Links
    <2>4. CASE Drained
        BY <2>4 DEF Drained, Links
    <2>7. QED BY <2>2, <2>3, <2>4, <2>5, <2>6
<1>3. TypeOK'
    BY <1>1, <1>2
<1>4. InboxInv' /\ OpenInv' /\ HoldInv'
    BY <1>1 DEF InboxInv, OpenInv, HoldInv
<1>5. \A g \in Gpus : Holders(g)' = Holders(g)
    BY <1>1 DEF Holders
<1>6. SlotsMatchTasks'
    BY <1>1, <1>5 DEF SlotsMatchTasks
<1>7. DrainInv' /\ DrainedCardIsIdle'
    BY <1>1, <1>2, NamesAssumption DEF DrainInv, DrainedCardIsIdle
<1>8. OpenRequestsFinish'
    BY <1>1 DEF OpenRequestsFinish, OpenInv, SetDrain, Dial, RunReturns, DrainOut, Drained, OnlySlowOpen
<1>9. QED BY <1>3, <1>4, <1>6, <1>7, <1>8

\* Taking the first frame off keeps what is known of the others.
LEMMA TakeFrame ==
    ASSUME Inv, Reading, inbox' = Tail(inbox)
    PROVE  /\ Frame \in Frames /\ inbox' \in Seq(Frames)
           /\ Frame.type = "request" => Frame.id \in Requests /\ task[Frame.id] = "inbox"
           /\ \A i \in DOMAIN inbox' : inbox'[i].type = "request" =>
                 /\ task[inbox'[i].id] = "inbox"
                 /\ Frame.type = "request" => inbox'[i].id # Frame.id
                 /\ \A j \in DOMAIN inbox' :
                       inbox'[j].type = "request" /\ inbox'[j].id = inbox'[i].id => j = i
<1> USE DEF Inv, TypeOK, Reading, Idle, Frame
<1>1. Frame \in Frames /\ inbox' \in Seq(Frames) /\ 1 \in DOMAIN inbox /\ Frame = inbox[1]
    OBVIOUS
<1>2. Frame.type = "request" => Frame.id \in Requests
    BY <1>1 DEF Frames
<1>3. \A i \in DOMAIN inbox' : inbox'[i] = inbox[i + 1] /\ i + 1 \in DOMAIN inbox /\ i + 1 # 1
    OBVIOUS
<1>4. QED BY <1>1, <1>2, <1>3 DEF InboxInv

LEMMA HandleRequestStep == ASSUME Inv, HandleRequest PROVE Inv'
<1> USE DEF Inv, TypeOK
<1>1. Reading /\ Frame.type = "request" /\ inbox' = Tail(inbox)
      /\ UNCHANGED <<link, dials, drain, draining, pending, finisher, told>>
    BY DEF HandleRequest
<1>2. inbox' \in Seq(Frames) /\ Frame.id \in Requests /\ task[Frame.id] = "inbox"
      /\ \A i \in DOMAIN inbox' : inbox'[i].type = "request" =>
                 /\ task[inbox'[i].id] = "inbox" /\ inbox'[i].id # Frame.id
                 /\ \A j \in DOMAIN inbox' :
                       inbox'[j].type = "request" /\ inbox'[j].id = inbox'[i].id => j = i
    BY <1>1, TakeFrame
<1>3. ASSUME NEW s \in {"working", "refused"}, task' = [task EXCEPT ![Frame.id] = s] PROVE InboxInv'
    <2>1. \A i \in DOMAIN inbox' : inbox'[i].type = "request" => inbox'[i].id \in Requests
        BY <1>2 DEF Frames
    <2>2. QED BY <1>2, <1>3, <2>1 DEF InboxInv
<1>4. holds[Frame.id] = None
    BY <1>2 DEF HoldInv
<1>5. link = "open"
    BY <1>1 DEF Reading, Idle
<1>6. ASSUME NEW g \in Gpus, Accept(Frame.id, g) PROVE Inv'
    <2> USE <1>6 DEF Accept
    <2>1. TypeOK' /\ InboxInv'
        BY <1>1, <1>2, <1>3 DEF Open
    <2>2. OpenInv' /\ HoldInv' /\ OpenRequestsFinish'
        BY <1>1, <1>2, <1>5 DEF OpenInv, HoldInv, OpenRequestsFinish, Open
    <2>3. g \notin draining /\ inflight[g] < Limit[g]
        BY GpusAssumption DEF Takes, Free
    <2>4. DrainInv' /\ DrainedCardIsIdle'
        BY <1>1, <2>3 DEF DrainInv, DrainedCardIsIdle
    <2>5. Holders(g)' = Holders(g) \cup {Frame.id} /\ Frame.id \notin Holders(g)
        BY <1>2, <1>4, NamesAssumption DEF Holders
    <2>6. Cardinality(Holders(g)') = Cardinality(Holders(g)) + 1
        BY <2>5, Counts, FS_AddElement DEF Holders
    <2>7. \A h \in Gpus \ {g} : Holders(h)' = Holders(h)
        BY <1>2, <1>4, NamesAssumption DEF Holders
    <2>8. ASSUME NEW h \in Gpus PROVE inflight'[h] = Cardinality(Holders(h)') /\ inflight'[h] <= Limit[h]
        <3>1. CASE h = g
            <4>1. inflight[g] = Cardinality(Holders(g)) /\ inflight'[g] = inflight[g] + 1
                BY DEF SlotsMatchTasks
            <4>2. Limit[g] \in Nat /\ inflight[g] \in Nat
                BY GpusAssumption
            <4>3. QED BY <2>3, <2>6, <3>1, <4>1, <4>2
        <3>2. CASE h # g
            BY <2>7, <3>2 DEF SlotsMatchTasks
        <3>3. QED BY <3>1, <3>2
    <2>9. QED BY <2>1, <2>2, <2>4, <2>8 DEF SlotsMatchTasks
<1>7. ASSUME Refuse(Frame.id) PROVE Inv'
    <2> USE <1>7 DEF Refuse
    <2>1. TypeOK' /\ InboxInv'
        BY <1>1, <1>2, <1>3 DEF Ended
    <2>2. OpenInv' /\ HoldInv' /\ OpenRequestsFinish'
        BY <1>1, <1>2, <1>4, <1>5 DEF OpenInv, HoldInv, OpenRequestsFinish, Open
    <2>3. DrainInv' /\ DrainedCardIsIdle'
        BY <1>1 DEF DrainInv, DrainedCardIsIdle
    <2>4. \A g \in Gpus : Holders(g)' = Holders(g)
        BY <1>2 DEF Holders
    <2>5. SlotsMatchTasks'
        BY <2>4 DEF SlotsMatchTasks
    <2>6. QED BY <2>1, <2>2, <2>3, <2>5
<1>8. CASE \E g \in (IF Frame.gpu = None THEN Freest ELSE {Frame.gpu}) : Accept(Frame.id, g)
    <2>1. Frame \in Frames
        BY <1>1, TakeFrame
    <2>2. Frame.gpu \in Gpus \cup {None}
        BY <1>1, <2>1 DEF Frames
    <2>3. PICK g \in Gpus : Accept(Frame.id, g)
        BY <1>8, <2>2 DEF Freest
    <2>4. QED BY <1>6, <2>3
<1>9. QED BY <1>7, <1>8 DEF HandleRequest

LEMMA HandleCancelStep == ASSUME Inv, HandleCancel PROVE Inv'
<1> USE DEF Inv, TypeOK
<1>1. /\ Reading /\ Frame.type = "cancel" /\ inbox' = Tail(inbox) /\ link = "open"
      /\ running' = running \ {Frame.id}
      /\ task' = IF Frame.id \in running THEN [task EXCEPT ![Frame.id] = "cancelling"] ELSE task
      /\ UNCHANGED <<link, dials, drain, holds, inflight, draining, pending, finisher, told>>
    BY DEF HandleCancel, Reading, Idle
<1>2. inbox' \in Seq(Frames) /\ Frame \in Frames
      /\ \A i \in DOMAIN inbox' : inbox'[i].type = "request" =>
             /\ task[inbox'[i].id] = "inbox"
             /\ \A j \in DOMAIN inbox' :
                   inbox'[j].type = "request" /\ inbox'[j].id = inbox'[i].id => j = i
    BY <1>1, TakeFrame
<1>3. Frame.id \in Requests
    BY <1>1, <1>2 DEF Frames
<1>4. TypeOK'
    BY <1>1, <1>2, <1>3
<1>5. \A r \in Requests : task'[r] = task[r] \/ (task[r] \in Open /\ task'[r] = "cancelling")
    BY <1>1, <1>3 DEF OpenInv
<1>6. InboxInv'
    <2>1. \A i \in DOMAIN inbox' : inbox'[i].type = "request" => inbox'[i].id \in Requests
        BY <1>2 DEF Frames
    <2>2. QED BY <1>2, <1>5, <2>1 DEF InboxInv, Open
<1>7. OpenInv' /\ HoldInv' /\ OpenRequestsFinish'
    BY <1>1, <1>3, <1>5 DEF OpenInv, HoldInv, OpenRequestsFinish, Open
<1>8. \A g \in Gpus : Holders(g)' = Holders(g)
    <2>1. \A r \in Requests : holds[r] # None =>
              (task'[r] \in {"working", "cancelling"} <=> task[r] \in {"working", "cancelling"})
        BY <1>5 DEF HoldInv
    <2>2. QED BY <1>1, <2>1, NamesAssumption DEF Holders
<1>9. SlotsMatchTasks' /\ DrainInv' /\ DrainedCardIsIdle'
    BY <1>1, <1>8 DEF SlotsMatchTasks, DrainInv, DrainedCardIsIdle
<1>10. QED BY <1>4, <1>6, <1>7, <1>9

LEMMA HandleDrainStep == ASSUME Inv, HandleDrain PROVE Inv'
<1> USE DEF Inv, TypeOK
<1>1. /\ Reading /\ Frame.type = "drain" /\ inbox' = Tail(inbox)
      /\ draining' = draining \cup Drains(Frame.gpu) /\ pending' = pending \cup {Frame.gpu}
      /\ UNCHANGED <<link, dials, drain, task, holds, inflight, running>>
      /\ Walk("reader", pending' \ {All}, Cardinality(running))
    BY DEF HandleDrain
<1>2. inbox' \in Seq(Frames) /\ Frame \in Frames
      /\ \A i \in DOMAIN inbox' : inbox'[i].type = "request" =>
             /\ task[inbox'[i].id] = "inbox"
             /\ \A j \in DOMAIN inbox' :
                   inbox'[j].type = "request" /\ inbox'[j].id = inbox'[i].id => j = i
    BY <1>1, TakeFrame
<1>3. Frame.gpu \in Gpus \cup {All}
    BY <1>1, <1>2 DEF Frames
<1>4. pending' \in SUBSET (Gpus \cup {All}) /\ draining' \in SUBSET Gpus
      /\ draining \subseteq draining' /\ pending' \cap Gpus \subseteq draining'
    BY <1>1, <1>3, NamesAssumption DEF Drains, DrainInv
<1>5. pending' \ {All} \in SUBSET Gpus /\ pending' \ {All} \subseteq draining'
    BY <1>4
<1>6. Cardinality(running) \in Nat /\ "reader" \in Owners /\ inflight' \in [Gpus -> Nat]
    BY <1>1, Counts DEF Owners
<1>7. /\ finisher' \in [Owners -> Finishers] /\ told' \in SUBSET (Gpus \cup {All})
      /\ told' \subseteq told \cup (pending' \ {All}) \cup {All}
      /\ \A j \in Owners : finisher'[j].todo \subseteq finisher[j].todo \cup (pending' \ {All})
      /\ \A g \in told' \cap Gpus : g \in told \/ inflight'[g] = 0
    BY <1>1, <1>5, <1>6, WalkFinds
<1>8. TypeOK'
    BY <1>1, <1>2, <1>4, <1>7
<1>9. DrainInv' /\ DrainedCardIsIdle'
    BY <1>1, <1>4, <1>5, <1>7, NamesAssumption DEF DrainInv, DrainedCardIsIdle
<1>10. InboxInv' /\ OpenInv' /\ HoldInv' /\ OpenRequestsFinish'
    BY <1>1, <1>2 DEF InboxInv, OpenInv, HoldInv, OpenRequestsFinish
<1>11. \A g \in Gpus : Holders(g)' = Holders(g)
    BY <1>1 DEF Holders
<1>12. SlotsMatchTasks'
    BY <1>1, <1>11 DEF SlotsMatchTasks
<1>13. QED BY <1>8, <1>9, <1>10, <1>12

\* A finished task, or a resumed coroutine, walks on over cards that drain.
LEMMA WalkStep ==
    ASSUME Inv, NEW k \in Owners, NEW cards \in SUBSET draining, NEW count \in Nat,
           Walk(k, cards, count), inflight' \in [Gpus -> Nat],
           \A g \in Gpus : inflight'[g] <= inflight[g],
           UNCHANGED draining, pending' \in SUBSET pending
    PROVE  /\ finisher' \in [Owners -> Finishers] /\ told' \in SUBSET (Gpus \cup {All})
           /\ DrainInv' /\ DrainedCardIsIdle'
<1> USE DEF Inv, TypeOK
<1>1. cards \in SUBSET Gpus
    OBVIOUS
<1>2. /\ finisher' \in [Owners -> Finishers] /\ told' \in SUBSET (Gpus \cup {All})
      /\ told' \subseteq told \cup cards \cup {All}
      /\ \A j \in Owners : finisher'[j].todo \subseteq finisher[j].todo \cup cards
      /\ \A g \in told' \cap Gpus : g \in told \/ inflight'[g] = 0
    BY <1>1, WalkFinds
<1>3. DrainInv'
    BY <1>2, NamesAssumption DEF DrainInv
<1>4. \A g \in told \cap Gpus : inflight'[g] = 0
    BY DEF DrainedCardIsIdle
<1>5. DrainedCardIsIdle'
    BY <1>2, <1>4 DEF DrainedCardIsIdle
<1>6. QED BY <1>2, <1>3, <1>5

LEMMA HandlerReturnsStep == ASSUME Inv, NEW r \in Requests, HandlerReturns(r) PROVE Inv'
<1> USE DEF Inv, TypeOK
<1>1. /\ task[r] = "working" /\ Release(r) /\ task' = [task EXCEPT ![r] = "sending"]
      /\ UNCHANGED <<link, dials, drain, inbox, running, draining, pending, finisher, told>>
    BY DEF HandlerReturns
<1>2. /\ inflight' \in [Gpus -> Nat] /\ holds' \in [Requests -> Gpus \cup {None}]
      /\ SlotsMatchTasks' /\ HoldInv' /\ \A g \in Gpus : inflight'[g] <= inflight[g]
    BY <1>1, ReleaseGivesBack
<1>3. TypeOK'
    BY <1>1, <1>2 DEF Open
<1>4. InboxInv' /\ OpenInv' /\ OpenRequestsFinish'
    BY <1>1 DEF InboxInv, OpenInv, OpenRequestsFinish, Open
<1>5. DrainInv' /\ DrainedCardIsIdle'
    BY <1>1, <1>2 DEF DrainInv, DrainedCardIsIdle
<1>6. QED BY <1>2, <1>3, <1>4, <1>5

LEMMA TaskEndsStep ==
    ASSUME Inv, NEW r \in Requests, AnswerSent(r) \/ Unwind(r) PROVE Inv'
<1> USE DEF Inv, TypeOK
<1>1. /\ task[r] \in {"sending", "cancelling"}
      /\ \E s \in {"answered", "cancelled"} : task' = [task EXCEPT ![r] = s]
      /\ running' = running \ {r}
      /\ UNCHANGED <<link, dials, drain, inbox, draining, pending>>
      /\ Walk(r, pending \ {All}, Cardinality(running \ {r}))
    BY DEF AnswerSent, Unwind, Callback
<1>2. /\ inflight' \in [Gpus -> Nat] /\ holds' \in [Requests -> Gpus \cup {None}]
      /\ SlotsMatchTasks' /\ HoldInv' /\ \A g \in Gpus : inflight'[g] <= inflight[g]
    <2>1. CASE AnswerSent(r)
        <3>1. UNCHANGED <<holds, inflight>> /\ task[r] = "sending" /\ task' = [task EXCEPT ![r] = "answered"]
            BY <2>1 DEF AnswerSent
        <3>2. \A g \in Gpus : Holders(g)' = Holders(g)
            BY <3>1 DEF Holders
        <3>3. QED BY <3>1, <3>2 DEF SlotsMatchTasks, HoldInv
    <2>2. CASE Unwind(r)
        <3>1. task[r] = "cancelling" /\ Release(r) /\ task' = [task EXCEPT ![r] = "cancelled"]
            BY <2>2 DEF Unwind
        <3>2. QED BY <3>1, ReleaseGivesBack
    <2>3. QED BY <2>1, <2>2
<1>3. pending \ {All} \in SUBSET draining /\ r \in Owners /\ Cardinality(running \ {r}) \in Nat
    BY Counts DEF DrainInv, Owners
<1>4. /\ finisher' \in [Owners -> Finishers] /\ told' \in SUBSET (Gpus \cup {All})
      /\ DrainInv' /\ DrainedCardIsIdle'
    BY <1>1, <1>2, <1>3, WalkStep
<1>5. TypeOK'
    BY <1>1, <1>2, <1>4 DEF Ended
<1>6. InboxInv' /\ OpenInv' /\ OpenRequestsFinish'
    BY <1>1 DEF InboxInv, OpenInv, OpenRequestsFinish, Open
<1>7. QED BY <1>2, <1>4, <1>5, <1>6

LEMMA FinishStep == ASSUME Inv, NEW k \in Owners, Finish(k) PROVE Inv'
<1> USE DEF Inv, TypeOK
<1>1. /\ pending' = pending \ {finisher[k].sent}
      /\ UNCHANGED <<link, dials, drain, inbox, task, holds, inflight, running, draining>>
      /\ Walk(k, finisher[k].todo, finisher[k].count)
    BY DEF Finish
<1>2. /\ finisher[k].todo \in SUBSET draining /\ finisher[k].count \in Nat
      /\ inflight' \in [Gpus -> Nat] /\ \A g \in Gpus : inflight'[g] <= inflight[g]
      /\ UNCHANGED draining /\ pending' \in SUBSET pending
    BY <1>1 DEF DrainInv, Finishers
<1>3. /\ finisher' \in [Owners -> Finishers] /\ told' \in SUBSET (Gpus \cup {All})
      /\ DrainInv' /\ DrainedCardIsIdle'
    BY <1>1, <1>2, WalkStep
<1>4. TypeOK'
    BY <1>1, <1>3
<1>5. InboxInv' /\ OpenInv' /\ HoldInv' /\ OpenRequestsFinish'
    BY <1>1 DEF InboxInv, OpenInv, HoldInv, OpenRequestsFinish
<1>6. \A g \in Gpus : Holders(g)' = Holders(g)
    BY <1>1 DEF Holders
<1>7. SlotsMatchTasks'
    BY <1>1, <1>6 DEF SlotsMatchTasks
<1>8. QED BY <1>3, <1>4, <1>5, <1>7

-----------------------------------------------------------------------------
(* The theorems. *)

LEMMA InitInv == Init => Inv
<1> SUFFICES ASSUME Init PROVE Inv
    OBVIOUS
<1> USE DEF Init, Fresh
<1>1. TypeOK
    <2>1. finisher \in [Owners -> Finishers] /\ inbox \in Seq(Frames)
        BY DEF Finishers, Off
    <2>2. QED BY <2>1 DEF TypeOK, Links
<1>2. InboxInv /\ OpenInv /\ HoldInv /\ DrainInv /\ DrainedCardIsIdle /\ OpenRequestsFinish
    BY DEF InboxInv, OpenInv, HoldInv, DrainInv, DrainedCardIsIdle, OpenRequestsFinish, Off, Open
<1>3. ASSUME NEW g \in Gpus PROVE inflight[g] = Cardinality(Holders(g)) /\ inflight[g] <= Limit[g]
    <2>1. Holders(g) = {}
        BY NamesAssumption DEF Holders
    <2>2. QED BY <2>1, FS_EmptySet, GpusAssumption
<1>4. QED BY <1>1, <1>2, <1>3 DEF Inv, SlotsMatchTasks

LEMMA StutterInv == ASSUME Inv, UNCHANGED vars PROVE Inv'
<1> USE DEF vars
<1>1. TypeOK' /\ InboxInv' /\ OpenInv' /\ HoldInv'
    <2>1. TypeOK'
        BY DEF Inv, TypeOK
    <2>2. InboxInv'
        BY DEF Inv, InboxInv
    <2>3. QED BY <2>1, <2>2 DEF Inv, OpenInv, HoldInv
<1>2. \A g \in Gpus : Holders(g)' = Holders(g)
    BY DEF Holders
<1>3. SlotsMatchTasks' /\ DrainInv' /\ DrainedCardIsIdle' /\ OpenRequestsFinish'
    BY <1>2 DEF Inv, SlotsMatchTasks, DrainInv, DrainedCardIsIdle, OpenRequestsFinish
<1>4. QED BY <1>1, <1>3 DEF Inv

LEMMA NextInv == Inv /\ [Next]_vars => Inv'
<1> SUFFICES ASSUME Inv, [Next]_vars PROVE Inv'
    OBVIOUS
<1>1. CASE GatewayCloses \/ HostCancels \/ DrainReturns
    BY <1>1, SessionEndsStep DEF GatewayCloses, HostCancels, DrainReturns
<1>2. CASE SetDrain \/ Dial \/ RunReturns \/ DrainOut \/ Drained
    BY <1>2, LinkStep
<1>3. CASE \E k \in Owners : Finish(k)
    BY <1>3, FinishStep
<1>4. CASE \E r \in Requests : HandlerReturns(r) \/ AnswerSent(r) \/ Unwind(r)
    BY <1>4, HandlerReturnsStep, TaskEndsStep
<1>5. QED
    BY <1>1, <1>2, <1>3, <1>4, GatewayStep, HandleRequestStep, HandleCancelStep, HandleDrainStep,
       StutterInv DEF Next, Reader, Task, Owners

\* The inductive invariant holds in every reachable state of a session.
THEOREM Invariance == Spec => []Inv
<1>1. QED BY InitInv, NextInv, PTL DEF Spec

\* Every variable of the session stays within its type.
THEOREM TypeCorrect == Spec => []TypeOK
<1>1. Inv => TypeOK
    BY DEF Inv
<1>2. QED BY <1>1, Invariance, PTL

\* Slots and tasks agree on every card, through answers, failures, cancels and
\* drains in any order: no slot leaks and no card is overcommitted.
THEOREM SlotsAlwaysMatch == Spec => []SlotsMatchTasks
<1>1. Inv => SlotsMatchTasks
    BY DEF Inv
<1>2. QED BY <1>1, Invariance, PTL

\* What the gateway was told of a single card stays true, whatever walks of
\* _finish_drains overlap.
THEOREM DrainedCardStaysIdle == Spec => []DrainedCardIsIdle
<1>1. Inv => DrainedCardIsIdle
    BY DEF Inv
<1>2. QED BY <1>1, Invariance, PTL

\* The agent's own drain cuts off no request but a slow one.
THEOREM DrainOutLetsFinish == Spec => []OpenRequestsFinish
<1>1. Inv => OpenRequestsFinish
    BY DEF Inv
<1>2. QED BY <1>1, Invariance, PTL

\* Both promises of a drain, of a card and of the agent, at once (_finish_drains, _drain_out).
THEOREM DrainsAreClean == Spec => []DrainIsClean
<1>1. Inv => DrainIsClean
    BY DEF Inv, DrainIsClean
<1>2. QED BY <1>1, Invariance, PTL

-----------------------------------------------------------------------------
(* GatewaySession implements AgentDial. *)

\* Without a connection nobody waits for an answer.
ClosedInv == link \in {"closed", "over"} => open = {}

LEMMA SessionEndsOpen ==
    ASSUME TypeOK, NEW next, SessionEnds(next) PROVE open' = {} /\ UNCHANGED drain
BY DEF SessionEnds, TypeOK, open, Open, Ended

\* Each action of a session is an action of AgentDial, or leaves its state alone.
LEMMA StepSimulates ==
    ASSUME Inv, Inv', ClosedInv, Next
    PROVE  [Dialled!Next]_<<stage, drain, open>> /\ ClosedInv'
<1> USE DEF Inv, TypeOK
<1>1. CASE GatewayCloses
    <2>1. link \in {"open", "drain_out", "closing"} /\ link' = "closed"
        BY <1>1 DEF GatewayCloses, SessionEnds
    <2>2. open' = {} /\ UNCHANGED drain
        BY <1>1, SessionEndsOpen DEF GatewayCloses
    <2>3. Dialled!LoseLink
        BY <2>1, <2>2 DEF Dialled!LoseLink, stage
    <2>4. QED BY <2>2, <2>3 DEF Dialled!Next, ClosedInv
<1>2. CASE HostCancels
    <2>1. link' = "over"
        BY <1>2 DEF HostCancels, SessionEnds
    <2>2. open' = {} /\ UNCHANGED drain
        BY <1>2, SessionEndsOpen DEF HostCancels
    <2>3. Dialled!Cancel
        BY <2>1, <2>2 DEF Dialled!Cancel, stage
    <2>4. QED BY <2>2, <2>3 DEF Dialled!Next, ClosedInv
<1>3. CASE DrainReturns
    <2>1. link = "closing" /\ link' = "over"
        BY <1>3 DEF DrainReturns, SessionEnds
    <2>2. open' = {} /\ UNCHANGED drain
        BY <1>3, SessionEndsOpen DEF DrainReturns
    <2>3. open \subseteq Slow
        BY <2>1 DEF OpenRequestsFinish, open
    <2>4. Dialled!Return
        BY <2>1, <2>2, <2>3 DEF Dialled!Return, stage
    <2>5. QED BY <2>2, <2>4 DEF Dialled!Next, ClosedInv
<1>4. CASE RunReturns
    <2>1. link = "closed" /\ drain /\ link' = "over" /\ UNCHANGED <<drain, task>>
        BY <1>4 DEF RunReturns
    <2>2. open = {} /\ open' = {}
        BY <2>1 DEF ClosedInv, open
    <2>3. Dialled!Return
        BY <2>1, <2>2 DEF Dialled!Return, stage
    <2>4. QED BY <2>2, <2>3 DEF Dialled!Next, ClosedInv
<1>5. CASE SetDrain
    <2>1. drain' = TRUE /\ UNCHANGED <<link, task>>
        BY <1>5 DEF SetDrain
    <2>2. Dialled!SetDrain /\ UNCHANGED open
        BY <2>1 DEF Dialled!SetDrain, stage, open
    <2>3. QED BY <2>1, <2>2 DEF Dialled!Next, ClosedInv
<1>6. CASE DrainOut
    <2>1. link = "open" /\ drain /\ link' = "drain_out" /\ UNCHANGED <<drain, task>>
        BY <1>6 DEF DrainOut
    <2>2. Dialled!DrainOut
        BY <2>1 DEF Dialled!DrainOut, stage, open
    <2>3. QED BY <2>1, <2>2 DEF Dialled!Next, ClosedInv
<1>7. CASE Dial \/ Drained
    <2>1. /\ UNCHANGED <<drain, task>>
          /\ (link = "closed" /\ link' = "open") \/ (link = "drain_out" /\ link' = "closing")
        BY <1>7 DEF Dial, Drained
    <2>2. UNCHANGED <<stage, drain, open>>
        BY <2>1 DEF stage, open
    <2>3. QED BY <2>1, <2>2 DEF ClosedInv
<1>8. CASE Gateway
    <2>1. /\ UNCHANGED <<link, drain>>
          /\ UNCHANGED task \/ \E r \in Requests : task[r] = "unsent" /\ task' = [task EXCEPT ![r] = "inbox"]
        BY <1>8 DEF Gateway
    <2>2. UNCHANGED <<stage, drain, open>>
        BY <2>1 DEF stage, open, Open
    <2>3. QED BY <2>1, <2>2 DEF ClosedInv
<1>9. CASE HandleRequest
    <2>1. link = "open" /\ ~drain /\ UNCHANGED <<link, drain>> /\ Frame.type = "request"
        BY <1>9 DEF HandleRequest, Reading, Idle
    <2>2. Frame.id \in Requests /\ task[Frame.id] = "inbox"
        BY <1>9, TakeFrame DEF HandleRequest
    <2>3. CASE Refuse(Frame.id)
        <3>1. UNCHANGED open
            BY <2>2, <2>3 DEF Refuse, open, Open
        <3>2. QED BY <2>1, <3>1 DEF ClosedInv, stage
    <2>4. CASE \E g \in (IF Frame.gpu = None THEN Freest ELSE {Frame.gpu}) : Accept(Frame.id, g)
        <3>1. task' = [task EXCEPT ![Frame.id] = "working"]
            BY <2>4 DEF Accept
        <3>2. Frame.id \notin open /\ open' = open \cup {Frame.id}
            BY <2>2, <3>1 DEF open, Open
        <3>3. Dialled!Take(Frame.id)
            BY <2>1, <3>2 DEF Dialled!Take, stage
        <3>4. QED BY <2>1, <2>2, <3>3 DEF Dialled!Next, ClosedInv
    <2>5. QED BY <1>9, <2>3, <2>4 DEF HandleRequest
<1>10. ASSUME NEW r \in Requests, UNCHANGED <<link, drain>>, task[r] \in Open,
              NEW s \in {"answered", "cancelling"}, task' = [task EXCEPT ![r] = s]
       PROVE  [Dialled!Next]_<<stage, drain, open>> /\ ClosedInv'
    <2>1. r \in open /\ open' = open \ {r}
        BY <1>10 DEF open, Open
    <2>2. Dialled!Leave(r)
        BY <1>10, <2>1 DEF Dialled!Leave, stage
    <2>3. QED BY <1>10, <2>1, <2>2 DEF Dialled!Next, ClosedInv
<1>11. ASSUME UNCHANGED <<link, drain, open>>
       PROVE  [Dialled!Next]_<<stage, drain, open>> /\ ClosedInv'
    BY <1>11 DEF stage, ClosedInv
<1>12. CASE HandleCancel
    <2>1. UNCHANGED <<link, drain>> /\ Frame.type = "cancel"
          /\ task' = IF Frame.id \in running THEN [task EXCEPT ![Frame.id] = "cancelling"] ELSE task
        BY <1>12 DEF HandleCancel
    <2>2. CASE Frame.id \in running
        <3>1. Frame.id \in Requests /\ task[Frame.id] \in Open
            BY <2>2 DEF OpenInv
        <3>2. QED BY <1>10, <2>1, <2>2, <3>1
    <2>3. CASE Frame.id \notin running
        BY <1>11, <2>1, <2>3 DEF open
    <2>4. QED BY <2>2, <2>3
<1>13. CASE HandleDrain \/ \E k \in Owners : Finish(k)
    <2>1. UNCHANGED <<link, drain, task>>
        BY <1>13 DEF HandleDrain, Finish
    <2>2. QED BY <1>11, <2>1 DEF open
<1>14. ASSUME NEW r \in Requests, HandlerReturns(r) \/ AnswerSent(r) \/ Unwind(r)
       PROVE  [Dialled!Next]_<<stage, drain, open>> /\ ClosedInv'
    <2>1. CASE HandlerReturns(r)
        <3>1. UNCHANGED <<link, drain>> /\ task[r] = "working" /\ task' = [task EXCEPT ![r] = "sending"]
            BY <2>1 DEF HandlerReturns
        <3>2. UNCHANGED open
            BY <3>1 DEF open, Open
        <3>3. QED BY <1>11, <3>1, <3>2
    <2>2. CASE AnswerSent(r)
        <3>1. UNCHANGED <<link, drain>> /\ task[r] \in Open /\ task' = [task EXCEPT ![r] = "answered"]
            BY <2>2 DEF AnswerSent, Open
        <3>2. QED BY <1>10, <3>1
    <2>3. CASE Unwind(r)
        <3>1. UNCHANGED <<link, drain>> /\ task[r] = "cancelling" /\ task' = [task EXCEPT ![r] = "cancelled"]
            BY <2>3 DEF Unwind
        <3>2. UNCHANGED open
            BY <3>1 DEF open, Open
        <3>3. QED BY <1>11, <3>1, <3>2
    <2>4. QED BY <1>14, <2>1, <2>2, <2>3
<1>15. QED
    BY <1>1, <1>2, <1>3, <1>4, <1>5, <1>6, <1>7, <1>8, <1>9, <1>12, <1>13, <1>14
    DEF Next, Reader, Task, Owners

\* A session is what the serving host takes it for: AgentDial, for any number of
\* cards and requests and whatever the gateway sends.
THEOREM Implementation == Spec => ImplementsDial
<1>1. Init => Dialled!Init /\ ClosedInv
    BY DEF Init, Dialled!Init, ClosedInv, stage, open, Open
<1>2. Inv /\ Inv' /\ ClosedInv /\ [Next]_vars => [Dialled!Next]_<<stage, drain, open>> /\ ClosedInv'
    <2> SUFFICES ASSUME Inv, Inv', ClosedInv, [Next]_vars
                 PROVE  [Dialled!Next]_<<stage, drain, open>> /\ ClosedInv'
        OBVIOUS
    <2>1. CASE Next
        BY <2>1, StepSimulates
    <2>2. CASE UNCHANGED vars
        BY <2>2 DEF vars, stage, open, ClosedInv
    <2>3. QED BY <2>1, <2>2
<1>3. QED BY <1>1, <1>2, Invariance, PTL
    DEF Spec, ImplementsDial, Dialled!Spec, Dialled!dialVars

================================================================================
