------------------------- MODULE RigVerificationProofs -------------------------
(* Theorems about RigVerification, for any rigs, owners and limits. *)
EXTENDS RigVerification, FiniteSetTheorems, TLAPS

AfterVersion == Passing \ {"out", "queued", "owner", "version"}
AfterDir == AfterVersion \ {"open", "dir"}
AfterScrape == AfterDir \ {"host", "scrape"}

\* The checks of the steps before this one.
HasRun(step, checks) ==
    /\ step \in AfterVersion => "version" \in checks
    /\ step \in AfterDir => "attestation" \in checks
    /\ step \in AfterDir \ {"host"} => "host" \in checks
    /\ step \in AfterScrape => {"scrape", "specs", "duplicates"} \subseteq checks
    /\ step \in AfterScrape \ {"challenge"} => "challenge" \in checks
    /\ step \in AfterScrape \ {"challenge", "inspect"} => "inspector" \in checks
    /\ step \in {"clean", "close", "report"} => "exclusivity" \in checks

\* While nothing has failed, the checks of the steps gone by have run.
RanSoFar == \A r \in Rigs : failure[r] = "none" => HasRun(deep[r], ran[r])

\* What may be open at this step.
Belongs(things, step) ==
    /\ "dir" \in things => step \in AfterDir \ {"close", "report"}
    /\ "grant" \in things => step \in {"dir"} \cup (AfterDir \ {"report"})

\* What is open on a rig that has lost nothing is open for the session that is under way.
OpenForSession == \A r \in Rigs : r \notin lost => Belongs(left[r], deep[r])

Inv == TypeOK /\ LanesLimited /\ RanSoFar /\ OpenForSession

USE DEF Passing, Others, lane, Goto

-----------------------------------------------------------------------------
(* The limits: only a slot that is taken adds to the rigs at work. *)

\* The rigs at work, of a miner and of the lane, are finitely many.
LEMMA SlotsFinite ==
    /\ IsFiniteSet(Slots) /\ Cardinality(Slots) \in Nat
    /\ \A r \in Rigs : IsFiniteSet(OwnerSlots(r)) /\ Cardinality(OwnerSlots(r)) \in Nat
<1>1. Slots \in SUBSET Rigs /\ \A r \in Rigs : OwnerSlots(r) \in SUBSET Rigs
    BY DEF Slots, OwnerSlots
<1>2. QED BY <1>1, RigsAssumption, FS_Subset, FS_CardinalityType

\* A step that moves no rig into a slot keeps the limits.
LEMMA LimitsKept ==
    ASSUME LanesLimited,
           \A r \in Rigs : deep'[r] # deep[r] =>
                \/ deep'[r] \in {"out", "queued"}
                \/ deep[r] \notin {"out", "queued", "owner"}
    PROVE  LanesLimited'
<1>1. Slots' \in SUBSET Slots /\ \A r \in Rigs : OwnerSlots(r)' \in SUBSET OwnerSlots(r)
    BY DEF Slots, OwnerSlots
<1>2. /\ Cardinality(Slots') <= Cardinality(Slots) /\ Cardinality(Slots') \in Nat
      /\ \A r \in Rigs : /\ Cardinality(OwnerSlots(r)') <= Cardinality(OwnerSlots(r))
                         /\ Cardinality(OwnerSlots(r)') \in Nat
    BY <1>1, SlotsFinite, FS_Subset, FS_CardinalityType
<1>3. QED BY <1>2, SlotsFinite, LimitsAssumption DEF LanesLimited

\* A slot is taken where there is room.
LEMMA SlotTaken ==
    ASSUME LanesLimited, TypeOK, NEW r \in Rigs, DeepSlot(r)
    PROVE  LanesLimited'
<1>1. CASE deep[r] = "queued" /\ MinerHasRoom(r) /\ deep' = [deep EXCEPT ![r] = "owner"]
    <2>1. Slots' = Slots
        BY <1>1 DEF Slots, TypeOK
    <2>2. ASSUME NEW q \in Rigs PROVE Cardinality(OwnerSlots(q)') <= PerMiner
        <3>1. CASE Owner[q] = Owner[r]
            <4>1. OwnerSlots(q)' = OwnerSlots(r) \cup {r} /\ r \notin OwnerSlots(r)
                BY <1>1, <3>1 DEF OwnerSlots, TypeOK
            <4>2. Cardinality(OwnerSlots(q)') = Cardinality(OwnerSlots(r)) + 1
                BY <4>1, SlotsFinite, FS_AddElement
            <4>3. QED BY <4>2, <1>1, SlotsFinite, LimitsAssumption DEF MinerHasRoom
        <3>2. CASE Owner[q] # Owner[r]
            <4>1. OwnerSlots(q)' = OwnerSlots(q)
                BY <1>1, <3>2 DEF OwnerSlots, TypeOK
            <4>2. QED BY <4>1 DEF LanesLimited
        <3>3. QED BY <3>1, <3>2
    <2>3. QED BY <2>1, <2>2 DEF LanesLimited
<1>2. CASE deep[r] = "owner" /\ LaneHasRoom /\ deep' = [deep EXCEPT ![r] = "version"]
    <2>1. \A q \in Rigs : OwnerSlots(q)' = OwnerSlots(q)
        BY <1>2 DEF OwnerSlots, TypeOK
    <2>2. Slots' = Slots \cup {r} /\ r \notin Slots
        BY <1>2 DEF Slots, TypeOK
    <2>3. Cardinality(Slots') = Cardinality(Slots) + 1
        BY <2>2, SlotsFinite, FS_AddElement
    <2>4. Cardinality(Slots') <= MaxInflight
        BY <2>3, <1>2, SlotsFinite, LimitsAssumption DEF LaneHasRoom
    <2>5. QED BY <2>1, <2>4 DEF LanesLimited
<1>3. QED BY <1>1, <1>2 DEF DeepSlot

-----------------------------------------------------------------------------
(* One step of a pass. *)

\* A step of the pass on one rig, past the slots: the rest of the state is as it was.
LEMMA StepOnOne ==
    ASSUME Inv, NEW r \in Rigs, UNCHANGED Others,
           NEW d \in Passing, deep' = [deep EXCEPT ![r] = d],
           d \notin {"queued", "owner", "version"}, deep[r] \notin {"out", "queued", "owner"},
           NEW n \in SUBSET Checks, ran' = [ran EXCEPT ![r] = n],
           NEW f \in {"none", "failed", "aborted"}, failure' = [failure EXCEPT ![r] = f],
           NEW l \in SUBSET {"grant", "dir"}, left' = [left EXCEPT ![r] = l],
           lost' = lost \/ lost' = lost \cup {r},
           f = "none" => HasRun(d, n),
           lost' = lost /\ r \notin lost => Belongs(l, d)
    PROVE  Inv'
<1> USE DEF Inv
<1>1. TypeOK'
    BY DEF TypeOK
<1>2. /\ \A q \in Rigs : q # r => /\ deep'[q] = deep[q] /\ ran'[q] = ran[q]
                                  /\ failure'[q] = failure[q] /\ left'[q] = left[q]
      /\ deep'[r] = d /\ ran'[r] = n /\ failure'[r] = f /\ left'[r] = l
    BY DEF TypeOK
<1>3. LanesLimited'
    BY <1>2, LimitsKept
<1>4. RanSoFar'
    BY <1>2 DEF RanSoFar
<1>5. OpenForSession'
    BY <1>2 DEF OpenForSession
<1>6. QED BY <1>1, <1>3, <1>4, <1>5

\* A step of the pass that judges some checks and goes on.
LEMMA JudgeOnOne ==
    ASSUME Inv, NEW r \in Rigs, UNCHANGED Others,
           NEW d \in Passing, Goto(r, d),
           d \notin {"queued", "owner", "version"}, deep[r] \notin {"out", "queued", "owner"},
           NEW c \in SUBSET Checks, NEW ok \in BOOLEAN, Judge(r, c, ok),
           NEW l \in SUBSET {"grant", "dir"}, left' = [left EXCEPT ![r] = l],
           lost' = lost \/ Loses(r),
           ok /\ failure[r] = "none" => HasRun(d, ran[r] \cup c),
           lost' = lost /\ r \notin lost => Belongs(l, d)
    PROVE  Inv'
<1> DEFINE n == ran[r] \cup c
           f == IF ok THEN failure[r] ELSE "failed"
<1>1. n \in SUBSET Checks /\ ran' = [ran EXCEPT ![r] = n]
    BY DEF Judge, Inv, TypeOK
<1>2. f \in {"none", "failed", "aborted"} /\ failure' = [failure EXCEPT ![r] = f]
    BY DEF Judge, Inv, TypeOK
<1>3. f = "none" => ok /\ failure[r] = "none"
    OBVIOUS
<1>4. lost' = lost \/ lost' = lost \cup {r}
    BY DEF Loses
<1>5. f = "none" => HasRun(d, n)
    BY <1>3
<1>6. deep' = [deep EXCEPT ![r] = d]
    OBVIOUS
<1> HIDE DEF f, n, Passing, Others, Goto
<1>7. QED BY <1>1, <1>2, <1>4, <1>5, <1>6, StepOnOne

\* A step that leaves the outcome of the pass alone.
LEMMA MoveOnOne ==
    ASSUME Inv, NEW r \in Rigs, UNCHANGED Others,
           NEW d \in Passing, Goto(r, d),
           d \notin {"queued", "owner", "version"}, deep[r] \notin {"out", "queued", "owner"},
           UNCHANGED ran,
           UNCHANGED failure \/ failure' = [failure EXCEPT ![r] = "aborted"],
           NEW l \in SUBSET {"grant", "dir"}, left' = [left EXCEPT ![r] = l],
           lost' = lost \/ Loses(r),
           failure'[r] = "none" => HasRun(d, ran[r]),
           lost' = lost /\ r \notin lost => Belongs(l, d)
    PROVE  Inv'
<1>1. ran[r] \in SUBSET Checks /\ ran' = [ran EXCEPT ![r] = ran[r]]
    BY DEF Inv, TypeOK
<1>2. PICK f \in {"none", "failed", "aborted"} :
            failure' = [failure EXCEPT ![r] = f] /\ failure'[r] = f
    BY DEF Inv, TypeOK
<1>3. lost' = lost \/ lost' = lost \cup {r}
    BY DEF Loses
<1>4. deep' = [deep EXCEPT ![r] = d] /\ (f = "none" => HasRun(d, ran[r]))
    BY <1>2
<1> HIDE DEF Passing, Others, Goto
<1>5. QED BY <1>1, <1>2, <1>3, <1>4, StepOnOne

\* A pass that is over.
LEMMA DoneOnOne ==
    ASSUME Inv, NEW r \in Rigs, UNCHANGED Others, Done(r),
           deep[r] \notin {"out", "queued", "owner"},
           NEW l \in SUBSET {"grant", "dir"}, left' = [left EXCEPT ![r] = l],
           lost' = lost \/ Loses(r),
           lost' = lost /\ r \notin lost => l = {}
    PROVE  Inv'
<1>1. /\ "out" \in Passing /\ deep' = [deep EXCEPT ![r] = "out"]
      /\ {} \in SUBSET Checks /\ ran' = [ran EXCEPT ![r] = {}]
      /\ failure' = [failure EXCEPT ![r] = "none"]
    BY DEF Done
<1>2. HasRun("out", {}) /\ (lost' = lost /\ r \notin lost => Belongs(l, "out"))
    BY DEF HasRun, Belongs, AfterVersion, AfterDir, AfterScrape
<1>3. lost' = lost \/ lost' = lost \cup {r}
    BY DEF Loses
<1>4. QED BY <1>1, <1>2, <1>3, StepOnOne

-----------------------------------------------------------------------------
(* The steps of a pass. *)

InSession == {"host", "scrape", "challenge", "inspect", "exclusivity"}

\* What is known of a rig before a step that leaves nothing open or closed on it.
LEMMA SoFar ==
    ASSUME Inv, NEW r \in Rigs
    PROVE  /\ left[r] \in SUBSET {"grant", "dir"} /\ left = [left EXCEPT ![r] = left[r]]
           /\ failure[r] = "none" => HasRun(deep[r], ran[r])
           /\ r \notin lost => Belongs(left[r], deep[r])
BY DEF Inv, TypeOK, RanSoFar, OpenForSession

LEMMA CutStep ==
    ASSUME Inv, NEW r \in Rigs, UNCHANGED Others, deep[r] \in InSession,
           NEW c \in Checks, Cut(r, c)
    PROVE  Inv'
<1>1. {c} \in SUBSET Checks /\ "clean" \in Passing
    OBVIOUS
<1>2. lost' = lost => r \in lost
    BY DEF Cut, Loses
<1>3. deep[r] \notin {"out", "queued", "owner"}
    BY DEF InSession
<1> HIDE DEF Passing, Others, Goto
<1>4. QED BY <1>1, <1>2, <1>3, SoFar, JudgeOnOne DEF Cut

LEMMA RaisesStep ==
    ASSUME Inv, NEW r \in Rigs, UNCHANGED Others, deep[r] \in InSession, Raises(r)
    PROVE  Inv'
<1>1. failure'[r] = "aborted" /\ "clean" \in Passing
    BY DEF Raises, Inv, TypeOK
<1>2. deep[r] \notin {"out", "queued", "owner"}
    BY DEF InSession
<1>3. r \notin lost => Belongs(left[r], "clean")
    BY SoFar DEF Belongs, InSession, AfterDir, AfterVersion
<1> HIDE DEF Passing, Others, Goto
<1>4. QED BY <1>1, <1>2, <1>3, SoFar, MoveOnOne DEF Raises

\* A check of the session that is judged, and the step after it.
LEMMA CheckStep ==
    ASSUME Inv, NEW r \in Rigs, UNCHANGED <<Others, left, lost>>, deep[r] \in InSession,
           NEW d \in Passing, Goto(r, d),
           NEW c \in SUBSET Checks, NEW ok \in BOOLEAN, Judge(r, c, ok),
           \/ deep[r] = "host" /\ d = "scrape" /\ "host" \in c
           \/ deep[r] = "scrape" /\ d = "challenge"
              /\ (ok => {"scrape", "specs", "duplicates"} \subseteq c)
           \/ deep[r] = "challenge" /\ d = "inspect" /\ "challenge" \in c
           \/ deep[r] = "inspect" /\ d = "exclusivity" /\ "inspector" \in c
           \/ deep[r] = "exclusivity" /\ d = "clean" /\ "exclusivity" \in c
    PROVE  Inv'
<1>1. ok /\ failure[r] = "none" => HasRun(d, ran[r] \cup c)
    BY SoFar DEF HasRun, AfterVersion, AfterDir, AfterScrape
<1>2. r \notin lost => Belongs(left[r], d)
    BY SoFar DEF Belongs, AfterVersion, AfterDir
<1>3. deep[r] \notin {"out", "queued", "owner"} /\ d \notin {"queued", "owner", "version"}
    BY DEF InSession
<1> HIDE DEF Passing, Others, Goto
<1>4. QED BY <1>1, <1>2, <1>3, SoFar, JudgeOnOne

LEMMA HostStep == ASSUME Inv, NEW r \in Rigs, Host(r) PROVE Inv'
<1>1. deep[r] \in InSession /\ UNCHANGED Others /\ {"host"} \in SUBSET Checks
      /\ "scrape" \in Passing
    BY DEF Host, InSession, Checks
<1> HIDE DEF Passing, Others, Goto
<1>2. CASE Cut(r, "host")
    BY <1>1, <1>2, CutStep
<1>3. CASE Raises(r)
    BY <1>1, <1>3, RaisesStep
<1>4. ASSUME NEW ok \in BOOLEAN, Judge(r, {"host"}, ok), Goto(r, "scrape"),
             UNCHANGED <<left, lost>>
      PROVE  Inv'
    BY <1>1, <1>4, CheckStep DEF Host
<1>5. QED BY <1>2, <1>3, <1>4 DEF Host

LEMMA ScrapeStep == ASSUME Inv, NEW r \in Rigs, Scrape(r) PROVE Inv'
<1>1. deep[r] \in InSession /\ UNCHANGED Others /\ "challenge" \in Passing
      /\ {"scrape"} \in SUBSET Checks /\ {"scrape", "specs", "duplicates"} \in SUBSET Checks
    BY DEF Scrape, InSession, Checks
<1> HIDE DEF Passing, Others, Goto
<1>2. CASE Cut(r, "scrape")
    BY <1>1, <1>2, CutStep
<1>3. CASE Raises(r)
    BY <1>1, <1>3, RaisesStep
<1>4. ASSUME NEW ok \in BOOLEAN, Judge(r, {"scrape", "specs", "duplicates"}, ok),
             Goto(r, "challenge"), UNCHANGED <<left, lost>>
      PROVE  Inv'
    BY <1>1, <1>4, CheckStep DEF Scrape
<1>5. ASSUME ScrapedNothing(r), Goto(r, "challenge"), UNCHANGED <<left, lost>>
      PROVE  Inv'
    BY <1>1, <1>5, CheckStep DEF Scrape, ScrapedNothing
<1>6. QED BY <1>2, <1>3, <1>4, <1>5 DEF Scrape

LEMMA ChallengeStep == ASSUME Inv, NEW r \in Rigs, Challenge(r) PROVE Inv'
<1>1. deep[r] \in InSession /\ UNCHANGED Others /\ {"challenge"} \in SUBSET Checks
      /\ "inspect" \in Passing
    BY DEF Challenge, InSession, Checks
<1> HIDE DEF Passing, Others, Goto
<1>2. CASE Cut(r, "challenge")
    BY <1>1, <1>2, CutStep
<1>3. CASE Raises(r)
    BY <1>1, <1>3, RaisesStep
<1>4. ASSUME NEW ok \in BOOLEAN, Judge(r, {"challenge"}, ok), Goto(r, "inspect"),
             UNCHANGED <<left, lost>>
      PROVE  Inv'
    BY <1>1, <1>4, CheckStep DEF Challenge
<1>5. QED BY <1>2, <1>3, <1>4 DEF Challenge

LEMMA InspectStep == ASSUME Inv, NEW r \in Rigs, Inspect(r) PROVE Inv'
<1>1. deep[r] \in InSession /\ UNCHANGED Others /\ {"inspector"} \in SUBSET Checks
      /\ "exclusivity" \in Passing
    BY DEF Inspect, InSession, Checks
<1> HIDE DEF Passing, Others, Goto
<1>2. CASE Cut(r, "inspector")
    BY <1>1, <1>2, CutStep
<1>3. CASE Raises(r)
    BY <1>1, <1>3, RaisesStep
<1>4. ASSUME NEW ok \in BOOLEAN, Judge(r, {"inspector"}, ok), Goto(r, "exclusivity"),
             UNCHANGED <<left, lost>>
      PROVE  Inv'
    BY <1>1, <1>4, CheckStep DEF Inspect
<1>5. QED BY <1>2, <1>3, <1>4 DEF Inspect

LEMMA ExclusivityStep == ASSUME Inv, NEW r \in Rigs, Exclusivity(r) PROVE Inv'
<1>1. deep[r] \in InSession /\ UNCHANGED Others /\ {"exclusivity"} \in SUBSET Checks
      /\ "clean" \in Passing
    BY DEF Exclusivity, InSession, Checks
<1> HIDE DEF Passing, Others, Goto
<1>2. CASE Raises(r)
    BY <1>1, <1>2, RaisesStep
<1>3. ASSUME NEW ok \in BOOLEAN, Judge(r, {"exclusivity"}, ok), Goto(r, "clean"),
             UNCHANGED <<left, lost>>
      PROVE  Inv'
    BY <1>1, <1>3, CheckStep DEF Exclusivity
<1>4. QED BY <1>2, <1>3 DEF Exclusivity

LEMMA VersionStep == ASSUME Inv, NEW r \in Rigs, Version(r) PROVE Inv'
<1>1. PICK ok \in BOOLEAN : Judge(r, {"version"}, ok) /\ Goto(r, IF ok THEN "open" ELSE "report")
    BY DEF Version
<1> DEFINE d == IF ok THEN "open" ELSE "report"
<1>2. d \in Passing /\ d \notin {"queued", "owner", "version"} /\ {"version"} \in SUBSET Checks
    BY DEF Checks
<1>3. ok => HasRun(d, ran[r] \cup {"version"})
    BY DEF HasRun, AfterVersion, AfterDir, AfterScrape
<1>4. r \notin lost => Belongs(left[r], d)
    BY SoFar DEF Version, Belongs, AfterVersion, AfterDir
<1>5. UNCHANGED <<Others, left, lost>> /\ deep[r] \notin {"out", "queued", "owner"}
    BY DEF Version
<1>6. Goto(r, d) /\ Judge(r, {"version"}, ok)
    BY <1>1
<1>7. left[r] \in SUBSET {"grant", "dir"} /\ left' = [left EXCEPT ![r] = left[r]] /\ lost' = lost
      /\ UNCHANGED Others
    BY <1>5, SoFar
<1> HIDE DEF Passing, Others, Goto, d
<1>8. deep[r] \notin {"out", "queued", "owner"}
    BY <1>5
<1>9. QED BY <1>2, <1>3, <1>4, <1>6, <1>7, <1>8, JudgeOnOne

LEMMA OpenStep == ASSUME Inv, NEW r \in Rigs, Open(r) PROVE Inv'
<1>1. /\ UNCHANGED Others /\ deep[r] \notin {"out", "queued", "owner"}
      /\ {} \in SUBSET Checks
      /\ {"report", "close", "dir"} \subseteq Passing
      /\ r \notin lost => left[r] = {}
    BY SoFar DEF Open, Belongs, AfterVersion, AfterDir
<1> DEFINE l == left[r] \cup {"grant"}
<1>2. l \in SUBSET {"grant", "dir"} /\ Belongs({}, "report")
      /\ (r \notin lost => Belongs(l, "close") /\ Belongs(l, "dir"))
    BY <1>1, SoFar DEF Belongs, AfterVersion, AfterDir
<1>3. failure[r] = "none" => HasRun("dir", ran[r])
    BY SoFar DEF Open, HasRun, AfterVersion, AfterDir, AfterScrape
<1>4. Loses(r) => r \in lost'
    BY DEF Loses
<1> HIDE DEF Passing, Others, Goto, l
<1>5. ASSUME Judge(r, {}, FALSE), Goto(r, "report"), UNCHANGED <<left, lost>> PROVE Inv'
    BY <1>1, <1>2, <1>5, SoFar, JudgeOnOne
<1>6. CASE left' = [left EXCEPT ![r] = l]
    <2>1. ASSUME Judge(r, {}, FALSE), Goto(r, "report"), Loses(r) PROVE Inv'
        BY <1>1, <1>2, <1>4, <1>6, <2>1, JudgeOnOne
    <2>2. ASSUME Done(r), Loses(r) PROVE Inv'
        BY <1>1, <1>2, <1>4, <1>6, <2>2, DoneOnOne
    <2>3. ASSUME Judge(r, {}, FALSE), Goto(r, "close"), UNCHANGED lost PROVE Inv'
        BY <1>1, <1>2, <1>6, <2>3, JudgeOnOne
    <2>4. ASSUME Goto(r, "dir"), UNCHANGED <<ran, failure, lost>> PROVE Inv'
        BY <1>1, <1>2, <1>3, <1>6, <2>4, MoveOnOne
    <2>5. QED BY <1>6, <2>1, <2>2, <2>3, <2>4, <1>5 DEF Open, l
<1>7. left' = [left EXCEPT ![r] = @ \cup {"grant"}] => left' = [left EXCEPT ![r] = l]
    BY DEF l
<1>8. QED BY <1>5, <1>6, <1>7 DEF Open

LEMMA MakeDirStep == ASSUME Inv, NEW r \in Rigs, MakeDir(r) PROVE Inv'
<1>1. /\ UNCHANGED Others /\ deep[r] \notin {"out", "queued", "owner"}
      /\ {"attestation"} \in SUBSET Checks
      /\ {"host", "close"} \subseteq Passing
    BY DEF MakeDir, Checks
<1>2. /\ failure[r] = "none" => HasRun("host", ran[r] \cup {"attestation"})
      /\ r \notin lost => Belongs(left[r] \cup {"dir"}, "host")
      /\ left[r] \cup {"dir"} \in SUBSET {"grant", "dir"}
      /\ \A m \in SUBSET {"dir"} : left[r] \cup m \in SUBSET {"grant", "dir"}
    BY SoFar DEF MakeDir, HasRun, Belongs, AfterVersion, AfterDir, AfterScrape
<1>3. Loses(r) => r \in lost'
    BY DEF Loses
<1> HIDE DEF Passing, Others, Goto
<1>4. ASSUME NEW ok \in BOOLEAN, Judge(r, {"attestation"}, ok), Goto(r, "host"),
             left' = [left EXCEPT ![r] = left[r] \cup {"dir"}], UNCHANGED lost
      PROVE  Inv'
    <2> DEFINE l == left[r] \cup {"dir"}
               c == {"attestation"}
    <2>1. l \in SUBSET {"grant", "dir"} /\ left' = [left EXCEPT ![r] = l]
        BY <1>2, <1>4
    <2>2. "host" \in Passing /\ (r \notin lost => Belongs(l, "host"))
        BY <1>1, <1>2
    <2>3. /\ c \in SUBSET Checks /\ Judge(r, c, ok)
          /\ ok /\ failure[r] = "none" => HasRun("host", ran[r] \cup c)
        BY <1>1, <1>2, <1>4
    <2> HIDE DEF l, c
    <2>4. /\ UNCHANGED Others /\ deep[r] \notin {"out", "queued", "owner"}
          /\ Goto(r, "host") /\ lost' = lost
        BY <1>1, <1>4
    <2>5. QED BY <2>1, <2>2, <2>3, <2>4, JudgeOnOne
<1>5. ASSUME Judge(r, {"attestation"}, FALSE), NEW m \in SUBSET {"dir"},
             left' = [left EXCEPT ![r] = left[r] \cup m], Goto(r, "close"), Loses(r)
      PROVE  Inv'
    <2> DEFINE l == left[r] \cup m
    <2>1. l \in SUBSET {"grant", "dir"} /\ left' = [left EXCEPT ![r] = l]
        BY <1>2, <1>5
    <2>2. "close" \in Passing /\ (lost' = lost => r \in lost)
        BY <1>1, <1>3, <1>5
    <2> HIDE DEF l
    <2>3. QED BY <1>1, <1>5, <2>1, <2>2, JudgeOnOne
<1>6. QED BY <1>4, <1>5 DEF MakeDir

LEMMA CleanStep == ASSUME Inv, NEW r \in Rigs, Clean(r) PROVE Inv'
<1>1. /\ UNCHANGED <<Others, ran, failure>> /\ deep[r] \notin {"out", "queued", "owner"}
      /\ "close" \in Passing /\ Goto(r, "close")
    BY DEF Clean
<1>2. /\ failure[r] = "none" => HasRun("close", ran[r])
      /\ r \notin lost => Belongs(left[r] \ {"dir"}, "close")
      /\ left[r] \ {"dir"} \in SUBSET {"grant", "dir"}
    BY SoFar DEF Clean, HasRun, Belongs, AfterVersion, AfterDir, AfterScrape
<1>3. Loses(r) => r \in lost'
    BY DEF Loses
<1> HIDE DEF Passing, Others, Goto
<1>4. CASE left' = [left EXCEPT ![r] = left[r] \ {"dir"}] /\ UNCHANGED lost
    BY <1>1, <1>2, <1>4, MoveOnOne
<1>5. CASE Loses(r) /\ UNCHANGED left
    BY <1>1, <1>2, <1>3, <1>5, SoFar, MoveOnOne
<1>6. QED BY <1>4, <1>5 DEF Clean

LEMMA CloseStep == ASSUME Inv, NEW r \in Rigs, Close(r) PROVE Inv'
<1>1. /\ UNCHANGED Others /\ deep[r] \notin {"out", "queued", "owner"} /\ "report" \in Passing
    BY DEF Close
<1>2. /\ failure[r] = "none" => HasRun("report", ran[r])
      /\ r \notin lost => left[r] \ {"grant"} = {} /\ Belongs(left[r] \ {"grant"}, "report")
      /\ left[r] \ {"grant"} \in SUBSET {"grant", "dir"}
    BY SoFar DEF Close, HasRun, Belongs, AfterVersion, AfterDir, AfterScrape
<1>3. PICK l \in SUBSET {"grant", "dir"} :
        /\ left' = [left EXCEPT ![r] = l] /\ (lost' = lost \/ Loses(r))
        /\ lost' = lost /\ r \notin lost => l = {} /\ Belongs(l, "report")
    <2>1. CASE left' = [left EXCEPT ![r] = left[r] \ {"grant"}] /\ UNCHANGED lost
        BY <1>2, <2>1
    <2>2. CASE Loses(r) /\ UNCHANGED left
        BY <1>2, <2>2, SoFar DEF Loses
    <2>3. QED BY <2>1, <2>2 DEF Close
<1> HIDE DEF Passing, Others, Goto
<1>4. CASE Done(r)
    BY <1>1, <1>3, <1>4, DoneOnOne
<1>5. CASE Goto(r, "report") /\ UNCHANGED <<ran, failure>>
    BY <1>1, <1>2, <1>3, <1>5, MoveOnOne
<1>6. QED BY <1>4, <1>5 DEF Close

LEMMA ReportStep == ASSUME Inv, NEW r \in Rigs, Report(r) PROVE Inv'
<1>1. /\ UNCHANGED <<Others, left, lost>> /\ deep[r] \notin {"out", "queued", "owner"}
      /\ Done(r)
    BY DEF Report
<1>2. r \notin lost => left[r] = {}
    BY SoFar DEF Report, Belongs, AfterVersion, AfterDir
<1> HIDE DEF Passing, Others, Goto
<1>3. QED BY <1>1, <1>2, SoFar, DoneOnOne

-----------------------------------------------------------------------------
(* The steps beside the passes. *)

\* A step that leaves the passes alone.
LEMMA Beside == ASSUME Inv, UNCHANGED pass, TypeOK' PROVE Inv'
<1>1. Slots' = Slots /\ \A r \in Rigs : OwnerSlots(r)' = OwnerSlots(r)
    BY DEF Slots, OwnerSlots, pass
<1>2. LanesLimited'
    BY <1>1 DEF Inv, LanesLimited
<1>3. RanSoFar' /\ OpenForSession'
    BY DEF Inv, RanSoFar, OpenForSession, pass
<1>4. QED BY <1>2, <1>3 DEF Inv

LEMMA BesideSteps ==
    ASSUME Inv, (\E r \in Rigs : Enrol(r) \/ Probe(r)) \/ ReadRoster \/ RoundOver
    PROVE  Inv'
<1> USE DEF Inv, TypeOK, pass
<1>1. CASE \E r \in Rigs : Enrol(r)
    BY <1>1, Beside DEF Enrol
<1>2. ASSUME NEW r \in Rigs, Probe(r) PROVE Inv'
    <2>1. Counted(unreachable[r] + 1) \in 0..UNREACHABLE_TICKS + 1
        BY LimitsAssumption DEF Counted
    <2>2. TypeOK'
        BY <1>2, <2>1, LimitsAssumption DEF Probe
    <2>3. UNCHANGED pass
        BY <1>2 DEF Probe
    <2> HIDE DEF TypeOK, pass
    <2>4. QED BY <2>2, <2>3, Beside
<1>3. CASE ReadRoster
    BY <1>3, Beside DEF ReadRoster
<1>4. CASE RoundOver
    BY <1>4, Beside DEF RoundOver
<1>5. QED BY <1>1, <1>2, <1>3, <1>4

\* A round starts the passes of the rigs chosen, with nothing open and nothing lost.
LEMMA RunOnceStep == ASSUME Inv, RunOnce PROVE Inv'
<1> USE DEF Inv
<1>1. PICK answered \in BOOLEAN :
        /\ early' = EarlyLeft(answered)
        /\ \/ /\ ~answered /\ errors < MaxErrors /\ errors' = errors + 1
              /\ round' = "idle" /\ UNCHANGED pass
           \/ \E due \in SUBSET (roster \cup enrolled) :
                LET chosen == due \cup (early \cap roster)
                IN  /\ answered /\ UNCHANGED errors
                    /\ round' = IF chosen = {} THEN "idle" ELSE "passes"
                    /\ deep' = [r \in Rigs |-> IF r \in chosen THEN "queued" ELSE deep[r]]
                    /\ left' = [r \in Rigs |-> IF r \in chosen THEN {} ELSE left[r]]
                    /\ lost' = lost \ chosen
                    /\ UNCHANGED <<ran, failure>>
    BY DEF RunOnce
<1>2. /\ early' \in SUBSET Rigs /\ roster' = {} /\ round' \in {"idle", "due", "passes"}
      /\ UNCHANGED <<enrolled, unreachable, crashes>>
    BY <1>1 DEF RunOnce, EarlyLeft, TypeOK
<1>3. CASE errors < MaxErrors /\ errors' = errors + 1 /\ UNCHANGED pass
    <2>1. TypeOK'
        BY <1>2, <1>3, LimitsAssumption DEF TypeOK, pass
    <2>2. QED BY <1>3, <2>1, Beside
<1>4. ASSUME NEW chosen \in SUBSET Rigs, UNCHANGED <<errors, ran, failure>>,
             deep' = [r \in Rigs |-> IF r \in chosen THEN "queued" ELSE deep[r]],
             left' = [r \in Rigs |-> IF r \in chosen THEN {} ELSE left[r]],
             lost' = lost \ chosen
      PROVE  Inv'
    <2>1. TypeOK'
        BY <1>2, <1>4 DEF TypeOK
    <2>2. LanesLimited'
        BY <1>4, LimitsKept
    <2>3. RanSoFar'
        BY <1>4 DEF RanSoFar, HasRun, AfterVersion, AfterDir, AfterScrape
    <2>4. OpenForSession'
        BY <1>4 DEF OpenForSession, Belongs
    <2>5. QED BY <2>1, <2>2, <2>3, <2>4
<1>5. \A due \in SUBSET (roster \cup enrolled) : due \cup (early \cap roster) \in SUBSET Rigs
    BY DEF TypeOK
<1>6. QED BY <1>1, <1>3, <1>4, <1>5

LEMMA CrashStep == ASSUME Inv, Crash PROVE Inv'
<1> USE DEF Inv, Crash
<1>1. TypeOK'
    BY LimitsAssumption DEF TypeOK
<1>2. LanesLimited'
    BY LimitsKept
<1>3. RanSoFar'
    BY DEF RanSoFar, HasRun, AfterVersion, AfterDir, AfterScrape
<1>4. OpenForSession'
    BY DEF OpenForSession, Belongs, TypeOK, AfterVersion, AfterDir
<1>5. QED BY <1>1, <1>2, <1>3, <1>4

LEMMA SlotStep == ASSUME Inv, NEW r \in Rigs, DeepSlot(r) PROVE Inv'
<1> USE DEF Inv
<1>1. LanesLimited'
    BY SlotTaken
<1>2. TypeOK' /\ RanSoFar' /\ OpenForSession'
    BY DEF DeepSlot, TypeOK, RanSoFar, OpenForSession, HasRun, Belongs,
           AfterVersion, AfterDir, AfterScrape
<1>3. QED BY <1>1, <1>2

LEMMA DeepKeeps == ASSUME Inv, NEW r \in Rigs, DeepStep(r) PROVE Inv'
BY SlotStep, VersionStep, OpenStep, MakeDirStep, HostStep, ScrapeStep, ChallengeStep,
   InspectStep, ExclusivityStep, CleanStep, CloseStep, ReportStep DEF DeepStep

-----------------------------------------------------------------------------
LEMMA InitInv == Init => Inv
<1> SUFFICES ASSUME Init PROVE Inv
    OBVIOUS
<1> USE DEF Init, Fresh
<1>1. TypeOK
    BY LimitsAssumption DEF TypeOK
<1>2. Slots = {} /\ \A r \in Rigs : OwnerSlots(r) = {}
    BY DEF Slots, OwnerSlots
<1>3. LanesLimited
    BY <1>2, FS_EmptySet, LimitsAssumption DEF LanesLimited
<1>4. RanSoFar /\ OpenForSession
    BY DEF RanSoFar, OpenForSession, HasRun, Belongs, AfterVersion, AfterDir, AfterScrape
<1>5. QED BY <1>1, <1>3, <1>4 DEF Inv

LEMMA NextInv == Inv /\ [Next]_vars => Inv'
<1> SUFFICES ASSUME Inv, [Next]_vars PROVE Inv'
    OBVIOUS
<1>1. CASE UNCHANGED vars
    <2>1. TypeOK' /\ UNCHANGED pass
        BY <1>1 DEF vars, pass, Inv, TypeOK
    <2>2. QED BY <2>1, Beside
<1>2. CASE Next
    BY <1>2, BesideSteps, RunOnceStep, CrashStep, DeepKeeps DEF Next, Round
<1>3. QED BY <1>1, <1>2

\* The invariant holds in every behaviour.
THEOREM Invariance == Spec => []Inv
BY InitInv, NextInv, PTL DEF Spec

\* The variables keep their types, for any number of rigs and any limits.
THEOREM TypeCorrect == Spec => []TypeOK
<1>1. Inv => TypeOK
    BY DEF Inv
<1>2. QED BY <1>1, Invariance, PTL

\* However many rigs and miners there are, and whatever the limits, no miner has more
\* rigs in a pass than per_miner and the lane never more than max_inflight (Limiter.slot).
THEOREM SlotsBounded == Spec => []LanesLimited
<1>1. Inv => LanesLimited
    BY DEF Inv
<1>2. QED BY <1>1, Invariance, PTL

\* No pass is reported as passing without every check (Outcome.finish, in_session).
THEOREM PassesComplete == Spec => []PassIsComplete
<1>1. Inv => PassIsComplete
    BY DEF Inv, TypeOK, PassIsComplete, RanSoFar, HasRun, AfterVersion, AfterDir, AfterScrape, Checks
<1>2. QED BY <1>1, Invariance, PTL

\* A pass that is over has left nothing on its rig unless something failed (the two
\* finally blocks of open and in_session).
THEOREM SessionsAreClosed == Spec => []SessionsClosed
<1>1. Inv => SessionsClosed
    BY DEF Inv, TypeOK, SessionsClosed, OpenForSession, Belongs, AfterVersion, AfterDir
<1>2. QED BY <1>1, Invariance, PTL

\* The lane, the verdicts and the sessions at once, for any rigs, limits and failures.
THEOREM PassesStaySound == Spec => []PassesAreSound
<1>1. QED BY SlotsBounded, PassesComplete, SessionsAreClosed, PTL DEF PassesAreSound
================================================================================
