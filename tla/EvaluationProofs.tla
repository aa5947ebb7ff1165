---------------------------- MODULE EvaluationProofs ----------------------------
(***************************************************************************)
(* Theorems about the evaluation of a round by a validator.  First         *)
(* RowReplay, for any plan, main.py, texts, faults and limits: what is     *)
(* recorded is passed, and what is passed main.py makes again.  Then       *)
(* ReceiptRoot, for any receipts: what the root over them binds.  Then     *)
(* MinerModeEpoch, for any roster, ban window and bounds: what settling a  *)
(* round promises.  Last MinerPreparation, for any answers of the mirror,  *)
(* entries and deaths of a preparation: what is downloaded and measured.   *)
(***************************************************************************)
EXTENDS RowReplay, MinerModeEpoch, FiniteSetTheorems, SequenceTheorems, WellFoundedInduction, TLAPS

\* Induction over the naturals; F is the set of good numbers.
LEMMA NatInduct ==
  ASSUME NEW F, 0 \in F, \A n \in Nat : n \in F => n + 1 \in F
  PROVE \A n \in Nat : n \in F
<1> DEFINE Bad == Nat \ F
<1>1. SUFFICES ASSUME Bad # {} PROVE FALSE
  OBVIOUS
<1>2. \E n \in Bad : \A m \in Bad : ~ (<<m, n>> \in OpToRel(<, Nat))
  <2>1. Bad \subseteq Nat
    OBVIOUS
  <2> HIDE DEF Bad
  <2> QED BY <2>1, <1>1, NatLessThanWellFounded, WFMin
<1>3. PICK n \in Bad : \A m \in Bad : ~ (<<m, n>> \in OpToRel(<, Nat))
  BY <1>2
<1>4. n # 0 /\ n - 1 \in Nat /\ n - 1 \notin F
  <2>1. n \in Nat /\ n \notin F
    BY <1>3
  <2>2. n # 0 /\ n - 1 \in Nat /\ (n - 1) + 1 = n
    BY <2>1
  <2> QED BY <2>1, <2>2
<1>5. <<n - 1, n>> \in OpToRel(<, Nat)
  BY <1>4 DEF OpToRel
<1> QED BY <1>3, <1>4, <1>5

\* A sequence, whatever it is of.
IsSeq(s) == s \in Seq(Range(s))

LEMMA SeqIsSeq ==
  ASSUME NEW S, NEW s \in Seq(S)
  PROVE IsSeq(s)
<1>1. Len(s) \in Nat /\ s \in [1..Len(s) -> S]
  BY LenProperties
<1>2. s \in [1..Len(s) -> Range(s)]
  BY <1>1 DEF Range
<1>3. Seq(Range(s)) = UNION {[1..n -> Range(s)] : n \in Nat}
  BY SeqDef
<1> QED BY <1>1, <1>2, <1>3 DEF IsSeq

LEMMA AppendIsSeq ==
  ASSUME NEW s, NEW x, IsSeq(s)
  PROVE /\ IsSeq(Append(s, x)) /\ Len(s) \in Nat /\ Len(Append(s, x)) = Len(s) + 1
        /\ \A k \in 1..Len(s) : Append(s, x)[k] = s[k]
        /\ Append(s, x)[Len(s) + 1] = x
<1> DEFINE S == Range(s) \cup {x}
<1>1. s \in Seq(S)
  BY SeqMonotonic DEF IsSeq
<1> HIDE DEF S
<1>2. x \in S
  BY DEF S
<1>3. Append(s, x) \in Seq(S) /\ Len(Append(s, x)) = Len(s) + 1 /\ Len(s) \in Nat
  BY <1>1, <1>2, AppendProperties, LenProperties
<1>4. \A k \in 1..Len(s) : Append(s, x)[k] = s[k]
  BY <1>1, <1>2, AppendProperties
<1>5. Append(s, x)[Len(s) + 1] = x
  BY <1>1, <1>2, AppendProperties
<1> QED BY <1>3, <1>4, <1>5, SeqIsSeq

LEMMA EmptyIsSeq == IsSeq(<<>>) /\ Len(<<>>) = 0
<1>1. <<>> \in Seq({}) /\ Len(<<>>) = 0
  BY EmptySeq
<1> QED BY <1>1, SeqIsSeq

-----------------------------------------------------------------------------
(* What main.py does, fed with the calls of a row *)

\* The recursive function exists.
LEMMA RunExists ==
  ASSUME NEW r
  PROVE /\ RunOf(r)[0] = Start
        /\ \A k \in 1..Patience : RunOf(r)[k] = After(r, RunOf(r)[k - 1])
<1> DEFINE all(g, n) == [k \in 0..n |-> IF k = 0 THEN Start ELSE After(r, g[k - 1])]
<1>1. RunOf(r) = CHOOSE g : g = all(g, Patience)
  BY DEF RunOf
<1>2. \A n \in Nat : \E g : g = all(g, n)
  <2> DEFINE F == {n \in Nat : \E g : g = all(g, n)}
  <2>1. 0 \in F
    <3> DEFINE g == [k \in 0..0 |-> Start]
    <3>1. g = all(g, 0)
      OBVIOUS
    <3> QED BY <3>1
  <2>2. ASSUME NEW n \in Nat, n \in F PROVE n + 1 \in F
    <3>1. PICK g : g = all(g, n)
      BY <2>2
    <3> DEFINE h == [k \in 0..(n + 1) |-> IF k <= n THEN g[k] ELSE After(r, g[k - 1])]
    <3>2. \A k \in 0..n : g[k] = IF k = 0 THEN Start ELSE After(r, g[k - 1])
      BY <3>1
    <3>3. ASSUME NEW k \in 0..(n + 1)
          PROVE h[k] = IF k = 0 THEN Start ELSE After(r, h[k - 1])
      <4>1. CASE k <= n
        <5>1. h[k] = g[k] /\ k \in 0..n /\ (k # 0 => h[k - 1] = g[k - 1])
          BY <4>1
        <5> HIDE DEF h
        <5> QED BY <5>1, <3>2
      <4>2. CASE k = n + 1
        <5>1. h[k - 1] = g[k - 1] /\ k # 0 /\ h[k] = After(r, g[k - 1])
          BY <4>2
        <5> HIDE DEF h
        <5> QED BY <5>1
      <4> QED BY <4>1, <4>2
    <3>4. h = all(h, n + 1)
      <4>1. h = [k \in 0..(n + 1) |-> h[k]]
        OBVIOUS
      <4>2. all(h, n + 1) = [k \in 0..(n + 1) |-> all(h, n + 1)[k]]
        OBVIOUS
      <4>3. \A k \in 0..(n + 1) : h[k] = all(h, n + 1)[k]
        <5> HIDE DEF h
        <5> QED BY <3>3
      <4> HIDE DEF h, all
      <4> QED BY <4>1, <4>2, <4>3
    <3> HIDE DEF h, all
    <3> QED BY <3>4
  <2>3. \A n \in Nat : n \in F
    <3> HIDE DEF F
    <3> QED BY <2>1, <2>2, NatInduct
  <2> QED BY <2>3
<1>3. \E g : g = all(g, Patience)
  BY <1>2, ReplayAssumption
<1> DEFINE f == CHOOSE g : g = all(g, Patience)
<1>4. f = all(f, Patience)
  BY <1>3
<1>5. f = RunOf(r)
  BY <1>1
<1> HIDE DEF f
<1>6. \A k \in 0..Patience : f[k] = IF k = 0 THEN Start ELSE After(r, f[k - 1])
  BY <1>4
<1> QED BY <1>5, <1>6, ReplayAssumption

\* How far a run has come.
IsRun(r, s) ==
    /\ s = [heard |-> s.heard, used |-> s.used, made |-> s.made, right |-> s.right]
    /\ s.used \in 0..Len(r.calls) /\ s.made \in Nat /\ s.right \in BOOLEAN

LEMMA AfterIsRun ==
  ASSUME NEW r, NEW s, IsRun(r, s), Len(r.calls) \in Nat
  PROVE IsRun(r, After(r, s)) /\ (After(r, s).right => s.right)
<1> DEFINE next == Does(Who(r), s.heard)
           call == r.calls[s.used + 1]
<1>1. CASE next.kind = "answer"
  BY <1>1 DEF After
<1>2. CASE next.kind # "answer" /\ Refused(next.kind, s.made)
  <2> DEFINE h == Append(s.heard, "limit")
  <2> HIDE DEF h
  <2>1. After(r, s) = [s EXCEPT !.heard = h]
    BY <1>2 DEF After, h
  <2> QED BY <2>1 DEF IsRun
<1>3. CASE next.kind # "answer" /\ ~Refused(next.kind, s.made) /\ s.used >= Len(r.calls)
  <2>1. After(r, s) = [s EXCEPT !.right = FALSE]
    BY <1>3 DEF After
  <2> QED BY <2>1 DEF IsRun
<1>4. CASE next.kind # "answer" /\ ~Refused(next.kind, s.made) /\ ~(s.used >= Len(r.calls))
  <2> DEFINE h == Append(s.heard, Heard(call))
             m == Counted(next.kind, s.made)
             p == CallMatches(call, r.item, next.kind, next.ask, s.made)
  <2>1. After(r, s) = [heard |-> h, used |-> s.used + 1, made |-> m, right |-> s.right /\ p]
    BY <1>4 DEF After
  <2>2. m \in Nat
    BY DEF Counted, IsRun
  <2> HIDE DEF h, m, p
  <2>3. s.used + 1 \in 0..Len(r.calls)
    BY <1>4 DEF IsRun
  <2> QED BY <2>1, <2>2, <2>3 DEF IsRun
<1> QED BY <1>1, <1>2, <1>3, <1>4

LEMMA RunIsRun ==
  ASSUME NEW r, Len(r.calls) \in Nat
  PROVE /\ \A k \in 0..Patience : IsRun(r, RunOf(r)[k])
        /\ \A k \in 1..Patience : RunOf(r)[k].right => RunOf(r)[k - 1].right
<1> DEFINE F == {k \in Nat : k <= Patience => IsRun(r, RunOf(r)[k])}
<1>1. 0 \in F
  <2>1. IsRun(r, Start)
    BY DEF Start, IsRun
  <2> QED BY <2>1, RunExists
<1>2. ASSUME NEW k \in Nat, k \in F PROVE k + 1 \in F
  <2> SUFFICES ASSUME k + 1 <= Patience PROVE IsRun(r, RunOf(r)[k + 1])
    OBVIOUS
  <2>1. IsRun(r, RunOf(r)[k])
    BY <1>2, ReplayAssumption
  <2>2. k + 1 \in 1..Patience /\ (k + 1) - 1 = k
    BY ReplayAssumption
  <2>3. RunOf(r)[k + 1] = After(r, RunOf(r)[k])
    BY <2>2, RunExists
  <2> QED BY <2>1, <2>3, AfterIsRun
<1>3. \A k \in Nat : k \in F
  <2> HIDE DEF F
  <2> QED BY <1>1, <1>2, NatInduct
<1>4. \A k \in 0..Patience : IsRun(r, RunOf(r)[k])
  BY <1>3
<1>5. ASSUME NEW k \in 1..Patience, RunOf(r)[k].right PROVE RunOf(r)[k - 1].right
  <2>1. IsRun(r, RunOf(r)[k - 1])
    BY <1>4, ReplayAssumption
  <2>2. RunOf(r)[k] = After(r, RunOf(r)[k - 1])
    BY RunExists
  <2> QED BY <1>5, <2>1, <2>2, AfterIsRun
<1> QED BY <1>4, <1>5

\* What is not right stays so, and an answer is the end.
LEMMA RunStays ==
  ASSUME NEW r, Len(r.calls) \in Nat, NEW j \in 0..Patience
  PROVE /\ ~RunOf(r)[j].right => ~RunOf(r)[Patience].right
        /\ Does(Who(r), RunOf(r)[j].heard).kind = "answer" => RunOf(r)[Patience] = RunOf(r)[j]
<1> DEFINE F == {k \in Nat : j + k <= Patience =>
                     /\ ~RunOf(r)[j].right => ~RunOf(r)[j + k].right
                     /\ Does(Who(r), RunOf(r)[j].heard).kind = "answer" => RunOf(r)[j + k] = RunOf(r)[j]}
<1>1. 0 \in F
  BY ReplayAssumption
<1>2. ASSUME NEW k \in Nat, k \in F PROVE k + 1 \in F
  <2> SUFFICES ASSUME j + (k + 1) <= Patience
               PROVE /\ ~RunOf(r)[j].right => ~RunOf(r)[j + (k + 1)].right
                     /\ Does(Who(r), RunOf(r)[j].heard).kind = "answer"
                           => RunOf(r)[j + (k + 1)] = RunOf(r)[j]
    OBVIOUS
  <2>1. /\ j + (k + 1) \in 1..Patience /\ (j + (k + 1)) - 1 = j + k /\ j + k <= Patience
    BY ReplayAssumption
  <2>2. /\ ~RunOf(r)[j].right => ~RunOf(r)[j + k].right
        /\ Does(Who(r), RunOf(r)[j].heard).kind = "answer" => RunOf(r)[j + k] = RunOf(r)[j]
    BY <2>1, <1>2
  <2>3. RunOf(r)[j + (k + 1)] = After(r, RunOf(r)[j + k])
    BY <2>1, RunExists
  <2>4. RunOf(r)[j + (k + 1)].right => RunOf(r)[j + k].right
    BY <2>1, RunIsRun
  <2>5. ASSUME NEW s, Does(Who(r), s.heard).kind = "answer" PROVE After(r, s) = s
    BY <2>5 DEF After
  <2> QED BY <2>2, <2>3, <2>4, <2>5
<1>3. \A k \in Nat : k \in F
  <2> HIDE DEF F
  <2> QED BY <1>1, <1>2, NatInduct
<1>4. Patience - j \in Nat /\ j + (Patience - j) = Patience
  BY ReplayAssumption
<1>5. Patience - j \in F
  BY <1>3, <1>4
<1> QED BY <1>4, <1>5, ReplayAssumption

\* As long as the calls are right, only those that were used matter.
LEMMA SameRun ==
  ASSUME NEW r, NEW q, r.pool = q.pool, r.item = q.item,
         Len(r.calls) \in Nat, Len(q.calls) \in Nat, Len(r.calls) <= Len(q.calls),
         \A k \in 1..Len(r.calls) : q.calls[k] = r.calls[k]
  PROVE \A j \in 0..Patience : RunOf(r)[j].right => RunOf(q)[j] = RunOf(r)[j]
<1> DEFINE F == {j \in Nat : j <= Patience /\ RunOf(r)[j].right => RunOf(q)[j] = RunOf(r)[j]}
<1>1. 0 \in F
  BY RunExists
<1>2. ASSUME NEW j \in Nat, j \in F PROVE j + 1 \in F
  <2> SUFFICES ASSUME j + 1 <= Patience, RunOf(r)[j + 1].right
               PROVE RunOf(q)[j + 1] = RunOf(r)[j + 1]
    OBVIOUS
  <2> DEFINE s == RunOf(r)[j]
  <2>1. j + 1 \in 1..Patience /\ (j + 1) - 1 = j /\ j \in 0..Patience
    BY ReplayAssumption
  <2>2. s.right /\ RunOf(r)[j + 1] = After(r, s) /\ RunOf(q)[j + 1] = After(q, RunOf(q)[j])
    BY <2>1, RunIsRun, RunExists
  <2>3. RunOf(q)[j] = s /\ IsRun(r, s)
    BY <2>1, <2>2, <1>2, RunIsRun
  <2> HIDE DEF s
  <2>4. After(r, s).right
    BY <2>2
  <2>5. Who(r) = Who(q)
    BY DEF Who
  <2> DEFINE next == Does(Who(r), s.heard)
  <2>6. ASSUME next.kind = "answer" PROVE After(q, s) = After(r, s)
    BY <2>6, <2>5 DEF After
  <2>7. ASSUME next.kind # "answer", Refused(next.kind, s.made) PROVE After(q, s) = After(r, s)
    BY <2>7, <2>5 DEF After
  <2>8. ASSUME next.kind # "answer", ~Refused(next.kind, s.made) PROVE After(q, s) = After(r, s)
    <3>1. ~(s.used >= Len(r.calls))
      <4> SUFFICES ASSUME s.used >= Len(r.calls) PROVE FALSE
        OBVIOUS
      <4>1. After(r, s) = [s EXCEPT !.right = FALSE]
        BY <2>8 DEF After
      <4>2. s = [heard |-> s.heard, used |-> s.used, made |-> s.made, right |-> s.right]
        BY <2>3 DEF IsRun
      <4> QED BY <4>1, <4>2, <2>4
    <3>2. s.used + 1 \in 1..Len(r.calls) /\ ~(s.used >= Len(q.calls))
      BY <3>1, <2>3 DEF IsRun
    <3>3. q.calls[s.used + 1] = r.calls[s.used + 1]
      BY <3>2
    <3> QED BY <2>8, <2>5, <3>1, <3>2, <3>3 DEF After
  <2> HIDE DEF next
  <2>9. After(q, s) = After(r, s)
    BY <2>6, <2>7, <2>8
  <2> QED BY <2>2, <2>3, <2>9
<1>3. \A j \in Nat : j \in F
  <2> HIDE DEF F
  <2> QED BY <1>1, <1>2, NatInduct
<1> QED BY <1>3

-----------------------------------------------------------------------------
(* The invariant *)

Reached(heard, used, n) == [heard |-> heard, used |-> used, made |-> n, right |-> TRUE]

\* The calls of this attempt that were admitted and wait for the engine; the model
\* calls before that one; the row as far as it is recorded.
Open == {t \in threads : Own(t) /\ t.at = "open"}
Before == IF Open = {} THEN made ELSE made - 1
Taped == ItemEntry(row, recorder.calls, "")

IsMain(m) ==
    /\ m = [at |-> m.at, heard |-> m.heard] /\ IsSeq(m.heard)
    /\ m.at \in {"idle", "working", "waiting", "dead"}
IsRecorder(rec) ==
    /\ rec = [n |-> rec.n, calls |-> rec.calls, failed |-> rec.failed]
    /\ rec.n \in Nat /\ IsSeq(rec.calls) /\ rec.failed \in BOOLEAN
IsThread(t) ==
    /\ t = [n |-> t.n, kind |-> t.kind, ask |-> t.ask, at |-> t.at, fault |-> t.fault]
    /\ t.n \in Nat /\ t.at \in {"in", "open"} /\ (t.at = "open" => t.kind = "slm")
IsReplay(rep) ==
    /\ rep = [position |-> rep.position, mismatch |-> rep.mismatch]
    /\ rep.position \in Nat /\ rep.mismatch \in BOOLEAN
IsTap(state) == state = [n |-> state.n, prompts |-> state.prompts] /\ state.n \in Nat
Results == [ok : BOOLEAN, over : SUBSET Nat, failed : SUBSET Nat, relay : SUBSET (Nat \X Nat),
            trouble : BOOLEAN]

ReplayTypes ==
    /\ phase \in {"record", "replay", "done"} /\ row \in Nat \ {0} /\ made \in Nat
    /\ IsMain(main) /\ IsRecorder(recorder) /\ (\A t \in threads : IsThread(t))
    /\ IsTranscript(transcript) /\ edited \in BOOLEAN /\ mixed \in BOOLEAN
    /\ IsReplay(replay) /\ IsTap(tap) /\ result \in Results

\* A row of main.py is recorded by one call after the other, each of the attempt in use.
AttemptInv ==
    phase = "record" =>
        /\ row <= Len(Plan) + 1 /\ (\A t \in threads : t.n <= recorder.n)
        /\ main.at # "idle" => row <= Len(Plan) /\ Plan[row].pool # "slm"
        /\ main.at = "working" => Len(main.heard) <= Patience /\ (\A t \in threads : ~Own(t))
        /\ main.at = "waiting" =>
              /\ Len(main.heard) < Patience /\ Next1.kind # "answer"
              /\ \A t \in threads : Own(t) => t.kind = Next1.kind /\ t.ask = Next1.ask
              /\ \A t, u \in threads : Own(t) /\ Own(u) => t = u

\* What was recorded so far leads main.py to where it is.
TapedInv ==
    phase = "record" /\ main.at \in {"working", "waiting"} /\ ~mixed /\ ~recorder.failed =>
        /\ RunOf(Taped)[Len(main.heard)] = Reached(main.heard, Len(recorder.calls), Before)
        /\ \A t \in Open : t.fault = Fault("slm", Item(row), Before) /\ ~Refused("slm", Before)

KeptInv == ~edited /\ ~mixed => \A r \in 1..Len(transcript) : Faithful(transcript[r])

\* A row with a prompt that is too long, by the prompt itself.
LongRow(r) == \E k \in SlmCalls(r) : Tokens[r.calls[k].ask] > MaxInput

\* The receipts of some rows.
ReceiptsOf(t, rows) == UNION {{<<r, k>> : k \in RelayCalls(t[r])} : r \in rows}

PassedInv ==
    /\ phase \in {"record", "replay"} => result.ok /\ ~result.trouble
    /\ phase = "record" => result.relay = {}
    /\ phase = "replay" =>
        /\ row <= Len(transcript) + 1
        /\ \A r \in 1..(row - 1) :
              Faithful(transcript[r]) /\ (LongRow(transcript[r]) => r \in result.failed)
        /\ result.relay = ReceiptsOf(transcript, 1..(row - 1))

\* What was replayed so far is what main.py is led to by the row, or it is known that
\* the row is not its own; the tap has the prompts of the calls that were taken.
TakenInv ==
    phase = "replay" =>
        /\ main.at \in {"idle", "working"}
        /\ main.at = "working" =>
              /\ InReplay /\ RowKnown(Now) /\ RequestOwn(Now) /\ Now.pool # "slm"
              /\ Len(main.heard) <= Patience
              /\ IF replay.mismatch THEN ~Follow(Now).right
                 ELSE /\ RunOf(Now)[Len(main.heard)] = Reached(main.heard, replay.position, made)
                      /\ MaxModelCalls = 0 \/ made < MaxModelCalls => tap.n = replay.position
                      /\ \A k \in SlmCalls(Now) : k <= replay.position =>
                            [seq |-> k - 1, ask |-> Now.calls[k].ask] \in tap.prompts

VerdictInv ==
    phase = "done" =>
        /\ ~result.trouble =>
              (result.ok <=> /\ \A r \in 1..Len(transcript) : Faithful(transcript[r])
                             /\ Cardinality(Receipts(transcript)) <= Allowance)
        /\ result.ok => \A r \in 1..Len(transcript) : LongRow(transcript[r]) => r \in result.failed

ReplayInv ==
    /\ ReplayTypes
    /\ AttemptInv
    /\ TapedInv
    /\ KeptInv
    /\ PassedInv
    /\ TakenInv
    /\ VerdictInv

-----------------------------------------------------------------------------
(* The types *)

LEMMA SeqFacts ==
  ASSUME NEW s, IsSeq(s)
  PROVE Len(s) \in Nat /\ DOMAIN s = 1..Len(s)
BY LenProperties DEF IsSeq

LEMMA TranscriptIsSeq ==
  ASSUME NEW t, IsTranscript(t)
  PROVE IsSeq(t) /\ \A r \in 1..Len(t) : IsSeq(t[r].calls) /\ Len(t[r].calls) \in Nat
<1>1. IsSeq(t)
  BY DEF IsTranscript, IsSeq
<1>2. \A r \in 1..Len(t) : IsSeq(t[r].calls)
  BY <1>1, SeqFacts DEF IsTranscript, IsSeq
<1> QED BY <1>1, <1>2, SeqFacts

LEMMA AppendRow ==
  ASSUME NEW t, NEW e, IsTranscript(t), IsSeq(e.calls)
  PROVE IsTranscript(Append(t, e))
<1> DEFINE u == Append(t, e)
<1>1. IsSeq(t)
  BY TranscriptIsSeq
<1>2. /\ IsSeq(u) /\ Len(t) \in Nat /\ Len(u) = Len(t) + 1
      /\ (\A k \in 1..Len(t) : u[k] = t[k]) /\ u[Len(t) + 1] = e
  BY <1>1, AppendIsSeq
<1> HIDE DEF u
<1>3. ASSUME NEW r \in DOMAIN u PROVE IsSeq(u[r].calls)
  <2>1. r \in 1..(Len(t) + 1)
    BY <1>2, SeqFacts
  <2>2. CASE r = Len(t) + 1
    BY <2>2, <1>2
  <2>3. CASE r \in 1..Len(t)
    <3>1. u[r] = t[r]
      BY <2>3, <1>2
    <3>2. IsSeq(t[r].calls)
      BY <2>3, TranscriptIsSeq
    <3> QED BY <3>1, <3>2
  <2> QED BY <2>1, <2>2, <2>3, <1>2
<1>4. IsTranscript(u)
  BY <1>2, <1>3 DEF IsTranscript, IsSeq
<1> QED BY <1>4 DEF u

LEMMA HearsIsMain ==
  ASSUME NEW m, NEW x, IsMain(m)
  PROVE /\ IsMain([at |-> "working", heard |-> Append(m.heard, x)])
        /\ [m EXCEPT !.heard = Append(@, x)] = [at |-> m.at, heard |-> Append(m.heard, x)]
        /\ \A at \in {"idle", "working", "waiting", "dead"} :
              /\ [m EXCEPT !.at = at] = [at |-> at, heard |-> m.heard]
              /\ IsMain([at |-> at, heard |-> m.heard])
<1>1. IsSeq(Append(m.heard, x))
  BY AppendIsSeq DEF IsMain
<1> DEFINE h == Append(m.heard, x)
<1>2. [m EXCEPT !.heard = Append(@, x)] = [m EXCEPT !.heard = h]
  OBVIOUS
<1> HIDE DEF h
<1>3. [m EXCEPT !.heard = h] = [at |-> m.at, heard |-> h]
  BY DEF IsMain
<1>4. \A at \in {"idle", "working", "waiting", "dead"} :
         /\ [m EXCEPT !.at = at] = [at |-> at, heard |-> m.heard]
         /\ IsMain([at |-> at, heard |-> m.heard])
  BY DEF IsMain
<1>5. IsMain([at |-> "working", heard |-> h])
  BY <1>1 DEF IsMain, h
<1> QED BY <1>2, <1>3, <1>4, <1>5 DEF h

LEMMA WritesIsRecorder ==
  ASSUME NEW rec, NEW call, IsRecorder(rec)
  PROVE /\ [rec EXCEPT !.calls = Append(@, call)]
              = [n |-> rec.n, calls |-> Append(rec.calls, call), failed |-> rec.failed]
        /\ IsRecorder([n |-> rec.n, calls |-> Append(rec.calls, call), failed |-> rec.failed])
        /\ [rec EXCEPT !.failed = TRUE] = [n |-> rec.n, calls |-> rec.calls, failed |-> TRUE]
        /\ IsRecorder([n |-> rec.n, calls |-> rec.calls, failed |-> TRUE])
<1> DEFINE h == Append(rec.calls, call)
<1>1. IsSeq(h)
  BY AppendIsSeq DEF IsRecorder
<1>2. [rec EXCEPT !.calls = Append(@, call)] = [rec EXCEPT !.calls = h]
  OBVIOUS
<1> HIDE DEF h
<1>3. [rec EXCEPT !.calls = h] = [n |-> rec.n, calls |-> h, failed |-> rec.failed]
  BY DEF IsRecorder
<1>4. IsRecorder([n |-> rec.n, calls |-> h, failed |-> rec.failed])
  BY <1>1 DEF IsRecorder
<1>5. \A b : [rec EXCEPT !.failed = b] = [n |-> rec.n, calls |-> rec.calls, failed |-> b]
  BY DEF IsRecorder
<1>6. \A b \in BOOLEAN : IsRecorder([n |-> rec.n, calls |-> rec.calls, failed |-> b])
  BY DEF IsRecorder
<1> QED BY <1>2, <1>3, <1>4, <1>5, <1>6 DEF h

LEMMA BudgetTypes ==
  ASSUME NEW prompts, ReplayTypes, InReplay
  PROVE Budget(Now, prompts) \in Results
<1> DEFINE over == IF Over(Now) THEN result.over \cup {row} ELSE result.over
           tooLong == IF TooLong(Now, prompts) THEN result.failed \cup {row} ELSE result.failed
           relay == result.relay \cup {<<row, k>> : k \in RelayCalls(Now)}
<1>1. result \in Results /\ row \in Nat /\ row \in 1..Len(transcript)
  <2>1. Len(transcript) \in Nat /\ row \in Nat \ {0}
    BY TranscriptIsSeq, SeqFacts DEF ReplayTypes
  <2> QED BY <2>1 DEF ReplayTypes, InReplay
<1>2. over \in SUBSET Nat /\ tooLong \in SUBSET Nat
  BY <1>1 DEF Results
<1>3. RelayCalls(Now) \subseteq Nat
  <2>1. IsSeq(Now.calls)
    BY <1>1, TranscriptIsSeq DEF ReplayTypes, Now
  <2> QED BY <2>1, SeqFacts DEF RelayCalls
<1>4. relay \in SUBSET (Nat \X Nat)
  BY <1>1, <1>3 DEF Results
<1>5. Budget(Now, prompts) = [result EXCEPT !.over = over, !.failed = tooLong, !.relay = relay]
  BY DEF Budget
<1> HIDE DEF over, tooLong, relay
<1> QED BY <1>1, <1>2, <1>4, <1>5 DEF Results

LEMMA OpenIsThread ==
  ASSUME NEW t, NEW fault, IsThread(t)
  PROVE /\ [t EXCEPT !.at = "open", !.fault = fault]
              = [n |-> t.n, kind |-> t.kind, ask |-> t.ask, at |-> "open", fault |-> fault]
        /\ t.kind = "slm" => IsThread([t EXCEPT !.at = "open", !.fault = fault])
<1> DEFINE u == [n |-> t.n, kind |-> t.kind, ask |-> t.ask, at |-> "open", fault |-> fault]
<1>1. [t EXCEPT !.at = "open", !.fault = fault] = u
  <2> DEFINE v == [t EXCEPT !.at = "open", !.fault = fault]
  <2>1. t = [n |-> t.n, kind |-> t.kind, ask |-> t.ask, at |-> t.at, fault |-> t.fault]
    BY DEF IsThread
  <2>2. t \in [n : {t.n}, kind : {t.kind}, ask : {t.ask}, at : {t.at}, fault : {t.fault}]
    BY ONLY <2>1
  <2>3. v \in [n : {t.n}, kind : {t.kind}, ask : {t.ask}, at : {"open"}, fault : {fault}]
    BY ONLY <2>2
  <2>4. u \in [n : {t.n}, kind : {t.kind}, ask : {t.ask}, at : {"open"}, fault : {fault}]
    OBVIOUS
  <2> HIDE DEF u, v
  <2>5. u = v
    BY ONLY <2>3, <2>4
  <2> QED BY <2>5 DEF v
<1>2. t.kind = "slm" => IsThread(u)
  BY DEF IsThread
<1> HIDE DEF u
<1> QED BY <1>1, <1>2 DEF u

LEMMA FailedTypes ==
  ASSUME result \in Results
  PROVE \A b, c \in BOOLEAN : /\ [result EXCEPT !.ok = b] \in Results
                              /\ [result EXCEPT !.ok = b, !.trouble = c] \in Results
BY DEF Results

LEMMA TypeInit == RowInit => ReplayTypes
<1> SUFFICES ASSUME RowInit PROVE ReplayTypes
  OBVIOUS
<1>1. IsMain(main) /\ IsRecorder(recorder) /\ IsTranscript(transcript)
  BY EmptyIsSeq, SeqFacts DEF RowInit, Idle, NewRecorder, IsMain, IsRecorder, IsTranscript, IsSeq
<1>2. IsReplay(replay) /\ IsTap(tap) /\ result \in Results
  <2>1. \A b \in BOOLEAN : IsReplay([position |-> 0, mismatch |-> b])
    BY DEF IsReplay
  <2>2. \A b, c \in BOOLEAN :
           [ok |-> b, over |-> {}, failed |-> {}, relay |-> {}, trouble |-> c] \in Results
    BY DEF Results
  <2>3. IsTap([n |-> 0, prompts |-> {}])
    BY DEF IsTap
  <2>4. IsReplay([position |-> 0, mismatch |-> FALSE])
    BY <2>1
  <2>5. [ok |-> TRUE, over |-> {}, failed |-> {}, relay |-> {}, trouble |-> FALSE] \in Results
    BY <2>2
  <2>6. IsReplay(replay)
    BY <2>4, Zenon DEF RowInit
  <2>7. IsTap(tap)
    BY <2>3 DEF RowInit
  <2>8. result \in Results
    BY <2>5, Zenon DEF RowInit
  <2> QED BY <2>6, <2>7, <2>8
<1>3. /\ phase \in {"record", "replay", "done"} /\ row \in Nat \ {0} /\ made \in Nat
      /\ \A t \in threads : IsThread(t)
  BY DEF RowInit
<1>4. edited \in BOOLEAN /\ mixed \in BOOLEAN
  BY DEF RowInit
<1> QED BY <1>1, <1>2, <1>3, <1>4 DEF ReplayTypes

\* Serving a request leaves what is typed typed.
LEMMA AnsweredTypes ==
  ASSUME NEW t, NEW heard, ReplayTypes, Answered(t, heard)
  PROVE IsMain(main') /\ \A u \in threads' : IsThread(u)
BY HearsIsMain DEF Answered, ReplayTypes

LEMMA RecordedTypes ==
  ASSUME NEW t, NEW call, ReplayTypes, Recorded(t, call)
  PROVE IsMain(main') /\ IsRecorder(recorder') /\ \A u \in threads' : IsThread(u)
<1>1. Answered(t, Heard(call))
  BY DEF Recorded
<1>2. IsRecorder(recorder')
  <2>1. IsRecorder([recorder EXCEPT !.calls = Append(@, call)])
    <3>1. IsRecorder(recorder)
      BY DEF ReplayTypes
    <3> DEFINE rec == recorder
    <3> HIDE DEF rec
    <3>2. /\ [rec EXCEPT !.calls = Append(@, call)]
                = [n |-> rec.n, calls |-> Append(rec.calls, call), failed |-> rec.failed]
          /\ IsRecorder([n |-> rec.n, calls |-> Append(rec.calls, call), failed |-> rec.failed])
      BY <3>1, WritesIsRecorder DEF rec
    <3>3. IsRecorder([rec EXCEPT !.calls = Append(@, call)])
      BY ONLY <3>2, Zenon
    <3> QED BY <3>3 DEF rec
  <2>2. CASE Own(t)
    BY <2>1, <2>2 DEF Recorded
  <2>3. CASE ~Own(t)
    BY <2>3 DEF Recorded, ReplayTypes
  <2> QED BY <2>2, <2>3
<1> QED BY <1>1, <1>2, AnsweredTypes

LEMMA TypeStep == ReplayTypes /\ [RowNext]_rowVars => ReplayTypes'
<1> SUFFICES ASSUME ReplayTypes, [RowNext]_rowVars PROVE ReplayTypes'
  OBVIOUS
<1> USE DEF ReplayTypes
<1>1. CASE Generate
  <2>1. PICK text \in Texts : transcript' = Append(transcript, ItemEntry(row, <<Call("slm", "direct", "none", text)>>, text))
    BY <1>1 DEF Generate
  <2>2. IsSeq(ItemEntry(row, <<Call("slm", "direct", "none", text)>>, text).calls)
    <3> DEFINE c == Call("slm", "direct", "none", text)
    <3>1. ItemEntry(row, <<c>>, text).calls = <<c>>
      BY DEF ItemEntry
    <3> HIDE DEF c
    <3>2. <<c>> \in Seq({c})
      OBVIOUS
    <3>3. IsSeq(<<c>>)
      BY <3>2, SeqIsSeq
    <3> QED BY <3>1, <3>3 DEF c
  <2>3. IsTranscript(transcript')
    BY <2>1, <2>2, AppendRow
  <2> QED BY <1>1, <2>3 DEF Generate, Recording, recording, replaying
<1>2. CASE BeginItem
  BY <1>2, EmptyIsSeq DEF BeginItem, Recording, replaying, NewRecorder, IsMain, IsRecorder
<1>3. CASE Ask
  <2>1. IsMain(main')
    BY <1>3, HearsIsMain DEF Ask
  <2>2. ASSUME NEW u \in threads' PROVE IsThread(u)
    <3> DEFINE t == [n |-> recorder.n, kind |-> Next1.kind, ask |-> Next1.ask, at |-> "in", fault |-> "none"]
    <3>1. u \in threads \/ u = t
      BY <1>3, <2>2 DEF Ask
    <3>2. IsThread(t)
      BY DEF IsThread, IsRecorder
    <3> QED BY <3>1, <3>2
  <2> QED BY <1>3, <2>1, <2>2 DEF Ask, Recording, replaying
<1>4. CASE MainDies
  <2>1. IsMain(main')
    BY <1>4, HearsIsMain DEF MainDies
  <2> QED BY <1>4, <2>1 DEF MainDies, Recording, recording, replaying
<1>5. CASE RowEnds
  <2>1. IsMain(Idle)
    BY EmptyIsSeq DEF Idle, IsMain
  <2>2. IsSeq(ItemEntry(row, recorder.calls, Next1.ask).calls)
    BY DEF ItemEntry, IsRecorder
  <2>3. /\ main' = Idle /\ (row' = row \/ row' = row + 1)
        /\ transcript' \in {transcript, Append(transcript, ItemEntry(row, recorder.calls, Next1.ask))}
    BY <1>5 DEF RowEnds, Redo
  <2>4. IsTranscript(Append(transcript, ItemEntry(row, recorder.calls, Next1.ask)))
    BY <2>2, AppendRow
  <2>5. row' \in Nat \ {0}
    BY <2>3
  <2>6. IsTranscript(transcript')
    BY <2>3, <2>4
  <2> QED BY <1>5, <2>1, <2>3, <2>5, <2>6 DEF RowEnds, Recording, recording, replaying
<1>6. CASE Seal
  <2>1. IsMain(Idle)
    BY EmptyIsSeq DEF Idle, IsMain
  <2>2. IsTranscript(transcript') /\ edited' \in BOOLEAN
    BY <1>6 DEF Seal
  <2> QED BY <1>6, <2>1, <2>2 DEF Seal, recording, replaying
<1>7. ASSUME NEW t \in threads, Admit(t) PROVE ReplayTypes'
  <2>1. IsMain(main') /\ IsRecorder(recorder') /\ made' \in Nat /\ \A u \in threads' : IsThread(u)
    <3>1. CASE Refused("slm", made)
      <4>1. Answered(t, "limit") /\ UNCHANGED <<made, recorder>>
        BY <1>7, <3>1 DEF Admit
      <4> QED BY <4>1, AnsweredTypes
    <3>2. CASE ~Refused("slm", made) /\ FaultNow("slm") = "status"
      <4>1. Recorded(t, Call("slm", t.ask, "status", ""))
        BY <1>7, <3>2 DEF Admit
      <4>2. made' \in Nat
        <5>1. made' = IF main.at = "idle" THEN made ELSE Counted("slm", made)
          BY <1>7, <3>2 DEF Admit
        <5> QED BY <5>1 DEF Counted
      <4> QED BY <4>1, <4>2, RecordedTypes
    <3>3. CASE ~Refused("slm", made) /\ FaultNow("slm") # "status"
      <4> DEFINE fault == FaultNow("slm")
      <4>1. /\ threads' = (threads \ {t}) \cup {[t EXCEPT !.at = "open", !.fault = fault]}
            /\ UNCHANGED <<main, recorder>>
        BY <1>7, <3>3 DEF Admit
      <4>2. made' \in Nat
        <5>1. made' = IF main.at = "idle" THEN made ELSE Counted("slm", made)
          BY <1>7, <3>3 DEF Admit
        <5> QED BY <5>1 DEF Counted
      <4> HIDE DEF fault
      <4>3. IsThread([t EXCEPT !.at = "open", !.fault = fault])
        <5>1. t.kind = "slm" /\ IsThread(t)
          BY <1>7 DEF Admit
        <5> QED BY <5>1, OpenIsThread
      <4> QED BY <4>1, <4>2, <4>3
    <3> QED BY <3>1, <3>2, <3>3
  <2>2. mixed' \in BOOLEAN
    BY <1>7 DEF Admit, Mixes
  <2> QED BY <1>7, <2>1, <2>2 DEF Admit, Recording, replaying
<1>8. ASSUME NEW t \in threads, EngineAnswers(t) PROVE ReplayTypes'
  <2>1. IsMain(main') /\ IsRecorder(recorder') /\ \A u \in threads' : IsThread(u)
    BY <1>8, RecordedTypes DEF EngineAnswers
  <2> QED BY <1>8, <2>1 DEF EngineAnswers, Recording, replaying
<1>9. ASSUME NEW t \in threads, Serve(t) PROVE ReplayTypes'
  <2>1. IsMain(main') /\ IsRecorder(recorder') /\ \A u \in threads' : IsThread(u)
    BY <1>9, RecordedTypes DEF Serve
  <2> QED BY <1>9, <2>1 DEF Serve, Recording, replaying
<1>10. ASSUME NEW t \in threads, ServiceFails(t) PROVE ReplayTypes'
  <2>1. IsMain(main') /\ \A u \in threads' : IsThread(u)
    BY <1>10, AnsweredTypes DEF ServiceFails
  <2>2. IsRecorder(recorder')
    BY <1>10, WritesIsRecorder DEF ServiceFails
  <2> QED BY <1>10, <2>1, <2>2 DEF ServiceFails, Recording, replaying
<1>11. CASE ReplayRow
  <2>1. ASSUME InReplay PROVE Budget(Now, {[seq |-> 0, ask |-> "direct"]}) \in Results
    BY <2>1, BudgetTypes
  <2>2. [result EXCEPT !.ok = FALSE] \in Results
    BY FailedTypes
  <2>3. /\ IsMain([at |-> "working", heard |-> <<>>]) /\ IsReplay([position |-> 0, mismatch |-> FALSE])
        /\ IsTap([n |-> 0, prompts |-> {}])
    <3>1. \A b \in BOOLEAN : IsReplay([position |-> 0, mismatch |-> b])
      BY DEF IsReplay
    <3>2. IsReplay([position |-> 0, mismatch |-> FALSE])
      BY <3>1
    <3>3. IsMain([at |-> "working", heard |-> <<>>]) /\ IsTap([n |-> 0, prompts |-> {}])
      BY EmptyIsSeq DEF IsMain, IsTap
    <3> QED BY <3>2, <3>3, Zenon
  <2> DEFINE clear == [position |-> 0, mismatch |-> FALSE]
             fresh == [n |-> 0, prompts |-> {}]
             begun == [at |-> "working", heard |-> <<>>]
             bad == [result EXCEPT !.ok = FALSE]
             counted == Budget(Now, {[seq |-> 0, ask |-> "direct"]})
  <2>4. /\ phase' \in {phase, "done"} /\ (row' = row \/ row' = row + 1) /\ made' \in {made, 0}
        /\ main' \in {main, begun} /\ replay' \in {replay, clear} /\ tap' \in {tap, fresh}
    <3> HIDE DEF clear, fresh, begun
    <3> QED BY <1>11 DEF ReplayRow, Replaying, Failed, Done, clear, fresh, begun
  <2>5. result' \in {result, bad, counted} /\ InReplay
    <3> HIDE DEF bad, counted
    <3> QED BY <1>11 DEF ReplayRow, Replaying, Failed, Done, bad, counted
  <2>6. /\ phase' \in {"record", "replay", "done"} /\ row' \in Nat \ {0} /\ made' \in Nat
        /\ IsMain(main') /\ IsReplay(replay') /\ IsTap(tap')
    <3>1. row' \in Nat \ {0} /\ made' \in Nat /\ phase' \in {"record", "replay", "done"}
      BY <2>4
    <3>2. IsMain(begun) /\ IsReplay(clear) /\ IsTap(fresh)
      BY <2>3, Zenon
    <3> HIDE DEF clear, fresh, begun
    <3> QED BY <2>4, <3>1, <3>2
  <2>7. result' \in Results
    BY <2>5, <2>1, <2>2
  <2> QED BY <1>11, <2>6, <2>7 DEF ReplayRow, Replaying, recording
<1>12. CASE ReplayCall
  <2>1. ASSUME NEW x PROVE IsMain([main EXCEPT !.heard = Append(@, x)])
    <3>1. main.at = "working"
      BY <1>12 DEF ReplayCall
    <3>2. IsMain([at |-> "working", heard |-> Append(main.heard, x)])
      BY HearsIsMain
    <3>3. [main EXCEPT !.heard = Append(@, x)] = [at |-> main.at, heard |-> Append(main.heard, x)]
      BY HearsIsMain
    <3> QED BY <3>1, <3>2, <3>3
  <2>2. IsMain(main')
    <3>1. \E x : main' = [main EXCEPT !.heard = Append(@, x)]
      BY <1>12 DEF ReplayCall
    <3> QED BY <3>1, <2>1
  <2>3. IsReplay(replay') /\ made' \in Nat
    <3>1. (\E match \in BOOLEAN : replay' = Taken(match)) \/ replay' = replay
      BY <1>12 DEF ReplayCall
    <3>2. made' = Counted(Next2.kind, made) \/ made' = made
      BY <1>12 DEF ReplayCall
    <3>3. ASSUME NEW match \in BOOLEAN PROVE IsReplay(Taken(match))
      <4> DEFINE p == IF match THEN replay.position + 1 ELSE replay.position
                 q == replay.mismatch \/ ~match
      <4>1. Taken(match) = [position |-> p, mismatch |-> q] /\ p \in Nat /\ q \in BOOLEAN
        BY DEF Taken, IsReplay
      <4> HIDE DEF p, q
      <4> QED BY <4>1 DEF IsReplay
    <3> QED BY <3>1, <3>2, <3>3 DEF Counted
  <2>4. IsTap(tap')
    <3>1. tap' = Tapped(Next2.kind, Next2.ask)
      BY <1>12 DEF ReplayCall
    <3> DEFINE p == IF Next2.kind = "slm" THEN tap.prompts \cup {[seq |-> tap.n, ask |-> Next2.ask]} ELSE tap.prompts
    <3>2. tap' = [n |-> tap.n + 1, prompts |-> p]
      BY <3>1 DEF Tapped
    <3> HIDE DEF p
    <3> QED BY <3>2 DEF IsTap
  <2> QED BY <1>12, <2>2, <2>3, <2>4 DEF ReplayCall, Replaying, recording
<1>13. CASE ReplayAnswer
  <2>1. Budget(Now, tap.prompts) \in Results
    BY <1>13, BudgetTypes DEF ReplayAnswer
  <2>2. [result EXCEPT !.ok = FALSE] \in Results
    BY FailedTypes
  <2>3. IsMain(Idle)
    BY EmptyIsSeq DEF Idle, IsMain
  <2> DEFINE bad == [result EXCEPT !.ok = FALSE]
  <2>4. /\ phase' \in {phase, "done"} /\ (row' = row \/ row' = row + 1) /\ main' \in {main, Idle}
        /\ result' \in {bad, Budget(Now, tap.prompts)}
    <3> HIDE DEF bad
    <3> QED BY <1>13 DEF ReplayAnswer, Replaying, Failed, Done, bad
  <2>5. /\ phase' \in {"record", "replay", "done"} /\ row' \in Nat \ {0} /\ result' \in Results
        /\ IsMain(main')
    <3>1. row' \in Nat \ {0} /\ phase' \in {"record", "replay", "done"}
      BY <2>4
    <3>2. bad \in Results
      BY <2>2
    <3> HIDE DEF bad
    <3> QED BY <2>1, <2>3, <2>4, <3>1, <3>2
  <2> QED BY <1>13, <2>5 DEF ReplayAnswer, Replaying, recording
<1>14. CASE ValidatorFails
  <2>1. [result EXCEPT !.ok = FALSE, !.trouble = TRUE] \in Results
    BY FailedTypes
  <2> QED BY <1>14, <2>1 DEF ValidatorFails, Replaying, Done, recording
<1>15. CASE ReplayEnds
  <2> DEFINE ok == Cardinality(result.relay) <= Allowance
  <2>1. result' = [result EXCEPT !.ok = ok] /\ ok \in BOOLEAN
    BY <1>15 DEF ReplayEnds, Done
  <2> HIDE DEF ok
  <2>2. result' \in Results
    BY <2>1 DEF Results
  <2> QED BY <1>15, <2>2 DEF ReplayEnds, Replaying, Done, recording
<1>16. CASE UNCHANGED rowVars
  BY <1>16 DEF rowVars, recording, replaying
<1> QED BY <1>1, <1>2, <1>3, <1>4, <1>5, <1>6, <1>7, <1>8, <1>9, <1>10, <1>11, <1>12, <1>13,
          <1>14, <1>15, <1>16 DEF RowNext, Record, Replay, Stopped

-----------------------------------------------------------------------------
(* The attempt *)

LEMMA KeepsNumber ==
  ASSUME NEW rec, IsRecorder(rec)
  PROVE /\ \A c : [rec EXCEPT !.calls = Append(@, c)].n = rec.n
        /\ [rec EXCEPT !.failed = TRUE].n = rec.n
<1>1. "n" \in DOMAIN rec
  BY DEF IsRecorder
<1> QED BY <1>1

\* A request that is answered is the only one main.py waits for, or of an old attempt.
LEMMA AnsweredAttempt ==
  ASSUME NEW t \in threads, NEW heard, ReplayTypes, AttemptInv, phase = "record",
         Answered(t, heard), phase' = phase, row' = row, recorder'.n = recorder.n
  PROVE AttemptInv'
<1>1. /\ IsMain(main) /\ Len(main.heard) \in Nat
      /\ Len(Append(main.heard, heard)) = Len(main.heard) + 1
  BY AppendIsSeq DEF ReplayTypes, IsMain
<1>2. /\ row' <= Len(Plan) + 1 /\ \A u \in threads' : u.n <= recorder'.n /\ u \in threads /\ u # t
  BY DEF AttemptInv, Answered
<1>3. \A u : Own(u)' <=> Own(u)
  BY DEF Own
<1>4. CASE Own(t) /\ main.at = "waiting"
  <2>1. main' = [at |-> "working", heard |-> Append(main.heard, heard)]
    BY <1>4 DEF Answered
  <2>2. \A u \in threads' : ~Own(u)'
    BY <1>2, <1>3, <1>4 DEF AttemptInv
  <2>3. Len(main'.heard) <= Patience
    BY <1>1, <1>4, <2>1, ReplayAssumption DEF AttemptInv
  <2>4. main'.at = "working" /\ row' <= Len(Plan) /\ Plan[row'].pool # "slm"
    BY <2>1, <1>4 DEF AttemptInv
  <2> QED BY <1>2, <2>2, <2>3, <2>4 DEF AttemptInv
<1>5. CASE ~(Own(t) /\ main.at = "waiting")
  <2>1. main' = main
    BY <1>5 DEF Answered
  <2>2. Next1' = Next1
    BY <2>1 DEF Next1
  <2> QED BY <1>2, <1>3, <2>1, <2>2 DEF AttemptInv
<1> QED BY <1>4, <1>5

LEMMA AttemptStep == ReplayTypes /\ AttemptInv /\ [RowNext]_rowVars => AttemptInv'
<1> SUFFICES ASSUME ReplayTypes, AttemptInv, [RowNext]_rowVars PROVE AttemptInv'
  OBVIOUS
<1>0. IsMain(main) /\ IsRecorder(recorder) /\ Len(main.heard) \in Nat /\ Len(Plan) \in Nat /\ row \in Nat
  BY SeqFacts, ReplayAssumption, LenProperties DEF ReplayTypes, IsMain
<1>1. CASE Generate
  <2>1. phase = "record" /\ main.at = "idle" /\ row <= Len(Plan)
    BY <1>1 DEF Generate, Recording, AttemptInv
  <2>2. row' = row + 1 /\ main' = main /\ threads' = threads /\ recorder' = recorder
    BY <1>1 DEF Generate, recording
  <2> QED BY <2>1, <2>2, <1>0 DEF AttemptInv
<1>2. CASE BeginItem
  <2>1. /\ phase = "record" /\ row <= Len(Plan) /\ Plan[row].pool # "slm"
        /\ recorder'.n = recorder.n + 1 /\ main'.at = "working" /\ main'.heard = <<>>
        /\ row' = row /\ threads' = threads
    BY <1>2 DEF BeginItem, Recording, NewRecorder
  <2>2. \A t \in threads : t.n <= recorder.n /\ t.n \in Nat
    BY <2>1 DEF AttemptInv, ReplayTypes, IsThread
  <2>3. \A t \in threads' : t.n <= recorder'.n /\ ~Own(t)'
    BY <1>0, <2>1, <2>2 DEF Own, IsRecorder
  <2>4. Len(main'.heard) <= Patience
    BY <2>1, EmptyIsSeq, ReplayAssumption
  <2> QED BY <1>0, <2>1, <2>3, <2>4 DEF AttemptInv
<1>3. CASE Ask
  <2> DEFINE u == [n |-> recorder.n, kind |-> Next1.kind, ask |-> Next1.ask, at |-> "in", fault |-> "none"]
  <2>1. /\ phase = "record" /\ main.at = "working" /\ Next1.kind # "answer"
        /\ threads' = threads \cup {u} /\ row' = row /\ recorder' = recorder
    BY <1>3 DEF Ask, Recording
  <2>2. main' = [at |-> "waiting", heard |-> main.heard]
    BY <1>3, <1>0, HearsIsMain DEF Ask
  <2>3. Next1' = Next1
    BY <2>1, <2>2 DEF Next1
  <2>4. Len(main.heard) < Patience
    BY <2>1, <1>0, ReplayAssumption DEF Next1, Does
  <2>5. \A t \in threads' : (Own(t)' => t = u) /\ t.n <= recorder'.n
    BY <2>1, <1>0 DEF AttemptInv, Own, IsRecorder
  <2>6. u.kind = Next1.kind /\ u.ask = Next1.ask
    OBVIOUS
  <2> HIDE DEF u
  <2> QED BY <1>0, <2>1, <2>2, <2>3, <2>4, <2>5, <2>6 DEF AttemptInv
<1>4. CASE MainDies
  <2>1. main' = [at |-> "dead", heard |-> main.heard]
    BY <1>4, <1>0, HearsIsMain DEF MainDies
  <2>2. /\ phase = "record" /\ row' = row /\ threads' = threads /\ recorder' = recorder
        /\ main.at # "idle"
    BY <1>4 DEF MainDies, Recording, recording
  <2> QED BY <2>1, <2>2 DEF AttemptInv
<1>5. CASE RowEnds
  <2>1. main'.at = "idle" /\ (row' = row \/ row' = row + 1) /\ threads' = threads /\ recorder' = recorder
    BY <1>5 DEF RowEnds, Redo, recording, Idle
  <2>2. phase = "record" /\ main.at # "idle"
    BY <1>5 DEF RowEnds, Recording
  <2> QED BY <1>0, <2>1, <2>2 DEF AttemptInv
<1>6. CASE Seal
  BY <1>6 DEF Seal, AttemptInv
<1>7. ASSUME NEW t \in threads, Admit(t) PROVE AttemptInv'
  <2>1. phase = "record" /\ phase' = phase /\ row' = row /\ recorder'.n = recorder.n
    <3>1. phase = "record" /\ phase' = phase /\ row' = row
      BY <1>7 DEF Admit, Recording
    <3>2. recorder' = recorder \/ \E c : recorder' = [recorder EXCEPT !.calls = Append(@, c)]
      BY <1>7 DEF Admit, Recorded
    <3>3. recorder'.n = recorder.n
      BY <1>0, <3>2, KeepsNumber, ZenonT(60)
    <3> QED BY <3>1, <3>3
  <2>2. CASE \E heard : Answered(t, heard)
    BY <2>1, <2>2, AnsweredAttempt
  <2>3. CASE ~\E heard : Answered(t, heard)
    <3>1. threads' = (threads \ {t}) \cup {[t EXCEPT !.at = "open", !.fault = FaultNow("slm")]} /\ main' = main
      BY <1>7, <2>3 DEF Admit, Recorded
    <3> DEFINE v == [t EXCEPT !.at = "open", !.fault = FaultNow("slm")]
    <3>2. v = [n |-> t.n, kind |-> t.kind, ask |-> t.ask, at |-> "open", fault |-> FaultNow("slm")]
      BY OpenIsThread DEF ReplayTypes
    <3>3. v.n = t.n /\ v.kind = t.kind /\ v.ask = t.ask
      BY <3>2
    <3> HIDE DEF v
    <3>4. Next1' = Next1
      BY <2>1, <3>1 DEF Next1
    <3>5. \A u : Own(u)' <=> Own(u)
      BY <2>1 DEF Own
    <3>6. Own(v) <=> Own(t)
      BY <3>3 DEF Own
    <3>7. threads' = (threads \ {t}) \cup {v}
      BY <3>1 DEF v
    <3>8. row' <= Len(Plan) + 1 /\ \A u \in threads' : u.n <= recorder'.n
      BY <2>1, <3>3, <3>7 DEF AttemptInv
    <3>9. main.at # "idle" => row' <= Len(Plan) /\ Plan[row'].pool # "slm"
      BY <2>1 DEF AttemptInv
    <3>10. main.at = "working" => Len(main'.heard) <= Patience /\ (\A u \in threads' : ~Own(u)')
      BY <2>1, <3>1, <3>5, <3>6, <3>7 DEF AttemptInv
    <3>11. main.at = "waiting" =>
              /\ Len(main'.heard) < Patience /\ Next1'.kind # "answer"
              /\ \A u \in threads' : Own(u)' => u.kind = Next1'.kind /\ u.ask = Next1'.ask
              /\ \A u, w \in threads' : Own(u)' /\ Own(w)' => u = w
      <4> SUFFICES ASSUME main.at = "waiting"
                   PROVE /\ Len(main'.heard) < Patience /\ Next1'.kind # "answer"
                         /\ \A u \in threads' : Own(u)' => u.kind = Next1'.kind /\ u.ask = Next1'.ask
                         /\ \A u, w \in threads' : Own(u)' /\ Own(w)' => u = w
        OBVIOUS
      <4>1. /\ Len(main.heard) < Patience /\ Next1.kind # "answer"
            /\ \A u \in threads : Own(u) => u.kind = Next1.kind /\ u.ask = Next1.ask
            /\ \A u, w \in threads : Own(u) /\ Own(w) => u = w
        BY <2>1 DEF AttemptInv
      <4>2. \A u \in threads' : Own(u)' => u.kind = Next1'.kind /\ u.ask = Next1'.ask
        BY <4>1, <3>3, <3>4, <3>5, <3>6, <3>7
      <4>3. \A u, w \in threads' : Own(u)' /\ Own(w)' => u = w
        BY <4>1, <3>5, <3>6, <3>7
      <4> QED BY <4>1, <4>2, <4>3, <3>1, <3>4
    <3> QED BY <3>1, <3>8, <3>9, <3>10, <3>11 DEF AttemptInv
  <2> QED BY <2>2, <2>3
<1>8. ASSUME NEW t \in threads, EngineAnswers(t) \/ Serve(t) PROVE AttemptInv'
  <2>1. PICK c : Recorded(t, c)
    BY <1>8 DEF EngineAnswers, Serve
  <2>2. recorder' = recorder \/ recorder' = [recorder EXCEPT !.calls = Append(@, c)]
    BY <2>1 DEF Recorded
  <2>3. recorder'.n = recorder.n
    BY <1>0, <2>2, KeepsNumber, ZenonT(60)
  <2>4. phase = "record" /\ phase' = phase /\ row' = row /\ Answered(t, Heard(c))
    BY <1>8, <2>1 DEF EngineAnswers, Serve, Recording, Recorded
  <2> QED BY <2>3, <2>4, AnsweredAttempt
<1>9. ASSUME NEW t \in threads, ServiceFails(t) PROVE AttemptInv'
  <2>1. recorder' = recorder \/ recorder' = [recorder EXCEPT !.failed = TRUE]
    BY <1>9 DEF ServiceFails
  <2>2. recorder'.n = recorder.n
    BY <1>0, <2>1, KeepsNumber, ZenonT(60)
  <2>3. phase = "record" /\ phase' = phase /\ row' = row /\ Answered(t, "error")
    BY <1>9 DEF ServiceFails, Recording
  <2> QED BY <2>2, <2>3, AnsweredAttempt
<1>10. CASE Replay
  BY <1>10 DEF Replay, ReplayRow, ReplayCall, ReplayAnswer, ValidatorFails, ReplayEnds, Replaying,
         Failed, Done, AttemptInv
<1>11. CASE UNCHANGED rowVars
  BY <1>11 DEF rowVars, recording, AttemptInv, Own, Next1
<1> QED BY <1>1, <1>2, <1>3, <1>4, <1>5, <1>6, <1>7, <1>8, <1>9, <1>10, <1>11
        DEF RowNext, Record, Stopped

-----------------------------------------------------------------------------
(* The tape *)

\* One answer more, from what main.py has heard.
LEMMA AfterReached ==
  ASSUME NEW r, NEW heard, NEW used, NEW n, NEW next, NEW call,
         next = Does(Who(r), heard), call = r.calls[used + 1], next.kind # "answer"
  PROVE LET s == Reached(heard, used, n)
        IN  /\ Refused(next.kind, n) => After(r, s) = Reached(Append(heard, "limit"), used, n)
            /\ ~Refused(next.kind, n) /\ used >= Len(r.calls) => ~After(r, s).right
            /\ ~Refused(next.kind, n) /\ ~(used >= Len(r.calls)) =>
                  IF CallMatches(call, r.item, next.kind, next.ask, n)
                  THEN After(r, s) = Reached(Append(heard, Heard(call)), used + 1, Counted(next.kind, n))
                  ELSE ~After(r, s).right
<1> DEFINE s == Reached(heard, used, n)
<1>1. s.heard = heard /\ s.used = used /\ s.made = n /\ s.right
  BY DEF Reached
<1>2. ASSUME Refused(next.kind, n) PROVE After(r, s) = Reached(Append(heard, "limit"), used, n)
  <2> DEFINE h == Append(heard, "limit")
  <2>1. After(r, s) = [s EXCEPT !.heard = Append(@, "limit")]
    BY <1>1, <1>2 DEF After
  <2>2. [s EXCEPT !.heard = Append(@, "limit")] = [s EXCEPT !.heard = h]
    BY <1>1
  <2> HIDE DEF h
  <2>3. [s EXCEPT !.heard = h] = Reached(h, used, n)
    <3>1. \A b : [[heard |-> heard, used |-> used, made |-> n, right |-> b] EXCEPT !.heard = h]
                    = [heard |-> h, used |-> used, made |-> n, right |-> b]
      OBVIOUS
    <3> QED BY <3>1, Zenon DEF Reached
  <2> QED BY <2>1, <2>2, <2>3 DEF h
<1>3. ASSUME ~Refused(next.kind, n), used >= Len(r.calls) PROVE ~After(r, s).right
  <2>1. After(r, s) = [s EXCEPT !.right = FALSE]
    BY <1>1, <1>3 DEF After
  <2>2. "right" \in DOMAIN s
    BY DEF Reached
  <2> HIDE DEF s
  <2> QED BY <2>1, <2>2
<1>4. ASSUME ~Refused(next.kind, n), ~(used >= Len(r.calls))
      PROVE IF CallMatches(call, r.item, next.kind, next.ask, n)
            THEN After(r, s) = Reached(Append(heard, Heard(call)), used + 1, Counted(next.kind, n))
            ELSE ~After(r, s).right
  <2> DEFINE p == CallMatches(call, r.item, next.kind, next.ask, n)
             h == Append(heard, Heard(call))
             m == Counted(next.kind, n)
  <2>1. After(r, s) = [heard |-> h, used |-> used + 1, made |-> m, right |-> s.right /\ p]
    BY <1>1, <1>4 DEF After
  <2>2. (s.right /\ p) = p
    BY <1>1 DEF CallMatches
  <2>3. After(r, s) = [heard |-> h, used |-> used + 1, made |-> m, right |-> p]
    BY <2>1, <2>2
  <2>4. p \in BOOLEAN
    BY DEF CallMatches
  <2> HIDE DEF p, h, m
  <2>5. CASE p
    <3>1. p = TRUE
      BY <2>5
    <3>2. After(r, s) = Reached(h, used + 1, m)
      BY <2>3, <3>1, Zenon DEF Reached
    <3> QED BY <3>2, <2>5 DEF p, h, m
  <2>6. CASE ~p
    <3>1. ~After(r, s).right
      BY <2>3, <2>6
    <3> QED BY <3>1, <2>6 DEF p
  <2> QED BY <2>5, <2>6
<1> QED BY <1>2, <1>3, <1>4

\* One call more on the tape.
LEMMA TapedCall ==
  ASSUME NEW c, NEW n, ReplayTypes, AttemptInv, phase = "record", main.at = "waiting",
         RunOf(Taped)[Len(main.heard)] = Reached(main.heard, Len(recorder.calls), n),
         CallMatches(c, Item(row), Next1.kind, Next1.ask, n), ~Refused(Next1.kind, n)
  PROVE RunOf(ItemEntry(row, Append(recorder.calls, c), ""))[Len(Append(main.heard, Heard(c)))]
          = Reached(Append(main.heard, Heard(c)), Len(Append(recorder.calls, c)), Counted(Next1.kind, n))
<1> DEFINE r == Taped
           q == ItemEntry(row, Append(recorder.calls, c), "")
           k == Len(main.heard)
           used == Len(recorder.calls)
<1>1. /\ IsSeq(recorder.calls) /\ IsSeq(main.heard) /\ k \in Nat /\ used \in Nat
      /\ Len(Append(recorder.calls, c)) = used + 1 /\ Len(Append(main.heard, Heard(c))) = k + 1
      /\ (\A j \in 1..used : Append(recorder.calls, c)[j] = recorder.calls[j])
      /\ Append(recorder.calls, c)[used + 1] = c
  BY AppendIsSeq DEF ReplayTypes, IsRecorder, IsMain
<1>2. k < Patience /\ Next1.kind # "answer"
  BY DEF AttemptInv
<1>3. /\ r.pool = Plan[row].pool /\ r.item = Item(row) /\ r.calls = recorder.calls
      /\ Who(r) = Who(Plan[row])
  BY DEF Taped, ItemEntry, Who, Item
<1>4. /\ q.pool = Plan[row].pool /\ q.item = Item(row) /\ q.calls = Append(recorder.calls, c)
      /\ Who(q) = Who(Plan[row])
  BY DEF ItemEntry, Who, Item
<1> HIDE DEF r, q
<1>5. Len(r.calls) \in Nat /\ Len(q.calls) \in Nat /\ Len(r.calls) <= Len(q.calls)
      /\ \A j \in 1..Len(r.calls) : q.calls[j] = r.calls[j]
  BY <1>1, <1>3, <1>4
<1>6. k \in 0..Patience /\ k + 1 \in 1..Patience /\ (k + 1) - 1 = k
  BY <1>1, <1>2, ReplayAssumption
<1>7. RunOf(r)[k] = Reached(main.heard, used, n)
  BY DEF r
<1>8. RunOf(r)[k].right
  BY <1>7 DEF Reached
<1>9. RunOf(q)[k] = Reached(main.heard, used, n)
  <2>1. RunOf(q)[k] = RunOf(r)[k]
    BY <1>3, <1>4, <1>5, <1>6, <1>8, SameRun, SMTT(60)
  <2> QED BY <2>1, <1>7
<1>10. RunOf(q)[k + 1] = After(q, Reached(main.heard, used, n))
  BY <1>6, <1>9, RunExists
<1>11. After(q, Reached(main.heard, used, n))
         = Reached(Append(main.heard, Heard(c)), used + 1, Counted(Next1.kind, n))
  <2>1. Next1 = Does(Who(q), main.heard)
    BY <1>4 DEF Next1
  <2>2. q.calls[used + 1] = c /\ q.item = Item(row) /\ ~(used >= Len(q.calls))
    BY <1>1, <1>4
  <2> QED BY <2>1, <2>2, <1>2, AfterReached
<1> QED BY <1>1, <1>10, <1>11 DEF q

LEMMA TapedLimit ==
  ASSUME NEW n, ReplayTypes, AttemptInv, phase = "record", main.at = "waiting",
         RunOf(Taped)[Len(main.heard)] = Reached(main.heard, Len(recorder.calls), n),
         Refused(Next1.kind, n)
  PROVE RunOf(Taped)[Len(Append(main.heard, "limit"))]
          = Reached(Append(main.heard, "limit"), Len(recorder.calls), n)
<1> DEFINE r == Taped
           k == Len(main.heard)
<1>1. /\ IsSeq(main.heard) /\ k \in Nat /\ Len(Append(main.heard, "limit")) = k + 1
  BY AppendIsSeq DEF ReplayTypes, IsMain
<1>2. k < Patience /\ Next1.kind # "answer"
  BY DEF AttemptInv
<1>3. Who(r) = Who(Plan[row])
  BY DEF Taped, ItemEntry, Who, Item
<1> HIDE DEF r
<1>4. k + 1 \in 1..Patience /\ (k + 1) - 1 = k
  BY <1>1, <1>2, ReplayAssumption
<1>5. RunOf(r)[k + 1] = After(r, Reached(main.heard, Len(recorder.calls), n))
  BY <1>4, RunExists DEF r
<1>6. Next1 = Does(Who(r), main.heard)
  BY <1>3 DEF Next1
<1>7. After(r, Reached(main.heard, Len(recorder.calls), n))
        = Reached(Append(main.heard, "limit"), Len(recorder.calls), n)
  BY <1>6, <1>2, AfterReached
<1> QED BY <1>1, <1>5, <1>7 DEF r

\* A request of an attempt that was given up changes nothing of the tape.
LEMMA ForeignAnswered ==
  ASSUME NEW t \in threads, NEW heard, ~Own(t), Answered(t, heard),
         recorder' = recorder, row' = row, made' = made
  PROVE main' = main /\ Taped' = Taped /\ Open' = Open /\ Before' = Before
<1>1. main' = main /\ threads' = threads \ {t}
  BY DEF Answered
<1>2. \A u : Own(u)' <=> Own(u)
  BY DEF Own
<1>3. Open' = Open
  BY <1>1, <1>2 DEF Open
<1>4. Taped' = Taped
  BY DEF Taped, ItemEntry, Item
<1> QED BY <1>1, <1>3, <1>4 DEF Before

\* The call main.py waits for is recorded, and main.py hears its answer.
LEMMA OwnRecorded ==
  ASSUME NEW t \in threads, NEW call, Own(t), ReplayTypes, AttemptInv, TapedInv, phase = "record",
         main.at = "waiting", ~mixed, ~recorder.failed, Recorded(t, call), row' = row,
         CallMatches(call, Item(row), Next1.kind, Next1.ask, Before), ~Refused(Next1.kind, Before),
         made' = Counted(Next1.kind, Before)
  PROVE TapedInv'
<1> DEFINE h == Append(main.heard, Heard(call))
           cs == Append(recorder.calls, call)
<1>1. main' = [at |-> "working", heard |-> h] /\ threads' = threads \ {t}
  BY DEF Recorded, Answered
<1>2. recorder'.calls = cs /\ recorder'.n = recorder.n
  <2>1. recorder' = [recorder EXCEPT !.calls = Append(@, call)] /\ IsRecorder(recorder)
    BY DEF Recorded, ReplayTypes
  <2> QED BY <2>1, KeepsNumber DEF IsRecorder
<1>3. \A u \in threads' : ~Own(u)'
  BY <1>1, <1>2 DEF AttemptInv, Own
<1>4. Open' = {} /\ Before' = made'
  BY <1>3 DEF Open, Before
<1>5. Taped' = ItemEntry(row, cs, "")
  BY <1>2 DEF Taped, ItemEntry, Item
<1>6. RunOf(Taped)[Len(main.heard)] = Reached(main.heard, Len(recorder.calls), Before)
  BY DEF TapedInv
<1>7. RunOf(ItemEntry(row, cs, ""))[Len(h)] = Reached(h, Len(cs), Counted(Next1.kind, Before))
  BY <1>6, TapedCall
<1> HIDE DEF h, cs
<1>8. main'.heard = h
  BY <1>1
<1> QED BY <1>2, <1>4, <1>5, <1>7, <1>8 DEF TapedInv

LEMMA TapedStep == ReplayTypes /\ AttemptInv /\ TapedInv /\ [RowNext]_rowVars => TapedInv'
<1> SUFFICES ASSUME ReplayTypes, AttemptInv, TapedInv, [RowNext]_rowVars PROVE TapedInv'
  OBVIOUS
<1>0. IsMain(main) /\ IsRecorder(recorder) /\ made \in Nat /\ \A t \in threads : IsThread(t)
  BY DEF ReplayTypes
<1>1. CASE Generate
  <2>1. main'.at = "idle"
    BY <1>1 DEF Generate, Recording, AttemptInv
  <2> QED BY <2>1 DEF TapedInv
<1>2. CASE BeginItem
  <2>1. /\ phase = "record" /\ recorder' = [n |-> recorder.n + 1, calls |-> <<>>, failed |-> FALSE]
        /\ main'.heard = <<>> /\ threads' = threads /\ made' = 0 /\ row' = row
    BY <1>2 DEF BeginItem, Recording, NewRecorder
  <2>2. \A t \in threads : t.n <= recorder.n /\ t.n \in Nat
    BY <1>0, <2>1 DEF AttemptInv, IsThread
  <2>3. \A t \in threads' : ~Own(t)'
    BY <1>0, <2>1, <2>2 DEF Own, IsRecorder
  <2>4. Open' = {} /\ Before' = 0
    BY <2>1, <2>3 DEF Open, Before
  <2>5. Len(main'.heard) = 0 /\ Len(recorder'.calls) = 0
    BY <2>1, EmptyIsSeq
  <2>6. RunOf(Taped')[0] = Reached(main'.heard, 0, 0)
    BY <2>1, RunExists DEF Start, Reached
  <2> QED BY <2>4, <2>5, <2>6 DEF TapedInv
<1>3. CASE Ask
  <2> DEFINE u == [n |-> recorder.n, kind |-> Next1.kind, ask |-> Next1.ask, at |-> "in", fault |-> "none"]
  <2>1. /\ phase = "record" /\ main.at = "working" /\ threads' = threads \cup {u} /\ row' = row
        /\ recorder' = recorder /\ made' = made /\ mixed' = mixed
    BY <1>3 DEF Ask, Recording
  <2>2. main' = [at |-> "waiting", heard |-> main.heard]
    BY <1>3, <1>0, HearsIsMain DEF Ask
  <2>3. Taped' = Taped
    BY <2>1 DEF Taped, ItemEntry, Item
  <2>4. u.at = "in"
    OBVIOUS
  <2>5. Open = {} /\ Open' = {}
    <3> HIDE DEF u
    <3> QED BY <2>1, <2>4 DEF Open, Own, AttemptInv
  <2>6. Before' = Before
    BY <2>1, <2>5 DEF Before
  <2> QED BY <2>1, <2>2, <2>3, <2>5, <2>6 DEF TapedInv
<1>4. CASE MainDies
  <2>1. main'.at = "dead"
    BY <1>4, <1>0, HearsIsMain DEF MainDies
  <2> QED BY <2>1 DEF TapedInv
<1>5. CASE RowEnds
  <2>1. main'.at = "idle"
    BY <1>5 DEF RowEnds, Redo, Idle
  <2> QED BY <2>1 DEF TapedInv
<1>6. CASE Seal
  BY <1>6 DEF Seal, TapedInv
<1>7. ASSUME NEW t \in threads, Admit(t) PROVE TapedInv'
  <2>1. /\ phase = "record" /\ row' = row /\ t.kind = "slm" /\ t.at = "in"
        /\ mixed' = (mixed \/ (~Own(t) /\ main.at # "idle"))
    BY <1>7 DEF Admit, Recording, Mixes
  <2>2. CASE ~Own(t) \/ main.at # "waiting"
    <3>1. main' = main
      BY <1>7, <2>2 DEF Admit, Recorded, Answered
    <3>2. CASE main.at # "idle" /\ ~Own(t)
      BY <2>1, <3>2 DEF TapedInv
    <3>3. CASE main.at = "idle" \/ Own(t)
      <4>1. main.at # "waiting" /\ main.at # "working"
        BY <2>1, <2>2, <3>3 DEF AttemptInv
      <4> QED BY <3>1, <4>1 DEF TapedInv
    <3> QED BY <3>2, <3>3
  <2>3. CASE Own(t) /\ main.at = "waiting"
    <3> SUFFICES ASSUME ~mixed, ~recorder.failed PROVE TapedInv'
      <4>1. ASSUME mixed PROVE TapedInv'
        BY <2>1, <4>1 DEF TapedInv
      <4>2. ASSUME recorder.failed PROVE TapedInv'
        <5>1. recorder' = recorder \/ \E c : recorder' = [recorder EXCEPT !.calls = Append(@, c)]
          BY <1>7 DEF Admit, Recorded
        <5>2. recorder'.failed
          BY <1>0, <4>2, <5>1 DEF IsRecorder
        <5> QED BY <5>2 DEF TapedInv
      <4> QED BY <4>1, <4>2
    <3>1. /\ Next1.kind = "slm" /\ Next1.ask = t.ask /\ \A u \in threads : Own(u) => u = t
      BY <2>1, <2>3 DEF AttemptInv
    <3>2. Open = {} /\ Before = made
      BY <2>1, <3>1 DEF Open, Before
    <3>3. RunOf(Taped)[Len(main.heard)] = Reached(main.heard, Len(recorder.calls), made)
      BY <2>1, <2>3, <3>2 DEF TapedInv
    <3>4. FaultNow("slm") = Fault("slm", Item(row), made)
      BY <2>3 DEF FaultNow
    <3>5. CASE Refused("slm", made)
      <4> DEFINE h == Append(main.heard, "limit")
      <4>1. main' = [at |-> "working", heard |-> h] /\ threads' = threads \ {t}
            /\ made' = made /\ recorder' = recorder
        BY <1>7, <2>3, <3>5 DEF Admit, Answered
      <4>2. Taped' = Taped
        BY <2>1, <4>1 DEF Taped, ItemEntry, Item
      <4>3. Open' = {} /\ Before' = made
        BY <3>1, <4>1 DEF Open, Own, Before
      <4>4. RunOf(Taped)[Len(h)] = Reached(h, Len(recorder.calls), made)
        BY <2>1, <2>3, <3>1, <3>3, <3>5, TapedLimit
      <4> HIDE DEF h
      <4>5. main'.heard = h
        BY <4>1
      <4> QED BY <4>1, <4>2, <4>3, <4>4, <4>5 DEF TapedInv
    <3>6. CASE ~Refused("slm", made) /\ FaultNow("slm") = "status"
      <4> DEFINE c == Call("slm", t.ask, "status", "")
      <4>1. Recorded(t, c) /\ made' = Counted("slm", made)
        BY <1>7, <2>3, <3>6 DEF Admit
      <4>2. CallMatches(c, Item(row), "slm", t.ask, made)
        BY <3>4, <3>6 DEF CallMatches, Call
      <4> HIDE DEF c
      <4> QED BY <2>1, <2>3, <3>1, <3>2, <3>6, <4>1, <4>2, OwnRecorded
    <3>7. CASE ~Refused("slm", made) /\ FaultNow("slm") # "status"
      <4> DEFINE v == [t EXCEPT !.at = "open", !.fault = FaultNow("slm")]
      <4>1. /\ threads' = (threads \ {t}) \cup {v} /\ main' = main /\ recorder' = recorder
            /\ made' = Counted("slm", made)
        BY <1>7, <2>3, <3>7 DEF Admit
      <4>2. v = [n |-> t.n, kind |-> t.kind, ask |-> t.ask, at |-> "open", fault |-> FaultNow("slm")]
        BY <1>0, OpenIsThread
      <4>3. v.n = t.n /\ v.at = "open" /\ v.fault = FaultNow("slm")
        BY <4>2
      <4> HIDE DEF v
      <4>4. Open' = {v}
        BY <2>3, <3>1, <4>1, <4>3 DEF Open, Own
      <4>5. Before' = made
        BY <1>0, <4>1, <4>4 DEF Before, Counted
      <4>6. Taped' = Taped
        BY <2>1, <4>1 DEF Taped, ItemEntry, Item
      <4>7. \A u \in Open' : u.fault = Fault("slm", Item(row'), Before') /\ ~Refused("slm", Before')
        BY <2>1, <3>4, <3>7, <4>3, <4>4, <4>5
      <4>8. RunOf(Taped')[Len(main'.heard)] = Reached(main'.heard, Len(recorder'.calls), Before')
        BY <3>3, <4>1, <4>5, <4>6
      <4> QED BY <4>7, <4>8 DEF TapedInv
    <3> QED BY <3>5, <3>6, <3>7
  <2> QED BY <2>2, <2>3
<1>8. ASSUME NEW t \in threads, NEW c, Recorded(t, c), row' = row, phase = "record", phase' = phase,
             made' = made, mixed' = mixed,
             Own(t) /\ main.at = "waiting" /\ ~mixed /\ ~recorder.failed =>
                /\ CallMatches(c, Item(row), Next1.kind, Next1.ask, Before)
                /\ ~Refused(Next1.kind, Before) /\ made = Counted(Next1.kind, Before)
      PROVE TapedInv'
  <2>1. CASE ~Own(t)
    <3>1. recorder' = recorder /\ Answered(t, Heard(c))
      BY <1>8, <2>1 DEF Recorded
    <3>2. main' = main /\ Taped' = Taped /\ Open' = Open /\ Before' = Before
      BY <1>8, <2>1, <3>1, ForeignAnswered
    <3> QED BY <1>8, <3>1, <3>2 DEF TapedInv
  <2>2. CASE Own(t) /\ main.at # "waiting"
    <3>1. main' = main /\ main.at # "working"
      BY <1>8, <2>2 DEF Recorded, Answered, AttemptInv
    <3> QED BY <2>2, <3>1 DEF TapedInv
  <2>3. CASE Own(t) /\ main.at = "waiting"
    <3>1. CASE mixed
      BY <1>8, <3>1 DEF TapedInv
    <3>2. CASE recorder.failed
      <4>1. recorder' = [recorder EXCEPT !.calls = Append(@, c)]
        BY <1>8, <2>3 DEF Recorded
      <4>2. recorder'.failed
        BY <1>0, <3>2, <4>1 DEF IsRecorder
      <4> QED BY <4>2 DEF TapedInv
    <3>3. CASE ~mixed /\ ~recorder.failed
      <4>1. /\ CallMatches(c, Item(row), Next1.kind, Next1.ask, Before)
            /\ ~Refused(Next1.kind, Before) /\ made' = Counted(Next1.kind, Before)
        BY <1>8, <2>3, <3>3
      <4> QED BY <1>8, <2>3, <3>3, <4>1, OwnRecorded
    <3> QED BY <3>1, <3>2, <3>3
  <2> QED BY <2>1, <2>2, <2>3
<1>9. ASSUME NEW t \in threads, EngineAnswers(t) PROVE TapedInv'
  <2>1. PICK text \in Texts : Recorded(t, Call("slm", t.ask, t.fault, text))
    BY <1>9 DEF EngineAnswers
  <2> DEFINE c == Call("slm", t.ask, t.fault, text)
  <2>2. phase = "record" /\ phase' = phase /\ row' = row /\ made' = made /\ mixed' = mixed /\ t.at = "open"
    BY <1>9 DEF EngineAnswers, Recording
  <2>3. ASSUME Own(t), main.at = "waiting", ~mixed, ~recorder.failed
        PROVE /\ CallMatches(c, Item(row), Next1.kind, Next1.ask, Before)
              /\ ~Refused(Next1.kind, Before) /\ made = Counted(Next1.kind, Before)
    <3>1. t \in Open
      BY <2>2, <2>3 DEF Open
    <3>2. t.fault = Fault("slm", Item(row), Before) /\ ~Refused("slm", Before)
      BY <2>2, <2>3, <3>1 DEF TapedInv
    <3>3. t.kind = "slm" /\ Next1.kind = "slm" /\ Next1.ask = t.ask
      <4>1. t.kind = "slm"
        BY <1>0, <2>2 DEF IsThread
      <4> QED BY <4>1, <2>2, <2>3 DEF AttemptInv
    <3>4. made = Counted("slm", Before)
      BY <1>0, <3>1 DEF Before, Counted
    <3>5. CallMatches(c, Item(row), "slm", t.ask, Before)
      BY <3>2 DEF CallMatches, Call
    <3> QED BY <3>2, <3>3, <3>4, <3>5
  <2> HIDE DEF c
  <2>4. Recorded(t, c)
    BY <2>1 DEF c
  <2> QED BY <1>8, <2>2, <2>3, <2>4
<1>10. ASSUME NEW t \in threads, Serve(t) PROVE TapedInv'
  <2>1. PICK resp \in IF t.kind = "tool" THEN {ToolAnswer} ELSE {"frontier", "refused"} :
                Recorded(t, Call(t.kind, t.ask, FaultNow(t.kind), resp))
    BY <1>10 DEF Serve
  <2> DEFINE c == Call(t.kind, t.ask, FaultNow(t.kind), resp)
  <2>2. phase = "record" /\ phase' = phase /\ row' = row /\ made' = made /\ mixed' = mixed /\ t.kind # "slm"
    BY <1>10 DEF Serve, Recording
  <2>3. ASSUME Own(t), main.at = "waiting", ~mixed, ~recorder.failed
        PROVE /\ CallMatches(c, Item(row), Next1.kind, Next1.ask, Before)
              /\ ~Refused(Next1.kind, Before) /\ made = Counted(Next1.kind, Before)
    <3>1. Next1.kind = t.kind /\ Next1.ask = t.ask /\ \A u \in threads : Own(u) => u = t
      BY <2>2, <2>3 DEF AttemptInv
    <3>2. Open = {}
      BY <1>0, <2>2, <3>1 DEF Open, IsThread
    <3>3. Before = made /\ FaultNow(t.kind) = Fault(t.kind, Item(row), made)
      BY <2>3, <3>2 DEF Before, FaultNow
    <3>4. CallMatches(c, Item(row), t.kind, t.ask, made)
      <4>1. /\ c.kind = t.kind /\ c.ask = t.ask /\ c.fault = FaultNow(t.kind) /\ c.resp = resp
            /\ c.receipt = IF t.kind = "relay" /\ resp # "refused" THEN "own" ELSE "none"
        BY DEF Call
      <4> HIDE DEF c
      <4>2. t.kind = "tool" => resp = ToolAnswer
        OBVIOUS
      <4> QED BY <3>3, <4>1, <4>2 DEF CallMatches
    <3>5. ~Refused(t.kind, made) /\ made = Counted(t.kind, made)
      BY <2>2 DEF Refused, Counted
    <3> QED BY <3>1, <3>3, <3>4, <3>5
  <2> HIDE DEF c
  <2>4. Recorded(t, c)
    BY <2>1 DEF c
  <2> QED BY <1>8, <2>2, <2>3, <2>4
<1>11. ASSUME NEW t \in threads, ServiceFails(t) PROVE TapedInv'
  <2>1. /\ Answered(t, "error") /\ row' = row /\ made' = made /\ mixed' = mixed /\ phase' = phase
        /\ recorder' = IF Own(t) THEN [recorder EXCEPT !.failed = TRUE] ELSE recorder
    BY <1>11 DEF ServiceFails, Recording
  <2>2. CASE ~Own(t)
    <3>1. main' = main /\ Taped' = Taped /\ Open' = Open /\ Before' = Before
      BY <2>1, <2>2, ForeignAnswered
    <3> QED BY <2>1, <2>2, <3>1 DEF TapedInv
  <2>3. CASE Own(t)
    <3>1. recorder'.failed
      BY <1>0, <2>1, <2>3 DEF IsRecorder
    <3> QED BY <3>1 DEF TapedInv
  <2> QED BY <2>2, <2>3
<1>12. CASE Replay
  BY <1>12 DEF Replay, ReplayRow, ReplayCall, ReplayAnswer, ValidatorFails, ReplayEnds, Replaying,
         Failed, Done, TapedInv
<1>13. CASE UNCHANGED rowVars
  <2>1. Taped' = Taped /\ Open' = Open /\ Before' = Before
    BY <1>13 DEF rowVars, recording, Taped, ItemEntry, Item, Open, Own, Before
  <2> QED BY <1>13, <2>1 DEF rowVars, recording, TapedInv
<1> QED BY <1>1, <1>2, <1>3, <1>4, <1>5, <1>6, <1>7, <1>9, <1>10, <1>11, <1>12, <1>13
        DEF RowNext, Record, Stopped

-----------------------------------------------------------------------------
(* What is kept is faithful *)

\* A row of the engine's own, and a row that main.py ended, can be made again.
LEMMA DirectIsFaithful ==
  ASSUME NEW text, row \in DOMAIN Plan, Plan[row].pool = "slm"
  PROVE Faithful(ItemEntry(row, <<Call("slm", "direct", "none", text)>>, text))
<1> DEFINE c == Call("slm", "direct", "none", text)
           r == ItemEntry(row, <<c>>, text)
<1>1. c.kind = "slm" /\ c.ask = "direct" /\ c.fault = "none" /\ c.resp = text
  BY DEF Call
<1> HIDE DEF c
<1>2. /\ r.pool = "slm" /\ r.item = Item(row) /\ r.calls = <<c>> /\ r.output = text
      /\ r.seed = "own"
  BY DEF ItemEntry
<1>3. Item(row) \in DOMAIN FaultOf
  BY ReplayAssumption DEF Item
<1> HIDE DEF r
<1>4. Len(r.calls) = 1 /\ r.calls[1] = c
  BY <1>2
<1>5. Faithful(r)
  BY <1>1, <1>2, <1>3, <1>4 DEF Faithful, RowKnown, Direct
<1> QED BY <1>5 DEF r, c

LEMMA EndIsFaithful ==
  ASSUME ReplayTypes, AttemptInv, TapedInv, phase = "record", main.at = "working", ~mixed,
         Next1.kind = "answer", ~RowProblem
  PROVE Faithful(ItemEntry(row, recorder.calls, Next1.ask))
<1> DEFINE r == Taped
           e == ItemEntry(row, recorder.calls, Next1.ask)
           k == Len(main.heard)
<1>1. /\ k \in 0..Patience /\ Len(recorder.calls) \in Nat
  BY SeqFacts, ReplayAssumption DEF ReplayTypes, IsMain, IsRecorder, AttemptInv
<1>2. row \in DOMAIN Plan /\ Plan[row].pool # "slm" /\ Item(row) \in DOMAIN FaultOf
  <2>1. row \in Nat \ {0} /\ row <= Len(Plan) /\ Plan[row].pool # "slm"
    BY DEF ReplayTypes, AttemptInv
  <2>2. DOMAIN Plan = 1..Len(Plan) /\ Len(Plan) \in Nat
    BY ReplayAssumption, LenProperties
  <2>3. row \in DOMAIN Plan
    BY <2>1, <2>2
  <2> QED BY <2>1, <2>3, ReplayAssumption DEF Item
<1>3. /\ r.pool = e.pool /\ r.item = e.item /\ r.calls = recorder.calls /\ e.calls = recorder.calls
      /\ Who(r) = Who(Plan[row]) /\ Who(e) = Who(Plan[row])
  BY DEF Taped, ItemEntry, Who, Item
<1>4. /\ e.pool = Plan[row].pool /\ e.item = Item(row) /\ e.seed = "own" /\ e.request = "own"
      /\ e.output = Next1.ask
  BY DEF ItemEntry
<1>5. RunOf(r)[k] = Reached(main.heard, Len(recorder.calls), Before)
  BY DEF TapedInv, RowProblem
<1> HIDE DEF r, e
<1>6. Next1 = Does(Who(r), main.heard) /\ Next1 = Does(Who(e), main.heard)
  BY <1>3 DEF Next1
<1>7. /\ RunOf(r)[k].heard = main.heard /\ RunOf(r)[k].right
      /\ RunOf(r)[k].used = Len(recorder.calls)
  BY <1>5 DEF Reached
<1>8. RunOf(r)[Patience] = RunOf(r)[k]
  <2>1. Does(Who(r), RunOf(r)[k].heard).kind = "answer"
    BY <1>6, <1>7
  <2> QED BY <1>1, <1>3, <2>1, RunStays
<1>9. RunOf(e)[Patience] = RunOf(r)[Patience]
  <2>1. Patience \in 0..Patience /\ RunOf(r)[Patience].right
    BY <1>7, <1>8, ReplayAssumption
  <2>2. /\ Len(r.calls) \in Nat /\ Len(e.calls) \in Nat /\ Len(r.calls) <= Len(e.calls)
        /\ \A j \in 1..Len(r.calls) : e.calls[j] = r.calls[j]
    BY <1>1, <1>3
  <2> QED BY <1>3, <2>1, <2>2, SameRun
<1>10. /\ Follow(e).heard = main.heard /\ Follow(e).right /\ Follow(e).used = Len(e.calls)
  BY <1>3, <1>7, <1>8, <1>9 DEF Follow
<1>11. Faithful(e)
  BY <1>2, <1>4, <1>6, <1>10 DEF Faithful, RowKnown, RequestOwn
<1> QED BY <1>11 DEF e

LEMMA KeptAppend ==
  ASSUME NEW e, ReplayTypes, KeptInv, Faithful(e), transcript' = Append(transcript, e),
         edited' = edited, mixed' = mixed
  PROVE KeptInv'
<1>1. /\ Len(transcript) \in Nat /\ Len(transcript') = Len(transcript) + 1
      /\ (\A r \in 1..Len(transcript) : transcript'[r] = transcript[r])
      /\ transcript'[Len(transcript) + 1] = e
  BY TranscriptIsSeq, AppendIsSeq DEF ReplayTypes
<1>2. ASSUME ~edited, ~mixed, NEW r \in 1..Len(transcript') PROVE Faithful(transcript'[r])
  <2>1. CASE r = Len(transcript) + 1
    BY <1>1, <2>1
  <2>2. CASE r # Len(transcript) + 1
    <3>1. r \in 1..Len(transcript)
      BY <1>1, <2>2
    <3>2. Faithful(transcript[r])
      BY <1>2, <3>1 DEF KeptInv
    <3> QED BY <1>1, <3>1, <3>2
  <2> QED BY <2>1, <2>2
<1> QED BY <1>2 DEF KeptInv

LEMMA KeptStep == ReplayTypes /\ AttemptInv /\ TapedInv /\ KeptInv /\ [RowNext]_rowVars => KeptInv'
<1> SUFFICES ASSUME ReplayTypes, AttemptInv, TapedInv, KeptInv, [RowNext]_rowVars PROVE KeptInv'
  OBVIOUS
<1>1. ASSUME transcript' = transcript, edited' = edited, ~mixed' => ~mixed PROVE KeptInv'
  BY <1>1 DEF KeptInv
<1>2. CASE Generate
  <2>1. PICK text \in Texts : transcript' = Append(transcript, ItemEntry(row, <<Call("slm", "direct", "none", text)>>, text))
    BY <1>2 DEF Generate
  <2>2. row \in DOMAIN Plan
    <3>1. DOMAIN Plan = 1..Len(Plan) /\ Len(Plan) \in Nat
      BY ReplayAssumption, LenProperties
    <3> QED BY <1>2, <3>1 DEF Generate, ReplayTypes
  <2>3. Plan[row].pool = "slm" /\ edited' = edited /\ mixed' = mixed
    BY <1>2 DEF Generate, Recording
  <2> QED BY <2>1, <2>2, <2>3, DirectIsFaithful, KeptAppend
<1>3. CASE RowEnds
  <2>1. phase = "record" /\ edited' = edited /\ mixed' = mixed
    BY <1>3 DEF RowEnds, Recording
  <2>2. CASE transcript' = transcript
    BY <1>1, <2>1, <2>2
  <2>3. CASE transcript' # transcript
    <3>1. /\ main.at = "working" /\ Next1.kind = "answer" /\ ~RowProblem
          /\ transcript' = Append(transcript, ItemEntry(row, recorder.calls, Next1.ask))
      BY <1>3, <2>3 DEF RowEnds, Redo
    <3>2. CASE mixed
      BY <2>1, <3>2 DEF KeptInv
    <3>3. CASE ~mixed
      <4>1. Faithful(ItemEntry(row, recorder.calls, Next1.ask))
        BY <2>1, <3>1, <3>3, EndIsFaithful
      <4> QED BY <2>1, <3>1, <4>1, KeptAppend
    <3> QED BY <3>2, <3>3
  <2> QED BY <2>2, <2>3
<1>4. CASE Seal
  <2>1. mixed' = mixed /\ ((transcript' = transcript /\ edited' = edited) \/ edited')
    BY <1>4 DEF Seal
  <2> QED BY <2>1 DEF KeptInv
<1>5. CASE BeginItem \/ Ask \/ MainDies
  BY <1>1, <1>5 DEF BeginItem, Ask, MainDies, Recording
<1>6. ASSUME NEW t \in threads, Admit(t) \/ EngineAnswers(t) \/ Serve(t) \/ ServiceFails(t)
      PROVE KeptInv'
  <2>1. CASE Admit(t)
    <3>1. transcript' = transcript /\ edited' = edited /\ Mixes(t)
      BY <2>1 DEF Admit, Recording
    <3>2. ~mixed' => ~mixed
      BY <3>1 DEF Mixes
    <3> QED BY <1>1, <3>1, <3>2
  <2>2. CASE EngineAnswers(t) \/ Serve(t) \/ ServiceFails(t)
    <3>1. transcript' = transcript /\ edited' = edited /\ mixed' = mixed
      BY <2>2 DEF EngineAnswers, Serve, ServiceFails, Recording
    <3> QED BY <1>1, <3>1
  <2> QED BY <1>6, <2>1, <2>2
<1>7. CASE Replay
  BY <1>1, <1>7 DEF Replay, ReplayRow, ReplayCall, ReplayAnswer, ValidatorFails, ReplayEnds, Replaying
<1>8. CASE UNCHANGED rowVars
  BY <1>1, <1>8 DEF rowVars
<1> QED BY <1>2, <1>3, <1>4, <1>5, <1>6, <1>7, <1>8 DEF RowNext, Record, Stopped

-----------------------------------------------------------------------------
(* The replay *)

\* The row at hand is a row, and its calls are a sequence.
LEMMA NowFacts ==
  ASSUME ReplayTypes, InReplay
  PROVE /\ row \in 1..Len(transcript) /\ Len(transcript) \in Nat
        /\ IsSeq(Now.calls) /\ Len(Now.calls) \in Nat
<1>1. IsSeq(transcript) /\ Len(transcript) \in Nat /\ row \in Nat \ {0}
  BY TranscriptIsSeq, SeqFacts DEF ReplayTypes
<1>2. row \in 1..Len(transcript)
  BY <1>1 DEF InReplay
<1> QED BY <1>1, <1>2, TranscriptIsSeq DEF ReplayTypes, Now

\* A request ends with a row that is main.py's exactly if it is passed.
LEMMA AnswerDecides ==
  ASSUME ReplayTypes, TakenInv, phase = "replay", main.at = "working", Next2.kind = "answer"
  PROVE /\ Verdict /\ Next2.ask = Now.output <=> Faithful(Now)
        /\ Verdict /\ LongRow(Now) => TooLong(Now, tap.prompts)
<1> DEFINE r == Now
           k == Len(main.heard)
<1>1. /\ InReplay /\ RowKnown(r) /\ RequestOwn(r) /\ r.pool # "slm" /\ k <= Patience
  BY DEF TakenInv
<1>2. Len(r.calls) \in Nat /\ k \in 0..Patience
  BY <1>1, NowFacts, SeqFacts, ReplayAssumption DEF ReplayTypes, IsMain
<1>3. Next2 = Does(Who(r), main.heard)
  BY DEF Next2
<1>4. Faithful(r) <=> LET s == Follow(r)
                          next == Does(Who(r), s.heard)
                      IN  /\ s.right /\ s.used = Len(r.calls)
                          /\ next.kind = "answer" /\ next.ask = r.output
  BY <1>1 DEF Faithful
<1>5. CASE replay.mismatch
  <2>1. ~Follow(r).right /\ ~Verdict
    BY <1>5 DEF TakenInv, Verdict
  <2> QED BY <1>4, <2>1
<1>6. CASE ~replay.mismatch
  <2>1. /\ RunOf(r)[k] = Reached(main.heard, replay.position, made)
        /\ \A j \in SlmCalls(r) : j <= replay.position => [seq |-> j - 1, ask |-> r.calls[j].ask] \in tap.prompts
    BY <1>6 DEF TakenInv
  <2> HIDE DEF r, k
  <2>2. RunOf(r)[k].heard = main.heard /\ RunOf(r)[k].right /\ RunOf(r)[k].used = replay.position
    BY <2>1 DEF Reached
  <2>3. Follow(r) = RunOf(r)[k]
    <3>1. Does(Who(r), RunOf(r)[k].heard).kind = "answer"
      BY <1>3, <2>2
    <3> QED BY <1>2, <3>1, RunStays DEF Follow
  <2>4. Verdict <=> replay.position = Len(r.calls)
    BY <1>6 DEF Verdict, r
  <2>5. Faithful(r) <=> replay.position = Len(r.calls) /\ Next2.ask = r.output
    BY <1>3, <1>4, <2>2, <2>3
  <2>6. ASSUME Verdict, LongRow(r) PROVE TooLong(r, tap.prompts)
    <3>1. PICK j \in SlmCalls(r) : Tokens[r.calls[j].ask] > MaxInput
      BY <2>6 DEF LongRow
    <3>2. j \in 1..Len(r.calls) /\ j <= replay.position
      BY <1>2, <2>4, <2>6, <3>1 DEF SlmCalls
    <3> DEFINE p == [seq |-> j - 1, ask |-> r.calls[j].ask]
    <3>3. p \in tap.prompts
      BY <2>1, <3>1, <3>2
    <3>4. p.seq = j - 1 /\ Tokens[p.ask] > MaxInput
      BY <3>1
    <3> HIDE DEF p
    <3> QED BY <3>1, <3>3, <3>4 DEF TooLong
  <2> QED BY <2>4, <2>5, <2>6 DEF r
<1> QED BY <1>5, <1>6

\* A direct row is counted by the item's own prompt.
LEMMA DirectIsCounted ==
  ASSUME NEW r, Direct(r)
  PROVE LongRow(r) => TooLong(r, {[seq |-> 0, ask |-> "direct"]})
<1> SUFFICES ASSUME LongRow(r) PROVE TooLong(r, {[seq |-> 0, ask |-> "direct"]})
  OBVIOUS
<1>1. PICK j \in SlmCalls(r) : Tokens[r.calls[j].ask] > MaxInput
  BY DEF LongRow
<1>2. j = 1 /\ r.calls[j].ask = "direct"
  BY <1>1 DEF SlmCalls, Direct
<1> DEFINE p == [seq |-> 0, ask |-> "direct"]
<1>3. p.seq = j - 1 /\ Tokens[p.ask] > MaxInput
  BY <1>1, <1>2
<1> HIDE DEF p
<1>4. TooLong(r, {p})
  BY <1>1, <1>3 DEF TooLong
<1> QED BY <1>4 DEF p

LEMMA ReceiptsAdd ==
  ASSUME NEW t, NEW rows, NEW n
  PROVE /\ ReceiptsOf(t, {}) = {}
        /\ ReceiptsOf(t, rows \cup {n}) = ReceiptsOf(t, rows) \cup {<<n, k>> : k \in RelayCalls(t[n])}
<1> DEFINE own(r) == {<<r, k>> : k \in RelayCalls(t[r])}
           All(S) == {own(r) : r \in S}
<1>1. ReceiptsOf(t, {}) = {}
  BY DEF ReceiptsOf
<1>2. ASSUME NEW S PROVE ReceiptsOf(t, S) = UNION All(S)
  BY Zenon DEF ReceiptsOf
<1> HIDE DEF own
<1>3. All(rows \cup {n}) = All(rows) \cup {own(n)}
  BY Zenon
<1> HIDE DEF All
<1>4. ASSUME NEW A, NEW B PROVE UNION (A \cup {B}) = (UNION A) \cup B
  OBVIOUS
<1>5. UNION All(rows \cup {n}) = (UNION All(rows)) \cup own(n)
  BY <1>3, <1>4, Zenon
<1>6. ReceiptsOf(t, rows \cup {n}) = UNION All(rows \cup {n}) /\ ReceiptsOf(t, rows) = UNION All(rows)
  BY <1>2
<1>7. ReceiptsOf(t, rows \cup {n}) = ReceiptsOf(t, rows) \cup own(n)
  BY <1>5, <1>6, Zenon
<1> QED BY <1>1, <1>7 DEF own

\* A row that is passed is faithful, counted, and its receipts are kept.
LEMMA PassRow ==
  ASSUME NEW prompts, ReplayTypes, PassedInv, phase = "replay", InReplay, Faithful(Now),
         LongRow(Now) => TooLong(Now, prompts), result' = Budget(Now, prompts), row' = row + 1,
         transcript' = transcript, phase' = phase
  PROVE PassedInv'
<1>1. row \in 1..Len(transcript) /\ Len(transcript) \in Nat
  BY NowFacts
<1>2. /\ result'.ok = result.ok /\ result'.trouble = result.trouble
      /\ result'.failed = IF TooLong(Now, prompts) THEN result.failed \cup {row} ELSE result.failed
      /\ result'.relay = result.relay \cup {<<row, k>> : k \in RelayCalls(Now)}
  BY DEF Budget, ReplayTypes, Results
<1>3. result'.ok /\ ~result'.trouble
  BY <1>2 DEF PassedInv
<1>4. row' <= Len(transcript') + 1
  BY <1>1
<1>5. ASSUME NEW r \in 1..(row' - 1)
      PROVE Faithful(transcript'[r]) /\ (LongRow(transcript'[r]) => r \in result'.failed)
  <2>1. CASE r = row
    BY <1>2, <2>1 DEF Now
  <2>2. CASE r # row
    <3>1. r \in 1..(row - 1)
      BY <1>1, <2>2
    <3> QED BY <1>2, <3>1 DEF PassedInv
  <2> QED BY <2>1, <2>2
<1>6. result'.relay = ReceiptsOf(transcript', 1..(row' - 1))
  <2>1. result.relay = ReceiptsOf(transcript, 1..(row - 1))
    BY DEF PassedInv
  <2>2. 1..(row' - 1) = (1..(row - 1)) \cup {row}
    BY <1>1
  <2>3. result'.relay = result.relay \cup {<<row, k>> : k \in RelayCalls(transcript[row])}
    BY <1>2 DEF Now
  <2>4. ReceiptsOf(transcript, (1..(row - 1)) \cup {row})
           = ReceiptsOf(transcript, 1..(row - 1)) \cup {<<row, k>> : k \in RelayCalls(transcript[row])}
    BY ReceiptsAdd, ZenonT(60)
  <2>5. ReceiptsOf(transcript', 1..(row' - 1)) = ReceiptsOf(transcript, (1..(row - 1)) \cup {row})
    BY <2>2
  <2> QED BY <2>1, <2>3, <2>4, <2>5, Zenon
<1> QED BY <1>3, <1>4, <1>5, <1>6 DEF PassedInv

LEMMA PassedStep ==
  ReplayTypes /\ PassedInv /\ TakenInv /\ [RowNext]_rowVars => PassedInv'
<1> SUFFICES ASSUME ReplayTypes, PassedInv, TakenInv, [RowNext]_rowVars PROVE PassedInv'
  OBVIOUS
<1>1. ASSUME phase' = phase, result' = result, transcript' = transcript, phase = "replay" => row' = row
      PROVE PassedInv'
  BY <1>1 DEF PassedInv
<1>2. ASSUME phase' = "done" PROVE PassedInv'
  BY <1>2 DEF PassedInv
<1>3. ASSUME phase = "record", phase' = "record", result' = result PROVE PassedInv'
  BY <1>3 DEF PassedInv
<1>4. CASE Generate \/ BeginItem \/ Ask \/ MainDies \/ RowEnds
  BY <1>3, <1>4 DEF Generate, BeginItem, Ask, MainDies, RowEnds, Recording, replaying
<1>5. ASSUME NEW t \in threads, Admit(t) \/ EngineAnswers(t) \/ Serve(t) \/ ServiceFails(t)
      PROVE PassedInv'
  BY <1>3, <1>5 DEF Admit, EngineAnswers, Serve, ServiceFails, Recording, replaying
<1>6. CASE Seal
  <2>1. phase = "record" /\ phase' = "replay" /\ row' = 1 /\ result' = result
    BY <1>6 DEF Seal, replaying
  <2>2. Len(transcript') \in Nat
    <3>1. IsTranscript(transcript')
      BY <1>6 DEF Seal, ReplayTypes
    <3> QED BY <3>1, TranscriptIsSeq, SeqFacts
  <2>3. 1..(row' - 1) = {}
    BY <2>1
  <2>4. result'.relay = {} /\ ReceiptsOf(transcript', 1..(row' - 1)) = {}
    BY <2>1, <2>3, ReceiptsAdd DEF PassedInv
  <2> QED BY <2>1, <2>2, <2>3, <2>4 DEF PassedInv
<1>7. CASE ReplayRow
  <2>1. phase = "replay" /\ InReplay /\ transcript' = transcript
    BY <1>7 DEF ReplayRow, Replaying
  <2>2. CASE phase' = "done"
    BY <1>2, <2>2
  <2>3. CASE phase' # "done" /\ RowKnown(Now) /\ Now.pool = "slm" /\ Direct(Now)
    <3>1. result' = Budget(Now, {[seq |-> 0, ask |-> "direct"]}) /\ row' = row + 1 /\ phase' = phase
      BY <1>7, <2>3 DEF ReplayRow
    <3>2. Faithful(Now)
      BY <2>3 DEF Faithful
    <3>3. LongRow(Now) => TooLong(Now, {[seq |-> 0, ask |-> "direct"]})
      BY <2>3, DirectIsCounted
    <3> QED BY <2>1, <3>1, <3>2, <3>3, PassRow
  <2>4. CASE phase' # "done" /\ ~(RowKnown(Now) /\ Now.pool = "slm" /\ Direct(Now))
    <3>1. phase' = phase /\ result' = result /\ row' = row
      BY <1>7, <2>4 DEF ReplayRow, Failed, Done
    <3> QED BY <1>1, <2>1, <3>1
  <2> QED BY <2>2, <2>3, <2>4
<1>8. CASE ReplayCall
  BY <1>1, <1>8 DEF ReplayCall, Replaying
<1>9. CASE ReplayAnswer
  <2>1. /\ phase = "replay" /\ InReplay /\ transcript' = transcript /\ main.at = "working"
        /\ Next2.kind = "answer"
    BY <1>9 DEF ReplayAnswer, Replaying
  <2>2. CASE ~(Verdict /\ Next2.ask = Now.output)
    BY <1>2, <1>9, <2>2 DEF ReplayAnswer, Failed, Done
  <2>3. CASE Verdict /\ Next2.ask = Now.output
    <3>1. result' = Budget(Now, tap.prompts) /\ row' = row + 1 /\ phase' = phase
      BY <1>9, <2>3 DEF ReplayAnswer
    <3>2. Faithful(Now) /\ (LongRow(Now) => TooLong(Now, tap.prompts))
      BY <2>1, <2>3, AnswerDecides
    <3> QED BY <2>1, <3>1, <3>2, PassRow
  <2> QED BY <2>2, <2>3
<1>10. CASE ValidatorFails \/ ReplayEnds
  BY <1>2, <1>10 DEF ValidatorFails, ReplayEnds, Done
<1>11. CASE UNCHANGED rowVars
  BY <1>1, <1>11 DEF rowVars, replaying
<1> QED BY <1>4, <1>5, <1>6, <1>7, <1>8, <1>9, <1>10, <1>11 DEF RowNext, Record, Replay, Stopped

\* main.py gets one answer of the row.
LEMMA TakenCall == ReplayTypes /\ TakenInv /\ ReplayCall => TakenInv'
<1> SUFFICES ASSUME ReplayTypes, TakenInv, ReplayCall PROVE TakenInv'
  OBVIOUS
<1> DEFINE r == Now
           k == Len(main.heard)
           next == Next2
           pos == replay.position
           match == /\ ~replay.mismatch /\ pos < Len(r.calls)
                    /\ CallMatches(r.calls[pos + 1], r.item, next.kind, next.ask, made)
<1>1. /\ phase = "replay" /\ InReplay /\ main.at = "working" /\ next.kind # "answer"
      /\ phase' = phase /\ row' = row /\ transcript' = transcript
  BY DEF ReplayCall, Replaying
<1>2. /\ RowKnown(r) /\ RequestOwn(r) /\ r.pool # "slm" /\ k <= Patience
  BY <1>1 DEF TakenInv
<1>3. /\ Now' = Now /\ InReplay'
  BY <1>1 DEF Now, InReplay
<1>4. /\ IsMain(main) /\ k \in Nat /\ pos \in Nat /\ made \in Nat /\ Len(r.calls) \in Nat /\ tap.n \in Nat
  BY <1>1, NowFacts, SeqFacts DEF ReplayTypes, IsMain, IsReplay, IsTap
<1>5. next = Does(Who(r), main.heard)
  BY DEF Next2
<1>6. k < Patience
  BY <1>1, <1>4, <1>5, ReplayAssumption DEF Does
<1>7. k + 1 \in 1..Patience /\ (k + 1) - 1 = k /\ k + 1 \in 0..Patience
  BY <1>4, <1>6, ReplayAssumption
<1> DEFINE limited == Refused(next.kind, made)
           hears == IF limited THEN "limit" ELSE IF match THEN Heard(r.calls[pos + 1]) ELSE "mismatch"
           h == Append(main.heard, hears)
<1>8. main' = [main EXCEPT !.heard = Append(@, hears)]
  BY DEF ReplayCall
<1>9. main'.at = "working" /\ main'.heard = h /\ Len(h) = k + 1
  <2>1. main' = [at |-> main.at, heard |-> h]
    <3> HIDE DEF hears
    <3> QED BY <1>4, <1>8, HearsIsMain
  <2>2. Len(h) = k + 1
    BY <1>4, AppendIsSeq DEF IsMain
  <2> HIDE DEF h
  <2> QED BY <1>1, <2>1, <2>2
<1>10. limited => made' = made /\ replay' = replay
  BY DEF ReplayCall
<1>11. ~limited => /\ made' = Counted(next.kind, made)
                   /\ replay'.position = (IF match THEN pos + 1 ELSE pos)
                   /\ (replay'.mismatch <=> replay.mismatch \/ ~match)
  <2> SUFFICES ASSUME ~limited
               PROVE /\ made' = Counted(next.kind, made)
                     /\ replay'.position = (IF match THEN pos + 1 ELSE pos)
                     /\ (replay'.mismatch <=> replay.mismatch \/ ~match)
    OBVIOUS
  <2>1. made' = Counted(next.kind, made) /\ replay' = Taken(match)
    BY DEF ReplayCall
  <2>2. match \in BOOLEAN
    OBVIOUS
  <2> HIDE DEF match
  <2> QED BY <2>1, <2>2 DEF Taken
<1>12. /\ tap'.n = tap.n + 1 /\ tap.prompts \subseteq tap'.prompts
       /\ next.kind = "slm" => [seq |-> tap.n, ask |-> next.ask] \in tap'.prompts
  <2>1. tap' = Tapped(next.kind, next.ask)
    BY DEF ReplayCall
  <2> DEFINE p == [seq |-> tap.n, ask |-> next.ask]
  <2> HIDE DEF p
  <2>2. tap' = [n |-> tap.n + 1, prompts |-> IF next.kind = "slm" THEN tap.prompts \cup {p} ELSE tap.prompts]
    BY <2>1 DEF Tapped, p
  <2>3. tap'.prompts = IF next.kind = "slm" THEN tap.prompts \cup {p} ELSE tap.prompts
    BY <2>2
  <2> QED BY <2>2, <2>3 DEF p
<1> HIDE DEF r, k, next, pos, h, hears
<1>13. CASE replay.mismatch
  <2>1. replay'.mismatch
    BY <1>10, <1>11, <1>13
  <2>2. ~Follow(r).right
    BY <1>1, <1>13 DEF TakenInv, r
  <2> QED BY <1>1, <1>2, <1>3, <1>7, <1>9, <2>1, <2>2 DEF TakenInv, r
<1>14. CASE ~replay.mismatch
  <2>1. /\ RunOf(r)[k] = Reached(main.heard, pos, made)
        /\ MaxModelCalls = 0 \/ made < MaxModelCalls => tap.n = pos
        /\ \A j \in SlmCalls(r) : j <= pos => [seq |-> j - 1, ask |-> r.calls[j].ask] \in tap.prompts
    BY <1>1, <1>14 DEF TakenInv, r, k, pos
  <2>2. RunOf(r)[k + 1] = After(r, Reached(main.heard, pos, made))
    BY <1>7, <2>1, RunExists
  <2>3. CASE limited
    <3>1. h = Append(main.heard, "limit")
      BY <2>3 DEF h, hears
    <3>2. RunOf(r)[k + 1] = Reached(h, pos, made)
      BY <1>1, <1>5, <2>2, <2>3, <3>1, AfterReached
    <3>3. MaxModelCalls > 0 /\ made >= MaxModelCalls
      BY <2>3 DEF Refused
    <3>4. replay' = replay /\ made' = made
      BY <1>10, <2>3
    <3>5. ~(MaxModelCalls = 0 \/ made' < MaxModelCalls)
      BY <1>4, <3>3, <3>4, ReplayAssumption
    <3>6. \A j \in SlmCalls(r) : j <= replay'.position => [seq |-> j - 1, ask |-> r.calls[j].ask] \in tap'.prompts
      BY <1>12, <2>1, <3>4 DEF pos
    <3>7. RunOf(r)[Len(main'.heard)] = Reached(main'.heard, replay'.position, made')
      BY <1>9, <3>2, <3>4 DEF pos
    <3> QED BY <1>1, <1>2, <1>3, <1>7, <1>9, <1>14, <3>4, <3>5, <3>6, <3>7 DEF TakenInv, r
  <2>4. CASE ~limited /\ ~match
    <3>1. replay'.mismatch
      BY <1>11, <2>4
    <3>2. ~RunOf(r)[k + 1].right
      <4>1. CASE pos >= Len(r.calls)
        <5>1. ~After(r, Reached(main.heard, pos, made)).right
          BY <1>1, <1>5, <2>4, <4>1, AfterReached
        <5> QED BY <2>2, <5>1
      <4>2. CASE ~(pos >= Len(r.calls))
        <5>1. ~CallMatches(r.calls[pos + 1], r.item, next.kind, next.ask, made)
          BY <1>4, <1>14, <2>4, <4>2
        <5>2. ~After(r, Reached(main.heard, pos, made)).right
          BY <1>1, <1>5, <2>4, <4>2, <5>1, AfterReached
        <5> QED BY <2>2, <5>2
      <4> QED BY <4>1, <4>2
    <3>3. ~Follow(r).right
      BY <1>4, <1>7, <3>2, RunStays DEF Follow
    <3> QED BY <1>1, <1>2, <1>3, <1>7, <1>9, <3>1, <3>3 DEF TakenInv, r
  <2>5. CASE ~limited /\ match
    <3> DEFINE call == r.calls[pos + 1]
    <3>1. ~(pos >= Len(r.calls)) /\ CallMatches(call, r.item, next.kind, next.ask, made)
      BY <1>4, <2>5
    <3>2. h = Append(main.heard, Heard(call))
      BY <2>5 DEF h, hears
    <3>3. RunOf(r)[k + 1] = Reached(h, pos + 1, made')
      <4>1. made' = Counted(next.kind, made)
        BY <1>11, <2>5
      <4>2. After(r, Reached(main.heard, pos, made)) = Reached(h, pos + 1, made')
        BY <1>1, <1>5, <2>5, <3>1, <3>2, <4>1, AfterReached
      <4> QED BY <2>2, <4>2
    <3>4. ~replay'.mismatch /\ replay'.position = pos + 1 /\ made' = Counted(next.kind, made)
      BY <1>11, <1>14, <2>5
    <3>5. ASSUME MaxModelCalls = 0 \/ made' < MaxModelCalls PROVE tap'.n = replay'.position
      <4>1. MaxModelCalls = 0 \/ made < MaxModelCalls
        BY <1>4, <3>4, <3>5, ReplayAssumption DEF Counted
      <4> QED BY <1>12, <2>1, <3>4, <4>1
    <3>6. ASSUME NEW j \in SlmCalls(r), j <= replay'.position
          PROVE [seq |-> j - 1, ask |-> r.calls[j].ask] \in tap'.prompts
      <4>1. j \in Nat
        BY DEF SlmCalls
      <4>2. CASE j <= pos
        BY <1>12, <2>1, <4>2
      <4>3. CASE ~(j <= pos)
        <5>1. j = pos + 1
          BY <1>4, <3>4, <3>6, <4>1, <4>3
        <5>2. next.kind = "slm" /\ r.calls[j].ask = next.ask
          BY <3>1, <5>1 DEF CallMatches, SlmCalls
        <5>3. tap.n = pos
          <6>1. MaxModelCalls = 0 \/ made < MaxModelCalls
            BY <1>4, <2>5, <5>2, ReplayAssumption DEF Refused
          <6> QED BY <2>1, <6>1
        <5>4. j - 1 = tap.n
          BY <1>4, <5>1, <5>3
        <5> QED BY <1>12, <5>2, <5>4
      <4> QED BY <4>2, <4>3
    <3>7. RunOf(r)[Len(main'.heard)] = Reached(main'.heard, replay'.position, made')
      BY <1>9, <3>3, <3>4
    <3> QED BY <1>1, <1>2, <1>3, <1>7, <1>9, <3>4, <3>5, <3>6, <3>7 DEF TakenInv, r
  <2> QED BY <2>3, <2>4, <2>5
<1> QED BY <1>13, <1>14

LEMMA TakenStep == ReplayTypes /\ TakenInv /\ [RowNext]_rowVars => TakenInv'
<1> SUFFICES ASSUME ReplayTypes, TakenInv, [RowNext]_rowVars PROVE TakenInv'
  OBVIOUS
<1>1. ASSUME phase' # "replay" \/ main'.at = "idle" PROVE TakenInv'
  BY <1>1 DEF TakenInv
<1>2. CASE Generate \/ BeginItem \/ Ask \/ MainDies \/ RowEnds
  BY <1>1, <1>2 DEF Generate, BeginItem, Ask, MainDies, RowEnds, Recording
<1>3. ASSUME NEW t \in threads, Admit(t) \/ EngineAnswers(t) \/ Serve(t) \/ ServiceFails(t)
      PROVE TakenInv'
  BY <1>1, <1>3 DEF Admit, EngineAnswers, Serve, ServiceFails, Recording
<1>4. CASE Seal
  BY <1>1, <1>4 DEF Seal, Idle
<1>5. CASE ReplayRow
  <2>1. CASE phase' = "done" \/ main'.at = "idle"
    BY <1>1, <2>1
  <2>2. CASE phase' # "done" /\ main'.at # "idle"
    <3>1. /\ RowKnown(Now) /\ Now.pool # "slm" /\ RequestOwn(Now) /\ InReplay
          /\ main' = [at |-> "working", heard |-> <<>>] /\ made' = 0
          /\ replay' = [position |-> 0, mismatch |-> FALSE] /\ tap' = [n |-> 0, prompts |-> {}]
          /\ row' = row /\ transcript' = transcript
      BY <1>5, <2>2 DEF ReplayRow, Replaying, Failed, Done
    <3>2. Now' = Now /\ InReplay'
      BY <3>1 DEF Now, InReplay
    <3>3. main'.at = "working" /\ main'.heard = <<>> /\ Len(main'.heard) = 0
      BY <3>1, EmptyIsSeq
    <3>4. replay'.position = 0 /\ ~replay'.mismatch /\ tap'.n = 0
      BY <3>1
    <3>5. RunOf(Now)[0] = Reached(<<>>, 0, 0)
      BY RunExists DEF Start, Reached
    <3>6. \A j \in SlmCalls(Now) : ~(j <= 0)
      BY DEF SlmCalls
    <3> QED BY <3>1, <3>2, <3>3, <3>4, <3>5, <3>6, ReplayAssumption DEF TakenInv
  <2> QED BY <2>1, <2>2
<1>6. CASE ReplayCall
  BY <1>6, TakenCall
<1>7. CASE ReplayAnswer
  BY <1>1, <1>7 DEF ReplayAnswer, Failed, Done, Idle
<1>8. CASE ValidatorFails \/ ReplayEnds
  BY <1>1, <1>8 DEF ValidatorFails, ReplayEnds, Done
<1>9. CASE UNCHANGED rowVars
  BY <1>9 DEF rowVars, replaying, TakenInv, InReplay, Now
<1> QED BY <1>2, <1>3, <1>4, <1>5, <1>6, <1>7, <1>8, <1>9 DEF RowNext, Record, Replay, Stopped

LEMMA VerdictStep ==
  ReplayTypes /\ PassedInv /\ TakenInv /\ VerdictInv /\ [RowNext]_rowVars => VerdictInv'
<1> SUFFICES ASSUME ReplayTypes, PassedInv, TakenInv, VerdictInv, [RowNext]_rowVars PROVE VerdictInv'
  OBVIOUS
<1>1. CASE Record
  BY <1>1 DEF Record, Generate, BeginItem, Ask, MainDies, RowEnds, Seal, Admit, EngineAnswers, Serve,
         ServiceFails, Recording, VerdictInv
<1>2. ASSUME phase = "replay", InReplay, ~Faithful(Now), transcript' = transcript, Failed PROVE VerdictInv'
  <2>1. ~result'.ok
    BY <1>2 DEF Failed, Done, ReplayTypes, Results
  <2>2. row \in 1..Len(transcript) /\ ~Faithful(transcript'[row])
    BY <1>2, NowFacts DEF Now
  <2> QED BY <1>2, <2>1, <2>2 DEF VerdictInv
<1>3. CASE ReplayRow
  <2>1. phase = "replay" /\ InReplay /\ transcript' = transcript
    BY <1>3 DEF ReplayRow, Replaying
  <2>2. CASE phase' # "done"
    BY <2>2 DEF VerdictInv
  <2>3. CASE phase' = "done"
    <3>1. Failed /\ (~RowKnown(Now) \/ IF Now.pool = "slm" THEN ~Direct(Now) ELSE ~RequestOwn(Now))
      BY <1>3, <2>1, <2>3 DEF ReplayRow
    <3>2. ~Faithful(Now)
      BY <3>1 DEF Faithful
    <3> QED BY <1>2, <2>1, <3>1, <3>2
  <2> QED BY <2>2, <2>3
<1>4. CASE ReplayCall
  BY <1>4 DEF ReplayCall, Replaying, VerdictInv
<1>5. CASE ReplayAnswer
  <2>1. /\ phase = "replay" /\ InReplay /\ transcript' = transcript /\ main.at = "working"
        /\ Next2.kind = "answer"
    BY <1>5 DEF ReplayAnswer, Replaying
  <2>2. CASE Verdict /\ Next2.ask = Now.output
    BY <1>5, <2>1, <2>2 DEF ReplayAnswer, VerdictInv
  <2>3. CASE ~(Verdict /\ Next2.ask = Now.output)
    <3>1. Failed
      BY <1>5, <2>3 DEF ReplayAnswer
    <3>2. ~Faithful(Now)
      BY <2>1, <2>3, AnswerDecides
    <3> QED BY <1>2, <2>1, <3>1, <3>2
  <2> QED BY <2>2, <2>3
<1>6. CASE ValidatorFails
  <2>1. ~result'.ok /\ result'.trouble
    BY <1>6 DEF ValidatorFails, Done, ReplayTypes, Results
  <2> QED BY <2>1 DEF VerdictInv
<1>7. CASE ReplayEnds
  <2> DEFINE ok == Cardinality(result.relay) <= Allowance
  <2>1. /\ phase = "replay" /\ ~InReplay /\ transcript' = transcript
        /\ result' = [result EXCEPT !.ok = ok]
    BY <1>7 DEF ReplayEnds, Replaying, Done
  <2>2. ok \in BOOLEAN
    OBVIOUS
  <2>3. row - 1 = Len(transcript)
    <3>1. Len(transcript) \in Nat /\ row \in Nat
      BY TranscriptIsSeq, SeqFacts DEF ReplayTypes
    <3> QED BY <2>1, <3>1 DEF InReplay, PassedInv
  <2>4. result.relay = Receipts(transcript)
    <3>1. DOMAIN transcript = 1..(row - 1)
      BY <2>3, TranscriptIsSeq, SeqFacts DEF ReplayTypes
    <3> QED BY <2>1, <3>1 DEF PassedInv, ReceiptsOf, Receipts
  <2>5. \A r \in 1..Len(transcript) :
           Faithful(transcript[r]) /\ (LongRow(transcript[r]) => r \in result.failed)
    BY <2>1, <2>3 DEF PassedInv
  <2>6. ok <=> Cardinality(Receipts(transcript)) <= Allowance
    BY <2>4
  <2> HIDE DEF ok
  <2>7. (result'.ok <=> ok) /\ result'.failed = result.failed
    BY <2>1, <2>2 DEF ReplayTypes, Results
  <2> QED BY <2>1, <2>5, <2>6, <2>7 DEF VerdictInv
<1>8. CASE UNCHANGED rowVars
  BY <1>8 DEF rowVars, replaying, VerdictInv
<1> QED BY <1>1, <1>3, <1>4, <1>5, <1>6, <1>7, <1>8 DEF RowNext, Replay, Stopped

-----------------------------------------------------------------------------
LEMMA ReplayInvInit == RowInit => ReplayInv
<1> SUFFICES ASSUME RowInit PROVE ReplayInv
  OBVIOUS
<1>1. ReplayTypes
  BY TypeInit
<1>2. phase = "record" /\ row = 1 /\ main.at = "idle" /\ threads = {} /\ Len(transcript) = 0
  BY EmptyIsSeq DEF RowInit, Idle
<1>3. result.ok /\ ~result.trouble /\ result.relay = {}
  BY DEF RowInit
<1>4. Len(Plan) \in Nat
  BY ReplayAssumption, LenProperties
<1> QED BY <1>1, <1>2, <1>3, <1>4 DEF ReplayInv, AttemptInv, TapedInv, KeptInv, PassedInv, TakenInv,
                                      VerdictInv

LEMMA ReplayInvStep == ReplayInv /\ [RowNext]_rowVars => ReplayInv'
BY TypeStep, AttemptStep, TapedStep, KeptStep, PassedStep, TakenStep, VerdictStep DEF ReplayInv

\* The invariant holds of every run of the recording and the replay.
THEOREM ReplayInvAlways == RowSpec => []ReplayInv
BY ReplayInvInit, ReplayInvStep, PTL DEF RowSpec

(* A replay without trouble of the validator's own passes exactly the transcripts whose
   every row main.py makes again and whose receipts fit the allowance. *)
THEOREM VerdictIsAlwaysRight == RowSpec => []VerdictIsRight
<1>1. ReplayInv => VerdictIsRight
  BY DEF ReplayInv, VerdictInv, VerdictIsRight
<1> QED BY <1>1, ReplayInvAlways, PTL

(* What a program that follows the rules recorded is passed, whatever failed, died and was
   run again; and what is passed is counted by its own prompts. *)
THEOREM RecordedIsAlwaysHonoured == RowSpec => []RecordedIsHonoured
<1>1. ReplayInv => RecordedIsFaithful
  BY DEF ReplayInv, KeptInv, RecordedIsFaithful
<1>2. ReplayInv => BudgetIsCounted
  <2> SUFFICES ASSUME ReplayInv, phase = "done", result.ok, NEW r \in 1..Len(transcript),
                      NEW k \in DOMAIN transcript[r].calls, transcript[r].calls[k].kind = "slm",
                      Tokens[transcript[r].calls[k].ask] > MaxInput
               PROVE r \in result.failed
    BY DEF BudgetIsCounted
  <2>1. DOMAIN transcript[r].calls = 1..Len(transcript[r].calls)
    BY TranscriptIsSeq, SeqFacts DEF ReplayInv, ReplayTypes
  <2>2. LongRow(transcript[r])
    BY <2>1 DEF LongRow, SlmCalls
  <2> QED BY <2>2 DEF ReplayInv, VerdictInv
<1> QED BY <1>1, <1>2, ReplayInvAlways, PTL DEF RecordedIsHonoured

-----------------------------------------------------------------------------
(* The root over the receipts *)

\* A set of naturals has a least one.
LEMMA Least ==
  ASSUME NEW F, F \subseteq Nat, F # {}
  PROVE \E n \in F : \A m \in F : n <= m
<1>1. \E n \in F : \A m \in F : ~ (<<m, n>> \in OpToRel(<, Nat))
  BY NatLessThanWellFounded, WFMin
<1>2. PICK n \in F : \A m \in F : ~ (<<m, n>> \in OpToRel(<, Nat))
  BY <1>1
<1>3. ASSUME NEW m \in F, m < n PROVE FALSE
  <2>1. <<m, n>> \in OpToRel(<, Nat)
    BY <1>3 DEF OpToRel
  <2> QED BY <2>1, <1>2
<1>4. \A m \in F : n <= m
  BY <1>3
<1> QED BY <1>4

\* A function is applied again and again.
Iterated(g, S, base, N, G) ==
    g \in [0..N -> S] /\ g[0] = base /\ \A k \in 1..N : g[k] = G[<<k, g[k - 1]>>]

LEMMA Iterates ==
  ASSUME NEW S, NEW base \in S, NEW N \in Nat, NEW G \in [(1..N) \X S -> S]
  PROVE \E g : Iterated(g, S, base, N, G)
<1> DEFINE good(g, n) == g[0] = base /\ \A k \in 1..n : g[k] = G[<<k, g[k - 1]>>]
           F == {n \in Nat : n <= N => \E g \in [0..n -> S] : good(g, n)}
<1>1. 0 \in F
  <2> DEFINE g == [k \in 0..0 |-> base]
  <2>1. g \in [0..0 -> S] /\ good(g, 0)
    OBVIOUS
  <2> HIDE DEF g, good
  <2> QED BY <2>1
<1>2. ASSUME NEW n \in Nat, n \in F PROVE n + 1 \in F
  <2> SUFFICES ASSUME n + 1 <= N PROVE \E h \in [0..(n + 1) -> S] : good(h, n + 1)
    OBVIOUS
  <2>1. PICK g \in [0..n -> S] : good(g, n)
    BY <1>2
  <2> DEFINE h == [k \in 0..(n + 1) |-> IF k <= n THEN g[k] ELSE G[<<n + 1, g[n]>>]]
  <2>2. G[<<n + 1, g[n]>>] \in S
    <3>1. n + 1 \in 1..N /\ g[n] \in S
      BY SMTT(30)
    <3> QED BY <3>1, Zenon
  <2>3. h \in [0..(n + 1) -> S] /\ h[n + 1] = G[<<n + 1, g[n]>>] /\ \A k \in 0..n : h[k] = g[k]
    BY <2>2
  <2> HIDE DEF h
  <2>4. \A k \in 1..(n + 1) : h[k] = G[<<k, h[k - 1]>>]
    <3> TAKE k \in 1..(n + 1)
    <3>1. CASE k = n + 1
      BY <3>1, <2>3
    <3>2. CASE k # n + 1
      <4>1. k \in 1..n /\ k \in 0..n /\ k - 1 \in 0..n
        BY <3>2
      <4> QED BY <4>1, <2>1, <2>3
    <3> QED BY <3>1, <3>2
  <2>5. good(h, n + 1)
    BY <2>1, <2>3, <2>4
  <2> HIDE DEF good
  <2> QED BY <2>3, <2>5
<1>3. N \in F
  <2> HIDE DEF F
  <2> QED BY <1>1, <1>2, NatInduct
<1> QED BY <1>3 DEF Iterated

\* What a digest is made of.
Pieces == Int \cup UNION {{leaves[h] : h \in DOMAIN leaves} : leaves \in Receipted}
Digests == Seq(Pieces)

\* Levels of digests of one length.
IsLevel(level, z) ==
    /\ level \in Seq(Digests) /\ Len(level) \in Nat \ {0} /\ z \in Nat
    /\ \A k \in 1..Len(level) : Len(level[k]) = z

IsJoin(c, s, t) ==
    /\ c \in Digests /\ Len(c) = Len(s) + Len(t)
    /\ \A i \in 1..Len(s) : c[i] = s[i]
    /\ \A i \in 1..Len(t) : c[Len(s) + i] = t[i]

LEMMA JoinIs ==
  ASSUME NEW s \in Digests, NEW t \in Digests
  PROVE IsJoin(s \o t, s, t)
<1>1. Len(s) \in Nat /\ Len(t) \in Nat
  BY DEF Digests
<1>2. /\ s \o t \in Digests /\ Len(s \o t) = Len(s) + Len(t)
      /\ \A i \in 1..(Len(s) + Len(t)) :
            (s \o t)[i] = IF i <= Len(s) THEN s[i] ELSE t[i - Len(s)]
  BY ConcatProperties DEF Digests
<1>3. ASSUME NEW i \in 1..Len(s) PROVE (s \o t)[i] = s[i]
  <2>1. i \in 1..(Len(s) + Len(t)) /\ i <= Len(s)
    BY <1>1
  <2> QED BY <1>2, <2>1
<1>4. ASSUME NEW i \in 1..Len(t) PROVE (s \o t)[Len(s) + i] = t[i]
  <2>1. Len(s) + i \in 1..(Len(s) + Len(t)) /\ ~(Len(s) + i <= Len(s)) /\ (Len(s) + i) - Len(s) = i
    BY <1>1
  <2> QED BY <1>2, <2>1
<1> QED BY <1>2, <1>3, <1>4 DEF IsJoin

IsParent(p, l, r) ==
    /\ p \in Digests /\ Len(p) = Len(l) + Len(r) + 3
    /\ \A i \in 1..Len(l) : p[1 + i] = l[i]
    /\ \A i \in 1..Len(r) : p[Len(l) + 2 + i] = r[i]

LEMMA ParentIs ==
  ASSUME NEW l \in Digests, NEW r \in Digests
  PROVE IsParent(Parent(l, r), l, r)
<1> DEFINE o == <<-1>>  m == <<-2>>  e == <<-3>>
           a == o \o l  b == a \o m  c == b \o r  d == c \o e
<1>0. Len(l) \in Nat /\ Len(r) \in Nat
  BY DEF Digests
<1>1. o \in Digests /\ m \in Digests /\ e \in Digests /\ Len(o) = 1 /\ Len(m) = 1 /\ Len(e) = 1
  BY DEF Digests, Pieces
<1> HIDE DEF o, m, e
<1>2. a \in Digests /\ Len(a) = Len(l) + 1 /\ \A i \in 1..Len(l) : a[1 + i] = l[i]
  <2>1. IsJoin(a, o, l)
    BY <1>1, JoinIs, Zenon
  <2> HIDE DEF a
  <2> QED BY <2>1, <1>0, <1>1 DEF IsJoin
<1> HIDE DEF a
<1>3. b \in Digests /\ Len(b) = Len(l) + 2 /\ \A i \in 1..Len(a) : b[i] = a[i]
  <2>1. IsJoin(b, a, m)
    BY <1>1, <1>2, JoinIs, Zenon
  <2> HIDE DEF b
  <2> QED BY <2>1, <1>0, <1>1, <1>2 DEF IsJoin
<1> HIDE DEF b
<1>4. /\ c \in Digests /\ Len(c) = Len(l) + 2 + Len(r)
      /\ \A i \in 1..Len(b) : c[i] = b[i]
      /\ \A i \in 1..Len(r) : c[Len(b) + i] = r[i]
  <2>1. IsJoin(c, b, r)
    BY <1>3, JoinIs, Zenon
  <2> HIDE DEF c
  <2> QED BY <2>1, <1>3 DEF IsJoin
<1> HIDE DEF c
<1>5. d \in Digests /\ Len(d) = Len(c) + 1 /\ \A i \in 1..Len(c) : d[i] = c[i]
  <2>1. IsJoin(d, c, e)
    BY <1>1, <1>4, JoinIs, Zenon
  <2> HIDE DEF d
  <2> QED BY <2>1, <1>1 DEF IsJoin
<1> HIDE DEF d
<1>6. Parent(l, r) = d
  BY DEF Parent, a, b, c, d, o, m, e
<1>7. ASSUME NEW i \in 1..Len(l) PROVE d[1 + i] = l[i]
  <2>1. 1 + i \in 1..Len(a) /\ 1 + i \in 1..Len(b) /\ 1 + i \in 1..Len(c)
    BY <1>0, <1>2, <1>3, <1>4
  <2> QED BY <1>2, <1>3, <1>4, <1>5, <2>1
<1>8. ASSUME NEW i \in 1..Len(r) PROVE d[Len(l) + 2 + i] = r[i]
  <2>1. Len(b) + i \in 1..Len(c)
    BY <1>0, <1>3, <1>4
  <2>2. d[Len(b) + i] = r[i]
    BY <1>4, <1>5, <2>1
  <2> QED BY <2>2, <1>3
<1>9. Len(d) = Len(l) + Len(r) + 3
  BY <1>0, <1>4, <1>5
<1> QED BY <1>5, <1>6, <1>7, <1>8, <1>9 DEF IsParent

\* A parent is read back, if one knows how long its children are.
LEMMA ParentSplits ==
  ASSUME NEW l1 \in Digests, NEW r1 \in Digests, NEW l2 \in Digests, NEW r2 \in Digests,
         Len(l1) = Len(l2), Parent(l1, r1) = Parent(l2, r2)
  PROVE l1 = l2 /\ r1 = r2
<1> DEFINE p == Parent(l1, r1)  q == Parent(l2, r2)
<1>1. Len(l1) \in Nat /\ Len(r1) \in Nat /\ Len(r2) \in Nat
  BY DEF Digests
<1>2. IsParent(p, l1, r1) /\ IsParent(q, l2, r2)
  BY ParentIs, Zenon
<1>4. p = q
  OBVIOUS
<1> HIDE DEF p, q
<1>5. Len(r1) = Len(r2)
  BY <1>1, <1>2, <1>4 DEF IsParent
<1>6. \A i \in 1..Len(l1) : l1[i] = l2[i]
  BY <1>2, <1>4 DEF IsParent
<1>7. \A i \in 1..Len(r1) : r1[i] = r2[i]
  BY <1>2, <1>4, <1>5 DEF IsParent
<1> QED BY <1>5, <1>6, <1>7, SeqEqual DEF Digests

\* An odd one is its own partner.
Partner(level, k) == IF 2 * k <= Len(level) THEN level[2 * k] ELSE level[2 * k - 1]

\* What is above a level is a level, half as long.
LEMMA AboveIsLevel ==
  ASSUME NEW level, NEW z, IsLevel(level, z)
  PROVE /\ IsLevel(Above(level), 2 * z + 3)
        /\ Len(Above(level)) = (Len(level) + 1) \div 2
        /\ \A k \in 1..Len(Above(level)) :
              /\ 2 * k - 1 \in 1..Len(level)
              /\ level[2 * k - 1] \in Digests /\ Partner(level, k) \in Digests
              /\ Above(level)[k] = Parent(level[2 * k - 1], Partner(level, k))
        /\ Len(level) = 1 => Len(Above(level)) = 1
        /\ Len(level) > 1 => Len(Above(level)) < Len(level)
<1> DEFINE n == Len(level)
           m == (n + 1) \div 2
<1>1. n \in Nat \ {0} /\ level \in Seq(Digests) /\ z \in Nat /\ \A k \in 1..n : level[k] \in Digests /\ Len(level[k]) = z
  BY ElementOfSeq DEF IsLevel
<1>2. m \in Nat \ {0} /\ 2 * m >= n /\ 2 * m <= n + 1
  BY <1>1
<1>3. ASSUME NEW k \in 1..m
      PROVE /\ 2 * k - 1 \in 1..n
            /\ level[2 * k - 1] \in Digests /\ Len(level[2 * k - 1]) = z
            /\ Partner(level, k) \in Digests /\ Len(Partner(level, k)) = z
  <2>1. 2 * k - 1 \in 1..n /\ (2 * k <= n => 2 * k \in 1..n)
    BY <1>1, <1>2
  <2> HIDE DEF m
  <2> QED BY <1>1, <2>1 DEF Partner
<1>4. Above(level) = [k \in 1..m |-> Parent(level[2 * k - 1], Partner(level, k))]
  BY DEF Above, Partner
<1> HIDE DEF m
<1>5. ASSUME NEW k \in 1..m
      PROVE /\ Above(level)[k] = Parent(level[2 * k - 1], Partner(level, k))
            /\ Above(level)[k] \in Digests /\ Len(Above(level)[k]) = 2 * z + 3
  <2>1. Above(level)[k] = Parent(level[2 * k - 1], Partner(level, k))
    BY <1>4
  <2>2. /\ Parent(level[2 * k - 1], Partner(level, k)) \in Digests
        /\ Len(Parent(level[2 * k - 1], Partner(level, k))) = z + z + 3
    <3>1. IsParent(Parent(level[2 * k - 1], Partner(level, k)), level[2 * k - 1], Partner(level, k))
      BY <1>3, ParentIs, Zenon
    <3> QED BY <3>1, <1>3 DEF IsParent
  <2> QED BY <2>1, <2>2, <1>1
<1>6. Above(level) \in Seq(Digests) /\ Len(Above(level)) = m
  <2>1. Above(level) \in [1..m -> Digests]
    BY <1>4, <1>5
  <2> QED BY <2>1, <1>2
<1>7. m = (n + 1) \div 2 /\ (n = 1 => m = 1) /\ (n > 1 => m < n)
  BY <1>1 DEF m
<1>8. IsLevel(Above(level), 2 * z + 3)
  <2>1. 2 * z + 3 \in Nat
    BY <1>1
  <2> QED BY <1>2, <1>5, <1>6, <2>1 DEF IsLevel
<1> QED BY <1>3, <1>5, <1>6, <1>7, <1>8

\* The nodes of one level are among those of the other.
Within(one, two) == \A i \in 1..Len(one) : \E j \in 1..Len(two) : one[i] = two[j]

\* What a level is made of can be read from what is above it.
LEMMA LevelIsRead ==
  ASSUME NEW one, NEW two, NEW z, IsLevel(one, z), IsLevel(two, z), Within(Above(one), Above(two))
  PROVE Within(one, two)
<1> SUFFICES \A i \in 1..Len(one) : \E j \in 1..Len(two) : one[i] = two[j]
  BY DEF Within
<1> TAKE i \in 1..Len(one)
<1> DEFINE k == (i + 1) \div 2
<1>1. Len(one) \in Nat \ {0} /\ Len(two) \in Nat \ {0}
  BY DEF IsLevel
<1>2. /\ k \in 1..((Len(one) + 1) \div 2)
      /\ i = 2 * k - 1 \/ i = 2 * k
  BY <1>1
<1> HIDE DEF k
<1>3. /\ k \in 1..Len(Above(one))
      /\ 2 * k - 1 \in 1..Len(one) /\ one[2 * k - 1] \in Digests /\ Partner(one, k) \in Digests
      /\ Above(one)[k] = Parent(one[2 * k - 1], Partner(one, k))
  BY <1>2, AboveIsLevel
<1>4. PICK j \in 1..Len(Above(two)) : Above(one)[k] = Above(two)[j]
  BY <1>3 DEF Within
<1>5. /\ 2 * j - 1 \in 1..Len(two) /\ two[2 * j - 1] \in Digests /\ Partner(two, j) \in Digests
      /\ Above(two)[j] = Parent(two[2 * j - 1], Partner(two, j))
  BY AboveIsLevel
<1>6. Len(one[2 * k - 1]) = Len(two[2 * j - 1])
  BY <1>3, <1>5 DEF IsLevel
<1>7. one[2 * k - 1] = two[2 * j - 1] /\ Partner(one, k) = Partner(two, j)
  <2> DEFINE a == one[2 * k - 1]  b == Partner(one, k)
             c == two[2 * j - 1]  d == Partner(two, j)
  <2>1. a \in Digests /\ b \in Digests /\ c \in Digests /\ d \in Digests /\ Len(a) = Len(c)
    BY <1>3, <1>5, <1>6
  <2>2. Parent(a, b) = Parent(c, d)
    BY <1>3, <1>4, <1>5
  <2> HIDE DEF a, b, c, d
  <2>3. a = c /\ b = d
    BY <2>1, <2>2, ParentSplits
  <2> QED BY <2>3 DEF a, b, c, d
<1>8. CASE i = 2 * k - 1
  BY <1>5, <1>7, <1>8
<1>9. CASE i = 2 * k
  <2>1. one[i] = Partner(two, j)
    BY <1>7, <1>9, <1>1 DEF Partner
  <2>2. CASE 2 * j <= Len(two)
    <3>1. 2 * j \in 1..Len(two) /\ Partner(two, j) = two[2 * j]
      BY <2>2, <1>1, <1>5 DEF Partner
    <3> QED BY <2>1, <3>1
  <2>3. CASE ~(2 * j <= Len(two))
    BY <2>1, <2>3, <1>5 DEF Partner
  <2> QED BY <2>2, <2>3
<1> QED BY <1>2, <1>8, <1>9

-----------------------------------------------------------------------------
(* The levels *)

\* Leaves: at least one, and two parts each.
IsRows(rows) == IsLevel(rows, 2)

LEMMA UpIs ==
  ASSUME NEW rows, IsRows(rows)
  PROVE /\ Up(rows)[0] = rows
        /\ \A k \in 1..Len(rows) : Up(rows)[k] = Above(Up(rows)[k - 1])
<1> DEFINE N == Len(rows)
           S == {level \in Seq(Digests) : \E z \in Nat : IsLevel(level, z)}
           G == [x \in (1..N) \X S |-> Above(x[2])]
           good(g) == g = [k \in 0..N |-> IF k = 0 THEN rows ELSE Above(g[k - 1])]
<1>1. rows \in S /\ N \in Nat
  BY DEF IsRows, IsLevel
<1>2. ASSUME NEW level \in S PROVE Above(level) \in S
  <2>1. PICK z \in Nat : IsLevel(level, z)
    OBVIOUS
  <2>2. IsLevel(Above(level), 2 * z + 3)
    BY <2>1, AboveIsLevel, Zenon
  <2>3. 2 * z + 3 \in Nat
    OBVIOUS
  <2> QED BY <2>2, <2>3 DEF IsLevel
<1>3. G \in [(1..N) \X S -> S]
  <2> HIDE DEF S, N
  <2> QED BY <1>2
<1>4. \A k \in 1..N, x \in S : G[<<k, x>>] = Above(x)
  OBVIOUS
<1> HIDE DEF S, G
<1>5. PICK g : Iterated(g, S, rows, N, G)
  BY <1>1, <1>3, Iterates
<1>6. good(g)
  <2>1. \A k \in 0..N : k # 0 => k \in 1..N /\ k - 1 \in 0..N
    BY <1>1
  <2> HIDE DEF N
  <2>2. ASSUME NEW k \in 0..N PROVE g[k] = IF k = 0 THEN rows ELSE Above(g[k - 1])
    <3>1. CASE k = 0
      BY <3>1, <1>5 DEF Iterated
    <3>2. CASE k # 0
      <4>1. k \in 1..N /\ g[k - 1] \in S
        BY <2>1, <3>2, <1>5 DEF Iterated
      <4> QED BY <4>1, <3>2, <1>4, <1>5 DEF Iterated
    <3> QED BY <3>1, <3>2
  <2>3. g = [k \in 0..N |-> g[k]]
    BY <1>5 DEF Iterated
  <2> QED BY <2>2, <2>3
<1>7. Up(rows) = CHOOSE u : good(u)
  BY DEF Up
<1>8. good(Up(rows))
  <2> HIDE DEF good
  <2> QED BY <1>6, <1>7
<1> QED BY <1>8, <1>1

\* The length of the digests of a level.
Size(rows, n) == Len(Up(rows)[n][1])

LEMMA UpIsLevel ==
  ASSUME NEW rows, IsRows(rows)
  PROVE /\ \A n \in 0..Len(rows) : /\ IsLevel(Up(rows)[n], Size(rows, n))
                                   /\ Len(Up(rows)[n]) = 1 \/ Len(Up(rows)[n]) + n <= Len(rows)
        /\ Size(rows, 0) = 2
        /\ \A n \in 1..Len(rows) : Size(rows, n) = 2 * Size(rows, n - 1) + 3
<1> DEFINE N == Len(rows)
           up == Up(rows)
           F == {n \in Nat : n <= N => /\ IsLevel(up[n], Size(rows, n))
                                       /\ Len(up[n]) = 1 \/ Len(up[n]) + n <= N}
<1>0. N \in Nat \ {0} /\ up[0] = rows /\ \A n \in 1..N : up[n] = Above(up[n - 1])
  BY UpIs DEF IsRows, IsLevel
<1>1. Size(rows, 0) = 2
  BY <1>0 DEF Size, IsRows, IsLevel
<1>2. 0 \in F
  BY <1>0, <1>1 DEF IsRows
<1>3. ASSUME NEW n \in Nat, n + 1 <= N, n \in F
      PROVE n + 1 \in F /\ Size(rows, n + 1) = 2 * Size(rows, n) + 3
  <2>1. up[n + 1] = Above(up[n]) /\ IsLevel(up[n], Size(rows, n)) /\ (Len(up[n]) = 1 \/ Len(up[n]) + n <= N)
    BY <1>0, <1>3
  <2> HIDE DEF up, F
  <2>2. /\ IsLevel(up[n + 1], 2 * Size(rows, n) + 3)
        /\ Len(up[n]) = 1 => Len(up[n + 1]) = 1
        /\ Len(up[n]) > 1 => Len(up[n + 1]) < Len(up[n])
    BY <2>1, AboveIsLevel
  <2>3. Len(up[n]) \in Nat \ {0} /\ Len(up[n + 1]) \in Nat \ {0}
    BY <2>1, <2>2 DEF IsLevel
  <2>4. Size(rows, n + 1) = 2 * Size(rows, n) + 3
    BY <2>2, <2>3 DEF Size, IsLevel, up
  <2>5. Len(up[n + 1]) = 1 \/ Len(up[n + 1]) + (n + 1) <= N
    <3> DEFINE a == Len(up[n])  b == Len(up[n + 1])
    <3>1. a \in Nat \ {0} /\ b \in Nat \ {0} /\ (a = 1 \/ a + n <= N) /\ (a = 1 => b = 1) /\ (a > 1 => b < a)
      BY <2>1, <2>2, <2>3
    <3> HIDE DEF a, b
    <3>2. b = 1 \/ b + (n + 1) <= N
      BY <3>1, <1>0
    <3> QED BY <3>2 DEF a, b
  <2>6. IsLevel(up[n + 1], Size(rows, n + 1))
    BY <2>2, <2>4
  <2>7. n + 1 \in Nat
    OBVIOUS
  <2> QED BY <2>4, <2>5, <2>6, <2>7 DEF F
<1>4. \A n \in Nat : n \in F
  <2>1. ASSUME NEW n \in Nat, n \in F PROVE n + 1 \in F
    <3>1. CASE n + 1 <= N
      BY <1>3, <2>1, <3>1
    <3>2. CASE ~(n + 1 <= N)
      BY <3>2
    <3> QED BY <3>1, <3>2
  <2> HIDE DEF F
  <2> QED BY <1>2, <2>1, NatInduct
<1>5. ASSUME NEW n \in 1..N PROVE Size(rows, n) = 2 * Size(rows, n - 1) + 3
  <2>1. n - 1 \in Nat /\ (n - 1) + 1 = n /\ n <= N
    BY <1>0
  <2> HIDE DEF F
  <2> QED BY <2>1, <1>3, <1>4
<1> QED BY <1>0, <1>1, <1>4, <1>5

\* The height of the tree: the first level with one digest.
Height(rows) ==
    CHOOSE n \in 0..Len(rows) :
        Len(Up(rows)[n]) = 1 /\ \A m \in 0..(n - 1) : Len(Up(rows)[m]) > 1

LEMMA HeightIs ==
  ASSUME NEW rows, IsRows(rows)
  PROVE /\ Height(rows) \in 0..Len(rows)
        /\ Len(Up(rows)[Height(rows)]) = 1
        /\ Levels(rows) = [n \in 1..(Height(rows) + 1) |-> Up(rows)[n - 1]]
        /\ Len(Levels(rows)) = Height(rows) + 1
<1> DEFINE N == Len(rows)
           up == Up(rows)
           F == {n \in 0..N : Len(up[n]) = 1}
<1>0. N \in Nat \ {0} /\ \A n \in 0..N : Len(up[n]) \in Nat \ {0}
  BY UpIsLevel DEF IsRows, IsLevel
<1>1. N \in F
  BY <1>0, UpIsLevel
<1>2. PICK n \in F : \A m \in F : n <= m
  <2> HIDE DEF F
  <2>1. F \subseteq Nat
    BY <1>0 DEF F
  <2> QED BY <1>1, <2>1, Least
<1>3. Len(up[n]) = 1 /\ \A m \in 0..(n - 1) : Len(up[m]) > 1
  <2>1. ASSUME NEW m \in 0..(n - 1) PROVE Len(up[m]) > 1
    <3>1. m \in 0..N /\ ~(n <= m) /\ n \in 0..N
      BY <1>0, <1>2
    <3>2. m \notin F
      BY <1>2, <3>1
    <3>3. Len(up[m]) # 1
      BY <3>1, <3>2
    <3>4. Len(up[m]) \in Nat \ {0}
      BY <3>1, <1>0
    <3>5. \A a \in Nat \ {0} : a # 1 => a > 1
      OBVIOUS
    <3> QED BY <3>3, <3>4, <3>5, Zenon
  <2> QED BY <2>1, <1>2
<1>4. Height(rows) \in 0..N /\ Len(up[Height(rows)]) = 1
  BY <1>2, <1>3 DEF Height
<1>5. Levels(rows) = [k \in 1..(Height(rows) + 1) |-> Up(rows)[k - 1]]
  BY DEF Levels, Height
<1> QED BY <1>0, <1>4, <1>5

-----------------------------------------------------------------------------
(* The root *)

\* A tree grows with its height.
LEMMA SizeGrows ==
  ASSUME NEW rows, IsRows(rows), NEW n \in 0..Len(rows), NEW m \in 0..Len(rows), n < m
  PROVE Size(rows, n) < Size(rows, m)
<1> DEFINE N == Len(rows)
           F == {k \in Nat : n + 1 + k <= N => Size(rows, n) < Size(rows, n + 1 + k)}
<1>0. N \in Nat /\ \A k \in 0..N : Size(rows, k) \in Nat
  BY UpIsLevel DEF IsRows, IsLevel
<1>1. \A k \in 0..N : k + 1 <= N => Size(rows, k) < Size(rows, k + 1)
  <2> TAKE k \in 0..N
  <2> SUFFICES ASSUME k + 1 <= N PROVE Size(rows, k) < Size(rows, k + 1)
    OBVIOUS
  <2>1. k + 1 \in 1..N /\ (k + 1) - 1 = k
    BY <1>0
  <2>2. Size(rows, k + 1) = 2 * Size(rows, k) + 3
    BY <2>1, UpIsLevel
  <2> QED BY <2>2, <1>0
<1>2. 0 \in F
  BY <1>0, <1>1
<1>3. ASSUME NEW k \in Nat, k \in F PROVE k + 1 \in F
  <2> SUFFICES ASSUME n + 1 + (k + 1) <= N PROVE Size(rows, n) < Size(rows, n + 1 + (k + 1))
    OBVIOUS
  <2>1. n + 1 + k \in 0..N /\ (n + 1 + k) + 1 = n + 1 + (k + 1) /\ n + 1 + k <= N
        /\ n + 1 + (k + 1) \in 0..N
    BY <1>0
  <2>2. Size(rows, n) < Size(rows, n + 1 + k) /\ Size(rows, n + 1 + k) < Size(rows, n + 1 + (k + 1))
    BY <1>1, <1>3, <2>1
  <2> QED BY <1>0, <2>1, <2>2
<1>4. \A k \in Nat : k \in F
  <2> HIDE DEF F
  <2> QED BY <1>2, <1>3, NatInduct
<1>5. m - (n + 1) \in Nat /\ n + 1 + (m - (n + 1)) = m /\ m <= N
  BY <1>0
<1> QED BY <1>4, <1>5

\* Two trees have digests of one length at one height.
LEMMA SizesAgree ==
  ASSUME NEW one, NEW two, IsRows(one), IsRows(two), NEW n \in 0..Len(one), n \in 0..Len(two)
  PROVE Size(one, n) = Size(two, n)
<1> DEFINE F == {k \in Nat : k <= Len(one) /\ k <= Len(two) => Size(one, k) = Size(two, k)}
<1>0. Len(one) \in Nat /\ Len(two) \in Nat
  BY DEF IsRows, IsLevel
<1>1. 0 \in F
  BY UpIsLevel
<1>2. ASSUME NEW k \in Nat, k \in F PROVE k + 1 \in F
  <2> SUFFICES ASSUME k + 1 <= Len(one), k + 1 <= Len(two) PROVE Size(one, k + 1) = Size(two, k + 1)
    OBVIOUS
  <2>1. k + 1 \in 1..Len(one) /\ k + 1 \in 1..Len(two) /\ (k + 1) - 1 = k /\ k <= Len(one) /\ k <= Len(two)
    BY <1>0
  <2>2. Size(one, k + 1) = 2 * Size(one, k) + 3 /\ Size(two, k + 1) = 2 * Size(two, k) + 3
    BY <2>1, UpIsLevel
  <2> QED BY <2>1, <2>2, <1>2
<1>3. \A k \in Nat : k \in F
  <2> HIDE DEF F
  <2> QED BY <1>1, <1>2, NatInduct
<1> QED BY <1>0, <1>3

LEMMA SameHeight ==
  ASSUME NEW one, NEW two, IsRows(one), IsRows(two),
         Up(one)[Height(one)][1] = Up(two)[Height(two)][1]
  PROVE Height(one) <= Height(two)
<1>1. /\ Height(one) \in 0..Len(one) /\ Height(two) \in 0..Len(two)
      /\ Len(one) \in Nat /\ Len(two) \in Nat
  BY HeightIs DEF IsRows, IsLevel
<1>2. Size(one, Height(one)) = Size(two, Height(two))
  BY DEF Size
<1>3. SUFFICES ASSUME Height(two) < Height(one) PROVE FALSE
  BY <1>1
<1>4. Height(two) \in 0..Len(one)
  BY <1>1, <1>3
<1>5. Size(one, Height(two)) = Size(two, Height(two))
  BY <1>1, <1>4, SizesAgree
<1>6. Size(one, Height(two)) < Size(one, Height(one))
  BY <1>1, <1>3, <1>4, SizeGrows
<1>7. Size(one, Height(two)) \in Nat
  BY <1>4, UpIsLevel DEF IsLevel
<1> QED BY <1>2, <1>5, <1>6, <1>7

LEMMA RootHoldsLeaves ==
  ASSUME NEW one, NEW two, IsRows(one), IsRows(two),
         Up(one)[Height(one)][1] = Up(two)[Height(two)][1]
  PROVE Within(one, two)
<1> DEFINE h == Height(one)
           F == {k \in Nat : k <= h => Within(Up(one)[h - k], Up(two)[h - k])}
<1>1. /\ h \in 0..Len(one) /\ h \in 0..Len(two) /\ Height(two) = h
      /\ Len(one) \in Nat /\ Len(two) \in Nat
  <2>1. Height(one) <= Height(two) /\ Height(two) <= Height(one)
    BY SameHeight
  <2> QED BY <2>1, HeightIs DEF IsRows, IsLevel
<1>2. 0 \in F
  <2>1. Len(Up(one)[h]) = 1 /\ Len(Up(two)[h]) = 1 /\ Up(one)[h][1] = Up(two)[h][1]
    BY <1>1, HeightIs
  <2>2. h - 0 = h
    BY <1>1
  <2> HIDE DEF h
  <2> QED BY <2>1, <2>2 DEF Within
<1>3. ASSUME NEW k \in Nat, k \in F PROVE k + 1 \in F
  <2> SUFFICES ASSUME k + 1 <= h PROVE Within(Up(one)[h - (k + 1)], Up(two)[h - (k + 1)])
    OBVIOUS
  <2> DEFINE n == h - (k + 1)
             a == Up(one)[n]  b == Up(two)[n]
  <2>1. /\ n \in 0..Len(one) /\ n \in 0..Len(two) /\ h - k \in 1..Len(one) /\ h - k \in 1..Len(two)
        /\ (h - k) - 1 = n /\ k <= h
    BY <1>1
  <2>2. Within(Up(one)[h - k], Up(two)[h - k])
    BY <1>3, <2>1
  <2>3. Up(one)[h - k] = Above(a) /\ Up(two)[h - k] = Above(b)
    BY <1>1, <2>1, UpIs
  <2>4. IsLevel(a, Size(one, n)) /\ IsLevel(b, Size(one, n))
    BY <2>1, UpIsLevel, SizesAgree
  <2> HIDE DEF a, b, h, n
  <2>5. Within(Above(a), Above(b))
    BY <2>2, <2>3
  <2>6. Within(a, b)
    BY <2>4, <2>5, LevelIsRead
  <2> QED BY <2>6 DEF a, b, n
<1>4. \A k \in Nat : k \in F
  <2> HIDE DEF F
  <2> QED BY <1>2, <1>3, NatInduct
<1>5. h \in Nat /\ h <= h /\ h - h = 0
  BY <1>1
<1>6. Within(Up(one)[0], Up(two)[0])
  BY <1>4, <1>5
<1> QED BY <1>1, <1>6, UpIs

-----------------------------------------------------------------------------
(* The leaves in order *)

\* The position of a hotkey, and the hotkey of a position.
Rank(leaves, h) == Cardinality({g \in DOMAIN leaves : g <= h})
Name(leaves, k) == CHOOSE h \in DOMAIN leaves : Rank(leaves, h) = k

LEMMA RankIs ==
  ASSUME NEW leaves \in Receipted
  PROVE /\ Cardinality(DOMAIN leaves) \in Nat
        /\ \A h \in DOMAIN leaves : /\ Rank(leaves, h) \in 1..Cardinality(DOMAIN leaves)
                                    /\ Name(leaves, Rank(leaves, h)) = h
        /\ \A k \in 1..Cardinality(DOMAIN leaves) :
              Name(leaves, k) \in DOMAIN leaves /\ Rank(leaves, Name(leaves, k)) = k
<1> DEFINE D == DOMAIN leaves
           N == Cardinality(D)
           below(h) == {g \in D : g <= h}
           f == [h \in D |-> Rank(leaves, h)]
<1>1. IsFiniteSet(D) /\ D \subseteq Int /\ N \in Nat
  BY ReceiptsAssumption, FS_CardinalityType
<1>2. ASSUME NEW h \in D
      PROVE /\ IsFiniteSet(below(h)) /\ Rank(leaves, h) = Cardinality(below(h))
            /\ Rank(leaves, h) \in 1..N /\ Rank(leaves, h) \in Nat
  <2>1. below(h) \in SUBSET D /\ h \in below(h)
    BY <1>1
  <2>2. IsFiniteSet(below(h)) /\ Cardinality(below(h)) <= N
    BY <1>1, <2>1, FS_Subset
  <2>3. Rank(leaves, h) = Cardinality(below(h))
    BY DEF Rank
  <2> HIDE DEF below, D, N
  <2>4. Cardinality(below(h)) \in Nat /\ Cardinality(below(h)) # 0
    BY <2>1, <2>2, FS_CardinalityType, FS_EmptySet
  <2> QED BY <1>1, <2>2, <2>3, <2>4
<1>3. ASSUME NEW g \in D, NEW h \in D, g < h PROVE Rank(leaves, g) < Rank(leaves, h)
  <2>1. below(g) \in SUBSET below(h) /\ h \in below(h) /\ h \notin below(g)
    BY <1>1, <1>3
  <2>2. below(g) # below(h)
    BY <2>1
  <2> HIDE DEF below
  <2>3. Cardinality(below(g)) <= Cardinality(below(h)) /\ Cardinality(below(g)) # Cardinality(below(h))
    BY <1>2, <2>1, <2>2, FS_Subset
  <2>4. Rank(leaves, g) \in Nat /\ Rank(leaves, h) \in Nat
    BY <1>1, <1>2
  <2> QED BY <1>2, <2>3, <2>4
<1>4. ASSUME NEW g \in D, NEW h \in D, Rank(leaves, g) = Rank(leaves, h) PROVE g = h
  <2>1. g \in Int /\ h \in Int
    BY <1>1
  <2>2. ~(g < h) /\ ~(h < g)
    <3> HIDE DEF D
    <3>1. Rank(leaves, g) \in Nat /\ Rank(leaves, h) \in Nat
      BY <1>2
    <3>2. ~(Rank(leaves, g) < Rank(leaves, h)) /\ ~(Rank(leaves, h) < Rank(leaves, g))
      BY <3>1, <1>4
    <3> QED BY <3>2, <1>3
  <2> QED BY <2>1, <2>2
<1>5. \A k \in 1..N : \E h \in D : Rank(leaves, h) = k
  <2>1. f \in Injection(D, 1..N)
    <3>1. f \in [D -> 1..N]
      BY <1>2
    <3> HIDE DEF N
    <3> QED BY <3>1, <1>4 DEF Injection, IsInjective
  <2>2. IsFiniteSet(1..N) /\ Cardinality(1..N) = N
    BY <1>1, FS_Interval
  <2> HIDE DEF f
  <2>3. f \in Surjection(D, 1..N)
    BY <2>1, <2>2, FS_Injection
  <2> QED BY <2>3 DEF Surjection, f
<1>6. ASSUME NEW k \in 1..N PROVE Name(leaves, k) \in D /\ Rank(leaves, Name(leaves, k)) = k
  BY <1>5 DEF Name
<1>7. \A h \in D : Name(leaves, Rank(leaves, h)) = h
  BY <1>2, <1>4, <1>6
<1> QED BY <1>1, <1>2, <1>6, <1>7

LEMMA LeafIsDigest ==
  ASSUME NEW leaves \in Receipted, NEW h \in DOMAIN leaves
  PROVE /\ Leaf(h, leaves[h]) \in Digests /\ Len(Leaf(h, leaves[h])) = 2
        /\ Leaf(h, leaves[h])[1] = h /\ Leaf(h, leaves[h])[2] = leaves[h]
<1>1. h \in Pieces /\ leaves[h] \in Pieces
  BY ReceiptsAssumption DEF Pieces
<1> QED BY <1>1 DEF Leaf, Digests

LEMMA RowsAre ==
  ASSUME NEW leaves \in Receipted
  PROVE /\ Len(OrderedLeaves(leaves)) = Cardinality(DOMAIN leaves)
        /\ DOMAIN OrderedLeaves(leaves) = 1..Cardinality(DOMAIN leaves)
        /\ \A k \in 1..Cardinality(DOMAIN leaves) :
              OrderedLeaves(leaves)[k] = Leaf(Name(leaves, k), leaves[Name(leaves, k)])
        /\ DOMAIN leaves # {} => IsRows(OrderedLeaves(leaves))
<1> DEFINE N == Cardinality(DOMAIN leaves)
           rows == OrderedLeaves(leaves)
<1>1. N \in Nat /\ \A k \in 1..N : Name(leaves, k) \in DOMAIN leaves
  BY RankIs
<1>2. rows = [k \in 1..N |-> Leaf(Name(leaves, k), leaves[Name(leaves, k)])]
  BY DEF OrderedLeaves, Name, Rank
<1>3. \A k \in 1..N : rows[k] \in Digests /\ Len(rows[k]) = 2
  BY <1>1, <1>2, LeafIsDigest
<1> HIDE DEF N, rows
<1>4. rows \in [1..N -> Digests]
  BY <1>2, <1>3
<1>5. rows \in Seq(Digests) /\ Len(rows) = N
  BY <1>1, <1>4
<1>6. ASSUME DOMAIN leaves # {} PROVE IsRows(rows)
  <2>1. N # 0
    BY <1>6, ReceiptsAssumption, FS_EmptySet DEF N
  <2> QED BY <1>1, <1>3, <1>5, <2>1 DEF IsRows, IsLevel
<1> QED BY <1>2, <1>5, <1>6 DEF rows, N

LEMMA RootIs ==
  ASSUME NEW leaves \in Receipted, DOMAIN leaves # {}
  PROVE MerkleRoot(leaves) = Up(OrderedLeaves(leaves))[Height(OrderedLeaves(leaves))][1]
<1> DEFINE rows == OrderedLeaves(leaves)
           h == Height(rows)
<1>1. IsRows(rows)
  BY RowsAre
<1> HIDE DEF rows
<1>2. /\ h \in Nat /\ Levels(rows) = [n \in 1..(h + 1) |-> Up(rows)[n - 1]] /\ Len(Levels(rows)) = h + 1
  BY <1>1, HeightIs DEF IsRows, IsLevel
<1> HIDE DEF h
<1>3. Last(Levels(rows)) = Up(rows)[h]
  <2>1. h + 1 \in 1..(h + 1) /\ (h + 1) - 1 = h
    BY <1>2
  <2> QED BY <1>2, <2>1 DEF Last
<1> QED BY <1>3 DEF MerkleRoot, rows, h

LEMMA RootIsDigest ==
  ASSUME NEW leaves \in Receipted, DOMAIN leaves # {}
  PROVE MerkleRoot(leaves) # <<>>
<1> DEFINE rows == OrderedLeaves(leaves)
<1>1. IsRows(rows) /\ MerkleRoot(leaves) = Up(rows)[Height(rows)][1]
  BY RowsAre, RootIs
<1> HIDE DEF rows
<1>2. Height(rows) \in 0..Len(rows) /\ Len(rows) \in Nat
  BY <1>1, HeightIs DEF IsRows, IsLevel
<1>3. 0 \in 0..Len(rows) /\ Size(rows, 0) = 2
  BY <1>1, <1>2, UpIsLevel
<1>4. Size(rows, Height(rows)) \in Nat
  BY <1>1, <1>2, UpIsLevel DEF IsLevel
<1>5. Size(rows, Height(rows)) >= 2
  <2>1. CASE Height(rows) = 0
    BY <2>1, <1>3
  <2>2. CASE Height(rows) # 0
    BY <2>2, <1>1, <1>2, <1>3, <1>4, SizeGrows
  <2> QED BY <2>1, <2>2
<1>6. Len(MerkleRoot(leaves)) >= 2
  BY <1>1, <1>5 DEF Size
<1> QED BY <1>6

\* The leaves below a root are those of its receipts.
LEMMA RootsDiffer ==
  ASSUME NEW one \in Receipted, NEW two \in Receipted, MerkleRoot(one) = MerkleRoot(two)
  PROVE \A h \in DOMAIN one : h \in DOMAIN two /\ two[h] = one[h]
<1> SUFFICES ASSUME NEW h \in DOMAIN one PROVE h \in DOMAIN two /\ two[h] = one[h]
  OBVIOUS
<1> DEFINE a == OrderedLeaves(one)
           b == OrderedLeaves(two)
           i == Rank(one, h)
<1>1. DOMAIN two # {}
  <2>1. MerkleRoot(one) # <<>>
    BY RootIsDigest
  <2> QED BY <2>1 DEF MerkleRoot
<1>2. IsRows(a) /\ IsRows(b) /\ Up(a)[Height(a)][1] = Up(b)[Height(b)][1]
  <2>1. IsRows(a) /\ MerkleRoot(one) = Up(a)[Height(a)][1]
    BY RowsAre, RootIs
  <2>2. IsRows(b) /\ MerkleRoot(two) = Up(b)[Height(b)][1]
    BY <1>1, RowsAre, RootIs
  <2> QED BY <2>1, <2>2
<1>3. Within(a, b)
  <2> HIDE DEF a, b
  <2> QED BY <1>2, RootHoldsLeaves
<1>4. i \in 1..Len(a) /\ a[i] = Leaf(h, one[h])
  BY RankIs, RowsAre
<1>5. PICK j \in 1..Len(b) : a[i] = b[j]
  BY <1>3, <1>4 DEF Within
<1>6. Name(two, j) \in DOMAIN two /\ b[j] = Leaf(Name(two, j), two[Name(two, j)])
  BY RankIs, RowsAre
<1>7. h = Name(two, j) /\ one[h] = two[Name(two, j)]
  <2>1. Leaf(h, one[h]) = Leaf(Name(two, j), two[Name(two, j)])
    BY <1>4, <1>5, <1>6
  <2> HIDE DEF a, b, i
  <2> QED BY <2>1 DEF Leaf
<1> QED BY <1>6, <1>7

-----------------------------------------------------------------------------
(* The path from a leaf to the root *)

LEMMA PlaceIs ==
  ASSUME NEW leaves \in Receipted, NEW who \in DOMAIN leaves, NEW rows, rows = OrderedLeaves(leaves)
  PROVE /\ \A k \in 0..Len(rows) : Place(rows, who)[k] \in Nat
        /\ Place(rows, who)[0] = Rank(leaves, who) - 1
        /\ \A k \in 1..Len(rows) : Place(rows, who)[k] = Place(rows, who)[k - 1] \div 2
<1> DEFINE N == Len(rows)
           first == (CHOOSE k \in DOMAIN rows : rows[k][1] = who) - 1
           G == [x \in (1..N) \X Nat |-> x[2] \div 2]
           good(g) == g = [k \in 0..N |-> IF k = 0 THEN first ELSE g[k - 1] \div 2]
<1>1. N \in Nat /\ DOMAIN rows = 1..N /\ first = Rank(leaves, who) - 1 /\ first \in Nat
  <2>1. /\ N = Cardinality(DOMAIN leaves) /\ N \in Nat /\ DOMAIN rows = 1..N
        /\ Rank(leaves, who) \in 1..N /\ Name(leaves, Rank(leaves, who)) = who
    BY RankIs, RowsAre
  <2>2. ASSUME NEW k \in 1..N PROVE rows[k][1] = Name(leaves, k) /\ Rank(leaves, Name(leaves, k)) = k
    <3>1. Name(leaves, k) \in DOMAIN leaves /\ Rank(leaves, Name(leaves, k)) = k
      BY <2>1, RankIs
    <3>2. rows[k] = Leaf(Name(leaves, k), leaves[Name(leaves, k)])
      BY <2>1, RowsAre
    <3> QED BY <3>1, <3>2 DEF Leaf
  <2>3. rows[Rank(leaves, who)][1] = who /\ \A k \in 1..N : rows[k][1] = who => k = Rank(leaves, who)
    BY <2>1, <2>2
  <2>4. (CHOOSE k \in DOMAIN rows : rows[k][1] = who) = Rank(leaves, who)
    BY <2>1, <2>3
  <2>5. first = Rank(leaves, who) - 1
    BY <2>4
  <2> HIDE DEF first, N
  <2>6. Rank(leaves, who) - 1 \in Nat
    BY <2>1
  <2> QED BY <2>1, <2>5, <2>6
<1> HIDE DEF first
<1>2. G \in [(1..N) \X Nat -> Nat] /\ \A k \in 1..N, x \in Nat : G[<<k, x>>] = x \div 2
  OBVIOUS
<1> HIDE DEF G
<1>3. PICK g : Iterated(g, Nat, first, N, G)
  BY <1>1, <1>2, Iterates
<1>4. good(g)
  <2>1. \A k \in 0..N : k # 0 => k \in 1..N /\ k - 1 \in 0..N
    BY <1>1
  <2> HIDE DEF N
  <2>2. ASSUME NEW k \in 0..N PROVE g[k] = IF k = 0 THEN first ELSE g[k - 1] \div 2
    <3>1. CASE k = 0
      BY <3>1, <1>3 DEF Iterated
    <3>2. CASE k # 0
      <4>1. k \in 1..N /\ g[k - 1] \in Nat
        BY <2>1, <3>2, <1>3 DEF Iterated
      <4> QED BY <4>1, <3>2, <1>2, <1>3 DEF Iterated
    <3> QED BY <3>1, <3>2
  <2>3. g = [k \in 0..N |-> g[k]]
    BY <1>3 DEF Iterated
  <2> QED BY <2>2, <2>3
<1>5. Place(rows, who) = CHOOSE u : good(u)
  BY DEF Place, first
<1> DEFINE u == Place(rows, who)
<1>6. good(u)
  <2> HIDE DEF good
  <2> QED BY <1>4, <1>5
<1> HIDE DEF u
<1>7. u[0] = first /\ \A k \in 1..N : u[k] = u[k - 1] \div 2
  BY <1>6, <1>1
<1>8. \A k \in 0..N : u[k] \in Nat
  <2> DEFINE F == {k \in Nat : k <= N => u[k] \in Nat}
  <2>1. 0 \in F
    BY <1>1, <1>7
  <2>2. ASSUME NEW k \in Nat, k \in F PROVE k + 1 \in F
    <3> SUFFICES ASSUME k + 1 <= N PROVE u[k + 1] \in Nat
      OBVIOUS
    <3>1. k + 1 \in 1..N /\ (k + 1) - 1 = k /\ u[k] \in Nat
      BY <1>1, <2>2
    <3>2. u[k + 1] = u[k] \div 2
      BY <3>1, <1>7
    <3> QED BY <3>1, <3>2
  <2>3. \A k \in Nat : k \in F
    <3> HIDE DEF F
    <3> QED BY <2>1, <2>2, NatInduct
  <2> QED BY <2>3, <1>1
<1> QED BY <1>1, <1>7, <1>8 DEF u

\* Digests and sides.
IsProof(proof) ==
    /\ Len(proof) \in Nat
    /\ \A k \in 1..Len(proof) : proof[k].hash \in Digests /\ proof[k].left \in BOOLEAN

\* What a step of a proof makes of a digest.
Climbed(step, d) == IF step.left THEN Parent(step.hash, d) ELSE Parent(d, step.hash)

LEMMA ClimbIs ==
  ASSUME NEW proof, IsProof(proof), NEW leaf \in Digests
  PROVE /\ \A k \in 0..Len(proof) : Climb(leaf, proof)[k] \in Digests
        /\ Climb(leaf, proof)[0] = leaf
        /\ \A k \in 1..Len(proof) : Climb(leaf, proof)[k] = Climbed(proof[k], Climb(leaf, proof)[k - 1])
<1> DEFINE N == Len(proof)
           G == [x \in (1..N) \X Digests |-> Climbed(proof[x[1]], x[2])]
           good(g) == g = [k \in 0..N |-> IF k = 0 THEN leaf ELSE Climbed(proof[k], g[k - 1])]
<1>1. N \in Nat
  BY DEF IsProof
<1>2. \A k \in 1..N, d \in Digests : Climbed(proof[k], d) \in Digests
  <2> TAKE k \in 1..N, d \in Digests
  <2>1. proof[k].hash \in Digests
    BY DEF IsProof
  <2>2. Parent(proof[k].hash, d) \in Digests /\ Parent(d, proof[k].hash) \in Digests
    BY <2>1, ParentIs DEF IsParent
  <2> QED BY <2>2 DEF Climbed
<1>3. G \in [(1..N) \X Digests -> Digests] /\ \A k \in 1..N, d \in Digests : G[<<k, d>>] = Climbed(proof[k], d)
  <2> HIDE DEF N
  <2> QED BY <1>2
<1> HIDE DEF G
<1>4. PICK g : Iterated(g, Digests, leaf, N, G)
  BY <1>1, <1>3, Iterates
<1>5. good(g)
  <2>1. \A k \in 0..N : k # 0 => k \in 1..N /\ k - 1 \in 0..N
    BY <1>1
  <2> HIDE DEF N
  <2>2. ASSUME NEW k \in 0..N PROVE g[k] = IF k = 0 THEN leaf ELSE Climbed(proof[k], g[k - 1])
    <3>1. CASE k = 0
      BY <3>1, <1>4 DEF Iterated
    <3>2. CASE k # 0
      <4>1. k \in 1..N /\ g[k - 1] \in Digests
        BY <2>1, <3>2, <1>4 DEF Iterated
      <4> QED BY <4>1, <3>2, <1>3, <1>4 DEF Iterated
    <3> QED BY <3>1, <3>2
  <2>3. g = [k \in 0..N |-> g[k]]
    BY <1>4 DEF Iterated
  <2> QED BY <2>2, <2>3
<1>6. Climb(leaf, proof) = CHOOSE u : good(u)
  BY DEF Climb, Climbed
<1> DEFINE u == Climb(leaf, proof)
<1>7. good(u)
  <2> HIDE DEF good
  <2> QED BY <1>5, <1>6
<1> HIDE DEF u
<1>8. u[0] = leaf /\ \A k \in 1..N : u[k] = Climbed(proof[k], u[k - 1])
  BY <1>7, <1>1
<1>9. \A k \in 0..N : u[k] \in Digests
  <2> DEFINE F == {k \in Nat : k <= N => u[k] \in Digests}
  <2>1. 0 \in F
    BY <1>1, <1>8
  <2>2. ASSUME NEW k \in Nat, k \in F PROVE k + 1 \in F
    <3> SUFFICES ASSUME k + 1 <= N PROVE u[k + 1] \in Digests
      OBVIOUS
    <3>1. k + 1 \in 1..N /\ (k + 1) - 1 = k /\ u[k] \in Digests
      BY <1>1, <2>2
    <3>2. u[k + 1] = Climbed(proof[k + 1], u[k])
      BY <3>1, <1>8
    <3> QED BY <3>1, <3>2, <1>2
  <2>3. \A k \in Nat : k \in F
    <3> HIDE DEF F
    <3> QED BY <2>1, <2>2, NatInduct
  <2> QED BY <2>3, <1>1
<1> QED BY <1>8, <1>9 DEF u

\* A proof leads from one leaf to a root, not from two.
LEMMA OneLeafPerProof ==
  ASSUME NEW proof, IsProof(proof), NEW a \in Digests, NEW b \in Digests,
         Climb(a, proof)[Len(proof)] = Climb(b, proof)[Len(proof)]
  PROVE a = b
<1> DEFINE N == Len(proof)
           u == Climb(a, proof)
           v == Climb(b, proof)
           F == {k \in Nat : k <= N => u[N - k] = v[N - k]}
<1>0. /\ N \in Nat /\ u[0] = a /\ v[0] = b
      /\ \A k \in 0..N : u[k] \in Digests /\ v[k] \in Digests
      /\ \A k \in 1..N : /\ u[k] = Climbed(proof[k], u[k - 1]) /\ v[k] = Climbed(proof[k], v[k - 1])
                         /\ proof[k].hash \in Digests /\ proof[k].left \in BOOLEAN
  BY ClimbIs DEF IsProof
<1>1. 0 \in F
  BY <1>0
<1> HIDE DEF u, v, N
<1>2. ASSUME NEW k \in Nat, k \in F PROVE k + 1 \in F
  <2> SUFFICES ASSUME k + 1 <= N PROVE u[N - (k + 1)] = v[N - (k + 1)]
    OBVIOUS
  <2> DEFINE n == N - k
             d == u[n - 1]  e == v[n - 1]  h == proof[n].hash
  <2>1. n \in 1..N /\ n - 1 \in 0..N /\ n - 1 = N - (k + 1) /\ k <= N
    BY <1>0
  <2>2. u[n] = v[n]
    BY <1>2, <2>1
  <2>3. d \in Digests /\ e \in Digests /\ h \in Digests /\ proof[n].left \in BOOLEAN
    BY <1>0, <2>1
  <2>4. Climbed(proof[n], d) = Climbed(proof[n], e)
    BY <1>0, <2>1, <2>2
  <2>5. CASE proof[n].left
    <3>1. Parent(h, d) = Parent(h, e)
      BY <2>4, <2>5 DEF Climbed
    <3> HIDE DEF d, e, h
    <3>2. d = e
      BY <3>1, <2>3, ParentSplits
    <3> QED BY <3>2, <2>1 DEF d, e
  <2>6. CASE ~proof[n].left
    <3>1. Parent(d, h) = Parent(e, h)
      BY <2>4, <2>6 DEF Climbed
    <3> HIDE DEF d, e, h
    <3>2. IsParent(Parent(d, h), d, h) /\ IsParent(Parent(e, h), e, h)
      BY <2>3, ParentIs
    <3>3. Len(d) = Len(e)
      <4>1. Len(d) \in Nat /\ Len(e) \in Nat /\ Len(h) \in Nat
        BY <2>3 DEF Digests
      <4> QED BY <3>1, <3>2, <4>1 DEF IsParent
    <3>4. d = e
      BY <3>1, <3>3, <2>3, ParentSplits
    <3> QED BY <3>4, <2>1 DEF d, e
  <2> QED BY <2>3, <2>5, <2>6
<1>3. \A k \in Nat : k \in F
  <2> HIDE DEF F
  <2> QED BY <1>1, <1>2, NatInduct
<1>4. u[N - N] = v[N - N] /\ N - N = 0
  BY <1>0, <1>3
<1> QED BY <1>0, <1>4

\* The steps of a proof are the partners of the path.
LEMMA ProofIs ==
  ASSUME NEW leaves \in Receipted, NEW who \in DOMAIN leaves, NEW rows, rows = OrderedLeaves(leaves)
  PROVE /\ IsRows(rows) /\ Len(MerkleProof(leaves, who)) = Height(rows)
        /\ \A n \in 1..Height(rows) :
              LET p == Place(rows, who)[n - 1]
                  level == Up(rows)[n - 1]
                  sibling == IF p % 2 = 0 THEN p + 1 ELSE p - 1
              IN  MerkleProof(leaves, who)[n] =
                     [left |-> sibling < p,
                      hash |-> IF sibling < Len(level) THEN level[sibling + 1] ELSE level[p + 1]]
<1> DEFINE h == Height(rows)
<1>1. IsRows(rows)
  BY RowsAre
<1>2. h \in Nat /\ Levels(rows) = [n \in 1..(h + 1) |-> Up(rows)[n - 1]] /\ Len(Levels(rows)) = h + 1
  BY <1>1, HeightIs DEF IsRows, IsLevel
<1> HIDE DEF h
<1>3. (h + 1) - 1 = h /\ \A n \in 1..h : n \in 1..(h + 1)
  BY <1>2
<1> DEFINE step(n, level) ==
             LET p == Place(rows, who)[n - 1]
                 sibling == IF p % 2 = 0 THEN p + 1 ELSE p - 1
             IN  [left |-> sibling < p,
                  hash |-> IF sibling < Len(level) THEN level[sibling + 1] ELSE level[p + 1]]
<1>4. MerkleProof(leaves, who) = [n \in 1..(Len(Levels(rows)) - 1) |-> step(n, Levels(rows)[n])]
  BY DEF MerkleProof
<1> HIDE DEF step
<1>5. MerkleProof(leaves, who) = [n \in 1..h |-> step(n, Up(rows)[n - 1])]
  <2>1. \A n \in 1..h : Levels(rows)[n] = Up(rows)[n - 1]
    BY <1>2, <1>3
  <2> QED BY <1>2, <1>3, <1>4, <2>1
<1>6. Len(MerkleProof(leaves, who)) = h
  BY <1>2, <1>5
<1>7. \A n \in 1..h : MerkleProof(leaves, who)[n] = step(n, Up(rows)[n - 1])
  BY <1>5
<1> QED BY <1>1, <1>6, <1>7 DEF h, step

\* One step up the tree.
LEMMA StepsUp ==
  ASSUME NEW level, NEW z, IsLevel(level, z), NEW p \in Nat, p < Len(level), NEW step,
         step = LET sibling == IF p % 2 = 0 THEN p + 1 ELSE p - 1
                IN  [left |-> sibling < p,
                     hash |-> IF sibling < Len(level) THEN level[sibling + 1] ELSE level[p + 1]]
  PROVE /\ step.hash \in Digests /\ step.left \in BOOLEAN
        /\ p \div 2 < Len(Above(level))
        /\ Climbed(step, level[p + 1]) = Above(level)[(p \div 2) + 1]
<1> DEFINE q == (p \div 2) + 1
<1>1. Len(level) \in Nat \ {0} /\ \A k \in 1..Len(level) : level[k] \in Digests
  BY ElementOfSeq DEF IsLevel
<1>2. /\ q \in 1..((Len(level) + 1) \div 2) /\ q = (p \div 2) + 1
      /\ p % 2 = 0 => p + 1 = 2 * q - 1
      /\ p % 2 # 0 => p + 1 = 2 * q
      /\ p % 2 \in {0, 1}
  BY <1>1
<1> HIDE DEF q
<1>3. /\ q \in 1..Len(Above(level))
      /\ Above(level)[q] = Parent(level[2 * q - 1], Partner(level, q))
  BY <1>2, AboveIsLevel
<1>4. (p \div 2) + 1 = q /\ p \div 2 < Len(Above(level))
  <2>1. Len(Above(level)) \in Nat /\ p \div 2 \in Nat
    BY <1>1, AboveIsLevel DEF IsLevel
  <2> QED BY <1>2, <1>3, <2>1
<1>5. CASE p % 2 = 0
  <2>1. step.left = FALSE /\ step.hash = IF p + 1 < Len(level) THEN level[p + 2] ELSE level[p + 1]
    <3>1. (p + 1 < p) = FALSE /\ (p + 1) + 1 = p + 2
      OBVIOUS
    <3>2. step = [left |-> p + 1 < p,
                  hash |-> IF p + 1 < Len(level) THEN level[(p + 1) + 1] ELSE level[p + 1]]
      BY <1>5, Zenon
    <3>3. step.left = (p + 1 < p)
          /\ step.hash = IF p + 1 < Len(level) THEN level[(p + 1) + 1] ELSE level[p + 1]
      BY <3>2
    <3> QED BY <3>1, <3>3, Zenon
  <2>2. step.hash = Partner(level, q) /\ level[p + 1] = level[2 * q - 1]
    <3>1. p + 1 = 2 * q - 1 /\ p + 2 = 2 * q /\ (p + 1 < Len(level) <=> 2 * q <= Len(level))
      BY <1>1, <1>2, <1>5
    <3> QED BY <2>1, <3>1 DEF Partner
  <2>3. step.hash \in Digests
    <3>1. p + 1 \in 1..Len(level) /\ (p + 1 < Len(level) => p + 2 \in 1..Len(level))
      BY <1>1
    <3> QED BY <1>1, <2>1, <3>1
  <2>4. Climbed(step, level[p + 1]) = Above(level)[q]
    BY <2>1, <2>2, <1>3 DEF Climbed
  <2>5. step.left \in BOOLEAN
    BY <2>1
  <2> QED BY <1>4, <2>3, <2>4, <2>5
<1>6. CASE p % 2 # 0
  <2>1. p + 1 = 2 * q /\ p = 2 * q - 1 /\ p - 1 < p /\ p - 1 < Len(level) /\ (p - 1) + 1 = p /\ p \in 1..Len(level)
        /\ 2 * q <= Len(level)
    BY <1>1, <1>2, <1>6
  <2>2. step.left = TRUE /\ step.hash = level[p]
    BY <1>6, <2>1
  <2>3. Climbed(step, level[p + 1]) = Above(level)[q]
    BY <2>1, <2>2, <1>3 DEF Climbed, Partner
  <2>4. step.hash \in Digests /\ step.left \in BOOLEAN
    BY <1>1, <2>1, <2>2
  <2> QED BY <1>4, <2>3, <2>4
<1> QED BY <1>5, <1>6

\* The path of a miner's leaf is in the tree and ends at the root.
LEMMA ProofLeads ==
  ASSUME NEW leaves \in Receipted, NEW who \in DOMAIN leaves
  PROVE /\ IsProof(MerkleProof(leaves, who))
        /\ Climb(Leaf(who, leaves[who]), MerkleProof(leaves, who))[Len(MerkleProof(leaves, who))]
              = MerkleRoot(leaves)
<1> DEFINE rows == OrderedLeaves(leaves)
           proof == MerkleProof(leaves, who)
           leaf == Leaf(who, leaves[who])
           h == Height(rows)
           up == Up(rows)
           place == Place(rows, who)
           climb == Climb(leaf, proof)
<1>1. /\ IsRows(rows) /\ Len(proof) = h /\ h \in 0..Len(rows) /\ h \in Nat /\ Len(rows) \in Nat
      /\ leaf \in Digests /\ Len(up[h]) = 1 /\ MerkleRoot(leaves) = up[h][1]
      /\ place[0] = Rank(leaves, who) - 1 /\ Rank(leaves, who) \in 1..Len(rows)
      /\ rows[Rank(leaves, who)] = leaf
  <2>1. DOMAIN leaves # {}
    OBVIOUS
  <2>2. /\ IsRows(rows) /\ Len(proof) = h /\ leaf \in Digests
        /\ place[0] = Rank(leaves, who) - 1
    BY ProofIs, PlaceIs, LeafIsDigest
  <2>3. h \in 0..Len(rows) /\ Len(rows) \in Nat /\ Len(up[h]) = 1
    BY <2>2, HeightIs DEF IsRows, IsLevel
  <2>4. MerkleRoot(leaves) = up[h][1]
    BY <2>1, RootIs
  <2>5. Rank(leaves, who) \in 1..Len(rows) /\ rows[Rank(leaves, who)] = leaf
    BY RankIs, RowsAre
  <2> HIDE DEF rows, proof, leaf, h, up, place
  <2>6. h \in Nat
    BY <2>3
  <2> QED BY <2>2, <2>3, <2>4, <2>5, <2>6
<1>2. ASSUME NEW n \in 1..h
      PROVE /\ n \in 1..Len(rows) /\ n - 1 \in 0..Len(rows)
            /\ up[n] = Above(up[n - 1]) /\ IsLevel(up[n - 1], Size(rows, n - 1))
            /\ place[n] = place[n - 1] \div 2
            /\ place[n - 1] \in Nat
  <2>1. n \in 1..Len(rows) /\ n - 1 \in 0..Len(rows)
    <3> HIDE DEF h, rows
    <3> QED BY <1>1
  <2> QED BY <2>1, <1>1, UpIs, UpIsLevel, PlaceIs
<1>3. ASSUME NEW n \in 1..h
      PROVE proof[n] = LET sibling == IF place[n - 1] % 2 = 0 THEN place[n - 1] + 1 ELSE place[n - 1] - 1
                       IN  [left |-> sibling < place[n - 1],
                            hash |-> IF sibling < Len(up[n - 1]) THEN up[n - 1][sibling + 1]
                                     ELSE up[n - 1][place[n - 1] + 1]]
  BY ProofIs
<1>4. up[0] = rows
  BY <1>1, UpIs
<1> HIDE DEF rows, proof, leaf, h, up, place
\* Every place is in its level,
<1>5. \A n \in 0..h : place[n] \in Nat /\ place[n] < Len(up[n])
  <2> DEFINE F == {n \in Nat : n <= h => place[n] \in Nat /\ place[n] < Len(up[n])}
  <2>1. 0 \in F
    <3>1. place[0] \in Nat /\ place[0] < Len(rows)
      BY <1>1
    <3> QED BY <3>1, <1>4
  <2>2. ASSUME NEW n \in Nat, n \in F PROVE n + 1 \in F
    <3> SUFFICES ASSUME n + 1 <= h PROVE place[n + 1] \in Nat /\ place[n + 1] < Len(up[n + 1])
      OBVIOUS
    <3>1. n + 1 \in 1..h /\ (n + 1) - 1 = n /\ place[n] \in Nat /\ place[n] < Len(up[n])
      BY <1>1, <2>2
    <3>2. up[n + 1] = Above(up[n]) /\ IsLevel(up[n], Size(rows, n)) /\ place[n + 1] = place[n] \div 2
      BY <1>2, <3>1
    <3>3. place[n] \div 2 < Len(Above(up[n]))
      BY <3>1, <3>2, StepsUp
    <3>4. place[n] \div 2 \in Nat
      BY <3>1
    <3> QED BY <3>2, <3>3, <3>4
  <2>3. \A n \in Nat : n \in F
    <3> HIDE DEF F
    <3> QED BY <2>1, <2>2, NatInduct
  <2> QED BY <2>3, <1>1
\* so that every step is a digest of the tree,
<1>6. ASSUME NEW n \in 1..h
      PROVE /\ proof[n].hash \in Digests /\ proof[n].left \in BOOLEAN
            /\ Climbed(proof[n], up[n - 1][place[n - 1] + 1]) = up[n][place[n] + 1]
  <2>1. n - 1 \in 0..h
    BY <1>1
  <2>2. place[n - 1] \in Nat /\ place[n - 1] < Len(up[n - 1])
    BY <1>5, <2>1
  <2>3. up[n] = Above(up[n - 1]) /\ IsLevel(up[n - 1], Size(rows, n - 1)) /\ place[n] = place[n - 1] \div 2
    BY <1>2
  <2>4. /\ proof[n].hash \in Digests /\ proof[n].left \in BOOLEAN
        /\ Climbed(proof[n], up[n - 1][place[n - 1] + 1]) = Above(up[n - 1])[(place[n - 1] \div 2) + 1]
    BY <2>2, <2>3, <1>3, StepsUp
  <2> QED BY <2>3, <2>4
<1>7. IsProof(proof)
  BY <1>1, <1>6 DEF IsProof
\* and the climb goes along the path.
<1>8. climb[0] = leaf /\ \A n \in 1..h : climb[n] = Climbed(proof[n], climb[n - 1])
  BY <1>1, <1>7, ClimbIs
<1> HIDE DEF climb
<1>9. \A n \in 0..h : climb[n] = up[n][place[n] + 1]
  <2> DEFINE F == {n \in Nat : n <= h => climb[n] = up[n][place[n] + 1]}
  <2>1. 0 \in F
    <3>1. place[0] + 1 = Rank(leaves, who)
      BY <1>1
    <3> QED BY <3>1, <1>1, <1>4, <1>8
  <2>2. ASSUME NEW n \in Nat, n \in F PROVE n + 1 \in F
    <3> SUFFICES ASSUME n + 1 <= h PROVE climb[n + 1] = up[n + 1][place[n + 1] + 1]
      OBVIOUS
    <3>1. n + 1 \in 1..h /\ (n + 1) - 1 = n /\ climb[n] = up[n][place[n] + 1]
      BY <1>1, <2>2
    <3> QED BY <3>1, <1>6, <1>8
  <2>3. \A n \in Nat : n \in F
    <3> HIDE DEF F
    <3> QED BY <2>1, <2>2, NatInduct
  <2> QED BY <2>3, <1>1
<1>10. climb[h] = up[h][1]
  <2>1. h \in 0..h
    BY <1>1
  <2>2. place[h] = 0
    <3>1. \A a \in Nat : a < 1 => a = 0
      OBVIOUS
    <3>2. place[h] \in Nat /\ place[h] < Len(up[h])
      BY <1>5, <2>1, Zenon
    <3>3. place[h] < 1
      BY <1>1, <3>2, Zenon
    <3> QED BY <3>1, <3>2, <3>3, Zenon
  <2> QED BY <1>9, <2>1, <2>2
<1> QED BY <1>1, <1>7, <1>10 DEF proof, climb, leaf

(***************************************************************************)
(* The root binds the receipts, however many there are: other receipts     *)
(* have another root, the proof of a miner leads to the root from its leaf *)
(* and from no other, and what verifies under the root is a receipt        *)
(* (core/transcript.py merkle_root, merkle_proof, check_proof,             *)
(* verify_leaf).                                                           *)
(***************************************************************************)
LEMMA RootBindsAll == RootBinds
<1> DEFINE shown == {[leaves |-> leaves, root |-> MerkleRoot(leaves)] : leaves \in Receipted}
           claims == UNION {{Leaf(h, leaves[h]) : h \in DOMAIN leaves} : leaves \in Receipted}
<1>1. ASSUME NEW p \in shown PROVE p.leaves \in Receipted /\ p.root = MerkleRoot(p.leaves)
  OBVIOUS
<1>2. ASSUME NEW one \in shown, NEW two \in shown, one.root = two.root PROVE one = two
  <2>1. /\ one.leaves \in Receipted /\ one.root = MerkleRoot(one.leaves)
        /\ two.leaves \in Receipted /\ two.root = MerkleRoot(two.leaves)
    BY <1>1
  <2> DEFINE a == one.leaves  b == two.leaves
  <2> HIDE DEF a, b
  <2>2. \A h \in DOMAIN a : h \in DOMAIN b /\ b[h] = a[h]
    BY <2>1, <1>2, RootsDiffer DEF a, b
  <2>3. \A h \in DOMAIN b : h \in DOMAIN a /\ a[h] = b[h]
    BY <2>1, <1>2, RootsDiffer DEF a, b
  <2>4. a = [h \in DOMAIN a |-> a[h]] /\ b = [h \in DOMAIN b |-> b[h]]
    BY <2>1, ReceiptsAssumption DEF a, b
  <2>5. a = b
    BY <2>2, <2>3, <2>4
  <2>6. one = [leaves |-> a, root |-> one.root] /\ two = [leaves |-> b, root |-> two.root]
    BY DEF a, b
  <2> QED BY <1>2, <2>5, <2>6
<1>3. ASSUME NEW claim \in claims
      PROVE claim \in Digests /\ claim = Leaf(claim[1], claim[2])
  <2>1. PICK told \in Receipted : \E h \in DOMAIN told : claim = Leaf(h, told[h])
    OBVIOUS
  <2>2. PICK h \in DOMAIN told : claim = Leaf(h, told[h])
    BY <2>1
  <2> QED BY <2>2, LeafIsDigest
<1>4. ASSUME NEW leaves \in Receipted, NEW who \in DOMAIN leaves, NEW claim \in claims
      PROVE CheckProof(claim, MerkleProof(leaves, who), MerkleRoot(leaves))
               <=> claim = Leaf(who, leaves[who])
  <2> DEFINE proof == MerkleProof(leaves, who)
             leaf == Leaf(who, leaves[who])
  <2>1. IsProof(proof) /\ Climb(leaf, proof)[Len(proof)] = MerkleRoot(leaves)
    BY ProofLeads
  <2>2. leaf \in Digests /\ claim \in Digests
    BY <1>3, LeafIsDigest
  <2> HIDE DEF proof, leaf
  <2>3. ASSUME Climb(claim, proof)[Len(proof)] = MerkleRoot(leaves) PROVE claim = leaf
    BY <2>1, <2>2, <2>3, OneLeafPerProof
  <2>4. CheckProof(claim, proof, MerkleRoot(leaves)) <=> claim = leaf
    BY <2>1, <2>3 DEF CheckProof
  <2> QED BY <2>4 DEF proof, leaf
<1>5. ASSUME NEW leaves \in Receipted, NEW claim \in claims
      PROVE VerifyLeaf(claim[1], claim[2], leaves, MerkleRoot(leaves))
               <=> \E who \in DOMAIN leaves : claim = Leaf(who, leaves[who])
  <2>1. ASSUME VerifyLeaf(claim[1], claim[2], leaves, MerkleRoot(leaves))
        PROVE \E who \in DOMAIN leaves : claim = Leaf(who, leaves[who])
    <3>1. claim[1] \in DOMAIN leaves /\ leaves[claim[1]] = claim[2]
      BY <2>1 DEF VerifyLeaf
    <3> QED BY <3>1, <1>3
  <2>2. ASSUME NEW who \in DOMAIN leaves, claim = Leaf(who, leaves[who])
        PROVE VerifyLeaf(claim[1], claim[2], leaves, MerkleRoot(leaves))
    <3>1. claim[1] = who /\ claim[2] = leaves[who]
      BY <2>2, LeafIsDigest
    <3> QED BY <3>1 DEF VerifyLeaf
  <2> QED BY <2>1, <2>2
<1> HIDE DEF shown, claims
<1>6. \A p \in shown : \A who \in DOMAIN p.leaves : \A claim \in claims :
         CheckProof(claim, MerkleProof(p.leaves, who), p.root) <=> claim = Leaf(who, p.leaves[who])
  BY <1>1, <1>4
<1>7. \A p \in shown : \A claim \in claims :
         VerifyLeaf(claim[1], claim[2], p.leaves, p.root)
            <=> \E who \in DOMAIN p.leaves : claim = Leaf(who, p.leaves[who])
  BY <1>1, <1>5
<1>8. \A one, two \in shown : one.root = two.root => one = two
  BY <1>2
<1> QED BY <1>6, <1>7, <1>8 DEF RootBinds, shown, claims

\* RootBindsReceipts: what is replayed is what the root binds.
THEOREM RootAlwaysBinds == RowSpec => []RootBindsReceipts
<1>1. RootBindsReceipts
  BY RootBindsAll DEF RootBindsReceipts
<1> QED BY <1>1, PTL

-----------------------------------------------------------------------------
(* Settling a round *)

USE BoundsAssumption, MinersAssumption, PositionAssumption, WorthAssumption

\* A round that is being settled is a round.
Bounded == pc # "idle" => epoch \in Epochs

\* Every miner that is not banned is on the records by the end of the evaluation,
\* and a record without a failure is of a miner that was mirrored.
Listed ==
    /\ pc = "miners" => Miners \ (banned \cup mirror) \subseteq records
    /\ pc \notin {"idle", "miners"} => Miners \ banned \subseteq records
    /\ pc # "idle" => records \subseteq mirror \cup failed

\* A flag of the history is still to be found by collect_fraud, or an appeal or an
\* unread document takes it away.
FlagsToFind ==
    pc = "fraud" =>
        \A p \in Epochs : \A m \in Miners :
            <<p, m>> \in known => m \in Flagged(p) \/ <<p, m>> \in upheld \/ p \in unread

\* collect_fraud has found it.
FlagsFound ==
    pc \in {"duplicates", "scores", "weights"} =>
        \A p \in Window : \A m \in records :
            <<p, m>> \in known => m \in failed \/ <<p, m>> \in upheld \/ p \in unread

\* Equal digests are found by the comparison, whatever the records say.
CopiesFound ==
    pc \in {"scores", "weights"} =>
        \A m, n \in mirror :
            Position[n] < Position[m] =>
                /\ Same(Weights, m, n) => "model" \in zeroed[m]
                /\ Same(Routers, m, n) => "router" \in zeroed[m]

\* A duplicated part scores in none of its pools.
CopiesZeroed ==
    pc = "weights" =>
        \A m \in Miners : \A part \in zeroed[m] : scores[m] \cap PoolsOf(part) = {}

Inv ==
    /\ TypeOK
    /\ Bounded
    /\ Listed
    /\ FlagsToFind
    /\ FlagsFound
    /\ CopiesFound
    /\ CopiesZeroed
    /\ CopiedFromClean

-----------------------------------------------------------------------------
\* What missing some documents costs is a number.
LEMMA MissedAreCounted ==
    ASSUME NEW missed \in SUBSET Window
    PROVE  IsFiniteSet(missed) /\ Cardinality(missed) \in Nat
<1>1. IsFiniteSet(0..MaxEpoch)
  BY FS_Interval
<1>2. missed \subseteq 0..MaxEpoch
  BY DEF Window, Epochs
<1> QED BY <1>1, <1>2, FS_Subset, FS_CardinalityType

\* What fetch returns is a document.
LEMMA FetchType == TypeOK => fetch \in Document \cup {Nothing}
  BY DEF TypeOK, fetch, Document

\* A forgotten round has the right type.
LEMMA NoScores ==
    /\ [m \in Miners |-> {}] \in [Miners -> SUBSET Parts]
    /\ [m \in Miners |-> {}] \in [Miners -> SUBSET Pools]
  OBVIOUS

\* The first state satisfies the invariant.
LEMMA InitInv == Init => Inv
<1> SUFFICES ASSUME Init PROVE Inv
  OBVIOUS
<1>1. TypeOK
  <2>1. /\ zeroed \in [Miners -> SUBSET Parts]
        /\ scores \in [Miners -> SUBSET Pools]
    BY NoScores DEF Init
  <2>2. epoch \in 0..MaxEpoch + 1 /\ faults \in 0..MaxFaults /\ crashes \in 0..MaxCrashes
    BY DEF Init
  <2> QED BY <2>1, <2>2 DEF Init, TypeOK, Phases
<1>2. Bounded /\ Listed /\ FlagsToFind /\ FlagsFound /\ CopiesFound /\ CopiesZeroed /\ CopiedFromClean
  BY DEF Init, Bounded, Listed, FlagsToFind, FlagsFound, CopiesFound, CopiesZeroed, CopiedFromClean
<1> QED BY <1>1, <1>2 DEF Inv

\* Every step keeps the types.
LEMMA NextType == Inv /\ [Next]_vars => TypeOK'
<1> SUFFICES ASSUME Inv, [Next]_vars PROVE TypeOK'
  OBVIOUS
<1> USE DEF TypeOK, Phases
<1>0. TypeOK /\ Bounded
  BY DEF Inv
<1>1. CASE SetUp
  BY <1>0, <1>1 DEF SetUp, doc, found, Epochs
<1>2. CASE EvaluateMiners
  BY <1>0, <1>2 DEF EvaluateMiners, doc
<1>3. CASE CoordinatorPhase
  <2>1. known' \in SUBSET (Epochs \X Miners)
    <3> SUFFICES ASSUME NEW x \in known' PROVE x \in Epochs \X Miners
      OBVIOUS
    <3>1. PICK p \in Epochs : x \in {<<p, m>> : m \in Standing(p)}
      BY <1>3 DEF CoordinatorPhase
    <3>2. PICK m \in Standing(p) : x = <<p, m>>
      BY <3>1
    <3> QED BY <3>2 DEF Standing
  <2>2. coordinated' \in Document \cup {Nothing}
    BY <1>0, <1>3, FetchType DEF CoordinatorPhase
  <2>3. faults' \in 0..MaxFaults /\ unread' \in SUBSET Epochs
    BY <1>0, <1>3 DEF CoordinatorPhase, Bounded
  <2> QED BY <1>0, <1>3, <2>1, <2>2, <2>3 DEF CoordinatorPhase, doc, found
<1>4. CASE CollectFraud
  <2>1. PICK missed \in SUBSET (Window \ {epoch}) :
          /\ Cardinality(missed) <= MaxFaults - faults
          /\ faults' = faults + Cardinality(missed)
          /\ unread' = unread \cup missed
          /\ failed' = failed \cup (records \cap UNION {Flagged(p) : p \in Window \ missed})
    BY <1>4 DEF CollectFraud
  <2>2. Cardinality(missed) \in Nat
    BY MissedAreCounted
  <2>3. faults' \in 0..MaxFaults
    BY <1>0, <2>1, <2>2 DEF Bounded
  <2>4. unread' \in SUBSET Epochs /\ failed' \in SUBSET Miners
    BY <1>0, <2>1 DEF Window
  <2> QED BY <1>0, <1>4, <2>3, <2>4 DEF CollectFraud, doc, found
<1>5. CASE DuplicatesPhase
  <2>1. zeroed' \in [Miners -> SUBSET Parts]
    BY <1>5 DEF DuplicatesPhase
  <2> QED BY <1>0, <1>5, <2>1 DEF DuplicatesPhase, doc, found
<1>6. CASE ScoreMiners
  <2>1. scores' \in [Miners -> SUBSET Pools]
    BY <1>6 DEF ScoreMiners
  <2>2. failed' \in SUBSET Miners
    BY <1>0, <1>6 DEF ScoreMiners
  <2> QED BY <1>0, <1>6, <2>1, <2>2 DEF ScoreMiners, doc, found
<1>7. CASE MinerModeReport
  <2>1. epoch \in Epochs
    BY <1>0, <1>7 DEF MinerModeReport, Bounded
  <2>2. epoch' \in 0..MaxEpoch + 1
    BY <1>7, <2>1 DEF MinerModeReport, Epochs
  <2>3. zeroed' \in [Miners -> SUBSET Parts] /\ scores' \in [Miners -> SUBSET Pools]
    BY <1>7, NoScores DEF MinerModeReport, Forget
  <2> QED BY <1>0, <1>7, <2>2, <2>3 DEF MinerModeReport, Forget
<1>8. CASE Coordinator
  <2>1. CASE Publish
    BY <1>0, <1>8, <2>1 DEF Coordinator, Publish, round, found
  <2>2. CASE Complete
    BY <1>0, <1>8, <2>2 DEF Coordinator, Complete, round, found
  <2>3. CASE Uphold
    <3>1. PICK p \in Epochs : \E m \in Standing(p) : upheld' = upheld \cup {<<p, m>>}
      BY <2>3 DEF Uphold
    <3>2. PICK m \in Miners : upheld' = upheld \cup {<<p, m>>}
      BY <3>1 DEF Standing
    <3>3. upheld' \in SUBSET (Epochs \X Miners)
      BY <1>0, <3>2
    <3> QED BY <1>0, <1>8, <2>3, <3>3 DEF Coordinator, Uphold, round, found
  <2> QED BY <1>8, <2>1, <2>2, <2>3 DEF Coordinator
<1>9. CASE Deadline
  BY <1>0, <1>9 DEF Deadline, doc, found
<1>10. CASE Crash
  <2>1. zeroed' \in [Miners -> SUBSET Parts] /\ scores' \in [Miners -> SUBSET Pools]
    BY <1>10, NoScores DEF Crash, Forget
  <2>2. crashes' \in 0..MaxCrashes
    BY <1>0, <1>10 DEF Crash
  <2> QED BY <1>0, <1>10, <2>1, <2>2 DEF Crash, Forget, doc
<1>11. CASE UNCHANGED vars
  BY <1>0, <1>11 DEF vars, doc, round, found
<1> QED BY <1>1, <1>2, <1>3, <1>4, <1>5, <1>6, <1>7, <1>8, <1>9, <1>10, <1>11
         DEF Next, Settle

-----------------------------------------------------------------------------
\* Everything but the types: one step per action.
Rest == Bounded /\ Listed /\ FlagsToFind /\ FlagsFound /\ CopiesFound /\ CopiesZeroed
        /\ CopiedFromClean

\* Between rounds all that is left to say is vacuous.
LEMMA IdleRest == pc = "idle" => Rest
  BY DEF Rest, Bounded, Listed, FlagsToFind, FlagsFound, CopiesFound, CopiesZeroed,
         CopiedFromClean

\* A round is set up: what is not mirrored is on the records, with a failure.
LEMMA SetUpRest == Inv /\ SetUp => Rest'
  BY DEF Inv, TypeOK, SetUp, Rest, Bounded, Listed, FlagsToFind, FlagsFound, CopiesFound,
         CopiesZeroed, CopiedFromClean

\* The evaluation puts every mirrored miner on the records.
LEMMA EvaluateRest == Inv /\ EvaluateMiners => Rest'
  BY DEF Inv, TypeOK, EvaluateMiners, Rest, Bounded, Listed, FlagsToFind,
         FlagsFound, CopiesFound, CopiesZeroed, CopiedFromClean

\* A flag that stands when the wait ends is in the document just read, if it was read.
LEMMA FlagIsRead ==
    ASSUME TypeOK, epoch \in Epochs, NEW m \in Standing(epoch)
    PROVE  fetch # Nothing => m \in Named(fetch, {"evidence"}) \ fetch.upheld
<1> DEFINE rows == {r \in published : r.epoch = epoch}
<1>1. PICK r \in rows : r.miner = m /\ r.kind = "evidence"
  BY DEF Standing
<1>2. fetch = [rows |-> rows, complete |-> complete,
               upheld |-> {n \in Miners : <<epoch, n>> \in upheld}]
  BY <1>1 DEF fetch
<1>3. m \in Miners /\ <<epoch, m>> \notin upheld
  BY DEF Standing
<1> QED BY <1>1, <1>2, <1>3 DEF Named

\* The wait ends: the flags of the history are yet to be found.
LEMMA CoordinatorPhaseRest == Inv /\ CoordinatorPhase => Rest'
<1> SUFFICES ASSUME Inv, CoordinatorPhase PROVE Rest'
  OBVIOUS
<1>1. TypeOK /\ epoch \in Epochs
  BY DEF Inv, Bounded, CoordinatorPhase
<1>2. FlagsToFind'
  <2> SUFFICES ASSUME NEW p \in Epochs, NEW m \in Miners, <<p, m>> \in known'
               PROVE  m \in Flagged(p)' \/ <<p, m>> \in upheld' \/ p \in unread'
    BY DEF FlagsToFind
  <2>1. m \in Standing(p)
    <3>1. PICK q \in Epochs : <<p, m>> \in {<<q, n>> : n \in Standing(q)}
      BY DEF CoordinatorPhase
    <3> QED BY <3>1
  <2>2. CASE p # epoch
    BY <2>1, <2>2 DEF CoordinatorPhase, Flagged, Standing, doc
  <2>3. CASE p = epoch /\ coordinated' = Nothing /\ unread' = unread \cup {epoch}
    BY <2>3
  <2>4. CASE p = epoch /\ coordinated' = fetch
    <3>1. CASE fetch # Nothing
      BY <1>1, <2>1, <2>4, <3>1, FlagIsRead DEF Flagged, CoordinatorPhase, Named
    <3>2. CASE fetch = Nothing
      <4>1. [epoch |-> epoch, miner |-> m, kind |-> "evidence"] \in published
        BY <2>1, <2>4 DEF Standing
      <4>2. fetch \in Document
        BY <1>1, <4>1 DEF fetch, TypeOK, Document
      <4> QED BY <3>2, <4>2, NothingAssumption
    <3> QED BY <3>1, <3>2
  <2> QED BY <2>2, <2>3, <2>4 DEF CoordinatorPhase
<1>3. Bounded' /\ Listed'
  BY DEF Inv, CoordinatorPhase, Bounded, Listed
<1>4. FlagsFound' /\ CopiesFound' /\ CopiesZeroed' /\ CopiedFromClean'
  BY DEF CoordinatorPhase, FlagsFound, CopiesFound, CopiesZeroed, CopiedFromClean
<1> QED BY <1>2, <1>3, <1>4 DEF Rest

\* The flagged are zeroed.
LEMMA CollectFraudRest == Inv /\ CollectFraud => Rest'
<1> SUFFICES ASSUME Inv, CollectFraud PROVE Rest'
  OBVIOUS
<1>1. PICK missed \in SUBSET (Window \ {epoch}) :
        /\ unread' = unread \cup missed
        /\ failed' = failed \cup (records \cap UNION {Flagged(p) : p \in Window \ missed})
  BY DEF CollectFraud
<1>2. FlagsFound'
  <2> SUFFICES ASSUME NEW p \in Window, NEW m \in records, <<p, m>> \in known
               PROVE  m \in failed' \/ <<p, m>> \in upheld' \/ p \in unread'
    BY DEF FlagsFound, CollectFraud, Window
  <2>1. m \in Flagged(p) \/ <<p, m>> \in upheld \/ p \in unread
    BY DEF Inv, TypeOK, FlagsToFind, CollectFraud, Window
  <2>2. CASE p \in missed
    BY <1>1, <2>2
  <2>3. CASE p \notin missed
    BY <1>1, <2>1, <2>3 DEF CollectFraud, doc
  <2> QED BY <2>2, <2>3
<1>3. Bounded' /\ Listed'
  BY <1>1 DEF Inv, CollectFraud, Bounded, Listed
<1>4. FlagsToFind' /\ CopiesFound' /\ CopiesZeroed' /\ CopiedFromClean'
  BY DEF CollectFraud, FlagsToFind, CopiesFound, CopiesZeroed, CopiedFromClean
<1> QED BY <1>2, <1>3, <1>4 DEF Rest

\* What the comparison zeroes, and why.
LEMMA DuplicatesRest == Inv /\ DuplicatesPhase => Rest'
<1> SUFFICES ASSUME Inv, DuplicatesPhase PROVE Rest'
  OBVIOUS
<1>1. \A m \in mirror : zeroed'[m] =
        {part \in Parts : \E n \in mirror : Position[n] < Position[m] /\ Matches(part, m, n)}
  BY DEF Inv, TypeOK, DuplicatesPhase
<1>2. CopiesFound'
  <2> SUFFICES ASSUME NEW m \in mirror, NEW n \in mirror, Position[n] < Position[m]
               PROVE  /\ Same(Weights, m, n) => "model" \in zeroed'[m]
                      /\ Same(Routers, m, n) => "router" \in zeroed'[m]
    BY DEF CopiesFound, DuplicatesPhase, Same
  <2> QED BY <1>1 DEF Parts, Matches, SameModel
<1>3. CopiedFromClean'
  <2> SUFFICES ASSUME NEW m \in mirror, "model" \in zeroed'[m]
               PROVE  \E n \in mirror :
                        /\ Position[n] < Position[m]
                        /\ n \notin failed \/ Weights[n] = Weights[m] \/ Changes[n] = Changes[m]
    BY DEF CopiedFromClean, DuplicatesPhase
  <2>1. PICK n \in mirror : Position[n] < Position[m] /\ SameModel(m, n)
    BY <1>1 DEF Matches
  <2> QED BY <2>1 DEF SameModel, Same, OutputsChecked
<1>4. Bounded' /\ Listed' /\ FlagsToFind' /\ CopiesZeroed'
  BY DEF Inv, DuplicatesPhase, Bounded, Listed, FlagsToFind, CopiesZeroed
<1>5. FlagsFound'
  BY DEF Inv, DuplicatesPhase, FlagsFound, Window, doc
<1> QED BY <1>2, <1>3, <1>4, <1>5 DEF Rest

\* Scoring leaves a duplicated part nothing.
LEMMA ScoreRest == Inv /\ ScoreMiners => Rest'
<1> SUFFICES ASSUME Inv, ScoreMiners PROVE Rest'
  OBVIOUS
<1>1. PICK raised \in SUBSET (records \ failed), worth \in [Miners -> Worth] :
        /\ failed' = failed \cup raised
        /\ scores' = [m \in Miners |->
                        IF m \notin records \ (failed \cup raised) THEN {}
                        ELSE worth[m] \ UNION {PoolsOf(part) : part \in zeroed[m]}]
  BY DEF ScoreMiners
<1>2. CopiesZeroed'
  <2> SUFFICES ASSUME NEW m \in Miners, NEW part \in zeroed[m]
               PROVE  scores'[m] \cap PoolsOf(part) = {}
    BY DEF CopiesZeroed, ScoreMiners, PoolsOf
  <2> QED BY <1>1
<1>3. Bounded' /\ Listed'
  BY <1>1 DEF Inv, ScoreMiners, Bounded, Listed
<1>4. FlagsFound'
  BY <1>1 DEF Inv, ScoreMiners, FlagsFound, Window, doc
<1>5. FlagsToFind' /\ CopiesFound' /\ CopiedFromClean'
  BY DEF Inv, ScoreMiners, FlagsToFind, CopiesFound, CopiedFromClean, Same
<1> QED BY <1>2, <1>3, <1>4, <1>5 DEF Rest

\* The coordinator can lift a flag, and no more.
LEMMA CoordinatorRest == Inv /\ Coordinator => Rest'
<1> SUFFICES ASSUME Inv, Coordinator PROVE Rest'
  OBVIOUS
<1>1. upheld \subseteq upheld' /\ published \subseteq published'
  BY DEF Coordinator, Publish, Complete, Uphold
<1>2. FlagsToFind'
  <2> SUFFICES ASSUME pc = "fraud", NEW p \in Epochs, NEW m \in Miners, <<p, m>> \in known
               PROVE  m \in Flagged(p)' \/ <<p, m>> \in upheld' \/ p \in unread
    BY DEF FlagsToFind, Coordinator, round
  <2>1. m \in Flagged(p) \/ <<p, m>> \in upheld \/ p \in unread
    BY DEF Inv, FlagsToFind
  <2>2. ASSUME m \in Flagged(p) PROVE m \in Flagged(p)' \/ <<p, m>> \in upheld'
    BY <1>1, <2>2 DEF Flagged, Standing, Coordinator, round, Named
  <2> QED BY <1>1, <2>1, <2>2
<1>3. FlagsFound'
  BY <1>1 DEF Inv, Coordinator, FlagsFound, Window, round
<1>4. Bounded' /\ Listed' /\ CopiesFound' /\ CopiesZeroed' /\ CopiedFromClean'
  BY DEF Inv, Coordinator, round, Bounded, Listed, CopiesFound, CopiesZeroed,
         CopiedFromClean, Same, PoolsOf
<1> QED BY <1>2, <1>3, <1>4 DEF Rest

\* Time passes in the wait.
LEMMA DeadlineRest == Inv /\ Deadline => Rest'
  BY DEF Inv, Deadline, Rest, Bounded, Listed, FlagsToFind, FlagsFound, CopiesFound,
         CopiesZeroed, CopiedFromClean

\* Nothing moves.
LEMMA StutterRest == Inv /\ UNCHANGED vars => Rest'
<1> SUFFICES ASSUME Inv, UNCHANGED vars PROVE Rest'
  OBVIOUS
<1> USE DEF Inv, vars, doc, round, found
<1>1. FlagsToFind' /\ FlagsFound'
  BY DEF FlagsToFind, FlagsFound, Flagged, Standing, Named, Window
<1>2. Bounded' /\ Listed' /\ CopiesFound' /\ CopiesZeroed' /\ CopiedFromClean'
  BY DEF Bounded, Listed, CopiesFound, CopiesZeroed, CopiedFromClean, Same, PoolsOf
<1> QED BY <1>1, <1>2 DEF Rest

-----------------------------------------------------------------------------
\* The invariant of a round holds in every state.
THEOREM Invariance == Spec => []Inv
<1>1. Inv /\ [Next]_vars => Inv'
  <2> SUFFICES ASSUME Inv, [Next]_vars PROVE Inv'
    OBVIOUS
  <2>1. TypeOK'
    BY NextType
  <2>2. pc' = "idle" => Rest'
    BY IdleRest DEF Rest, Bounded, Listed, FlagsToFind, FlagsFound, CopiesFound,
       CopiesZeroed, CopiedFromClean
  <2>3. MinerModeReport \/ Crash => pc' = "idle"
    BY DEF MinerModeReport, Crash
  <2>4. Rest'
    BY <2>2, <2>3, SetUpRest, EvaluateRest, CoordinatorPhaseRest, CollectFraudRest,
       DuplicatesRest, ScoreRest, CoordinatorRest, DeadlineRest, StutterRest
       DEF Next, Settle
  <2> QED BY <2>1, <2>4 DEF Inv, Rest
<1> QED BY InitInv, <1>1, PTL DEF Spec

\* Type correctness of the round.
THEOREM TypeCorrect == Spec => []TypeOK
<1>1. Inv => TypeOK
  BY DEF Inv
<1> QED BY Invariance, <1>1, PTL

\* FlaggedIsNotPaid: a readable flag of the ban window that no appeal lifted costs
\* the miner the round, for any roster, ban and interleaving with the coordinator.
THEOREM FlagsCount == Spec => []FlaggedIsNotPaid
<1>1. Inv => FlaggedIsNotPaid
  <2> SUFFICES ASSUME Inv, pc = "weights", NEW m \in paid, NEW p \in Epochs,
                      <<p, m>> \in known, p <= epoch, epoch < p + BanEpochs
               PROVE  <<p, m>> \in upheld \/ p \in unread
    BY DEF FlaggedIsNotPaid
  <2>1. p \in Window
    BY DEF Window, Inv, TypeOK, Epochs
  <2>2. m \in records /\ m \notin failed
    BY DEF paid
  <2> QED BY <2>1, <2>2 DEF Inv, FlagsFound
<1> QED BY Invariance, <1>1, PTL

\* RosterIsReported: the report has a row for every miner that is not banned.
THEOREM RosterReported == Spec => []RosterIsReported
<1>1. Inv => RosterIsReported
  BY DEF Inv, Listed, RosterIsReported
<1> QED BY Invariance, <1>1, PTL

\* CopiedFromClean: outputs alone never count for a miner that has a failure.
THEOREM CopiesAreOfClean == Spec => []CopiedFromClean
<1>1. Inv => CopiedFromClean
  BY DEF Inv
<1> QED BY Invariance, <1>1, PTL

\* NoPartPaidTwice: of two miners with one file the later is not paid for it.
THEOREM PaidOnce == Spec => []NoPartPaidTwice
<1>1. Inv => NoPartPaidTwice
  <2> SUFFICES ASSUME Inv, pc = "weights", NEW m \in paid, NEW n \in paid, m # n
               PROVE  /\ Same(Weights, m, n) => "slm" \notin scores[m] \cap scores[n]
                      /\ Same(Routers, m, n) => "router" \notin scores[m] \cap scores[n]
    BY DEF NoPartPaidTwice
  <2>1. m \in mirror /\ n \in mirror /\ m \in Miners /\ n \in Miners
    BY DEF Inv, TypeOK, Listed, paid
  <2>2. Position[m] < Position[n] \/ Position[n] < Position[m]
    BY <2>1
  <2>3. ASSUME NEW a \in {m, n}, NEW b \in {m, n}, Position[b] < Position[a]
        PROVE  /\ Same(Weights, a, b) => "slm" \notin scores[a]
               /\ Same(Routers, a, b) => "router" \notin scores[a]
    <3>1. /\ Same(Weights, a, b) => "model" \in zeroed[a]
          /\ Same(Routers, a, b) => "router" \in zeroed[a]
      BY <2>1, <2>3 DEF Inv, CopiesFound
    <3>2. \A part \in zeroed[a] : scores[a] \cap PoolsOf(part) = {}
      BY <2>1 DEF Inv, CopiesZeroed
    <3> QED BY <3>1, <3>2 DEF PoolsOf
  <2> QED BY <2>2, <2>3 DEF Same
<1> QED BY Invariance, <1>1, PTL

\* The roster, the copies and the originals at once, for any roster and interleaving.
THEOREM SettledRight == Spec => []RoundIsSettledRight
<1> QED BY TypeCorrect, RosterReported, CopiesAreOfClean, PaidOnce, PTL DEF RoundIsSettledRight

---------------------------------------------------------------------------------
(* MinerPreparation: downloads, folders and records, for any answers, files, entries and stops. *)

-----------------------------------------------------------------------------
(* A file of the mirror *)

PartType == [size: Nat, sound: BOOLEAN]
GotType == [part: PartType, failures: Nat, end: {"running", "file", "refused"}]
FoundType == [end: {"read", "dropped", "refused"}, part: PartType]

LEMMA FetchPartType ==
  ASSUME NEW part \in PartType, NEW answer \in Answer
  PROVE FetchPart(Blob, part, answer) \in FoundType
<1>1. NoPart \in PartType
  BY DEF NoPart, PartType
<1>2. part.size \in Nat /\ part.sound \in BOOLEAN /\ NoPart.size \in Nat /\ NoPart.sound \in BOOLEAN
  BY <1>1 DEF PartType
<1>3. answer.bytes \in Nat /\ answer.sound \in BOOLEAN /\ Blob \in Nat
  BY DownloadAssumption DEF Answer
<1> DEFINE from == IF answer.status = 206 THEN part ELSE NoPart
           written == [size |-> from.size + answer.bytes,
                       sound |-> from.sound /\ answer.sound /\ from.size + answer.bytes <= Blob]
<1>4. written \in PartType
  BY <1>2, <1>3 DEF PartType
<1> HIDE DEF written
<1>5. \A end \in {"read", "dropped", "refused"}, left \in PartType : [end |-> end, part |-> left] \in FoundType
  BY DEF FoundType
<1>6. FetchPart(Blob, part, answer) =
        CASE answer.status = 404 -> [end |-> "refused", part |-> NoPart]
          [] answer.status = 416 -> [end |-> "read", part |-> part]
          [] answer.status = 429 \/ answer.status >= 500 -> [end |-> "dropped", part |-> part]
          [] answer.status = 206 /\ answer.at # part.size -> [end |-> "dropped", part |-> NoPart]
          [] answer.status \in {200, 206} -> [end |-> IF answer.cut THEN "dropped" ELSE "read", part |-> written]
          [] OTHER -> [end |-> "refused", part |-> part]
  BY DEF FetchPart, written
<1> QED BY <1>1, <1>4, <1>5, <1>6

LEMMA TryType ==
  ASSUME NEW got \in GotType, NEW answer \in Answer
  PROVE TryPart(Blob, got, answer) \in GotType
<1> DEFINE brought == FetchPart(Blob, got.part, answer)
<1>1. got.part \in PartType /\ got.failures \in Nat
  BY DEF GotType
<1>2. brought \in FoundType
  BY <1>1, FetchPartType
<1>3. TryPart(Blob, got, answer) =
        LET fails == IF brought.end = "dropped" /\ brought.part.size > got.part.size THEN 0
                        ELSE got.failures + 1
        IN  IF got.end # "running" THEN got
            ELSE IF brought.end = "refused" THEN [got EXCEPT !.part = brought.part, !.end = "refused"]
            ELSE IF brought.end = "read" /\ brought.part = [size |-> Blob, sound |-> TRUE]
            THEN [got EXCEPT !.part = NoPart, !.end = "file"]
            ELSE [part |-> IF brought.end = "read" THEN NoPart ELSE brought.part, failures |-> fails,
                  end |-> IF fails >= MIRROR_ATTEMPTS THEN "refused" ELSE "running"]
  BY DEF TryPart
<1>4. NoPart \in PartType
  BY DEF NoPart, PartType
<1>5. brought.part \in PartType
  BY <1>2 DEF FoundType
<1> HIDE DEF brought
<1> DEFINE fails == IF brought.end = "dropped" /\ brought.part.size > got.part.size THEN 0
                       ELSE got.failures + 1
<1>6. fails \in Nat
  BY <1>1
<1>7. got.end \in {"running", "file", "refused"} /\ got = [part |-> got.part, failures |-> got.failures, end |-> got.end]
  BY DEF GotType
<1> HIDE DEF fails
<1>8. TryPart(Blob, got, answer) \in
        {got, [part |-> brought.part, failures |-> got.failures, end |-> "refused"],
         [part |-> NoPart, failures |-> got.failures, end |-> "file"],
         [part |-> NoPart, failures |-> fails, end |-> "refused"],
         [part |-> NoPart, failures |-> fails, end |-> "running"],
         [part |-> brought.part, failures |-> fails, end |-> "refused"],
         [part |-> brought.part, failures |-> fails, end |-> "running"]}
  BY <1>3, <1>7 DEF fails
<1> QED BY <1>1, <1>4, <1>5, <1>6, <1>8 DEF GotType

NewGot(part) == [part |-> part, failures |-> 0, end |-> "running"]

LEMMA DownloadIs ==
  ASSUME NEW part \in PartType, NEW answers \in Transfers
  PROVE LET got == MirrorFile(Blob, part, answers)
        IN  /\ got \in [0..Len(answers) -> GotType] /\ got[0] = NewGot(part)
            /\ \A n \in 1..Len(answers) : got[n] = TryPart(Blob, got[n - 1], answers[n])
<1> DEFINE N == Len(answers)
           G == [x \in (1..N) \X GotType |-> TryPart(Blob, x[2], answers[x[1]])]
           good(g) == g = [n \in 0..N |-> IF n = 0 THEN [part |-> part, failures |-> 0, end |-> "running"]
                                          ELSE TryPart(Blob, g[n - 1], answers[n])]
<1>1. answers \in Seq(Answer) /\ N \in Nat /\ \A n \in 1..N : answers[n] \in Answer
  <2>1. answers \in Seq(Answer)
    BY DownloadAssumption
  <2> QED BY <2>1, ElementOfSeq, LenProperties
<1>2. G \in [(1..N) \X GotType -> GotType] /\ \A n \in 1..N, x \in GotType : G[<<n, x>>] = TryPart(Blob, x, answers[n])
  <2>1. \A n \in 1..N, x \in GotType : TryPart(Blob, x, answers[n]) \in GotType
    BY <1>1, TryType
  <2> HIDE DEF N
  <2> QED BY <2>1
<1>3. NewGot(part) \in GotType
  BY DEF NewGot, GotType
<1> HIDE DEF G
<1>4. PICK g : Iterated(g, GotType, NewGot(part), N, G)
  BY <1>1, <1>2, <1>3, Iterates
<1>5. good(g)
  <2>1. \A k \in 0..N : k # 0 => k \in 1..N /\ k - 1 \in 0..N
    BY <1>1
  <2> HIDE DEF N
  <2>2. ASSUME NEW k \in 0..N
        PROVE g[k] = IF k = 0 THEN [part |-> part, failures |-> 0, end |-> "running"]
                     ELSE TryPart(Blob, g[k - 1], answers[k])
    <3>1. CASE k = 0
      BY <3>1, <1>4 DEF Iterated, NewGot
    <3>2. CASE k # 0
      <4>1. g[k] = G[<<k, g[k - 1]>>] /\ g[k - 1] \in GotType
        BY <3>2, <2>1, <1>4 DEF Iterated
      <4> QED BY <4>1, <3>2, <2>1, <1>2
    <3> QED BY <3>1, <3>2
  <2>3. g = [k \in 0..N |-> g[k]]
    BY <1>4 DEF Iterated
  <2> QED BY <2>2, <2>3
<1> DEFINE f == CHOOSE g1 : good(g1)
<1>6. MirrorFile(Blob, part, answers) = f
  BY DEF MirrorFile
<1>7. good(f)
  BY <1>5
<1> HIDE DEF f
<1>8. f[0] = NewGot(part) /\ \A n \in 1..N : f[n] = TryPart(Blob, f[n - 1], answers[n])
  <2>1. 0 \in 0..N /\ \A k \in 1..N : k \in 0..N /\ k # 0
    BY <1>1
  <2> HIDE DEF N
  <2> QED BY <2>1, <1>7 DEF NewGot
<1>9. \A n \in 0..N : f[n] \in GotType
  <2> DEFINE F == {n \in Nat : n <= N => f[n] \in GotType}
  <2>1. 0 \in F
    BY <1>8, <1>3
  <2>2. ASSUME NEW n \in Nat, n \in F PROVE n + 1 \in F
    <3> SUFFICES ASSUME n + 1 <= N PROVE f[n + 1] \in GotType
      OBVIOUS
    <3>1. n + 1 \in 1..N /\ (n + 1) - 1 = n /\ f[n] \in GotType
      BY <1>1, <2>2
    <3> QED BY <3>1, <1>8, <1>1, TryType
  <2> HIDE DEF F
  <2>3. \A n \in Nat : n \in F
    BY <2>1, <2>2, NatInduct
  <2> QED BY <2>3, <1>1 DEF F
<1>10. f = [n \in 0..N |-> f[n]]
  BY <1>7
<1>11. f \in [0..N -> GotType]
  BY <1>9, <1>10
<1> QED BY <1>6, <1>8, <1>11

Failures(got, brought) ==
    IF brought.end = "dropped" /\ brought.part.size > got.part.size THEN 0 ELSE got.failures + 1
IsBlob(brought) == brought.end = "read" /\ brought.part = [size |-> Blob, sound |-> TRUE]
IsTried(got, brought, after) ==
    /\ brought.end = "refused" => after.end = "refused"
    /\ IsBlob(brought) => after.end = "file"
    /\ brought.end # "refused" /\ ~IsBlob(brought) =>
          /\ after.failures = Failures(got, brought)
          /\ after.part = IF brought.end = "read" THEN NoPart ELSE brought.part
          /\ after.end = IF Failures(got, brought) >= MIRROR_ATTEMPTS THEN "refused" ELSE "running"

LEMMA TryCases ==
  ASSUME NEW got \in GotType, NEW answer \in Answer, got.end = "running"
  PROVE IsTried(got, FetchPart(Blob, got.part, answer), TryPart(Blob, got, answer))
<1> DEFINE brought == FetchPart(Blob, got.part, answer)
           fails == Failures(got, brought)
<1>1. got.part \in PartType
  BY DEF GotType
<1>2. brought \in FoundType
  BY <1>1, FetchPartType
<1>3. TryPart(Blob, got, answer) =
        IF brought.end = "refused" THEN [got EXCEPT !.part = brought.part, !.end = "refused"]
        ELSE IF brought.end = "read" /\ brought.part = [size |-> Blob, sound |-> TRUE]
        THEN [got EXCEPT !.part = NoPart, !.end = "file"]
        ELSE [part |-> IF brought.end = "read" THEN NoPart ELSE brought.part, failures |-> fails,
              end |-> IF fails >= MIRROR_ATTEMPTS THEN "refused" ELSE "running"]
  BY DEF TryPart, Failures
<1>4. got = [part |-> got.part, failures |-> got.failures, end |-> got.end]
  BY DEF GotType
<1> HIDE DEF brought, fails
<1> DEFINE after == TryPart(Blob, got, answer)
<1>5. brought.end = "refused" => after.end = "refused"
  BY <1>3, <1>4
<1>6. IsBlob(brought) => after.end = "file"
  BY <1>3, <1>4 DEF IsBlob
<1>7. brought.end # "refused" /\ ~IsBlob(brought) =>
        after = [part |-> IF brought.end = "read" THEN NoPart ELSE brought.part, failures |-> fails,
                 end |-> IF fails >= MIRROR_ATTEMPTS THEN "refused" ELSE "running"]
  BY <1>3 DEF IsBlob
<1> HIDE DEF after
<1>8. brought.end # "refused" /\ ~IsBlob(brought) =>
        /\ after.failures = fails
        /\ after.part = IF brought.end = "read" THEN NoPart ELSE brought.part
        /\ after.end = IF fails >= MIRROR_ATTEMPTS THEN "refused" ELSE "running"
  BY <1>7
<1> QED BY <1>5, <1>6, <1>8, Zenon DEF IsTried, brought, fails, after

\* The bytes of an answer are written behind the part, or over it.
From(part, answer) == IF answer.status = 206 THEN part ELSE NoPart
IsWritten(part, answer) ==
    FetchPart(Blob, part, answer) =
        [end |-> IF answer.cut THEN "dropped" ELSE "read",
         part |-> [size |-> From(part, answer).size + answer.bytes, sound |-> TRUE]]

LEMMA FetchWrites ==
  ASSUME NEW part \in PartType, NEW answer \in Answer, answer.status \in {200, 206},
         answer.status = 206 => answer.at = part.size,
         From(part, answer).sound, answer.sound, From(part, answer).size + answer.bytes <= Blob
  PROVE IsWritten(part, answer)
<1> DEFINE from == From(part, answer)
<1> DEFINE written == [size |-> from.size + answer.bytes,
                       sound |-> from.sound /\ answer.sound /\ from.size + answer.bytes <= Blob]
<1>1. written = [size |-> from.size + answer.bytes, sound |-> TRUE]
  BY Zenon
<1>2. FetchPart(Blob, part, answer) =
        CASE answer.status = 404 -> [end |-> "refused", part |-> NoPart]
          [] answer.status = 416 -> [end |-> "read", part |-> part]
          [] answer.status = 429 \/ answer.status >= 500 -> [end |-> "dropped", part |-> part]
          [] answer.status = 206 /\ answer.at # part.size -> [end |-> "dropped", part |-> NoPart]
          [] answer.status \in {200, 206} -> [end |-> IF answer.cut THEN "dropped" ELSE "read", part |-> written]
          [] OTHER -> [end |-> "refused", part |-> part]
  BY DEF FetchPart, written, From
<1> HIDE DEF written
<1> QED BY <1>1, <1>2 DEF IsWritten

\* What is put in place is the blob; a part that is kept has attempts left, and the next
\* whole answer ends it.
LEMMA PlacesTheBlob ==
  ASSUME NEW part \in PartType, NEW answers \in Transfers
  PROVE PlacedIsTheBlob(MirrorFile(Blob, part, answers), answers)
<1> DEFINE got == MirrorFile(Blob, part, answers)
<1>1. got \in [0..Len(answers) -> GotType] /\ \A n \in 1..Len(answers) : got[n] = TryPart(Blob, got[n - 1], answers[n])
  BY DownloadIs
<1>2. answers \in Seq(Answer) /\ Len(answers) \in Nat
  BY DownloadAssumption, LenProperties
<1> HIDE DEF got
<1> SUFFICES ASSUME NEW n \in 1..Len(answers)
             PROVE /\ got[n - 1].end = "running" /\ got[n].end = "file" =>
                        FetchPart(Blob, got[n - 1].part, answers[n]).part = [size |-> Blob, sound |-> TRUE]
                   /\ got[n].end = "running" =>
                        got[n].failures < MIRROR_ATTEMPTS /\ TryPart(Blob, got[n], Whole).end = "file"
  BY DEF got, PlacedIsTheBlob
<1>3. answers[n] \in Answer
  BY <1>2, ElementOfSeq
<1>4. got[n - 1] \in GotType /\ got[n] \in GotType /\ got[n] = TryPart(Blob, got[n - 1], answers[n])
  <2>1. n \in 0..Len(answers) /\ n - 1 \in 0..Len(answers)
    BY <1>2
  <2> QED BY <2>1, <1>1
<1> DEFINE before == got[n - 1]
           brought == FetchPart(Blob, before.part, answers[n])
<1>5. got[n].end = "running" => before.end = "running"
  BY <1>4 DEF TryPart
<1>6. before.end = "running" => IsTried(before, brought, got[n])
  BY <1>3, <1>4, TryCases, Zenon
<1>7. Failures(before, brought) \in Nat /\ MIRROR_ATTEMPTS \in Nat \ {0}
  BY <1>4, DownloadAssumption DEF GotType, Failures
<1> HIDE DEF brought
<1>8. before.end = "running" /\ got[n].end = "file" => brought.part = [size |-> Blob, sound |-> TRUE]
  BY <1>6 DEF IsTried, IsBlob
<1>9. got[n].end = "running" => got[n].failures < MIRROR_ATTEMPTS
  <2>1. SUFFICES ASSUME got[n].end = "running" PROVE got[n].failures < MIRROR_ATTEMPTS
    OBVIOUS
  <2>2. got[n].failures = Failures(before, brought) /\ ~(Failures(before, brought) >= MIRROR_ATTEMPTS)
    BY <2>1, <1>5, <1>6 DEF IsTried
  <2> QED BY <2>2, <1>7
<1>10. ASSUME got[n].end = "running" PROVE TryPart(Blob, got[n], Whole).end = "file"
  <2>1. Whole \in Answer /\ Whole.status = 200 /\ Whole.bytes = Blob /\ Whole.sound = TRUE /\ Whole.cut = FALSE /\ Blob \in Nat
    BY DownloadAssumption DEF Whole, Answer
  <2>2. NoPart.size = 0 /\ NoPart.sound = TRUE /\ got[n].part \in PartType
    BY <1>4 DEF NoPart, GotType
  <2>3. FetchPart(Blob, got[n].part, Whole) = [end |-> "read", part |-> [size |-> Blob, sound |-> TRUE]]
    <3>1. Whole.status \in {200, 206} /\ ~(Whole.status = 206) /\ NoPart.size + Whole.bytes <= Blob
      BY <2>1, <2>2
    <3>2. From(got[n].part, Whole) = NoPart
      BY <3>1 DEF From
    <3>3. NoPart.sound /\ Whole.sound
      BY <2>1, <2>2
    <3>4. IsWritten(got[n].part, Whole)
      BY <3>1, <3>2, <3>3, <2>1, <2>2, FetchWrites
    <3>5. NoPart.size + Whole.bytes = Blob /\ ~Whole.cut
      BY <2>1, <2>2
    <3>6. FetchPart(Blob, got[n].part, Whole) =
            [end |-> IF Whole.cut THEN "dropped" ELSE "read",
             part |-> [size |-> NoPart.size + Whole.bytes, sound |-> TRUE]]
      BY <3>2, <3>4, Zenon DEF IsWritten
    <3>7. (IF Whole.cut THEN "dropped" ELSE "read") = "read"
      BY <3>5, Zenon
    <3> QED BY <3>5, <3>6, <3>7, Zenon
  <2>4. IsBlob(FetchPart(Blob, got[n].part, Whole))
    BY <2>1, <2>2, <2>3 DEF IsBlob
  <2> HIDE DEF before
  <2>5. IsTried(got[n], FetchPart(Blob, got[n].part, Whole), TryPart(Blob, got[n], Whole))
    <3>1. got[n] \in GotType /\ Whole \in Answer /\ got[n].end = "running"
      BY <2>1, <1>4, <1>10
    <3> QED BY <3>1, TryCases
  <2> QED BY <2>4, <2>5 DEF IsTried
<1> QED BY <1>8, <1>9, <1>10 DEF brought

\* What an honest answer does to a sound part.
HonestlyTried(got, answer) ==
    LET after == TryPart(Blob, got, answer)
    IN  \/ after.end = "file"
        \/ /\ after.end = IF after.failures >= MIRROR_ATTEMPTS THEN "refused" ELSE "running"
           /\ after.part.sound /\ after.part.size <= Blob /\ after.part.size >= got.part.size
           /\ answer.cut \/ Silent(answer)
           /\ \/ after.failures = 0
              \/ Silent(answer) /\ after.failures = got.failures + 1

LEMMA HonestTry ==
  ASSUME NEW got \in GotType, NEW answer \in Answer, got.end = "running",
         got.part.sound, got.part.size <= Blob, Honest(answer, got.part.size)
  PROVE HonestlyTried(got, answer)
<1> DEFINE part == got.part
           brought == FetchPart(Blob, part, answer)
           after == TryPart(Blob, got, answer)
<1>1. /\ part \in PartType /\ part.size \in Nat /\ got.failures \in Nat
      /\ Blob \in Nat \ {0} /\ MIRROR_ATTEMPTS \in Nat \ {0} /\ answer.bytes \in Nat /\ answer.status \in Nat
  BY DownloadAssumption DEF GotType, PartType, Answer
<1>2. IsTried(got, brought, after)
  BY TryCases
<1>3. CASE answer.status = 429 \/ answer.status >= 500
  <2>1. brought = [end |-> "dropped", part |-> part]
    BY <1>1, <1>3 DEF FetchPart
  <2>2. Failures(got, brought) = got.failures + 1
    BY <1>1, <2>1 DEF Failures
  <2>3. Silent(answer)
    BY <1>3, <1>1 DEF Silent
  <2>4. brought.end # "refused" /\ ~IsBlob(brought) /\ brought.end # "read" /\ brought.part = part
    BY <2>1 DEF IsBlob
  <2> HIDE DEF brought, after
  <2>5. /\ after.failures = got.failures + 1 /\ after.part = part
        /\ after.end = IF got.failures + 1 >= MIRROR_ATTEMPTS THEN "refused" ELSE "running"
    BY <1>2, <2>2, <2>4 DEF IsTried
  <2>6. /\ after.end = IF after.failures >= MIRROR_ATTEMPTS THEN "refused" ELSE "running"
        /\ after.part.sound /\ after.part.size <= Blob /\ after.part.size >= got.part.size
    BY <2>5, <1>1
  <2> QED BY <2>3, <2>5, <2>6 DEF HonestlyTried, after
<1>4. CASE answer.status = 416 /\ part.size = Blob
  <2>1. brought = [end |-> "read", part |-> part]
    BY <1>4 DEF FetchPart
  <2>2. part = [size |-> Blob, sound |-> TRUE]
    BY <1>1, <1>4 DEF PartType
  <2>3. IsBlob(brought)
    BY <2>1, <2>2 DEF IsBlob
  <2> HIDE DEF brought, after
  <2> QED BY <1>2, <2>3 DEF IsTried, HonestlyTried, after
<1>5. CASE answer.status = 200 /\ answer.bytes = Blob /\ answer.sound /\ ~answer.cut
  <2>1. NoPart.size = 0 /\ NoPart.sound = TRUE
    BY DEF NoPart
  <2>2. From(part, answer) = NoPart
    BY <1>5 DEF From
  <2>3. IsWritten(part, answer)
    BY <1>1, <1>5, <2>1, <2>2, FetchWrites
  <2>4. NoPart.size + answer.bytes = Blob /\ (IF answer.cut THEN "dropped" ELSE "read") = "read"
    BY <1>1, <1>5, <2>1
  <2>5. brought = [end |-> "read", part |-> [size |-> Blob, sound |-> TRUE]]
    BY <2>2, <2>3, <2>4, Zenon DEF IsWritten
  <2>6. IsBlob(brought)
    BY <2>5 DEF IsBlob
  <2> HIDE DEF brought, after
  <2> QED BY <1>2, <2>6 DEF IsTried, HonestlyTried, after
<1>6. CASE /\ answer.status = 206 /\ answer.at = part.size /\ answer.sound
           /\ part.size + answer.bytes <= Blob /\ (~answer.cut => part.size + answer.bytes = Blob)
  <2>1. From(part, answer) = part
    BY <1>6 DEF From
  <2>2. IsWritten(part, answer)
    BY <1>1, <1>6, <2>1, FetchWrites
  <2>3. brought = [end |-> IF answer.cut THEN "dropped" ELSE "read",
                 part |-> [size |-> part.size + answer.bytes, sound |-> TRUE]]
    BY <2>1, <2>2, Zenon DEF IsWritten
  <2>4. CASE ~answer.cut
    <3>1. part.size + answer.bytes = Blob /\ (IF answer.cut THEN "dropped" ELSE "read") = "read"
      BY <2>4, <1>6, Zenon
    <3>2. brought = [end |-> "read", part |-> [size |-> Blob, sound |-> TRUE]]
      BY <2>3, <3>1, Zenon
    <3>3. IsBlob(brought)
      BY <3>2 DEF IsBlob
    <3> HIDE DEF brought, after
    <3> QED BY <1>2, <3>3 DEF IsTried, HonestlyTried, after
  <2>5. CASE answer.cut
    <3>1. /\ brought.end = "dropped" /\ brought.part.size = part.size + answer.bytes /\ brought.part.sound = TRUE
      BY <2>3, <2>5
    <3>2. brought.end # "refused" /\ ~IsBlob(brought) /\ brought.end # "read"
      BY <3>1 DEF IsBlob
    <3> HIDE DEF brought, after
    <3>3. /\ after.failures = Failures(got, brought) /\ after.part = brought.part
          /\ after.end = IF Failures(got, brought) >= MIRROR_ATTEMPTS THEN "refused" ELSE "running"
      BY <1>2, <3>2 DEF IsTried
    <3>4. Failures(got, brought) = IF answer.bytes > 0 THEN 0 ELSE got.failures + 1
      BY <3>1, <1>1 DEF Failures
    <3>5. answer.bytes > 0 \/ Silent(answer)
      BY <1>1 DEF Silent
    <3>6. after.failures = 0 \/ (Silent(answer) /\ after.failures = got.failures + 1)
      <4>1. CASE answer.bytes > 0
        <5>1. after.failures = 0
          BY <4>1, <3>3, <3>4
        <5> QED BY <5>1
      <4>2. CASE ~(answer.bytes > 0)
        <5>1. after.failures = got.failures + 1
          BY <4>2, <3>3, <3>4
        <5>2. Silent(answer)
          BY <4>2, <3>5
        <5> QED BY <5>1, <5>2
      <4> QED BY <4>1, <4>2
    <3>7. after.part.sound /\ after.part.size <= Blob /\ after.part.size >= got.part.size
      BY <3>1, <3>3, <1>1, <1>6
    <3>8. after.end = IF after.failures >= MIRROR_ATTEMPTS THEN "refused" ELSE "running"
      BY <3>3, Zenon
    <3> QED BY <3>6, <3>7, <3>8, <2>5, Zenon DEF HonestlyTried, after
  <2> QED BY <2>4, <2>5
<1> QED BY <1>3, <1>4, <1>5, <1>6 DEF Honest

\* Nothing that came is lost, however often the connection is cut.
LEMMA ResumesToEnd ==
  ASSUME NEW part \in PartType, NEW answers \in Transfers
  PROVE ResumesToTheEnd(MirrorFile(Blob, part, answers), answers)
<1> DEFINE got == MirrorFile(Blob, part, answers)
           N == Len(answers)
<1>1. /\ got \in [0..N -> GotType] /\ got[0] = NewGot(part)
      /\ \A n \in 1..N : got[n] = TryPart(Blob, got[n - 1], answers[n])
  BY DownloadIs
<1>2. answers \in Seq(Answer) /\ N \in Nat /\ MIRROR_ATTEMPTS \in Nat \ {0} /\ Blob \in Nat \ {0}
  BY DownloadAssumption, LenProperties
<1>3. \A n \in 1..N : answers[n] \in Answer
  BY <1>2, ElementOfSeq
<1> HIDE DEF got, N
<1> SUFFICES ASSUME \A n \in 0..N - MIRROR_ATTEMPTS : \E k \in n + 1..n + MIRROR_ATTEMPTS : ~Silent(answers[k]),
                    got[0].part.sound, got[0].part.size <= Blob,
                    \A n \in 1..N : got[n - 1].end = "running" => Honest(answers[n], got[n - 1].part.size)
             PROVE \A n \in 1..N :
                     /\ got[n].end # "refused"
                     /\ got[n].end = "running" => got[n].part.size >= got[n - 1].part.size
                     /\ ~answers[n].cut /\ ~Silent(answers[n]) => got[n].end = "file"
  BY Zenon DEF got, N, ResumesToTheEnd, NeverSilentForLong
<1> DEFINE Spare(n) ==
             /\ got[n].part.sound /\ got[n].part.size <= Blob /\ got[n].failures <= n
             /\ \A k \in n - got[n].failures + 1..n : Silent(answers[k])
           Good(n) == got[n].end # "refused" /\ (got[n].end = "running" => Spare(n))
           F == {n \in Nat : n <= N => Good(n)}
<1>4. Good(0)
  <2>1. got[0].end = "running" /\ got[0].failures = 0
    BY <1>1 DEF NewGot
  <2> QED BY <2>1
<1>5. ASSUME NEW n \in 1..N, Good(n - 1), got[n - 1].end = "running"
      PROVE HonestlyTried(got[n - 1], answers[n]) /\ got[n] = TryPart(Blob, got[n - 1], answers[n])
  <2>1. got[n - 1] \in GotType
    <3>1. n - 1 \in 0..N
      BY <1>2
    <3> QED BY <3>1, <1>1
  <2>2. got[n - 1].part.sound /\ got[n - 1].part.size <= Blob /\ Honest(answers[n], got[n - 1].part.size)
    BY <1>5
  <2>3. answers[n] \in Answer
    BY <1>3
  <2> QED BY <2>1, <2>2, <2>3, <1>5, <1>1, HonestTry
<1>6. ASSUME NEW n \in 1..N, Good(n - 1), got[n - 1].end # "running" PROVE got[n] = got[n - 1] /\ got[n].end = "file"
  <2>1. got[n] = TryPart(Blob, got[n - 1], answers[n])
    BY <1>1
  <2>2. n - 1 \in 0..N
    BY <1>2
  <2>3. got[n - 1] \in GotType
    BY <2>2, <1>1
  <2>4. got[n - 1].end = "file"
    BY <2>3, <1>6 DEF GotType
  <2>5. TryPart(Blob, got[n - 1], answers[n]) = got[n - 1]
    BY <1>6 DEF TryPart
  <2> QED BY <2>1, <2>4, <2>5
<1>7. ASSUME NEW n \in 1..N, Good(n - 1) PROVE Good(n)
  <2>1. CASE got[n - 1].end # "running"
    BY <2>1, <1>6, <1>7
  <2>2. CASE got[n - 1].end = "running" /\ got[n].end # "file"
    <3>1. n - 1 \in Nat /\ n \in Nat /\ n - 1 \in 0..N /\ n \in 0..N /\ (n - 1) + 1 = n /\ n <= N
      BY <1>2
    <3>2. got[n - 1].failures \in Nat /\ got[n].failures \in Nat
      BY <3>1, <1>1 DEF GotType
    <3>3. /\ got[n].end = IF got[n].failures >= MIRROR_ATTEMPTS THEN "refused" ELSE "running"
          /\ got[n].part.sound /\ got[n].part.size <= Blob
      BY <1>5, <1>7, <2>2, Zenon DEF HonestlyTried
    <3>8. got[n].failures = 0 \/ (Silent(answers[n]) /\ got[n].failures = got[n - 1].failures + 1)
      BY <1>5, <1>7, <2>2, Zenon DEF HonestlyTried
    <3>4. got[n - 1].failures <= n - 1 /\ \A k \in (n - 1) - got[n - 1].failures + 1..n - 1 : Silent(answers[k])
      BY <1>7, <2>2
    <3> DEFINE f == got[n].failures
               e == got[n - 1].failures
    <3>5. f <= n /\ \A k \in n - f + 1..n : Silent(answers[k])
      <4> HIDE DEF f, e, Good
      <4>1. CASE f = 0
        BY <4>1, <3>1
      <4>2. CASE Silent(answers[n]) /\ f = e + 1
        <5>1. f \in Nat /\ e \in Nat /\ e <= n - 1
          BY <3>2, <3>4 DEF f, e
        <5>2. \A k \in n - f + 1..n : k = n \/ k \in (n - 1) - e + 1..n - 1
          BY <4>2, <5>1, <3>1
        <5>3. f <= n
          BY <4>2, <5>1, <3>1
        <5>4. \A k \in (n - 1) - e + 1..n - 1 : Silent(answers[k])
          BY <3>4 DEF e
        <5> QED BY <5>2, <5>3, <5>4, <4>2
      <4>3. f = 0 \/ (Silent(answers[n]) /\ f = e + 1)
        BY <3>8 DEF f, e
      <4> QED BY <4>1, <4>2, <4>3
    <3>6. ~(f >= MIRROR_ATTEMPTS)
      <4> SUFFICES ASSUME f >= MIRROR_ATTEMPTS PROVE FALSE
        OBVIOUS
      <4> DEFINE m == n - MIRROR_ATTEMPTS
      <4>1. f \in Nat /\ f <= n /\ f >= MIRROR_ATTEMPTS
        BY <3>2, <3>5
      <4>2. \A k \in n - f + 1..n : Silent(answers[k])
        BY <3>5
      <4> HIDE DEF f, Good
      <4>3. m \in 0..N - MIRROR_ATTEMPTS /\ \A k \in m + 1..m + MIRROR_ATTEMPTS : k \in n - f + 1..n
        BY <4>1, <1>2, <3>1
      <4> HIDE DEF m
      <4>4. \E k \in m + 1..m + MIRROR_ATTEMPTS : ~Silent(answers[k])
        BY <4>3
      <4> QED BY <4>2, <4>3, <4>4
    <3>7. got[n].end = "running"
      BY <3>3, <3>6
    <3> QED BY <3>3, <3>5, <3>7
  <2>3. CASE got[n].end = "file"
    BY <2>3
  <2> QED BY <2>1, <2>2, <2>3
<1>8. \A n \in 0..N : Good(n)
  <2> HIDE DEF Good
  <2>1. 0 \in F
    BY <1>4
  <2>2. ASSUME NEW n \in Nat, n \in F PROVE n + 1 \in F
    <3> SUFFICES ASSUME n + 1 <= N PROVE Good(n + 1)
      OBVIOUS
    <3>1. n + 1 \in 1..N /\ (n + 1) - 1 = n /\ n <= N
      BY <1>2
    <3>2. Good((n + 1) - 1)
      BY <3>1, <2>2
    <3> QED BY <3>1, <3>2, <1>7
  <2> HIDE DEF F
  <2>3. \A n \in Nat : n \in F
    BY <2>1, <2>2, NatInduct
  <2> QED BY <2>3, <1>2 DEF F
<1> TAKE n \in 1..N
<1>9. Good(n - 1) /\ Good(n)
  <2>1. n - 1 \in 0..N /\ n \in 0..N
    BY <1>2
  <2> HIDE DEF Good
  <2> QED BY <2>1, <1>8
<1>10. CASE got[n - 1].end # "running"
  <2>1. got[n] = got[n - 1] /\ got[n].end = "file"
    BY <1>6, <1>9, <1>10
  <2> QED BY <2>1
<1>11. CASE got[n - 1].end = "running"
  <2>1. \/ got[n].end = "file"
        \/ got[n].part.size >= got[n - 1].part.size /\ (answers[n].cut \/ Silent(answers[n]))
    <3>1. HonestlyTried(got[n - 1], answers[n]) /\ got[n] = TryPart(Blob, got[n - 1], answers[n])
      BY <1>5, <1>9, <1>11
    <3> QED BY <3>1, Zenon DEF HonestlyTried
  <2>2. got[n].end # "refused"
    BY <1>9
  <2> HIDE DEF Good
  <2> QED BY <2>1, <2>2
<1> QED BY <1>10, <1>11

\* For any blob, part on the disk and sequence of answers: what is put in place is the
\* blob, and a mirror that resumes gets it there (client.mirror_file, _fetch_part).
THEOREM DownloadsAreExact == DownloadIsExact
<1> SUFFICES ASSUME NEW part \in [size: 0..Blob + 1, sound: BOOLEAN], NEW answers \in Transfers
             PROVE /\ PlacedIsTheBlob(MirrorFile(Blob, part, answers), answers)
                   /\ ResumesToTheEnd(MirrorFile(Blob, part, answers), answers)
  BY DEF DownloadIsExact
<1>1. part \in PartType
  <2>1. \A size \in 0..Blob + 1 : size \in Nat
    BY DownloadAssumption
  <2> QED BY <2>1 DEF PartType
<1> QED BY <1>1, PlacesTheBlob, ResumesToEnd

-----------------------------------------------------------------------------
(* The steps of a preparation, and the record it ends in *)

LEMMA StepsAre ==
  /\ DOMAIN Steps = 1..14
  /\ Steps[1] = "entry" /\ Steps[2] = "artifact" /\ Steps[3] = "model" /\ Steps[4] = "manifest"
  /\ Steps[5] = "receipt" /\ Steps[6] = "transcript" /\ Steps[7] = "counter" /\ Steps[8] = "replay"
  /\ Steps[9] = "pull" /\ Steps[10] = "parameters" /\ Steps[11] = "provenance" /\ Steps[12] = "drop"
  /\ Steps[13] = "grade" /\ Steps[14] = "score"
BY DEF Steps

LEMMA OnePlace ==
  ASSUME NEW i \in 1..14, \A j \in 1..14 : Steps[j] = Steps[i] => j = i
  PROVE PlaceOf(Steps[i]) = i
BY StepsAre DEF PlaceOf

LEMMA StepsDiffer == \A i, j \in 1..14 : Steps[i] = Steps[j] => i = j
<1>1. \A i \in 1..14 : i \in {1, 2, 3, 4, 5, 6, 7, 8, 9, 10, 11, 12, 13, 14}
  OBVIOUS
<1> QED BY <1>1, StepsAre

LEMMA PlacesAre ==
  /\ PlaceOf("entry") = 1 /\ PlaceOf("artifact") = 2 /\ PlaceOf("model") = 3 /\ PlaceOf("manifest") = 4
  /\ PlaceOf("receipt") = 5 /\ PlaceOf("transcript") = 6 /\ PlaceOf("counter") = 7 /\ PlaceOf("replay") = 8
  /\ PlaceOf("pull") = 9 /\ PlaceOf("parameters") = 10 /\ PlaceOf("provenance") = 11 /\ PlaceOf("drop") = 12
  /\ PlaceOf("grade") = 13 /\ PlaceOf("score") = 14
<1>1. \A i \in 1..14 : PlaceOf(Steps[i]) = i
  BY StepsDiffer, OnePlace
<1>2. 1 \in 1..14 /\ 2 \in 1..14 /\ 3 \in 1..14 /\ 4 \in 1..14 /\ 5 \in 1..14 /\ 6 \in 1..14 /\ 7 \in 1..14
      /\ 8 \in 1..14 /\ 9 \in 1..14 /\ 10 \in 1..14 /\ 11 \in 1..14 /\ 12 \in 1..14 /\ 13 \in 1..14 /\ 14 \in 1..14
  OBVIOUS
<1> QED BY <1>1, <1>2, StepsAre

LEMMA StopIsStep ==
  ASSUME NEW stop \in Stops, stop.at # "none"
  PROVE PlaceOf(stop.at) \in 1..14 /\ Steps[PlaceOf(stop.at)] = stop.at
<1>1. stop.at \in Range(Steps)
  BY PreparationAssumption
<1>2. PICK i \in 1..14 : stop.at = Steps[i]
  BY <1>1, StepsAre DEF Range
<1>3. PlaceOf(Steps[i]) = i
  BY StepsDiffer, OnePlace
<1> QED BY <1>2, <1>3

LEMMA EvaluatedIsOne ==
  ASSUME NEW entry, NEW folder, NEW stop \in Stops
  PROVE IsOneOfBoth(Evaluated(entry, folder, stop))
<1> DEFINE record == Evaluated(entry, folder, stop)
           stopped == IsStopped(entry, stop)
           place == PlaceOf(stop.at)
<1>1. stopped => place \in 1..14 /\ Steps[place] = stop.at
  BY StopIsStep DEF IsStopped
<1>2. /\ record.failure = IF stopped THEN Blame(stop) ELSE ""
      /\ record.measured = Measured(entry, folder, stop)
      /\ record.transcript = (stopped => 6 < place)
      /\ record.replayed = (stopped => 8 < place)
      /\ record.outcome = (stopped => 13 < place)
  <2>1. Passes(entry, stop, "transcript") = (stopped => 6 < place)
    BY PlacesAre, Zenon DEF Passes
  <2>2. Passes(entry, stop, "replay") = (stopped => 8 < place)
    BY PlacesAre, Zenon DEF Passes
  <2>3. Passes(entry, stop, "grade") = (stopped => 13 < place)
    BY PlacesAre, Zenon DEF Passes
  <2> HIDE DEF stopped, place
  <2>4. /\ record.failure = (IF IsStopped(entry, stop) THEN Blame(stop) ELSE "")
        /\ record.measured = Measured(entry, folder, stop)
        /\ record.transcript = Passes(entry, stop, "transcript")
        /\ record.replayed = Passes(entry, stop, "replay")
        /\ record.outcome = Passes(entry, stop, "grade")
    BY DEF Evaluated
  <2> QED BY <2>1, <2>2, <2>3, <2>4, Zenon DEF stopped
<1>3. Blame(stop) # "" /\ (Blame(stop) # "scoring" => stop.at # "score")
      /\ (Blame(stop) = "replay" =>
            stop.at \in {"replay", "artifact", "model", "manifest", "receipt", "transcript"})
  BY DEF Blame
<1>4. Blame(stop) = "replay" => place <= 8
  BY <1>3, PlacesAre
<1>5. stopped /\ place > 13 => stop.at = "score"
  <2>1. stopped /\ place > 13 => place = 14
    BY <1>1
  <2> QED BY <2>1, <1>1, StepsAre
<1>6. Measured(entry, folder, stop) = {} \/ (stopped => 9 < place)
  <2>1. Passes(entry, stop, "pull") = (stopped => 9 < place)
    BY PlacesAre, Zenon DEF Passes
  <2> HIDE DEF stopped, place
  <2>2. CASE Passes(entry, stop, "pull")
    BY <2>1, <2>2, Zenon
  <2>3. CASE ~Passes(entry, stop, "pull")
    BY <2>3, Zenon DEF Measured
  <2> QED BY <2>2, <2>3
<1> HIDE DEF record, stopped, place
<1>7. record.failure = "" => ~stopped
  BY <1>2, <1>3
<1>8. record.failure = "" => record.outcome /\ record.replayed /\ record.transcript
  BY <1>2, <1>7, Zenon
<1>9. record.failure \notin {"", "scoring"} => ~record.outcome
  <2>1. SUFFICES ASSUME record.failure \notin {"", "scoring"} PROVE ~record.outcome
    OBVIOUS
  <2>2. stopped /\ stop.at # "score"
    BY <2>1, <1>2, <1>3
  <2>3. ~(13 < place)
    BY <2>2, <1>1, <1>5
  <2> QED BY <2>2, <2>3, <1>2, Zenon
<1>10. record.failure = "replay" => record.measured = {}
  <2>1. SUFFICES ASSUME record.failure = "replay" PROVE record.measured = {}
    OBVIOUS
  <2>2. stopped /\ Blame(stop) = "replay"
    BY <2>1, <1>2
  <2>3. ~(9 < place)
    BY <2>2, <1>1, <1>4
  <2> QED BY <2>2, <2>3, <1>2, <1>6, Zenon
<1> QED BY <1>8, <1>9, <1>10 DEF IsOneOfBoth, Posted, record

LEMMA UnmirroredIsOne == IsOneOfBoth(UnmirroredRecord)
BY DEF IsOneOfBoth, UnmirroredRecord, Posted

LEMMA RecordIsAdded ==
  ASSUME NEW S, NEW R, NEW h \in S, NEW record \in R, NEW D \in SUBSET S, NEW sofar \in [D -> R]
  PROVE /\ WithRecord(sofar, h, record) \in [D \cup {h} -> R]
        /\ WithRecord(sofar, h, record)[h] = record
        /\ \A other \in D \ {h} : WithRecord(sofar, h, record)[other] = sofar[other]
BY DEF WithRecord

RecordOf(lot, h) == Evaluated(lot[h].entry, FolderLeft(lot[h].past), lot[h].stop)
AllRecords(lot) == {UnmirroredRecord} \cup {RecordOf(lot, h) : h \in Hotkeys}
RecordMaps(lot) == UNION {[D -> AllRecords(lot)] : D \in SUBSET Hotkeys}
Looped(sofar, h, left, lot) == IF h \in left THEN WithRecord(sofar, h, RecordOf(lot, h)) ELSE sofar

LEMMA LoopedIsMap ==
  ASSUME NEW lot, NEW left, NEW h \in Hotkeys, NEW sofar \in RecordMaps(lot)
  PROVE Looped(sofar, h, left, lot) \in RecordMaps(lot)
<1>1. PICK D \in SUBSET Hotkeys : sofar \in [D -> AllRecords(lot)]
  BY DEF RecordMaps
<1>2. RecordOf(lot, h) \in AllRecords(lot)
  BY DEF AllRecords
<1>3. WithRecord(sofar, h, RecordOf(lot, h)) \in [D \cup {h} -> AllRecords(lot)]
  BY <1>1, <1>2, RecordIsAdded
<1>4. D \cup {h} \in SUBSET Hotkeys
  BY <1>1
<1> QED BY <1>3, <1>4 DEF RecordMaps, Looped

\* The sofar after so many of the queue.
AreRecords(got, roster, document, left, lot, queue, n) ==
    /\ DOMAIN got = Unmirrored(roster, document) \cup {h \in left : \E k \in 1..n : queue[k] = h}
    /\ \A h \in DOMAIN got :
          got[h] = IF h \in Mirrored(document) THEN RecordOf(lot, h) ELSE UnmirroredRecord

LEMMA OneMore ==
  ASSUME NEW roster, NEW document, NEW left, NEW lot, NEW queue, NEW n \in Nat, NEW got, NEW D, NEW R,
         got \in [D -> R], left \subseteq Mirrored(document),
         AreRecords(got, roster, document, left, lot, queue, n)
  PROVE AreRecords(Looped(got, queue[n + 1], left, lot), roster, document, left, lot, queue, n + 1)
<1> DEFINE h == queue[n + 1]
           before == {m \in left : \E k \in 1..n : queue[k] = m}
           after == {m \in left : \E k \in 1..n + 1 : queue[k] = m}
<1>1. \A k : k \in 1..n + 1 <=> k \in 1..n \/ k = n + 1
  OBVIOUS
<1>2. after = before \cup (IF h \in left THEN {h} ELSE {})
  BY <1>1
<1>3. DOMAIN got = Unmirrored(roster, document) \cup before
  BY DEF AreRecords
<1>4. \A m \in DOMAIN got : got[m] = IF m \in Mirrored(document) THEN RecordOf(lot, m) ELSE UnmirroredRecord
  BY DEF AreRecords
<1> HIDE DEF before
<1>5. CASE h \notin left
  <2>1. Looped(got, h, left, lot) = got /\ after = before
    BY <1>5, <1>2 DEF Looped
  <2> HIDE DEF after, h
  <2>2. DOMAIN got = Unmirrored(roster, document) \cup after
    BY <2>1, <1>3
  <2> QED BY <2>1, <2>2, <1>4, Zenon DEF AreRecords, after, h
<1>6. CASE h \in left
  <2> DEFINE more == WithRecord(got, h, RecordOf(lot, h))
  <2>1. Looped(got, h, left, lot) = more /\ after = before \cup {h}
    BY <1>6, <1>2 DEF Looped
  <2>2. /\ DOMAIN more = DOMAIN got \cup {h} /\ more[h] = RecordOf(lot, h)
        /\ \A m \in DOMAIN got : m # h => more[m] = got[m]
    BY DEF WithRecord
  <2>3. h \in Mirrored(document)
    BY <1>6
  <2> HIDE DEF after, h, more
  <2>4. DOMAIN more = Unmirrored(roster, document) \cup after
    BY <2>1, <2>2, <1>3
  <2>5. ASSUME NEW m \in DOMAIN more
        PROVE more[m] = IF m \in Mirrored(document) THEN RecordOf(lot, m) ELSE UnmirroredRecord
    <3>1. CASE m = h
      BY <3>1, <2>2, <2>3
    <3>2. CASE m # h
      <4>1. m \in DOMAIN got /\ more[m] = got[m]
        BY <3>2, <2>2
      <4> QED BY <4>1, <1>4
    <3> QED BY <3>1, <3>2
  <2>6. AreRecords(more, roster, document, left, lot, queue, n + 1)
    BY <2>4, <2>5, Zenon DEF AreRecords, after
  <2> QED BY <2>1, <2>6, Zenon DEF h
<1> QED BY <1>5, <1>6

LEMMA RecordsAre ==
  ASSUME NEW document \in [Hotkeys -> Statuses], NEW roster \in SUBSET Hotkeys, NEW bans, NEW now,
         NEW lot, NEW queue \in Orders
  PROVE AreRecords(RoundRecords(roster, document, bans, now, lot, queue), roster, document,
                   Mirrored(document) \ Banned(bans, now), lot, queue, Len(queue))
<1> DEFINE N == Len(queue)
           left == Mirrored(document) \ Banned(bans, now)
           base == [h \in Unmirrored(roster, document) |-> UnmirroredRecord]
           S == RecordMaps(lot)
           G == [x \in (1..N) \X S |-> Looped(x[2], queue[x[1]], left, lot)]
           good(g) == g = [n \in 0..N |->
                             IF n = 0 THEN [h \in Unmirrored(roster, document) |-> UnmirroredRecord]
                             ELSE IF queue[n] \in left
                             THEN WithRecord(g[n - 1], queue[n],
                                             Evaluated(lot[queue[n]].entry, FolderLeft(lot[queue[n]].past),
                                                       lot[queue[n]].stop))
                             ELSE g[n - 1]]
<1>1. N \in Nat /\ \A n \in 1..N : queue[n] \in Hotkeys
  <2>1. Cardinality(Hotkeys) \in Nat
    BY PreparationAssumption, FS_CardinalityType
  <2>2. queue \in [1..Cardinality(Hotkeys) -> Hotkeys]
    BY DEF Orders
  <2>3. Len(queue) = Cardinality(Hotkeys)
    BY <2>1, <2>2
  <2> QED BY <2>1, <2>2, <2>3
<1>2. base \in S
  <2>1. Unmirrored(roster, document) \in SUBSET Hotkeys /\ UnmirroredRecord \in AllRecords(lot)
    BY DEF Unmirrored, AllRecords
  <2>2. base \in [Unmirrored(roster, document) -> AllRecords(lot)]
    BY <2>1
  <2> QED BY <2>1, <2>2 DEF RecordMaps
<1>3. G \in [(1..N) \X S -> S] /\ \A n \in 1..N, x \in S : G[<<n, x>>] = Looped(x, queue[n], left, lot)
  <2>1. \A n \in 1..N, x \in S : Looped(x, queue[n], left, lot) \in S
    BY <1>1, LoopedIsMap
  <2> HIDE DEF N, S, left
  <2> QED BY <2>1
<1> HIDE DEF G, base, S, left
<1>4. PICK g : Iterated(g, S, base, N, G)
  BY <1>1, <1>2, <1>3, Iterates
<1>5. good(g)
  <2>1. \A k \in 0..N : k # 0 => k \in 1..N /\ k - 1 \in 0..N
    BY <1>1
  <2> HIDE DEF N
  <2>2. ASSUME NEW k \in 0..N
        PROVE g[k] = IF k = 0 THEN base ELSE Looped(g[k - 1], queue[k], left, lot)
    <3>1. CASE k = 0
      BY <3>1, <1>4 DEF Iterated
    <3>2. CASE k # 0
      <4>1. g[k] = G[<<k, g[k - 1]>>] /\ g[k - 1] \in S
        BY <3>2, <2>1, <1>4 DEF Iterated
      <4> QED BY <4>1, <3>2, <2>1, <1>3
    <3> QED BY <3>1, <3>2
  <2>3. g = [k \in 0..N |-> g[k]]
    BY <1>4 DEF Iterated
  <2>4. g = [k \in 0..N |-> IF k = 0 THEN base ELSE Looped(g[k - 1], queue[k], left, lot)]
    BY <2>2, <2>3
  <2> QED BY <2>4 DEF base, Looped, RecordOf
<1> DEFINE f == CHOOSE g1 : good(g1)
<1>6. RoundRecords(roster, document, bans, now, lot, queue) = f[N]
  BY DEF RoundRecords, left
<1>7. good(f)
  BY <1>5
<1> HIDE DEF f
<1>8. f[0] = base /\ \A n \in 1..N : f[n] = Looped(f[n - 1], queue[n], left, lot)
  <2>1. 0 \in 0..N /\ \A k \in 1..N : k \in 0..N /\ k # 0
    BY <1>1
  <2> HIDE DEF N
  <2> QED BY <2>1, <1>7 DEF base, Looped, RecordOf
<1> DEFINE F == {n \in Nat : n <= N => f[n] \in S /\ AreRecords(f[n], roster, document, left, lot, queue, n)}
<1>9. 0 \in F
  <2>1. {h \in left : \E k \in 1..0 : queue[k] = h} = {}
    OBVIOUS
  <2>2. DOMAIN base = Unmirrored(roster, document) /\ \A h \in DOMAIN base : base[h] = UnmirroredRecord /\ h \notin Mirrored(document)
    BY DEF base, Unmirrored
  <2>3. AreRecords(base, roster, document, left, lot, queue, 0)
    BY <2>1, <2>2 DEF AreRecords
  <2> QED BY <2>3, <1>2, <1>8
<1>10. ASSUME NEW n \in Nat, n \in F PROVE n + 1 \in F
  <2> SUFFICES ASSUME n + 1 <= N
               PROVE f[n + 1] \in S /\ AreRecords(f[n + 1], roster, document, left, lot, queue, n + 1)
    OBVIOUS
  <2>1. n + 1 \in 1..N /\ (n + 1) - 1 = n /\ n <= N
    BY <1>1
  <2>2. f[n] \in S /\ AreRecords(f[n], roster, document, left, lot, queue, n)
    BY <2>1, <1>10
  <2>3. f[n + 1] = Looped(f[n], queue[n + 1], left, lot) /\ queue[n + 1] \in Hotkeys
    BY <2>1, <1>1, <1>8
  <2>4. f[n + 1] \in S
    BY <2>2, <2>3, LoopedIsMap DEF S
  <2>5. PICK D \in SUBSET Hotkeys : f[n] \in [D -> AllRecords(lot)]
    BY <2>2 DEF S, RecordMaps
  <2>6. left \subseteq Mirrored(document)
    BY DEF left
  <2>7. AreRecords(Looped(f[n], queue[n + 1], left, lot), roster, document, left, lot, queue, n + 1)
    BY <2>2, <2>5, <2>6, OneMore
  <2> QED BY <2>3, <2>4, <2>7
<1> HIDE DEF F
<1>11. N \in F
  BY <1>1, <1>9, <1>10, NatInduct
<1> QED BY <1>1, <1>6, <1>11 DEF F, left

\* For any hotkeys, document, roster, bans, order, entries and steps the preparations stop
\* at: everybody has one record, of his own entry, folder and fails
\* (run_miner_mode_epoch).
LEMMA EveryoneHasOne == EveryoneIsRecorded
<1> SUFFICES ASSUME NEW document \in [Hotkeys -> Statuses], NEW roster \in SUBSET Hotkeys, NEW bans \in BanLists,
                    NEW now \in Rounds, NEW lot \in Lots, NEW queue \in Orders
             PROVE LET written == RoundRecords(roster, document, bans, now, lot, queue)
                       out == {h \in Mirrored(document) : \E b \in bans : b.hotkey = h /\ now \in b.from..b.until - 1}
                       folders == [h \in Hotkeys |-> FolderAfter(lot[h].entry, FolderLeft(lot[h].past), lot[h].stop)]
                   IN  /\ DOMAIN written = (roster \cup Mirrored(document)) \ out
                       /\ \A h \in DOMAIN written :
                             /\ IsOneOfBoth(written[h])
                             /\ h \in Mirrored(document) => written[h] = RecordOf(lot, h)
                             /\ FoldersLeft(written, folders)[h] = EmptyFolder
  BY DEF EveryoneIsRecorded, RecordOf
<1> DEFINE written == RoundRecords(roster, document, bans, now, lot, queue)
           out == {h \in Mirrored(document) : \E b \in bans : b.hotkey = h /\ now \in b.from..b.until - 1}
           folders == [h \in Hotkeys |-> FolderAfter(lot[h].entry, FolderLeft(lot[h].past), lot[h].stop)]
           left == Mirrored(document) \ Banned(bans, now)
<1>1. AreRecords(written, roster, document, left, lot, queue, Len(queue))
  BY RecordsAre
<1>2. out = Mirrored(document) \cap Banned(bans, now)
  <2>1. \A b \in bans : now \in b.from..b.until - 1 <=> b.from <= now /\ now < b.until
    BY PreparationAssumption
  <2> QED BY <2>1 DEF Banned
<1>3. Mirrored(document) \subseteq Hotkeys
  BY DEF Mirrored
<1>4. {h \in left : \E k \in 1..Len(queue) : queue[k] = h} = left
  <2>1. Cardinality(Hotkeys) \in Nat
    BY PreparationAssumption, FS_CardinalityType
  <2>2. queue \in [1..Cardinality(Hotkeys) -> Hotkeys] /\ Range(queue) = Hotkeys
    BY DEF Orders
  <2>3. Len(queue) = Cardinality(Hotkeys) /\ DOMAIN queue = 1..Len(queue)
    BY <2>1, <2>2
  <2>4. \A h \in Hotkeys : \E k \in 1..Len(queue) : queue[k] = h
    BY <2>2, <2>3 DEF Range
  <2> QED BY <2>4, <1>3
<1>5. DOMAIN written = Unmirrored(roster, document) \cup left
  BY <1>1, <1>4, Zenon DEF AreRecords
<1>6. \A h \in DOMAIN written : written[h] = IF h \in Mirrored(document) THEN RecordOf(lot, h) ELSE UnmirroredRecord
  BY <1>1, Zenon DEF AreRecords
<1> HIDE DEF written, out
<1>7. DOMAIN written = (roster \cup Mirrored(document)) \ out
  BY <1>2, <1>5 DEF Unmirrored
<1>8. \A h \in Hotkeys : lot[h].stop \in Stops
  BY PreparationAssumption
<1>9. ASSUME NEW h \in DOMAIN written
      PROVE /\ IsOneOfBoth(written[h])
            /\ h \in Mirrored(document) => written[h] = RecordOf(lot, h)
            /\ FoldersLeft(written, folders)[h] = EmptyFolder
  <2>1. h \in Hotkeys
    BY <1>3, <1>5 DEF Unmirrored
  <2>2. IsOneOfBoth(RecordOf(lot, h))
    BY <2>1, <1>8, EvaluatedIsOne DEF RecordOf
  <2>3. IsOneOfBoth(written[h])
    BY <2>2, <1>6, UnmirroredIsOne, Zenon
  <2>4. FoldersLeft(written, folders)[h] = EmptyFolder
    <3>1. DOMAIN folders = Hotkeys
      OBVIOUS
    <3> HIDE DEF folders
    <3> QED BY <2>1, <3>1, <1>9 DEF FoldersLeft
  <2> QED BY <2>3, <2>4, <1>6
<1> HIDE DEF folders
<1> QED BY <1>7, <1>9 DEF written, out, folders

-----------------------------------------------------------------------------
(* The trees of a folder *)

IsFiles(files) == files \subseteq Files /\ IsFiniteSet(files) /\ IsMapping(files)
Tree == [files: SUBSET Files, complete: BOOLEAN]
Folder == [artifact: Tree, slm: Tree]

LEMMA EntryFiles ==
  ASSUME NEW entry \in Entries
  PROVE IsFiles(entry.artifact) /\ IsFiles(entry.slm)
<1>1. entry \in [artifact: SUBSET Files, slm: SUBSET Files]
  BY EntriesAssumption
<1>2. \A files \in {entry.artifact, entry.slm} : IsFiniteSet(files) /\ IsMapping(files)
  BY EntriesAssumption
<1> QED BY <1>1, <1>2 DEF IsFiles

LEMMA AllAreFirst ==
  ASSUME NEW S, S \subseteq Files, IsFiniteSet(S), NEW n \in Nat, n >= Cardinality(S)
  PROVE FirstOf(S, n) = S
<1> SUFFICES ASSUME NEW f \in S PROVE Cardinality({g \in S : g.name < f.name}) < n
  BY DEF FirstOf
<1> DEFINE T == {g \in S : g.name < f.name}
<1>1. f \notin T
  <2>1. f.name \in Nat
    BY EntriesAssumption
  <2> QED BY <2>1
<1>2. T \subseteq S /\ T # S
  BY <1>1
<1> HIDE DEF T
<1>3. Cardinality(T) \in Nat /\ Cardinality(S) \in Nat /\ Cardinality(T) <= Cardinality(S)
      /\ (Cardinality(S) = Cardinality(T) => S = T)
  BY <1>2, FS_Subset, FS_CardinalityType
<1>4. Cardinality(T) < n
  BY <1>2, <1>3
<1> QED BY <1>4 DEF T

LEMMA FetchedIs ==
  ASSUME NEW tree \in Tree, NEW missing \in SUBSET Files, NEW reads \in Nat
  PROVE /\ Fetched(tree, missing, reads) \in SUBSET Files
        /\ FirstOf(missing, reads) \subseteq Fetched(tree, missing, reads)
        /\ Fetched(tree, missing, reads) \subseteq tree.files \cup FirstOf(missing, reads)
        /\ \A f \in tree.files : (\A g \in missing : f.name # g.name) => f \in Fetched(tree, missing, reads)
BY DEF Fetched, FirstOf, Tree

IsMaterialised(after, tree, missing, weights, reads) ==
    /\ after \in Tree /\ after.files = Fetched(tree, missing, reads)
    /\ after.complete = (tree.complete \/ (weights /\ reads > Cardinality(missing)))

LEMMA MaterialisedIs ==
  ASSUME NEW tree \in Tree, NEW files, IsFiles(files), NEW weights \in BOOLEAN, NEW reads \in Nat
  PROVE IsMaterialised(Materialised(tree, files, weights, reads), tree, NotThere(tree, files, weights), weights, reads)
<1>1. NotThere(tree, files, weights) \in SUBSET Files
  BY DEF NotThere, IsFiles
<1>2. Fetched(tree, NotThere(tree, files, weights), reads) \in SUBSET Files
  BY <1>1, FetchedIs
<1>3. tree.complete \in BOOLEAN
  BY DEF Tree
<1> QED BY <1>2, <1>3 DEF Materialised, Tree, IsMaterialised

\* The other files do not touch the weights.
LEMMA OthersKeepWeights ==
  ASSUME NEW tree \in Tree, NEW files, IsFiles(files), NEW reads \in Nat
  PROVE LET after == Materialised(tree, files, FALSE, reads)
        IN  WeightsIn(after.files) = WeightsIn(tree.files) /\ (after.complete <=> tree.complete)
<1> DEFINE missing == NotThere(tree, files, FALSE)
           after == Materialised(tree, files, FALSE, reads)
<1>1. missing \in SUBSET Files /\ \A g \in missing : g.weight = FALSE
  BY DEF NotThere, IsFiles
<1>2. after.files = Fetched(tree, missing, reads) /\ after.complete = (tree.complete \/ (FALSE /\ reads > Cardinality(missing)))
  <2>1. IsMaterialised(after, tree, missing, FALSE, reads)
    BY MaterialisedIs
  <2> QED BY <2>1, Zenon DEF IsMaterialised
<1> HIDE DEF missing, after
<1>3. \A f \in WeightsIn(tree.files) : \A g \in missing : f.name # g.name
  <2> TAKE f \in WeightsIn(tree.files)
  <2> TAKE g \in missing
  <2>1. f \in Files /\ g \in Files /\ f.weight
    BY <1>1 DEF WeightsIn, Tree
  <2>2. f.weight # g.weight
    BY <2>1, <1>1
  <2> QED BY <2>1, <2>2, EntriesAssumption
<1>4. WeightsIn(tree.files) \subseteq Fetched(tree, missing, reads)
  BY <1>1, <1>3, FetchedIs DEF WeightsIn
<1>5. FirstOf(missing, reads) \subseteq missing
  BY DEF FirstOf
<1>6. Fetched(tree, missing, reads) \subseteq tree.files \cup missing
  BY <1>1, <1>5, FetchedIs
<1>7. WeightsIn(Fetched(tree, missing, reads)) = WeightsIn(tree.files)
  BY <1>1, <1>4, <1>6 DEF WeightsIn
<1>8. after.complete <=> tree.complete
  BY <1>2
<1> QED BY <1>2, <1>7, <1>8 DEF after

\* A tree that holds no weights but those of the files, and is marked only with all of them.
Kept(tree, files) ==
    /\ WeightsIn(tree.files) \subseteq WeightsIn(files)
    /\ tree.complete => WeightsIn(tree.files) = WeightsIn(files)

LEMMA PulledIsKept ==
  ASSUME NEW tree \in Tree, NEW files, IsFiles(files), NEW reads \in Nat, Kept(tree, files)
  PROVE LET after == PullWeights(tree, files, reads)
        IN  Kept(after, files) /\ (reads > Cardinality(files) => WeightsIn(after.files) = WeightsIn(files))
<1> DEFINE missing == NotThere(tree, files, TRUE)
           after == PullWeights(tree, files, reads)
<1>1. CASE WeightsIn(files) = {} \/ tree.complete
  <2>1. after = tree
    BY <1>1 DEF PullWeights
  <2>2. WeightsIn(tree.files) = WeightsIn(files)
    BY <1>1 DEF Kept
  <2> HIDE DEF after
  <2> QED BY <2>1, <2>2 DEF after
<1>2. CASE ~(WeightsIn(files) = {} \/ tree.complete)
  <2>1. after = Materialised(tree, files, TRUE, reads)
    BY <1>2 DEF PullWeights
  <2>2. /\ after.files = Fetched(tree, missing, reads)
        /\ after.complete = (tree.complete \/ (TRUE /\ reads > Cardinality(missing)))
    <3>1. TRUE \in BOOLEAN
      OBVIOUS
    <3>2. IsMaterialised(Materialised(tree, files, TRUE, reads), tree, NotThere(tree, files, TRUE), TRUE, reads)
      BY <3>1, MaterialisedIs, Zenon
    <3>3. IsMaterialised(after, tree, missing, TRUE, reads)
      BY <3>2, <2>1, Zenon DEF missing
    <3> QED BY <3>3, Zenon DEF IsMaterialised
  <2>3. missing = WeightsIn(files) \ tree.files
    <3>1. \A f \in files : f.weight \in BOOLEAN
      BY EntriesAssumption DEF IsFiles
    <3> QED BY <3>1 DEF NotThere, WeightsIn
  <2>4. missing \in SUBSET Files /\ missing \subseteq files /\ IsFiniteSet(files)
    BY <2>3 DEF IsFiles, WeightsIn
  <2>5. IsFiniteSet(missing) /\ Cardinality(missing) \in Nat /\ Cardinality(files) \in Nat
        /\ Cardinality(missing) <= Cardinality(files)
    BY <2>4, FS_Subset, FS_CardinalityType
  <2> HIDE DEF missing, after
  <2>6. \A f \in WeightsIn(tree.files) : \A g \in missing : f.name # g.name
    <3> TAKE f \in WeightsIn(tree.files)
    <3> TAKE g \in missing
    <3>1. f \in files /\ f \in tree.files
      BY DEF Kept, WeightsIn
    <3>2. g \in files /\ g \notin tree.files
      BY <2>3, <2>4
    <3> QED BY <3>1, <3>2 DEF IsFiles, IsMapping
  <2>7. WeightsIn(tree.files) \subseteq Fetched(tree, missing, reads)
    BY <2>4, <2>6, FetchedIs DEF WeightsIn
  <2>8. FirstOf(missing, reads) \subseteq missing /\ FirstOf(missing, reads) \subseteq Fetched(tree, missing, reads)
        /\ Fetched(tree, missing, reads) \subseteq tree.files \cup FirstOf(missing, reads)
    <3>1. FirstOf(missing, reads) \subseteq missing
      BY DEF FirstOf
    <3> QED BY <3>1, <2>4, FetchedIs, Zenon
  <2>9. WeightsIn(after.files) \subseteq WeightsIn(files)
    <3> SUFFICES ASSUME NEW f \in WeightsIn(after.files) PROVE f \in WeightsIn(files)
      OBVIOUS
    <3>1. f \in tree.files \/ f \in missing
      BY <2>2, <2>8 DEF WeightsIn
    <3>2. f.weight
      BY DEF WeightsIn
    <3>3. f \in tree.files => f \in WeightsIn(tree.files)
      BY <3>2 DEF WeightsIn
    <3> QED BY <3>1, <3>3, <2>3 DEF Kept
  <2>10. ASSUME reads > Cardinality(missing) PROVE WeightsIn(files) \subseteq WeightsIn(after.files)
    <3>1. FirstOf(missing, reads) = missing
      <4>1. reads >= Cardinality(missing)
        BY <2>5, <2>10
      <4> QED BY <4>1, <2>4, <2>5, AllAreFirst
    <3> SUFFICES ASSUME NEW f \in WeightsIn(files) PROVE f \in WeightsIn(after.files)
      OBVIOUS
    <3>2. f.weight
      BY DEF WeightsIn
    <3>3. CASE f \in tree.files
      BY <3>2, <3>3, <2>2, <2>7 DEF WeightsIn
    <3>4. CASE f \notin tree.files
      <4>1. f \in missing
        BY <3>4, <2>3
      <4> QED BY <4>1, <3>1, <3>2, <2>2, <2>8 DEF WeightsIn
    <3> QED BY <3>3, <3>4
  <2>11. after.complete => reads > Cardinality(missing)
    BY <2>2, <1>2
  <2>12. reads > Cardinality(files) => reads > Cardinality(missing)
    BY <2>5
  <2> QED BY <2>9, <2>10, <2>11, <2>12 DEF Kept, after
<1> QED BY <1>1, <1>2

StopType == [at: Range(Steps) \cup {"none"}, reads: Nat, known: BOOLEAN]

\* The parts of FolderAfter, one after another.
ModelRead(entry, folder, stop) ==
    IF Passes(entry, stop, "artifact")
    THEN Materialised(folder.slm, entry.slm, FALSE, Reads(stop, "model", entry.slm)) ELSE folder.slm
ModelPulled(entry, folder, stop) ==
    IF Passes(entry, stop, "replay")
    THEN PullWeights(ModelRead(entry, folder, stop), entry.slm, Reads(stop, "pull", entry.slm))
    ELSE ModelRead(entry, folder, stop)
ModelDropped(entry, folder, stop) ==
    IF Passes(entry, stop, "drop") /\ WeightsIn(entry.slm) # {}
    THEN DropWeights(ModelPulled(entry, folder, stop)) ELSE ModelPulled(entry, folder, stop)
ArtifactRead(entry, folder, stop) ==
    IF Passes(entry, stop, "entry")
    THEN Materialised(folder.artifact, entry.artifact, FALSE, Reads(stop, "artifact", entry.artifact))
    ELSE folder.artifact

LEMMA FolderIs ==
  ASSUME NEW entry, NEW folder, NEW stop
  PROVE FolderAfter(entry, folder, stop) =
          [artifact |-> ArtifactRead(entry, folder, stop), slm |-> ModelDropped(entry, folder, stop)]
BY Zenon DEF FolderAfter, ArtifactRead, ModelDropped, ModelPulled, ModelRead

LEMMA ReadsType ==
  ASSUME NEW stop \in StopType, NEW step, NEW files, IsFiles(files)
  PROVE Reads(stop, step, files) \in Nat
<1>1. Cardinality(files) \in Nat
  BY FS_CardinalityType DEF IsFiles
<1> QED BY <1>1 DEF Reads, StopType

LEMMA ReadTypes ==
  ASSUME NEW entry \in Entries, NEW folder \in Folder, NEW stop \in StopType
  PROVE /\ ArtifactRead(entry, folder, stop) \in Tree
        /\ ModelRead(entry, folder, stop) \in Tree
        /\ ModelPulled(entry, folder, stop) \in Tree
        /\ ModelDropped(entry, folder, stop) \in Tree
<1>1. IsFiles(entry.artifact) /\ IsFiles(entry.slm)
  BY EntryFiles
<1>2. folder.artifact \in Tree /\ folder.slm \in Tree
  BY DEF Folder
<1>3. ArtifactRead(entry, folder, stop) \in Tree
  <2>1. Reads(stop, "artifact", entry.artifact) \in Nat
    BY <1>1, ReadsType
  <2>2. Materialised(folder.artifact, entry.artifact, FALSE, Reads(stop, "artifact", entry.artifact)) \in Tree
    BY <1>1, <1>2, <2>1, MaterialisedIs DEF IsMaterialised
  <2> QED BY <1>2, <2>2 DEF ArtifactRead
<1>4. ModelRead(entry, folder, stop) \in Tree
  <2>1. Reads(stop, "model", entry.slm) \in Nat
    BY <1>1, ReadsType
  <2>2. Materialised(folder.slm, entry.slm, FALSE, Reads(stop, "model", entry.slm)) \in Tree
    BY <1>1, <1>2, <2>1, MaterialisedIs DEF IsMaterialised
  <2> QED BY <1>2, <2>2 DEF ModelRead
<1>5. ModelPulled(entry, folder, stop) \in Tree
  <2>1. Reads(stop, "pull", entry.slm) \in Nat
    BY <1>1, ReadsType
  <2>2. Materialised(ModelRead(entry, folder, stop), entry.slm, TRUE, Reads(stop, "pull", entry.slm)) \in Tree
    BY <1>1, <1>4, <2>1, MaterialisedIs DEF IsMaterialised
  <2> QED BY <1>4, <2>2 DEF ModelPulled, PullWeights
<1>6. ModelDropped(entry, folder, stop) \in Tree
  <2>1. \A tree \in Tree : DropWeights(tree) \in Tree
    BY DEF DropWeights, Tree
  <2> QED BY <1>5, <2>1 DEF ModelDropped
<1> QED BY <1>3, <1>4, <1>5, <1>6

\* The files that are read on the way do not touch the weights.
LEMMA ReadKeeps ==
  ASSUME NEW entry \in Entries, NEW folder \in Folder, NEW stop \in StopType, NEW files,
         Kept(folder.slm, files)
  PROVE Kept(ModelRead(entry, folder, stop), files)
<1>1. IsFiles(entry.slm)
  BY EntryFiles
<1>2. folder.slm \in Tree
  BY DEF Folder
<1>3. Reads(stop, "model", entry.slm) \in Nat
  BY <1>1, ReadsType
<1> DEFINE after == Materialised(folder.slm, entry.slm, FALSE, Reads(stop, "model", entry.slm))
<1>4. WeightsIn(after.files) = WeightsIn(folder.slm.files) /\ (after.complete <=> folder.slm.complete)
  BY <1>1, <1>2, <1>3, OthersKeepWeights
<1> HIDE DEF after
<1>5. Kept(after, files)
  BY <1>4 DEF Kept
<1> QED BY <1>5 DEF ModelRead, after

\* A preparation that passes the replay and not the drop stops in a step of the model.
LEMMA StopsPulling ==
  ASSUME NEW entry, NEW stop \in StopType, Passes(entry, stop, "replay"), ~Passes(entry, stop, "drop")
  PROVE Pulling(entry, stop)
<1>1. IsStopped(entry, stop) /\ 8 < PlaceOf(stop.at) /\ ~(12 < PlaceOf(stop.at))
  BY PlacesAre, Zenon DEF Passes
<1>2. stop.at \in Range(Steps)
  BY <1>1 DEF IsStopped, StopType
<1>3. PICK i \in 1..14 : stop.at = Steps[i]
  BY <1>2, StepsAre DEF Range
<1>4. PlaceOf(stop.at) = i
  BY <1>3, StepsDiffer, OnePlace
<1>5. i \in {9, 10, 11, 12}
  BY <1>1, <1>4
<1>6. stop.at \in ModelSteps
  BY <1>3, <1>5, StepsAre DEF ModelSteps
<1> QED BY <1>1, <1>6 DEF Pulling

\* Whatever happens to a preparation, the folder keeps to the entry, unless it is the
\* weights of another one that are left in it.
LEMMA StepKeeps ==
  ASSUME NEW entry \in Entries, NEW now \in Entries, NEW folder \in Folder, NEW stop \in StopType,
         Kept(folder.slm, now.slm), Pulling(entry, stop) => entry = now
  PROVE /\ FolderAfter(entry, folder, stop) \in Folder
        /\ Kept(FolderAfter(entry, folder, stop).slm, now.slm)
<1> DEFINE read == ModelRead(entry, folder, stop)
           pulled == ModelPulled(entry, folder, stop)
           dropped == ModelDropped(entry, folder, stop)
<1>1. ArtifactRead(entry, folder, stop) \in Tree /\ read \in Tree /\ pulled \in Tree /\ dropped \in Tree
  BY ReadTypes
<1>2. Kept(read, now.slm)
  BY ReadKeeps
<1>3. Kept(dropped, now.slm)
  <2>1. CASE Passes(entry, stop, "drop") /\ WeightsIn(entry.slm) # {}
    <3>1. dropped = DropWeights(pulled)
      BY <2>1 DEF ModelDropped
    <3>2. WeightsIn(DropWeights(pulled).files) = {} /\ ~DropWeights(pulled).complete
      BY DEF DropWeights, WeightsIn
    <3> QED BY <3>1, <3>2 DEF Kept
  <2>2. CASE ~(Passes(entry, stop, "drop") /\ WeightsIn(entry.slm) # {})
    <3>1. dropped = pulled
      BY <2>2 DEF ModelDropped
    <3>2. CASE ~Passes(entry, stop, "replay")
      <4>1. pulled = read
        BY <3>2 DEF ModelPulled
      <4> QED BY <3>1, <4>1, <1>2
    <3>3. CASE Passes(entry, stop, "replay") /\ WeightsIn(entry.slm) = {}
      <4>1. pulled = read
        BY <3>3 DEF ModelPulled, PullWeights
      <4> QED BY <3>1, <4>1, <1>2
    <3>4. CASE Passes(entry, stop, "replay") /\ WeightsIn(entry.slm) # {}
      <4>1. ~Passes(entry, stop, "drop")
        BY <3>4, <2>2
      <4>2. entry = now
        BY <3>4, <4>1, StopsPulling
      <4>3. pulled = PullWeights(read, entry.slm, Reads(stop, "pull", entry.slm))
        BY <3>4 DEF ModelPulled
      <4>4. IsFiles(entry.slm) /\ Reads(stop, "pull", entry.slm) \in Nat
        BY EntryFiles, ReadsType
      <4>5. Kept(read, entry.slm)
        BY <1>2, <4>2
      <4> HIDE DEF read, pulled, dropped
      <4>6. Kept(pulled, entry.slm)
        BY <4>3, <4>4, <4>5, <1>1, PulledIsKept
      <4> QED BY <4>2, <4>6, <3>1
    <3> QED BY <3>2, <3>3, <3>4
  <2> QED BY <2>1, <2>2
<1>4. FolderAfter(entry, folder, stop) = [artifact |-> ArtifactRead(entry, folder, stop), slm |-> dropped]
  BY FolderIs
<1> HIDE DEF read, pulled, dropped
<1> QED BY <1>1, <1>3, <1>4 DEF Folder

LEMMA StopTypes == Stops \subseteq StopType
BY PreparationAssumption DEF StopType

LEMMA EmptyIsKept == EmptyFolder \in Folder /\ \A files : Kept(EmptyFolder.slm, files)
BY DEF EmptyFolder, EmptyTree, Folder, Tree, Kept, WeightsIn

LEMMA AfterType ==
  ASSUME NEW entry \in Entries, NEW folder \in Folder, NEW stop \in StopType
  PROVE FolderAfter(entry, folder, stop) \in Folder
<1>1. ArtifactRead(entry, folder, stop) \in Tree /\ ModelDropped(entry, folder, stop) \in Tree
  BY ReadTypes
<1> QED BY <1>1, FolderIs DEF Folder

\* Each of the preparations since the folder was removed.
LEMMA PastIs ==
  ASSUME NEW past \in Pasts
  PROVE /\ Len(past) \in Nat /\ DOMAIN past = 1..Len(past)
        /\ \A n \in 1..Len(past) : past[n].entry \in Entries /\ past[n].stop \in StopType
<1>1. past \in Seq([entry: Entries, stop: Stops])
  BY PreparationAssumption
<1>2. \A n \in 1..Len(past) : past[n] \in [entry: Entries, stop: Stops]
  BY <1>1, ElementOfSeq
<1>3. Len(past) \in Nat /\ DOMAIN past = 1..Len(past)
  BY <1>1, LenProperties
<1> QED BY <1>2, <1>3, StopTypes

IsLeft(f, past) ==
    /\ f[0] = EmptyFolder
    /\ \A n \in 1..Len(past) : f[n] = FolderAfter(past[n].entry, f[n - 1], past[n].stop)

LEMMA LeftIs ==
  ASSUME NEW past \in Pasts
  PROVE \E f : IsLeft(f, past) /\ FolderLeft(past) = f[Len(past)]
<1> DEFINE N == Len(past)
           G == [x \in (1..N) \X Folder |-> FolderAfter(past[x[1]].entry, x[2], past[x[1]].stop)]
           good(g) == g = [n \in 0..N |-> IF n = 0 THEN EmptyFolder
                                          ELSE FolderAfter(past[n].entry, g[n - 1], past[n].stop)]
<1>1. N \in Nat /\ \A n \in 1..N : past[n].entry \in Entries /\ past[n].stop \in StopType
  BY PastIs
<1>2. /\ G \in [(1..N) \X Folder -> Folder]
      /\ \A n \in 1..N, x \in Folder : G[<<n, x>>] = FolderAfter(past[n].entry, x, past[n].stop)
  <2>1. \A n \in 1..N, x \in Folder : FolderAfter(past[n].entry, x, past[n].stop) \in Folder
    BY <1>1, AfterType
  <2> HIDE DEF N
  <2> QED BY <2>1
<1> HIDE DEF G
<1>3. PICK g : Iterated(g, Folder, EmptyFolder, N, G)
  BY <1>1, <1>2, EmptyIsKept, Iterates
<1>4. good(g)
  <2>1. \A k \in 0..N : k # 0 => k \in 1..N /\ k - 1 \in 0..N
    BY <1>1
  <2> HIDE DEF N
  <2>2. ASSUME NEW k \in 0..N
        PROVE g[k] = IF k = 0 THEN EmptyFolder ELSE FolderAfter(past[k].entry, g[k - 1], past[k].stop)
    <3>1. CASE k = 0
      BY <3>1, <1>3 DEF Iterated
    <3>2. CASE k # 0
      <4>1. g[k] = G[<<k, g[k - 1]>>] /\ g[k - 1] \in Folder
        BY <3>2, <2>1, <1>3 DEF Iterated
      <4> QED BY <4>1, <3>2, <2>1, <1>2
    <3> QED BY <3>1, <3>2
  <2>3. g = [k \in 0..N |-> g[k]]
    BY <1>3 DEF Iterated
  <2> QED BY <2>2, <2>3
<1> DEFINE f == CHOOSE g1 : good(g1)
<1>5. FolderLeft(past) = f[N]
  BY DEF FolderLeft
<1>6. good(f)
  BY <1>4
<1> HIDE DEF f
<1>7. f[0] = EmptyFolder /\ \A n \in 1..N : f[n] = FolderAfter(past[n].entry, f[n - 1], past[n].stop)
  <2>1. 0 \in 0..N /\ \A k \in 1..N : k \in 0..N /\ k # 0
    BY <1>1
  <2> HIDE DEF N
  <2> QED BY <2>1, <1>6
<1> QED BY <1>5, <1>7 DEF IsLeft

LEMMA LeftType ==
  ASSUME NEW past \in Pasts
  PROVE FolderLeft(past) \in Folder
<1>1. PICK f : IsLeft(f, past) /\ FolderLeft(past) = f[Len(past)]
  BY LeftIs
<1> DEFINE F == {n \in Nat : n <= Len(past) => f[n] \in Folder}
<1>2. 0 \in F
  BY <1>1, EmptyIsKept DEF IsLeft
<1>3. ASSUME NEW n \in Nat, n \in F PROVE n + 1 \in F
  <2> SUFFICES ASSUME n + 1 <= Len(past) PROVE f[n + 1] \in Folder
    OBVIOUS
  <2>1. n + 1 \in 1..Len(past) /\ (n + 1) - 1 = n /\ f[n] \in Folder
    BY <1>3, PastIs
  <2>2. f[n + 1] = FolderAfter(past[n + 1].entry, f[n], past[n + 1].stop)
    BY <2>1, <1>1 DEF IsLeft
  <2> QED BY <2>1, <2>2, PastIs, AfterType
<1> HIDE DEF F
<1>4. Len(past) \in F
  BY <1>2, <1>3, PastIs, NatInduct
<1> QED BY <1>1, <1>4, PastIs DEF F

LEMMA LeftIsKept ==
  ASSUME NEW past \in Pasts, NEW now \in Entries, ~OthersWerePulled(past, now)
  PROVE Kept(FolderLeft(past).slm, now.slm)
<1>1. PICK f : IsLeft(f, past) /\ FolderLeft(past) = f[Len(past)]
  BY LeftIs
<1> DEFINE F == {n \in Nat : n <= Len(past) => f[n] \in Folder /\ Kept(f[n].slm, now.slm)}
<1>2. 0 \in F
  BY <1>1, EmptyIsKept DEF IsLeft
<1>3. ASSUME NEW n \in Nat, n \in F PROVE n + 1 \in F
  <2> SUFFICES ASSUME n + 1 <= Len(past) PROVE f[n + 1] \in Folder /\ Kept(f[n + 1].slm, now.slm)
    OBVIOUS
  <2>1. n + 1 \in 1..Len(past) /\ (n + 1) - 1 = n /\ f[n] \in Folder /\ Kept(f[n].slm, now.slm)
    BY <1>3, PastIs
  <2>2. f[n + 1] = FolderAfter(past[n + 1].entry, f[n], past[n + 1].stop)
    BY <2>1, <1>1 DEF IsLeft
  <2>3. Pulling(past[n + 1].entry, past[n + 1].stop) => past[n + 1].entry = now
    BY <2>1, PastIs DEF OthersWerePulled
  <2>4. past[n + 1].entry \in Entries /\ past[n + 1].stop \in StopType
    BY <2>1, PastIs
  <2> QED BY <2>1, <2>2, <2>3, <2>4, StepKeeps
<1> HIDE DEF F
<1>4. Len(past) \in F
  BY <1>2, <1>3, PastIs, NatInduct
<1> QED BY <1>1, <1>4, PastIs DEF F

LEMMA MeasuredIsOwn ==
  ASSUME NEW entry \in Entries, NEW folder \in Folder, NEW stop, Kept(folder.slm, entry.slm),
         Measured(entry, folder, stop) # {}
  PROVE Measured(entry, folder, stop) = WeightsIn(entry.slm)
<1> DEFINE upto == [at |-> "parameters", reads |-> 0, known |-> FALSE]
           read == ModelRead(entry, folder, upto)
           pulled == ModelPulled(entry, folder, upto)
<1>1. WeightsIn(entry.slm) # {} /\ Measured(entry, folder, stop) = WeightsIn(FolderAfter(entry, folder, upto).slm.files)
  BY Zenon DEF Measured
<1>2. upto \in StopType /\ upto.at = "parameters"
  <2>1. 10 \in 1..14 /\ Steps[10] = "parameters"
    BY StepsAre
  <2>2. "parameters" \in Range(Steps)
    BY <2>1, StepsAre DEF Range
  <2> QED BY <2>2 DEF StopType
<1> HIDE DEF upto
<1>3. IsStopped(entry, upto) /\ PlaceOf(upto.at) = 10
  BY <1>1, <1>2, PlacesAre DEF IsStopped, ModelSteps
<1>4. Passes(entry, upto, "replay") /\ ~Passes(entry, upto, "drop")
  <2>1. 8 < 10 /\ ~(12 < 10)
    OBVIOUS
  <2> QED BY <1>3, <2>1, PlacesAre, Zenon DEF Passes
<1>5. pulled = PullWeights(read, entry.slm, Reads(upto, "pull", entry.slm)) /\ ModelDropped(entry, folder, upto) = pulled
  BY <1>4, Zenon DEF ModelPulled, ModelDropped
<1>6. Reads(upto, "pull", entry.slm) = Cardinality(entry.slm) + 1
  BY <1>2 DEF Reads
<1>7. IsFiles(entry.slm) /\ Cardinality(entry.slm) \in Nat
  BY EntryFiles, FS_CardinalityType DEF IsFiles
<1>8. read \in Tree /\ Kept(read, entry.slm)
  BY <1>2, ReadTypes, ReadKeeps
<1> HIDE DEF read, pulled
<1>9. WeightsIn(pulled.files) = WeightsIn(entry.slm)
  <2>1. Cardinality(entry.slm) + 1 \in Nat /\ Cardinality(entry.slm) + 1 > Cardinality(entry.slm)
    BY <1>7
  <2> QED BY <2>1, <1>5, <1>6, <1>7, <1>8, PulledIsKept
<1>10. FolderAfter(entry, folder, upto).slm = pulled
  BY <1>5, FolderIs
<1> QED BY <1>1, <1>9, <1>10

LEMMA WentThrough ==
  ASSUME NEW entry \in Entries, NEW folder \in Folder, NEW stop \in StopType, ~IsStopped(entry, stop)
  PROVE LET after == FolderAfter(entry, folder, stop)
        IN  /\ WeightsIn(entry.slm) # {} => WeightsIn(after.slm.files) = {} /\ ~after.slm.complete
            /\ entry.artifact \ WeightsIn(entry.artifact) \subseteq after.artifact.files
<1> DEFINE after == FolderAfter(entry, folder, stop)
           files == entry.artifact
           missing == NotThere(folder.artifact, files, FALSE)
           reads == Cardinality(files) + 1
<1>1. after.slm = ModelDropped(entry, folder, stop) /\ after.artifact = ArtifactRead(entry, folder, stop)
  BY FolderIs
<1>2. Passes(entry, stop, "drop") /\ Passes(entry, stop, "entry")
  BY DEF Passes
<1>3. ASSUME WeightsIn(entry.slm) # {} PROVE WeightsIn(after.slm.files) = {} /\ ~after.slm.complete
  <2>1. after.slm = DropWeights(ModelPulled(entry, folder, stop))
    BY <1>1, <1>2, <1>3, Zenon DEF ModelDropped
  <2> HIDE DEF after
  <2> QED BY <2>1 DEF DropWeights, WeightsIn
<1>4. Reads(stop, "artifact", files) = reads
  BY DEF IsStopped, Reads, ModelSteps
<1>5. IsFiles(files) /\ folder.artifact \in Tree /\ Cardinality(files) \in Nat
  BY EntryFiles, FS_CardinalityType DEF IsFiles, Folder
<1>6. after.artifact = Materialised(folder.artifact, files, FALSE, reads)
  BY <1>1, <1>2, <1>4, Zenon DEF ArtifactRead
<1> HIDE DEF after, files
<1>7. reads \in Nat /\ \A n \in Nat : n <= Cardinality(files) => reads >= n
  BY <1>5
<1>8. missing \subseteq files /\ missing \in SUBSET Files /\ \A g \in missing : g \notin folder.artifact.files
  BY <1>5 DEF NotThere, IsFiles
<1>9. \A f \in files : f.weight = FALSE /\ f \notin folder.artifact.files => f \in missing
  BY DEF NotThere
<1> HIDE DEF missing, reads
<1>10. after.artifact.files = Fetched(folder.artifact, missing, reads)
  <2>1. IsMaterialised(after.artifact, folder.artifact, NotThere(folder.artifact, files, FALSE), FALSE, reads)
    BY <1>5, <1>6, <1>7, MaterialisedIs
  <2> QED BY <2>1, Zenon DEF IsMaterialised, missing
<1>11. FirstOf(missing, reads) = missing
  <2>1. IsFiniteSet(missing) /\ Cardinality(missing) <= Cardinality(files) /\ Cardinality(missing) \in Nat
    BY <1>5, <1>8, FS_Subset, FS_CardinalityType DEF IsFiles
  <2>2. reads >= Cardinality(missing)
    BY <2>1, <1>7
  <2> QED BY <2>1, <2>2, <1>7, <1>8, AllAreFirst
<1>12. /\ missing \subseteq after.artifact.files
       /\ \A f \in folder.artifact.files :
             (\A g \in missing : f.name # g.name) => f \in after.artifact.files
  BY <1>5, <1>7, <1>8, <1>10, <1>11, FetchedIs
<1>13. ASSUME NEW f \in files \ WeightsIn(files) PROVE f \in after.artifact.files
  <2>1. f \in Files /\ ~f.weight
    BY <1>5 DEF WeightsIn, IsFiles
  <2>2. f.weight = FALSE
    BY <2>1, EntriesAssumption
  <2>3. CASE f \in folder.artifact.files
    <3>1. \A g \in missing : f.name # g.name
      BY <1>5, <1>8, <2>3 DEF IsFiles, IsMapping
    <3> QED BY <3>1, <2>3, <1>12
  <2>4. CASE f \notin folder.artifact.files
    BY <2>2, <2>4, <1>9, <1>12
  <2> QED BY <2>3, <2>4
<1> QED BY <1>3, <1>13 DEF after, files

LEMMA FolderKept == FolderIsOfTheEntry
<1> SUFFICES ASSUME NEW past \in Pasts, NEW entry \in Entries, NEW stop \in Stops
             PROVE LET folder == FolderLeft(past)
                       after == FolderAfter(entry, folder, stop)
                       measured == Measured(entry, folder, stop)
                   IN  /\ measured # {} /\ ~OthersWerePulled(past, entry) => measured = WeightsIn(entry.slm)
                       /\ ~IsStopped(entry, stop) =>
                             /\ WeightsIn(entry.slm) # {} => WeightsIn(after.slm.files) = {} /\ ~after.slm.complete
                             /\ entry.artifact \ WeightsIn(entry.artifact) \subseteq after.artifact.files
  BY DEF FolderIsOfTheEntry
<1>1. FolderLeft(past) \in Folder /\ stop \in StopType
  BY LeftType, StopTypes
<1>2. ASSUME Measured(entry, FolderLeft(past), stop) # {}, ~OthersWerePulled(past, entry)
      PROVE Measured(entry, FolderLeft(past), stop) = WeightsIn(entry.slm)
  BY <1>1, <1>2, LeftIsKept, MeasuredIsOwn
<1>3. ASSUME ~IsStopped(entry, stop)
      PROVE LET after == FolderAfter(entry, FolderLeft(past), stop)
            IN  /\ WeightsIn(entry.slm) # {} => WeightsIn(after.slm.files) = {} /\ ~after.slm.complete
                /\ entry.artifact \ WeightsIn(entry.artifact) \subseteq after.artifact.files
  BY <1>1, <1>3, WentThrough
<1> QED BY <1>2, <1>3

\* For any files and entries of a miner, any preparations that died before in its folder, and
\* any step this one stops at: what is measured is its own (pull_weights, drop_weights).
THEOREM MeasuredAlwaysMirrored == Spec => []MeasuredIsMirrored
<1>1. MeasuredIsMirrored
  BY DownloadsAreExact, FolderKept, Zenon DEF MeasuredIsMirrored
<1> QED BY <1>1, PTL

\* Everybody has one record, of his own.
THEOREM RecordsAlwaysWhole == Spec => []RecordsAreWhole
<1>1. RecordsAreWhole
  BY EveryoneHasOne, Zenon DEF RecordsAreWhole
<1> QED BY <1>1, PTL
================================================================================
