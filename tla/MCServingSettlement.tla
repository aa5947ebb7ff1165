-------------------------- MODULE MCServingSettlement --------------------------
(* Three operators, the second and third perhaps of the first one's coldkey, the
   third perhaps the team's, the second with two cards; two of them are also miners. *)
EXTENDS ServingSettlement, TLC

CONSTANTS k, other, none, d, e

MCCards == 1..4
MCPayout == <<3, 1>>

\* The score is none, one or two.
Served == {<<0, 2>>, <<2, 1>>, <<2, 2>>}

Row(o, s, cold, team, first) ==
    [operator |-> o, inside |-> s[1], outside |-> 1, probes |-> 2, passes |-> s[2],
     billing |-> 300, coldkey |-> cold, team |-> team, first |-> first]

Evidence ==
    {<<Row(1, s1, k, FALSE, {d}), Row(2, s2, k2, FALSE, f2), Row(3, s3, k3, t3, {e}),
       Row(2, s4, k4, FALSE, {})>> :
        s1 \in Served, s4 \in {<<0, 2>>, <<2, 1>>}, s2 \in Served, s3 \in Served, k2 \in {k, none}, k3 \in {k, none}, k4 \in {k, other},
        t3 \in BOOLEAN, f2 \in {{}, {d, e}}}

Honest(rows) ==
    [rows |-> rows, published |-> SettleEpoch(rows), root |-> "matches", forged |-> FALSE,
     window |-> TRUE, rated |-> TRUE, billing |-> 20]

\* A settlement published with less, more or other than its evidence, or with
\* receipts that do not add up.
Wrong(rows) ==
    LET ours == SettleEpoch(rows)
        right == Honest(rows)
    IN  {[right EXCEPT !.published = Restrict(ours, {1, 2})],
         [right EXCEPT !.rows = Restrict(rows, {1, 2})],
         [right EXCEPT !.published[1].score = @ + 1],
         [right EXCEPT !.published[1].first = {}],
         [right EXCEPT !.root = "differs"], [right EXCEPT !.root = "none"],
         [right EXCEPT !.forged = TRUE], [right EXCEPT !.window = FALSE],
         [right EXCEPT !.rated = FALSE]}

Some == CHOOSE rows \in Evidence : \A c \in MCCards : rows[c].inside = 2

MCDocuments == {Honest(rows) : rows \in Evidence} \cup Wrong(Some)

Bands == << [cap |-> 20, below |-> {10}], [cap |-> 30, below |-> {}] >>
MCServing ==
    {[bands |-> Bands, floor |-> 40, bounty |-> 5],
     [bands |-> << [cap |-> 60, below |-> {}] >>, floor |-> 0, bounty |-> 50],
     [bands |-> << [cap |-> 60, below |-> {}], [cap |-> 10, below |-> {}] >>,
      floor |-> 10, bounty |-> 5]}

Standing(s, c) == [score |-> s, commit |-> c, eligible |-> TRUE]
MCStandings ==
    {("slm" :> (1 :> Standing(1, 5) @@ 2 :> Standing(1, 4) @@ 4 :> Standing(2, 9))) @@
     ("harness" :> s) : s \in {None, 4 :> Standing(1, 1)}}
================================================================================
