---------------------------- MODULE StandingWeights ----------------------------
(* What a validator owes the chain: one standing decision at a time, taken   *)
(* for a named round, and a chain row that only ever receives that decision. *)
EXTENDS Naturals

CONSTANTS Rounds, Burn, NoWeights

VARIABLES
    standing,   \* the decision in force
    rounds,     \* the rounds some decision was taken for
    chain       \* the vector on chain

Init == standing = NoWeights /\ rounds = {} /\ chain = NoWeights

\* A decision takes force as it is sent, whether the chain takes it or not.
Decide(vector, r) ==
    /\ standing' = vector /\ rounds' = rounds \cup {r}
    /\ chain' \in {chain, vector}

BurnFor(r) == r \notin rounds /\ Decide(Burn, r)

\* Only the newest round of an arena may be paid.
Pay(r) ==
    /\ \A s \in rounds : s[1] = r[1] => s[2] <= r[2]
    /\ Decide(r, r)

SendAgain == standing # NoWeights /\ chain' = standing /\ UNCHANGED <<standing, rounds>>

Next == SendAgain \/ \E r \in Rounds : BurnFor(r) \/ Pay(r)

Spec == Init /\ [][Next]_<<standing, rounds, chain>>
================================================================================
