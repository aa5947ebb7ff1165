------------------------------- MODULE ReceiptRoot -----------------------------
(***************************************************************************)
(* The root over the receipts of an epoch (core/transcript.py): the server *)
(* publishes one leaf per miner, of its hotkey and the digest of its       *)
(* transcript, and validators read only the transcript under the root.     *)
(* A digest is a sequence of numbers that no two inputs share.             *)
(***************************************************************************)
EXTENDS Integers, Sequences, FiniteSets, SequencesExt

CONSTANT Receipted      \* the receipts of epochs: the digest of a transcript by its hotkey

ASSUME ReceiptsAssumption ==
    \A leaves \in Receipted :
        /\ IsFiniteSet(DOMAIN leaves) /\ DOMAIN leaves \subseteq Int
        /\ leaves = [h \in DOMAIN leaves |-> leaves[h]]

---------------------------------------------------------------------------------
Leaf(hotkey, sha) == <<hotkey, sha>>
Parent(left, right) == <<-1>> \o left \o <<-2>> \o right \o <<-3>>

\* The leaves by hotkey, and each level above them; a last one alone is its own partner.
OrderedLeaves(leaves) ==
    LET rank(h) == Cardinality({g \in DOMAIN leaves : g <= h})
        name(k) == CHOOSE h \in DOMAIN leaves : rank(h) = k
    IN  [k \in 1..Cardinality(DOMAIN leaves) |-> Leaf(name(k), leaves[name(k)])]

\* Variant: a last node alone goes up as it is.
AboveBare(level) ==
    [k \in 1..((Len(level) + 1) \div 2) |->
        IF 2 * k <= Len(level) THEN Parent(level[2 * k - 1], level[2 * k]) ELSE level[2 * k - 1]]

Above(level) ==
    [k \in 1..((Len(level) + 1) \div 2) |->
        Parent(level[2 * k - 1], IF 2 * k <= Len(level) THEN level[2 * k] ELSE level[2 * k - 1])]

Up(rows) == LET up[n \in 0..Len(rows)] == IF n = 0 THEN rows ELSE Above(up[n - 1]) IN up
Levels(rows) ==
    LET up == Up(rows)
        top == CHOOSE n \in 0..Len(rows) : Len(up[n]) = 1 /\ \A m \in 0..(n - 1) : Len(up[m]) > 1
    IN  [n \in 1..(top + 1) |-> up[n - 1]]

MerkleRoot(leaves) ==
    IF DOMAIN leaves = {} THEN <<>> ELSE Last(Levels(OrderedLeaves(leaves)))[1]

\* Where the path from a leaf is in each level; positions count from 0.
Place(rows, hotkey) ==
    LET place[n \in 0..Len(rows)] ==
            IF n = 0 THEN (CHOOSE k \in DOMAIN rows : rows[k][1] = hotkey) - 1
            ELSE place[n - 1] \div 2
    IN  place

MerkleProof(leaves, hotkey) ==
    LET rows == OrderedLeaves(leaves)
        levels == Levels(rows)
        place == Place(rows, hotkey)
    IN  [n \in 1..(Len(levels) - 1) |->
            LET p == place[n - 1]
                sibling == IF p % 2 = 0 THEN p + 1 ELSE p - 1
            IN  [left |-> sibling < p,
                 hash |-> IF sibling < Len(levels[n]) THEN levels[n][sibling + 1]
                          ELSE levels[n][p + 1]]]

\* What a leaf and the first steps of a proof come to.
Climb(leaf, proof) ==
    LET up[n \in 0..Len(proof)] ==
            IF n = 0 THEN leaf
            ELSE IF proof[n].left THEN Parent(proof[n].hash, up[n - 1])
            ELSE Parent(up[n - 1], proof[n].hash)
    IN  up
CheckProof(leaf, proof, root) == Climb(leaf, proof)[Len(proof)] = root

\* under_root: the leaf is the miner's, and the leaves are those of the root.
VerifyLeaf(hotkey, sha, leaves, root) ==
    hotkey \in DOMAIN leaves /\ leaves[hotkey] = sha /\ MerkleRoot(leaves) = root

---------------------------------------------------------------------------------
(***************************************************************************)
(* The root binds the receipts: other receipts have another root, however  *)
(* many miners there are; the proof of a miner leads to the root from its  *)
(* leaf, and from no leaf of another miner or transcript; and leaves       *)
(* verify under the root if they are its own (core/transcript.py           *)
(* merkle_root, merkle_proof, check_proof, verify_leaf).                   *)
(***************************************************************************)
RootBinds ==
    LET published == {[leaves |-> leaves, root |-> MerkleRoot(leaves)] : leaves \in Receipted}
        claims == UNION {{Leaf(h, leaves[h]) : h \in DOMAIN leaves} : leaves \in Receipted}
    IN  /\ \A one, two \in published : one.root = two.root => one = two
        /\ \A p \in published : \A who \in DOMAIN p.leaves :
              LET proof == MerkleProof(p.leaves, who)
              IN  \A claim \in claims :
                     CheckProof(claim, proof, p.root) <=> claim = Leaf(who, p.leaves[who])
        /\ \A p \in published : \A claim \in claims :
              VerifyLeaf(claim[1], claim[2], p.leaves, p.root)
                 <=> \E who \in DOMAIN p.leaves : claim = Leaf(who, p.leaves[who])
=============================================================================
