--------------------------- MODULE ServingHostProofs ---------------------------
(* Theorems about the two halves of an inference host, for any cards, models, *)
(* catalogues and keys: HostEngines, then ServingHost.                        *)
EXTENDS HostEngines, ServingHost, FiniteSetTheorems, WellFoundedInduction, TLAPS

-----------------------------------------------------------------------------
(* Induction, and functions made by recursion. *)

\* Induction over the naturals; F is the set of good numbers.
LEMMA NatInduct ==
  ASSUME NEW F, 0 \in F, \A n \in Nat : n \in F => n + 1 \in F
  PROVE \A n \in Nat : n \in F
<1> DEFINE Bad == Nat \ F
<1>1. SUFFICES ASSUME Bad # {} PROVE FALSE
  OBVIOUS
<1>2. \E n \in Bad : \A m \in Bad : ~ (<<m, n>> \in OpToRel(<, Nat))
  <2>1. Bad \subseteq Nat
    OBVIOUS
  <2> HIDE DEF Bad
  <2> QED BY <2>1, <1>1, NatLessThanWellFounded, WFMin
<1>3. PICK n \in Bad : \A m \in Bad : ~ (<<m, n>> \in OpToRel(<, Nat))
  BY <1>2
<1>4. n # 0 /\ n - 1 \in Nat /\ n - 1 \notin F
  <2>1. n \in Nat /\ n \notin F
    BY <1>3
  <2>2. n # 0 /\ n - 1 \in Nat /\ (n - 1) + 1 = n
    BY <2>1
  <2> QED BY <2>1, <2>2
<1>5. <<n - 1, n>> \in OpToRel(<, Nat)
  BY <1>4 DEF OpToRel
<1> QED BY <1>3, <1>4, <1>5

\* A function is applied again and again.
Iterated(g, S, base, N, G) ==
    g \in [0..N -> S] /\ g[0] = base /\ \A k \in 1..N : g[k] = G[<<k, g[k - 1]>>]

LEMMA Iterates ==
  ASSUME NEW S, NEW base \in S, NEW N \in Nat, NEW G \in [(1..N) \X S -> S]
  PROVE \E g : Iterated(g, S, base, N, G)
<1> DEFINE good(g, n) == g[0] = base /\ \A k \in 1..n : g[k] = G[<<k, g[k - 1]>>]
           F == {n \in Nat : n <= N => \E g \in [0..n -> S] : good(g, n)}
<1>1. 0 \in F
  <2> DEFINE g == [k \in 0..0 |-> base]
  <2>1. g \in [0..0 -> S] /\ good(g, 0)
    OBVIOUS
  <2> HIDE DEF g, good
  <2> QED BY <2>1
<1>2. ASSUME NEW n \in Nat, n \in F PROVE n + 1 \in F
  <2> SUFFICES ASSUME n + 1 <= N PROVE \E h \in [0..(n + 1) -> S] : good(h, n + 1)
    OBVIOUS
  <2>1. PICK g \in [0..n -> S] : good(g, n)
    BY <1>2
  <2> DEFINE h == [k \in 0..(n + 1) |-> IF k <= n THEN g[k] ELSE G[<<n + 1, g[n]>>]]
  <2>2. G[<<n + 1, g[n]>>] \in S
    <3>1. n + 1 \in 1..N /\ g[n] \in S
      BY SMTT(30)
    <3> QED BY <3>1, Zenon
  <2>3. h \in [0..(n + 1) -> S] /\ h[n + 1] = G[<<n + 1, g[n]>>] /\ \A k \in 0..n : h[k] = g[k]
    BY <2>2
  <2> HIDE DEF h
  <2>4. \A k \in 1..(n + 1) : h[k] = G[<<k, h[k - 1]>>]
    <3> TAKE k \in 1..(n + 1)
    <3>1. CASE k = n + 1
      BY <3>1, <2>3
    <3>2. CASE k # n + 1
      <4>1. k \in 1..n /\ k \in 0..n /\ k - 1 \in 0..n
        BY <3>2
      <4> QED BY <4>1, <2>1, <2>3
    <3> QED BY <3>1, <3>2
  <2>5. good(h, n + 1)
    BY <2>1, <2>3, <2>4
  <2> HIDE DEF good
  <2> QED BY <2>3, <2>5
<1>3. N \in F
  <2> HIDE DEF F
  <2> QED BY <1>1, <1>2, NatInduct
<1> QED BY <1>3 DEF Iterated

-----------------------------------------------------------------------------
(* Which model a card is given. *)

\* A finite set in a total order has a first element.
IsFirst(m, T, L) == m \in T /\ \A n \in T \ {m} : <<m, n>> \in L

LEMMA FirstOfFinite ==
    ASSUME NEW T, IsFiniteSet(T), T # {}, NEW L,
           \A m \in T, n \in T : m # n => <<m, n>> \in L \/ <<n, m>> \in L,
           \A k, m, n \in T : <<k, m>> \in L /\ <<m, n>> \in L => <<k, n>> \in L
    PROVE  \E m : IsFirst(m, T, L)
<1> DEFINE F == {z \in Nat : \A U \in SUBSET T : Cardinality(U) = z + 1 => \E m : IsFirst(m, U, L)}
<1>1. 0 \in F
    <2> SUFFICES ASSUME NEW U \in SUBSET T, Cardinality(U) = 0 + 1 PROVE \E m : IsFirst(m, U, L)
        OBVIOUS
    <2>1. IsFiniteSet(U)
        BY FS_Subset
    <2>2. \E x : U = {x}
        <3>1. Cardinality(U) = 1
            OBVIOUS
        <3> QED BY <2>1, <3>1, FS_Singleton, Zenon
    <2>3. PICK x : U = {x}
        BY <2>2
    <2>4. IsFirst(x, U, L)
        BY <2>3 DEF IsFirst
    <2> QED BY <2>4
<1>2. ASSUME NEW z \in Nat, z \in F PROVE z + 1 \in F
    <2> SUFFICES ASSUME NEW U \in SUBSET T, Cardinality(U) = (z + 1) + 1 PROVE \E m : IsFirst(m, U, L)
        OBVIOUS
    <2>1. IsFiniteSet(U)
        BY FS_Subset
    <2>2. U # {}
        <3>1. \A n \in Nat : (n + 1) + 1 # 0
            OBVIOUS
        <3>2. Cardinality(U) # 0
            BY <3>1
        <3>3. Cardinality({}) = 0
            BY FS_EmptySet
        <3> QED BY <3>2, <3>3, Zenon
    <2>3. PICK x \in U : TRUE
        BY <2>2
    <2>4. U \ {x} \in SUBSET T /\ Cardinality(U \ {x}) = z + 1
        <3>1. Cardinality(U \ {x}) = Cardinality(U) - 1
            BY <2>1, <2>3, FS_RemoveElement
        <3>2. \A n \in Nat : ((n + 1) + 1) - 1 = n + 1
            OBVIOUS
        <3> QED BY <3>1, <3>2
    <2>5. PICK m : IsFirst(m, U \ {x}, L)
        BY <1>2, <2>4
    <2>6. m \in T /\ x \in T /\ m # x /\ m \in U
        BY <2>3, <2>5 DEF IsFirst
    <2>7. CASE <<m, x>> \in L
        <3>1. IsFirst(m, U, L)
            BY <2>5, <2>6, <2>7 DEF IsFirst
        <3> QED BY <3>1
    <2>8. CASE <<x, m>> \in L
        <3>1. \A n \in U \ {x} : <<x, n>> \in L
            <4> SUFFICES ASSUME NEW n \in U \ {x} PROVE <<x, n>> \in L
                OBVIOUS
            <4>1. CASE n = m
                BY <4>1, <2>8
            <4>2. CASE n # m
                BY <4>2, <2>5, <2>6, <2>8 DEF IsFirst
            <4> QED BY <4>1, <4>2
        <3>2. IsFirst(x, U, L)
            BY <3>1, <2>3 DEF IsFirst
        <3> QED BY <3>2
    <2> QED BY <2>6, <2>7, <2>8
<1>3. \A z \in Nat : z \in F
    <2> HIDE DEF F
    <2> QED BY <1>1, <1>2, NatInduct
<1>4. Cardinality(T) \in Nat /\ Cardinality(T) # 0
    BY FS_CardinalityType, FS_EmptySet
<1>5. PICK z \in Nat : Cardinality(T) = z + 1
    <2>1. \A a \in Nat : a # 0 => a - 1 \in Nat /\ a = (a - 1) + 1
        OBVIOUS
    <2> QED BY <1>4, <2>1
<1> QED BY <1>3, <1>5

\* Keys of five numbers, in lexicographic order.
IsKey(k) == /\ k[1] \in Int /\ k[2] \in Int /\ k[3] \in Int /\ k[4] \in Int /\ k[5] \in Int

LEMMA LessIs ==
    ASSUME NEW k, NEW l
    PROVE  Less(k, l) <=>
             \/ k[1] < l[1]
             \/ k[1] = l[1] /\ k[2] < l[2]
             \/ k[1] = l[1] /\ k[2] = l[2] /\ k[3] < l[3]
             \/ k[1] = l[1] /\ k[2] = l[2] /\ k[3] = l[3] /\ k[4] < l[4]
             \/ k[1] = l[1] /\ k[2] = l[2] /\ k[3] = l[3] /\ k[4] = l[4] /\ k[5] < l[5]
<1>1. 1..5 = {1, 2, 3, 4, 5}
    OBVIOUS
<1>2. /\ 1..(1 - 1) = {} /\ 1..(2 - 1) = {1} /\ 1..(3 - 1) = {1, 2}
      /\ 1..(4 - 1) = {1, 2, 3} /\ 1..(5 - 1) = {1, 2, 3, 4}
    OBVIOUS
<1> DEFINE at(i) == k[i] < l[i] /\ \A j \in 1..(i - 1) : k[j] = l[j]
<1>3. Less(k, l) <=> at(1) \/ at(2) \/ at(3) \/ at(4) \/ at(5)
    BY <1>1, Zenon DEF Less
<1>4. at(1) <=> k[1] < l[1]
    BY <1>2, Zenon
<1>5. at(2) <=> k[2] < l[2] /\ k[1] = l[1]
    BY <1>2, Zenon
<1>6. at(3) <=> k[3] < l[3] /\ k[1] = l[1] /\ k[2] = l[2]
    BY <1>2, Zenon
<1>7. at(4) <=> k[4] < l[4] /\ k[1] = l[1] /\ k[2] = l[2] /\ k[3] = l[3]
    BY <1>2, Zenon
<1>8. at(5) <=> k[5] < l[5] /\ k[1] = l[1] /\ k[2] = l[2] /\ k[3] = l[3] /\ k[4] = l[4]
    BY <1>2, Zenon
<1> HIDE DEF at
<1> QED BY <1>3, <1>4, <1>5, <1>6, <1>7, <1>8, Zenon

LEMMA LessOrders ==
    ASSUME NEW k, NEW l, NEW m, IsKey(k), IsKey(l), IsKey(m)
    PROVE  /\ ~(Less(k, l) /\ Less(l, k))
           /\ Less(k, l) /\ Less(l, m) => Less(k, m)
           /\ k[5] # l[5] => Less(k, l) \/ Less(l, k)
<1>1. ~(Less(k, l) /\ Less(l, k))
    BY LessIs DEF IsKey
<1>2. Less(k, l) /\ Less(l, m) => Less(k, m)
    BY LessIs DEF IsKey
<1>3. k[5] # l[5] => Less(k, l) \/ Less(l, k)
    BY LessIs DEF IsKey
<1> QED BY <1>1, <1>2, <1>3

\* A key that is no greater in each number stays the lesser one.
LEMMA LessStays ==
    ASSUME NEW k, NEW l, NEW i, NEW j, IsKey(k), IsKey(l), IsKey(i), IsKey(j), Less(k, l),
           i[1] <= k[1] /\ i[2] <= k[2] /\ i[3] <= k[3] /\ i[4] <= k[4] /\ i[5] <= k[5],
           l[1] <= j[1] /\ l[2] <= j[2] /\ l[3] <= j[3] /\ l[4] <= j[4] /\ l[5] <= j[5]
    PROVE  Less(i, j)
BY LessIs DEF IsKey

\* Offers of models, and the models given so far.
IsSeen(seen) == DOMAIN seen \subseteq Models /\ IsFiniteSet(DOMAIN seen) /\ seen \in [DOMAIN seen -> Offers]

LEMMA UsableIs ==
    ASSUME NEW seen, IsSeen(seen)
    PROVE  /\ Usable(seen) \subseteq Models /\ IsFiniteSet(Usable(seen))
           /\ \A m \in Usable(seen) : m \in Nat /\ seen[m] \in Offers /\ m \in DOMAIN seen
<1>1. Usable(seen) \subseteq DOMAIN seen
    BY DEF Usable
<1>2. IsFiniteSet(Usable(seen))
    BY <1>1, FS_Subset DEF IsSeen
<1> QED BY <1>1, <1>2, CardsAssumption DEF IsSeen

\* The five numbers of a rank: the third part of the score is at least none.
LEMMA RankParts ==
    ASSUME NEW seen, IsSeen(seen), NEW m \in Usable(seen), NEW given, given[m] \in Nat
    PROVE  \E worth \in Nat : \A has, wish :
             LET r == Rank(m, seen, given, has, wish)
             IN  /\ r[1] = (IF wish = m THEN 0 ELSE 1)
                 /\ r[2] = (IF has[1] = m THEN -(3 * worth) ELSE -(2 * worth))
                 /\ r[3] = (IF has[1] = m THEN 0 ELSE 1)
                 /\ r[4] = (IF seen[m].cold THEN 0 ELSE 1)
                 /\ r[5] = m /\ m \in Nat
<1> DEFINE worth == seen[m].wanted * (Whole \div (given[m] + 1))
<1>1. m \in Nat /\ seen[m].wanted \in Nat
    BY UsableIs DEF Offers
<1>2. worth \in Nat
    <2>1. \A g \in Nat : Whole \div (g + 1) \in Nat
        BY DEF Whole
    <2>2. \A a, b \in Nat : a * b \in Nat
        OBVIOUS
    <2> QED BY <1>1, <2>1, <2>2
<1>3. \A keep \in BOOLEAN : Score(seen[m], given[m], keep) = worth * (IF keep THEN 3 ELSE 2)
    BY Zenon DEF Score
<1> HIDE DEF worth
<1>4. -(worth * 3) = -(3 * worth) /\ -(worth * 2) = -(2 * worth)
    BY <1>2
<1>5. ASSUME NEW has, NEW wish
      PROVE  LET r == Rank(m, seen, given, has, wish)
             IN  /\ r[1] = (IF wish = m THEN 0 ELSE 1)
                 /\ r[2] = (IF has[1] = m THEN -(3 * worth) ELSE -(2 * worth))
                 /\ r[3] = (IF has[1] = m THEN 0 ELSE 1)
                 /\ r[4] = (IF seen[m].cold THEN 0 ELSE 1)
                 /\ r[5] = m
    <2> DEFINE score == Score(seen[m], given[m], has[1] = m)
    <2>1. score = (IF has[1] = m THEN worth * 3 ELSE worth * 2)
        BY <1>3, Zenon
    <2> HIDE DEF score
    <2>2. Rank(m, seen, given, has, wish) =
             <<IF wish = m THEN 0 ELSE 1, -score, IF has[1] = m THEN 0 ELSE 1,
               IF seen[m].cold THEN 0 ELSE 1, m>>
        BY Zenon DEF Rank, score
    <2>3. -score = IF has[1] = m THEN -(3 * worth) ELSE -(2 * worth)
        BY <2>1, <1>4, Zenon
    <2> QED BY <2>2, <2>3
<1> QED BY <1>1, <1>2, <1>5

LEMMA RankIsKey ==
    ASSUME NEW seen, IsSeen(seen), NEW m \in Usable(seen), NEW given, given[m] \in Nat,
           NEW has, NEW wish
    PROVE  IsKey(Rank(m, seen, given, has, wish)) /\ Rank(m, seen, given, has, wish)[5] = m
<1> DEFINE r == Rank(m, seen, given, has, wish)
<1>1. PICK worth \in Nat :
             /\ r[1] = (IF wish = m THEN 0 ELSE 1)
             /\ r[2] = (IF has[1] = m THEN -(3 * worth) ELSE -(2 * worth))
             /\ r[3] = (IF has[1] = m THEN 0 ELSE 1)
             /\ r[4] = (IF seen[m].cold THEN 0 ELSE 1)
             /\ r[5] = m /\ m \in Nat
    BY RankParts
<1> HIDE DEF r
<1>2. IsKey(r) /\ r[5] = m
    BY <1>1 DEF IsKey
<1> QED BY <1>2 DEF r

\* The model that ranks first: there is one, and only one.
Ranks(m, usable, seen, given, has, wish) ==
    m \in usable /\ \A n \in usable \ {m} :
        Less(Rank(m, seen, given, has, wish), Rank(n, seen, given, has, wish))

LEMMA ChosenIs ==
    ASSUME NEW seen, IsSeen(seen), Usable(seen) # {}, NEW given,
           \A m \in Models : given[m] \in Nat, NEW has, NEW wish
    PROVE  /\ Ranks(Chosen(Usable(seen), seen, given, has, wish), Usable(seen), seen, given, has, wish)
           /\ \A m : Ranks(m, Usable(seen), seen, given, has, wish)
                        => m = Chosen(Usable(seen), seen, given, has, wish)
<1> DEFINE usable == Usable(seen)
           R(m) == Rank(m, seen, given, has, wish)
           L == {p \in usable \X usable : Less(R(p[1]), R(p[2]))}
<1>1. \A m \in usable : IsKey(R(m)) /\ R(m)[5] = m
    BY UsableIs, RankIsKey
<1>2. usable # {} /\ IsFiniteSet(usable)
    BY UsableIs
<1> HIDE DEF usable, R
<1>3. \A m, n \in usable : <<m, n>> \in L <=> Less(R(m), R(n))
    OBVIOUS
<1> HIDE DEF L
<1>4. \A m \in usable, n \in usable : m # n => <<m, n>> \in L \/ <<n, m>> \in L
    BY <1>1, <1>3, LessOrders
<1>5. \A k, m, n \in usable : <<k, m>> \in L /\ <<m, n>> \in L => <<k, n>> \in L
    BY <1>1, <1>3, LessOrders
<1>6. \E m : IsFirst(m, usable, L)
    BY <1>2, <1>4, <1>5, FirstOfFinite
<1>7. \E m : Ranks(m, usable, seen, given, has, wish)
    BY <1>3, <1>6 DEF IsFirst, Ranks, R
<1>8. Ranks(Chosen(usable, seen, given, has, wish), usable, seen, given, has, wish)
    <2>1. PICK m : Ranks(m, usable, seen, given, has, wish)
        BY <1>7
    <2>2. Chosen(usable, seen, given, has, wish) =
             CHOOSE x \in usable : \A n \in usable \ {x} :
                Less(Rank(x, seen, given, has, wish), Rank(n, seen, given, has, wish))
        BY Zenon DEF Chosen
    <2> QED BY <2>1, <2>2, Zenon DEF Ranks
<1>9. ASSUME NEW m, NEW n, Ranks(m, usable, seen, given, has, wish), Ranks(n, usable, seen, given, has, wish)
      PROVE  m = n
    <2> SUFFICES ASSUME m # n PROVE FALSE
        OBVIOUS
    <2>1. m \in usable /\ n \in usable /\ Less(R(m), R(n)) /\ Less(R(n), R(m))
        BY <1>9 DEF Ranks, R
    <2> QED BY <1>1, <2>1, LessOrders
<1> QED BY <1>8, <1>9 DEF usable

\* A model that is first on a card that does not hold it is first when it does.
LEMMA KeptStaysFirst ==
    ASSUME NEW seen, IsSeen(seen), NEW given, \A m \in Models : given[m] \in Nat,
           NEW has, NEW wish, NEW c, Ranks(c, Usable(seen), seen, given, has, wish),
           NEW now, now[1] = c
    PROVE  Ranks(c, Usable(seen), seen, given, now, wish)
<1>1. c \in Usable(seen)
    BY DEF Ranks
<1>2. ASSUME NEW n \in Usable(seen) \ {c}
      PROVE  Less(Rank(c, seen, given, now, wish), Rank(n, seen, given, now, wish))
    <2> DEFINE k == Rank(c, seen, given, has, wish)  i == Rank(c, seen, given, now, wish)
               l == Rank(n, seen, given, has, wish)  j == Rank(n, seen, given, now, wish)
    <2>1. Less(k, l)
        BY <1>2 DEF Ranks
    <2>2. given[c] \in Nat /\ given[n] \in Nat
        BY <1>1, <1>2, UsableIs
    <2>3. IsKey(k) /\ IsKey(i) /\ IsKey(l) /\ IsKey(j)
        BY <1>1, <1>2, <2>2, RankIsKey
    <2>4. i[1] <= k[1] /\ i[2] <= k[2] /\ i[3] <= k[3] /\ i[4] <= k[4] /\ i[5] <= k[5]
        <3>1. PICK worth \in Nat : \A h, w :
                 LET r == Rank(c, seen, given, h, w)
                 IN  /\ r[1] = (IF w = c THEN 0 ELSE 1)
                     /\ r[2] = (IF h[1] = c THEN -(3 * worth) ELSE -(2 * worth))
                     /\ r[3] = (IF h[1] = c THEN 0 ELSE 1)
                     /\ r[4] = (IF seen[c].cold THEN 0 ELSE 1)
                     /\ r[5] = c /\ c \in Nat
            BY <1>1, <2>2, RankParts
        <3>2. /\ i[1] = k[1] /\ i[4] = k[4] /\ i[5] = k[5] /\ i[3] = 0 /\ k[3] \in {0, 1}
              /\ i[2] = -(3 * worth) /\ k[2] \in {-(3 * worth), -(2 * worth)}
            BY <3>1
        <3> HIDE DEF i, k
        <3> QED BY <2>3, <3>2 DEF IsKey
    <2>5. l[1] <= j[1] /\ l[2] <= j[2] /\ l[3] <= j[3] /\ l[4] <= j[4] /\ l[5] <= j[5]
        <3>1. PICK worth \in Nat : \A h, w :
                 LET r == Rank(n, seen, given, h, w)
                 IN  /\ r[1] = (IF w = n THEN 0 ELSE 1)
                     /\ r[2] = (IF h[1] = n THEN -(3 * worth) ELSE -(2 * worth))
                     /\ r[3] = (IF h[1] = n THEN 0 ELSE 1)
                     /\ r[4] = (IF seen[n].cold THEN 0 ELSE 1)
                     /\ r[5] = n /\ n \in Nat
            BY <1>2, <2>2, RankParts
        <3>2. now[1] # n
            BY <1>2
        <3>3. /\ l[1] = j[1] /\ l[4] = j[4] /\ l[5] = j[5] /\ j[3] = 1 /\ l[3] \in {0, 1}
              /\ j[2] = -(2 * worth) /\ l[2] \in {-(3 * worth), -(2 * worth)}
            BY <3>1, <3>2
        <3> HIDE DEF l, j
        <3> QED BY <2>3, <3>3 DEF IsKey
    <2> HIDE DEF i, j, k, l
    <2>6. Less(i, j)
        BY <2>1, <2>3, <2>4, <2>5, LessStays
    <2> QED BY <2>6 DEF i, j
<1> QED BY <1>1, <1>2 DEF Ranks

-----------------------------------------------------------------------------
(* The cards in order. *)

\* How often each model was given to the cards before c.
Before(by, c) == [n \in Models |-> Cardinality({d \in 1..(c - 1) : by[d] = n})]

\* A pass: each card has what ranks first on it, after the cards before it.
IsPass(by, seen, holds, wishes) ==
    /\ by \in [Cards -> Usable(seen)]
    /\ \A c \in Cards : by[c] = Chosen(Usable(seen), seen, Before(by, c), holds[c], wishes[c])

LEMMA BeforeIs ==
    ASSUME NEW by, NEW c \in Nat
    PROVE  \A n \in Models : Before(by, c)[n] \in Nat
<1> SUFFICES ASSUME NEW n \in Models PROVE Before(by, c)[n] \in Nat
    OBVIOUS
<1>1. IsFiniteSet(1..(c - 1))
    BY FS_Interval
<1>2. {d \in 1..(c - 1) : by[d] = n} \in SUBSET (1..(c - 1))
    OBVIOUS
<1>3. IsFiniteSet({d \in 1..(c - 1) : by[d] = n})
    BY <1>1, <1>2, FS_Subset
<1> QED BY <1>3, FS_CardinalityType DEF Before

\* What assign gives is a pass.
Given(by, seen, holds, wishes) ==
    Assign(seen, holds, wishes) = [c \in Cards |-> <<by[c], seen[by[c]].digest>>]

LEMMA AssignIs ==
    ASSUME NEW seen, IsSeen(seen), Usable(seen) # {}, NEW holds, NEW wishes
    PROVE  \E by : IsPass(by, seen, holds, wishes) /\ Given(by, seen, holds, wishes)
<1> DEFINE usable == Usable(seen)
           next(c, g) == [d \in 1..c |-> IF d < c THEN g[d]
                                         ELSE Chosen(usable, seen, Before(g, c), holds[c], wishes[c])]
           S == UNION {[1..c -> usable] : c \in 0..NCards}
           G == [x \in (1..NCards) \X S |-> next(x[1], IF x[2] \in [1..(x[1] - 1) -> usable] THEN x[2]
                                                       ELSE [d \in 1..(x[1] - 1) |-> CHOOSE m \in usable : TRUE])]
           given[c \in 0..NCards] ==
               IF c = 0 THEN <<>>
               ELSE LET counts == [n \in Models |-> Cardinality({d \in 1..(c - 1) : given[c - 1][d] = n})]
                    IN [d \in 1..c |-> IF d < c THEN given[c - 1][d]
                                       ELSE Chosen(usable, seen, counts, holds[c], wishes[c])]
           makes(g) == g = [c \in 0..NCards |->
               IF c = 0 THEN <<>>
               ELSE LET counts == [n \in Models |-> Cardinality({d \in 1..(c - 1) : g[c - 1][d] = n})]
                    IN [d \in 1..c |-> IF d < c THEN g[c - 1][d]
                                       ELSE Chosen(usable, seen, counts, holds[c], wishes[c])]]
<1>1. NCards \in Nat /\ NCards >= 1
    BY CardsAssumption
<1>2. ASSUME NEW g, NEW c \in 1..NCards
      PROVE  Chosen(usable, seen, Before(g, c), holds[c], wishes[c]) \in usable
    <2>1. \A n \in Models : Before(g, c)[n] \in Nat
        BY <1>1, BeforeIs
    <2> QED BY <2>1, ChosenIs DEF Ranks
<1>3. ASSUME NEW c \in 1..NCards, NEW g \in [1..(c - 1) -> usable]
      PROVE  next(c, g) \in [1..c -> usable]
    <2>1. \A d \in 1..c : d < c => d \in 1..(c - 1)
        BY <1>1
    <2> HIDE DEF usable
    <2> QED BY <1>2, <2>1
<1>4. G \in [(1..NCards) \X S -> S]
    <2>1. ASSUME NEW c \in 1..NCards, NEW g PROVE G[<<c, g>>] = G[<<c, g>>]
        OBVIOUS
    <2> SUFFICES ASSUME NEW x \in (1..NCards) \X S
                 PROVE  next(x[1], IF x[2] \in [1..(x[1] - 1) -> usable] THEN x[2]
                                   ELSE [d \in 1..(x[1] - 1) |-> CHOOSE m \in usable : TRUE]) \in S
        BY Zenon
    <2> DEFINE g == IF x[2] \in [1..(x[1] - 1) -> usable] THEN x[2]
                    ELSE [d \in 1..(x[1] - 1) |-> CHOOSE m \in usable : TRUE]
    <2>2. x[1] \in 1..NCards /\ x[1] \in 0..NCards
        BY <1>1
    <2>3. g \in [1..(x[1] - 1) -> usable]
        OBVIOUS
    <2> HIDE DEF g, next, usable
    <2>4. next(x[1], g) \in [1..x[1] -> usable]
        BY <1>3, <2>2, <2>3
    <2> QED BY <2>2, <2>4 DEF g
<1>5. <<>> \in S
    <2>1. <<>> \in [1..0 -> usable] /\ 0 \in 0..NCards
        BY <1>1
    <2> QED BY <2>1
<1> HIDE DEF G, S
<1>6. PICK g : Iterated(g, S, <<>>, NCards, G)
    BY <1>1, <1>4, <1>5, Iterates
<1>7. /\ g[0] = <<>>
      /\ \A c \in 0..NCards : g[c] \in [1..c -> usable]
      /\ \A c \in 1..NCards : g[c] = next(c, g[c - 1])
    <2> DEFINE F == {c \in Nat : c <= NCards => /\ g[c] \in [1..c -> usable]
                                                /\ c # 0 => g[c] = next(c, g[c - 1])}
    <2>0. g[0] = <<>>
        BY <1>6 DEF Iterated
    <2>1. 0 \in F
        <3>1. <<>> \in [1..0 -> usable]
            OBVIOUS
        <3> QED BY <2>0, <3>1
    <2>2. ASSUME NEW n \in Nat, n \in F PROVE n + 1 \in F
        <3> SUFFICES ASSUME n + 1 <= NCards
                     PROVE  g[n + 1] \in [1..(n + 1) -> usable] /\ g[n + 1] = next(n + 1, g[n])
            BY <1>1
        <3>1. n + 1 \in 1..NCards /\ (n + 1) - 1 = n /\ n \in 0..NCards /\ g[n] \in [1..n -> usable]
            BY <1>1, <2>2
        <3>2. g[n + 1] = G[<<n + 1, g[n]>>] /\ g[n] \in S
            BY <1>6, <3>1 DEF Iterated
        <3> HIDE DEF next, usable
        <3>3. G[<<n + 1, g[n]>>] = next(n + 1, g[n])
            BY <3>1, <3>2 DEF G
        <3>4. next(n + 1, g[n]) \in [1..(n + 1) -> usable]
            BY <1>3, <3>1
        <3> QED BY <3>2, <3>3, <3>4
    <2>3. \A n \in Nat : n \in F
        <3> HIDE DEF F
        <3> QED BY <2>1, <2>2, NatInduct
    <2> HIDE DEF next, usable
    <2> QED BY <2>0, <2>3, <1>1
<1>8. makes(g)
    <2>1. ASSUME NEW c \in 0..NCards
          PROVE  g[c] = IF c = 0 THEN <<>> ELSE next(c, g[c - 1])
        <3>1. c # 0 => c \in 1..NCards
            BY <1>1
        <3> HIDE DEF next
        <3> QED BY <1>7, <3>1
    <2>2. g = [c \in 0..NCards |-> g[c]]
        BY <1>6 DEF Iterated
    <2>3. g = [c \in 0..NCards |-> IF c = 0 THEN <<>> ELSE next(c, g[c - 1])]
        <3> HIDE DEF next
        <3> QED BY <2>1, <2>2
    <2> QED BY <2>3, Zenon DEF Before
<1>9. makes(given)
    <2>1. given = CHOOSE h : makes(h)
        BY DEF given
    <2> HIDE DEF makes, given
    <2> QED BY <1>8, <2>1
<1> HIDE DEF given
<1>10. /\ given[0] = <<>>
       /\ \A c \in 1..NCards : given[c] = next(c, given[c - 1])
    <2>1. \A c \in 1..NCards : c \in 0..NCards /\ c # 0
        BY <1>1
    <2>2. given = [c \in 0..NCards |-> IF c = 0 THEN <<>> ELSE next(c, given[c - 1])]
        BY <1>9, Zenon DEF Before
    <2>3. 0 \in 0..NCards
        BY <1>1
    <2> HIDE DEF next
    <2> QED BY <2>1, <2>2, <2>3, Zenon
<1>11. ASSUME NEW c \in 1..NCards, given[c - 1] \in [1..(c - 1) -> usable]
       PROVE  /\ given[c] \in [1..c -> usable]
              /\ given[c][c] = Chosen(usable, seen, Before(given[c - 1], c), holds[c], wishes[c])
              /\ \A d \in 1..(c - 1) : given[c][d] = given[c - 1][d]
    <2>1. given[c] \in [1..c -> usable]
        BY <1>3, <1>10, <1>11
    <2>2. c \in 1..c /\ ~(c < c) /\ \A d \in 1..(c - 1) : d < c /\ d \in 1..c
        BY <1>1
    <2>3. given[c] = [d \in 1..c |-> IF d < c THEN given[c - 1][d]
                        ELSE Chosen(usable, seen, Before(given[c - 1], c), holds[c], wishes[c])]
        BY <1>10, Zenon
    <2> HIDE DEF usable
    <2> QED BY <2>1, <2>2, <2>3, Zenon
<1> HIDE DEF next, usable
<1> DEFINE Same(c) == \A d \in 1..c : given[c][d] = given[d][d]
<1>12. \A c \in 0..NCards : given[c] \in [1..c -> usable] /\ Same(c)
    <2> DEFINE F == {c \in Nat : c <= NCards => given[c] \in [1..c -> usable] /\ Same(c)}
    <2>1. 0 \in F
        <3>1. <<>> \in [1..0 -> usable] /\ \A d \in 1..0 : FALSE
            OBVIOUS
        <3> QED BY <3>1, <1>10
    <2>2. ASSUME NEW n \in Nat, n \in F PROVE n + 1 \in F
        <3> SUFFICES ASSUME n + 1 <= NCards PROVE given[n + 1] \in [1..(n + 1) -> usable] /\ Same(n + 1)
            OBVIOUS
        <3>1. n + 1 \in 1..NCards /\ (n + 1) - 1 = n /\ given[n] \in [1..n -> usable] /\ Same(n)
            BY <1>1, <2>2
        <3>2. /\ given[n + 1] \in [1..(n + 1) -> usable]
              /\ \A d \in 1..n : given[n + 1][d] = given[n][d]
            BY <3>1, <1>11
        <3>3. \A d \in 1..(n + 1) : d \in 1..n \/ d = n + 1
            OBVIOUS
        <3> QED BY <3>1, <3>2, <3>3
    <2>3. \A n \in Nat : n \in F
        <3> HIDE DEF F
        <3> QED BY <2>1, <2>2, NatInduct
    <2> QED BY <2>3, <1>1
<1> DEFINE by == [c \in Cards |-> given[NCards][c]]
<1>13. by \in [Cards -> usable] /\ \A c \in Cards : by[c] = given[c][c]
    BY <1>1, <1>12 DEF Cards
<1>14. ASSUME NEW c \in Cards
       PROVE  by[c] = Chosen(usable, seen, Before(by, c), holds[c], wishes[c])
    <2>1. c \in 1..NCards /\ c - 1 \in 0..NCards /\ \A d \in 1..(c - 1) : d \in Cards
        BY <1>1 DEF Cards
    <2>2. given[c][c] = Chosen(usable, seen, Before(given[c - 1], c), holds[c], wishes[c])
        BY <2>1, <1>11, <1>12
    <2>3. \A d \in 1..(c - 1) : given[c - 1][d] = by[d]
        BY <2>1, <1>12, <1>13
    <2> HIDE DEF by
    <2>4. ASSUME NEW n PROVE {d \in 1..(c - 1) : given[c - 1][d] = n} = {d \in 1..(c - 1) : by[d] = n}
        BY <2>3
    <2>5. Before(given[c - 1], c) = Before(by, c)
        BY <2>4 DEF Before
    <2> QED BY <2>2, <2>5, <1>13
<1>15. Given(by, seen, holds, wishes)
    <2>1. Assign(seen, holds, wishes) =
             [c \in Cards |-> IF usable = {} THEN Nothing
                              ELSE <<given[NCards][c], seen[given[NCards][c]].digest>>]
        BY Zenon DEF Assign, given, usable
    <2>2. usable # {}
        BY DEF usable
    <2> QED BY <2>1, <2>2 DEF Given
<1>16. IsPass(by, seen, holds, wishes)
    <2> HIDE DEF by
    <2> QED BY <1>13, <1>14 DEF IsPass, usable
<1> QED BY <1>15, <1>16

\* There is one pass.
LEMMA OnePass ==
    ASSUME NEW seen, IsSeen(seen), Usable(seen) # {}, NEW wishes,
           NEW one, NEW two, NEW first, NEW now,
           IsPass(one, seen, first, wishes), IsPass(two, seen, now, wishes),
           \A c \in Cards : now[c][1] = one[c]
    PROVE  one = two
<1> DEFINE usable == Usable(seen)
           F == {n \in Nat : \A c \in Cards : c <= n => one[c] = two[c]}
<1>1. Cards \subseteq Nat /\ 0 \notin Cards /\ NCards \in Nat /\ \A c \in Cards : c <= NCards /\ c >= 1
    BY CardsAssumption DEF Cards
<1>2. 0 \in F
    BY <1>1
<1>3. ASSUME NEW n \in Nat, n \in F PROVE n + 1 \in F
    <2> SUFFICES ASSUME n + 1 \in Cards PROVE one[n + 1] = two[n + 1]
        BY <1>1, <1>3
    <2> DEFINE c == n + 1
    <2>1. \A d \in 1..(c - 1) : d \in Cards /\ one[d] = two[d]
        <3>1. \A d \in 1..(c - 1) : d \in Cards /\ d <= n
            BY <1>1 DEF Cards
        <3> QED BY <3>1, <1>3
    <2>2. c \in Cards /\ c \in Nat
        BY <1>1
    <2> HIDE DEF c
    <2>3. ASSUME NEW m PROVE {d \in 1..(c - 1) : one[d] = m} = {d \in 1..(c - 1) : two[d] = m}
        BY <2>1
    <2>4. Before(one, c) = Before(two, c)
        BY <2>3 DEF Before
    <2>5. /\ one[c] = Chosen(usable, seen, Before(one, c), first[c], wishes[c])
          /\ two[c] = Chosen(usable, seen, Before(one, c), now[c], wishes[c])
        BY <2>2, <2>4 DEF IsPass
    <2>6. \A m \in Models : Before(one, c)[m] \in Nat
        BY <2>2, BeforeIs
    <2>7. Ranks(one[c], usable, seen, Before(one, c), first[c], wishes[c])
        BY <2>5, <2>6, ChosenIs
    <2>8. Ranks(one[c], usable, seen, Before(one, c), now[c], wishes[c])
        BY <2>2, <2>6, <2>7, KeptStaysFirst
    <2>9. one[c] = two[c]
        BY <2>5, <2>6, <2>8, ChosenIs
    <2> QED BY <2>9 DEF c
<1>4. \A n \in Nat : n \in F
    <2> HIDE DEF F
    <2> QED BY <1>2, <1>3, NatInduct
<1>5. \A c \in Cards : one[c] = two[c]
    BY <1>1, <1>4
<1> QED BY <1>5 DEF IsPass

\* Assign gives a plan for the cards,
LEMMA AssignIsPlan ==
    ASSUME NEW seen, IsSeen(seen), NEW holds, NEW wishes
    PROVE  Assign(seen, holds, wishes) \in Holdings
<1>1. CASE Usable(seen) = {}
    BY <1>1 DEF Assign, Holdings
<1>2. CASE Usable(seen) # {}
    <2>1. PICK by : IsPass(by, seen, holds, wishes) /\ Given(by, seen, holds, wishes)
        BY <1>2, AssignIs
    <2>2. \A c \in Cards : by[c] \in Models /\ seen[by[c]].digest \in Digests
        BY <2>1, UsableIs DEF IsPass, Offers
    <2> QED BY <2>1, <2>2 DEF Given, Holdings, Pairs
<1> QED BY <1>1, <1>2

\* and assigned again to cards that hold it, it is the same.
LEMMA AssignSettles ==
    ASSUME NEW seen, IsSeen(seen), NEW holds, NEW wishes
    PROVE  Assign(seen, Assign(seen, holds, wishes), wishes) = Assign(seen, holds, wishes)
<1> DEFINE first == Assign(seen, holds, wishes)
<1>1. CASE Usable(seen) = {}
    BY <1>1 DEF Assign
<1>2. CASE Usable(seen) # {}
    <2>1. PICK one : IsPass(one, seen, holds, wishes) /\ Given(one, seen, holds, wishes)
        BY <1>2, AssignIs
    <2>2. \A c \in Cards : first[c][1] = one[c]
        BY <2>1 DEF Given
    <2> HIDE DEF first
    <2>3. PICK two : IsPass(two, seen, first, wishes) /\ Given(two, seen, first, wishes)
        BY <1>2, AssignIs
    <2>4. one = two
        BY <1>2, <2>1, <2>2, <2>3, OnePass
    <2> QED BY <2>1, <2>3, <2>4 DEF Given, first
<1> QED BY <1>1, <1>2

-----------------------------------------------------------------------------
(* HostEngines. *)
Helds == [pair : Pairs \cup {Nothing}, key : Keys \cup {None}]

Types ==
    /\ EnginesTypeOK
    /\ held \in [Cards -> Helds]
    /\ offers \in Catalogues /\ wished \in Wishes
    /\ files \in [Models -> SUBSET Digests] /\ marker \in [Models -> Digests \cup {None}]

\* Two cards that are to hold a model are to hold one manifest of it.
OneManifest == \A c, d \in Cards : plan[c][1] = plan[d][1] => plan[c] = plan[d]

\* While a plan is taken up, a card holds what it says, or nothing yet.
TakesUp ==
    thread \in {"take", "fetch", "start", "ready", "declare"} =>
        \A c \in Cards : Pair(c) \in {Nothing, plan[c]}

\* The card being taken up is a card of the plan, and holds nothing.
OnCard == thread \in {"fetch", "start", "ready"} => card \in Cards /\ plan[card] \in Pairs /\ held[card] = Idle

\* What apply is opening is on its card, and nobody has left it.
OnlyOpening == thread = "ready" => key \in Keys /\ \A d \in docker : d.key = key => d.card = card /\ d \notin lost

\* .complete names files that are there, and that are the manifest's.
MarkerSays == \A m \in Models : marker[m] \in Digests => marker[m] \in files[m] /\ <<m, marker[m]>> \notin Wrong

\* An engine is started on its files.
OnFiles ==
    thread \in {"start", "ready"} /\ Model \notin Imaged =>
        Digest \in files[Model] /\ plan[card] \notin Wrong

EnginesInv == /\ Types /\ OneManifest /\ TakesUp /\ OnCard /\ OnlyOpening /\ MarkerSays /\ OnFiles
       /\ NothingIsStray

-----------------------------------------------------------------------------
(* The plan, and the key of a new container. *)

\* What assign returns gives a model one digest: that of its offer.
LEMMA AssignIsOneManifest ==
    ASSUME NEW seen, NEW holds, NEW wishes, NEW c \in Cards, NEW d \in Cards,
           Assign(seen, holds, wishes)[c][1] = Assign(seen, holds, wishes)[d][1]
    PROVE  Assign(seen, holds, wishes)[c] = Assign(seen, holds, wishes)[d]
<1> DEFINE usable == Usable(seen)
           given[e \in 0..NCards] ==
               IF e = 0 THEN <<>>
               ELSE LET counts == [n \in Models |-> Cardinality({f \in 1..(e - 1) : given[e - 1][f] = n})]
                    IN [f \in 1..e |-> IF f < e THEN given[e - 1][f]
                                       ELSE Chosen(usable, seen, counts, holds[e], wishes[e])]
           Planned(e) == IF usable = {} THEN Nothing ELSE <<given[NCards][e], seen[given[NCards][e]].digest>>
<1>1. Assign(seen, holds, wishes) = [e \in Cards |-> Planned(e)]
    BY Zenon DEF Assign
<1>2. Planned(c)[1] = Planned(d)[1]
    BY <1>1
<1> HIDE DEF given, usable
<1>3. Planned(c) = Planned(d)
    BY <1>2
<1> HIDE DEF Planned
<1>4. QED BY <1>1, <1>3

LEMMA NothingIsNoPair == Nothing \notin Pairs
BY NamesAssumption DEF Nothing, Pairs

LEMMA FreeKey == ASSUME Free # {} PROVE (CHOOSE k \in Free : TRUE) \in Free
OBVIOUS

LEMMA ModelAndDigest ==
    ASSUME EnginesInv, card \in Cards, plan[card] \in Pairs
    PROVE  Model \in Models /\ Digest \in Digests /\ plan[card] = <<Model, Digest>>
BY DEF Model, Digest, Pairs

\* kill leaves what it closed, or what it could not close among the lost.
LEMMA KillLeaves ==
    ASSUME NEW gone, gone \subseteq docker, Kill(gone), lost \subseteq docker
    PROVE  /\ docker' \subseteq docker /\ lost' \subseteq docker'
           /\ docker' \ lost' = (docker \ lost) \ gone
BY DEF Kill

\* A card that is released holds nothing, and the others what they held.
LEMMA Released ==
    ASSUME EnginesInv, NEW c \in Cards, Kill(Of(c)), held' = [held EXCEPT ![c] = Idle],
           card' \in 0..NCards, UNCHANGED <<key, offers, wished, plan, cache, image>>,
           thread \in {"drop", "take"}, thread' \in {"drop", "fetch", "take"}
    PROVE  /\ Types' /\ OneManifest' /\ MarkerSays' /\ NothingIsStray'
           /\ \A d \in Cards : held'[d] = IF d = c THEN Idle ELSE held[d]
<1>1. Of(c) \subseteq docker
    BY DEF Of
<1>2. /\ docker' \subseteq docker /\ lost' \subseteq docker'
      /\ docker' \ lost' = (docker \ lost) \ Of(c)
    BY <1>1, KillLeaves DEF EnginesInv, Types, EnginesTypeOK
<1>3. Idle \in Helds
    BY DEF Idle, Helds
<1>4. \A d \in Cards : held'[d] = IF d = c THEN Idle ELSE held[d]
    BY DEF EnginesInv, Types
<1>5. held' \in [Cards -> Helds]
    BY <1>3 DEF EnginesInv, Types
<1>6. Types'
    <2>1. \A d \in Cards : held'[d].pair \in Pairs \cup {Nothing} /\ held'[d].key \in Keys \cup {None}
        BY <1>5 DEF Helds
    <2>2. QED BY <1>2, <1>5, <2>1 DEF EnginesInv, Types, EnginesTypeOK, cache, image
<1>7. EveryEngineIsKnown'
    <2> SUFFICES ASSUME NEW d \in docker' \ lost' PROVE held'[d.card].key = d.key
        BY DEF EveryEngineIsKnown
    <2>1. d \in docker /\ d \notin lost /\ d \notin Of(c)
        BY <1>2
    <2>2. d.card \in Cards
        BY <2>1 DEF EnginesInv, Types, EnginesTypeOK, Containers
    <2>3. held[d.card].key = d.key
        BY <2>1 DEF EnginesInv, NothingIsStray, EveryEngineIsKnown
    <2>4. d.card # c
        BY <2>1, <2>3 DEF Of
    <2>5. QED BY <1>4, <2>2, <2>3, <2>4
<1>8. EnginesKeepTheirFiles'
    <2>1. Idle.pair = Nothing
        BY DEF Idle
    <2>2. QED BY <1>4, <2>1 DEF EnginesInv, NothingIsStray, EnginesKeepTheirFiles, Pair, cache
<1>9. OneManifest' /\ MarkerSays' /\ EnvNamesPulledImage'
    BY DEF EnginesInv, NothingIsStray, OneManifest, MarkerSays, EnvNamesPulledImage, cache, image
<1>10. QED BY <1>4, <1>6, <1>7, <1>8, <1>9 DEF NothingIsStray, Types
-----------------------------------------------------------------------------
(* One lemma for each action. *)

LEMMA EnginesInitInv == EnginesInit => EnginesInv
<1> SUFFICES ASSUME EnginesInit PROVE EnginesInv
    OBVIOUS
<1>1. Types
    <2>1. Idle \in Helds /\ Idle.pair = Nothing /\ Idle.key = None
        BY DEF Idle, Helds
    <2>2. plan \in Holdings
        BY DEF EnginesInit, Holdings
    <2>3. held \in [Cards -> Helds]
        BY <2>1 DEF EnginesInit
    <2>4. card \in 0..NCards
        BY CardsAssumption DEF EnginesInit
    <2>5. files \in [Models -> SUBSET Digests] /\ marker \in [Models -> Digests \cup {None}]
        BY DEF EnginesInit
    <2>6. \A c \in Cards : held[c].pair \in Pairs \cup {Nothing} /\ held[c].key \in Keys \cup {None}
        BY <2>3 DEF Helds
    <2>7. QED BY <2>2, <2>3, <2>4, <2>5, <2>6 DEF EnginesInit, Types, EnginesTypeOK
<1>2. EveryEngineIsKnown /\ EnvNamesPulledImage
    BY DEF EnginesInit, EveryEngineIsKnown, EnvNamesPulledImage
<1>3. EnginesKeepTheirFiles
    BY DEF EnginesInit, EnginesKeepTheirFiles, Pair, Idle
<1>4. OneManifest /\ MarkerSays
    BY NamesAssumption DEF EnginesInit, OneManifest, MarkerSays
<1>5. TakesUp /\ OnCard /\ OnlyOpening /\ OnFiles
    BY DEF EnginesInit, TakesUp, OnCard, OnlyOpening, OnFiles
<1>6. QED BY <1>1, <1>2, <1>3, <1>4, <1>5 DEF EnginesInv, NothingIsStray, Types

\* A step that touches neither cards nor containers nor files.
LEMMA Quiet ==
    ASSUME EnginesInv, UNCHANGED <<card, key, offers, wished, plan, held, docker, cache, lost>>,
           thread' \in {"review", "drop", "take", "fetch", "start", "ready", "declare", "stop", "off"},
           thread' \in {"take", "fetch", "start", "ready", "declare"} =>
               thread \in {"take", "fetch", "start", "ready", "declare"},
           thread' \in {"fetch", "start", "ready"} => thread' = thread,
           thread = "ready" => thread' = thread,
           env' \in {Old, New} /\ pulled' \subseteq {Old, New} /\ running' \in {Old, New},
           env' \in pulled' /\ running' \in pulled'
    PROVE  EnginesInv'
<1>1. Types' /\ OneManifest' /\ MarkerSays'
    BY DEF EnginesInv, Types, EnginesTypeOK, OneManifest, MarkerSays, cache
<1>2. TakesUp' /\ OnCard' /\ OnlyOpening' /\ OnFiles'
    BY DEF EnginesInv, TakesUp, OnCard, OnlyOpening, OnFiles, Pair, Model, Digest, cache
<1>3. EveryEngineIsKnown' /\ EnginesKeepTheirFiles' /\ EnvNamesPulledImage'
    BY DEF EnginesInv, NothingIsStray, EveryEngineIsKnown, EnginesKeepTheirFiles, EnvNamesPulledImage, Pair, cache
<1>4. QED BY <1>1, <1>2, <1>3 DEF EnginesInv, NothingIsStray, Types

LEMMA ReviewInv == EnginesInv /\ ReviewCatalogue => EnginesInv'
<1> SUFFICES ASSUME EnginesInv, ReviewCatalogue PROVE EnginesInv'
    OBVIOUS
<1>1. offers' \in Catalogues /\ wished' \in Wishes
    BY DEF EnginesInv, Types, ReviewCatalogue
<1>2. Holding \in Holdings
    BY DEF EnginesInv, Types, EnginesTypeOK, Holding, Holdings, Pair
<1>3. plan' \in Holdings
    BY <1>1, CataloguesAssumption, AssignIsPlan DEF ReviewCatalogue, PlanCards, IsSeen
<1>4. OneManifest'
    BY AssignIsOneManifest DEF ReviewCatalogue, PlanCards, OneManifest
<1>5. Types' /\ MarkerSays'
    BY <1>1, <1>3, CardsAssumption DEF EnginesInv, Types, EnginesTypeOK, MarkerSays, ReviewCatalogue, PlanCards, cache, image
<1>6. TakesUp' /\ OnCard' /\ OnlyOpening' /\ OnFiles'
    BY DEF ReviewCatalogue, PlanCards, TakesUp, OnCard, OnlyOpening, OnFiles
<1>7. EveryEngineIsKnown' /\ EnginesKeepTheirFiles' /\ EnvNamesPulledImage'
    BY DEF EnginesInv, NothingIsStray, EveryEngineIsKnown, EnginesKeepTheirFiles, EnvNamesPulledImage, ReviewCatalogue,
           PlanCards, Pair, cache, image
<1>8. QED BY <1>4, <1>5, <1>6, <1>7 DEF EnginesInv, NothingIsStray, Types

LEMMA DropInv == EnginesInv /\ DropCard => EnginesInv'
<1> SUFFICES ASSUME EnginesInv, DropCard PROVE EnginesInv'
    OBVIOUS
<1>1. CASE ToDrop = {}
    <2>1. \A c \in Cards : Pair(c) \in {Nothing, plan[c]}
        BY <1>1 DEF ToDrop, Dropped, Holding
    <2>2. /\ thread' = "take" /\ thread = "drop"
          /\ UNCHANGED <<card, key, offers, wished, plan, held, docker, cache, image, lost>>
        BY <1>1 DEF DropCard
    <2>3. Types' /\ OneManifest' /\ MarkerSays'
        BY <2>2 DEF EnginesInv, Types, EnginesTypeOK, OneManifest, MarkerSays, cache, image
    <2>4. TakesUp' /\ OnCard' /\ OnlyOpening' /\ OnFiles'
        BY <2>1, <2>2 DEF TakesUp, OnCard, OnlyOpening, OnFiles, Pair
    <2>5. EveryEngineIsKnown' /\ EnginesKeepTheirFiles' /\ EnvNamesPulledImage'
        BY <2>2 DEF EnginesInv, NothingIsStray, EveryEngineIsKnown, EnginesKeepTheirFiles, EnvNamesPulledImage,
                    Pair, cache, image
    <2>6. QED BY <2>3, <2>4, <2>5 DEF EnginesInv, NothingIsStray, Types
<1>2. CASE ToDrop # {}
    <2>1. PICK c \in ToDrop : Kill(Of(c)) /\ held' = [held EXCEPT ![c] = Idle]
        BY <1>2 DEF DropCard
    <2>2. c \in Cards
        BY <2>1 DEF ToDrop, Dropped
    <2>3. /\ thread = "drop" /\ thread' = "drop"
          /\ UNCHANGED <<card, key, offers, wished, plan, cache, image>>
        BY <1>2 DEF DropCard
    <2>4. Types' /\ OneManifest' /\ MarkerSays' /\ NothingIsStray'
        <3>1. card' \in 0..NCards
            BY <2>3 DEF EnginesInv, Types, EnginesTypeOK
        <3>2. QED BY <2>1, <2>2, <2>3, <3>1, Released
    <2>5. TakesUp' /\ OnCard' /\ OnlyOpening' /\ OnFiles'
        BY <2>3 DEF TakesUp, OnCard, OnlyOpening, OnFiles
    <2>6. QED BY <2>4, <2>5 DEF EnginesInv
<1>3. QED BY <1>1, <1>2

LEMMA TakeInv == EnginesInv /\ Take => EnginesInv'
<1> SUFFICES ASSUME EnginesInv, Take PROVE EnginesInv'
    OBVIOUS
<1>1. thread = "take" /\ UNCHANGED <<key, offers, wished, plan, cache, image>>
    BY DEF Take
<1>2. CASE Waiting = {}
    <2>1. thread' = "review" /\ card' = 0 /\ UNCHANGED <<held, docker, lost>>
        BY <1>2 DEF Take
    <2>2. Types' /\ OneManifest' /\ MarkerSays'
        <3>1. card' \in 0..NCards
            BY <2>1, CardsAssumption
        <3>2. thread' \in {"review", "drop", "take", "fetch", "start", "ready", "declare", "stop", "off"}
            BY <2>1
        <3>3. QED BY <1>1, <2>1, <3>1, <3>2
                  DEF EnginesInv, Types, EnginesTypeOK, OneManifest, MarkerSays, cache, image
    <2>3. TakesUp' /\ OnCard' /\ OnlyOpening' /\ OnFiles'
        BY <2>1 DEF TakesUp, OnCard, OnlyOpening, OnFiles
    <2>4. EveryEngineIsKnown' /\ EnginesKeepTheirFiles' /\ EnvNamesPulledImage'
        BY <1>1, <2>1 DEF EnginesInv, NothingIsStray, EveryEngineIsKnown, EnginesKeepTheirFiles,
                          EnvNamesPulledImage, Pair, cache, image
    <2>5. QED BY <2>2, <2>3, <2>4 DEF EnginesInv, NothingIsStray, Types
<1>3. CASE Waiting # {}
    <2>1. PICK c \in Waiting :
              /\ card' = c /\ thread' = "fetch"
              /\ IF held[c] = Idle THEN UNCHANGED <<held, docker, lost, faults>>
                 ELSE Kill(Of(c)) /\ held' = [held EXCEPT ![c] = Idle]
        BY <1>3 DEF Take
    <2>2. c \in Cards /\ plan[c] # Nothing /\ Pair(c) # plan[c]
        BY DEF Waiting
    \* Drop has released what is not planned: the card is free.
    <2>3. Pair(c) = Nothing
        BY <1>1, <2>2 DEF EnginesInv, TakesUp
    <2>4. plan[c] \in Pairs
        BY <2>2 DEF EnginesInv, Types, EnginesTypeOK, Holdings
    <2>5. CASE held[c] = Idle
        <3>1. /\ thread' = "fetch" /\ card' = c
              /\ UNCHANGED <<held, docker, lost>>
            BY <2>1, <2>5
        <3>2. Types' /\ OneManifest' /\ MarkerSays'
            <4>1. card' \in 0..NCards
                BY <2>2, <3>1, CardsAssumption DEF Cards
            <4>2. Types'
                BY <1>1, <3>1, <4>1 DEF EnginesInv, Types, EnginesTypeOK, cache, image
            <4>3. OneManifest' /\ MarkerSays'
                BY <1>1, <3>1 DEF EnginesInv, OneManifest, MarkerSays, cache
            <4>4. QED BY <4>2, <4>3
        <3>3. TakesUp' /\ OnCard' /\ OnlyOpening' /\ OnFiles'
            BY <1>1, <2>2, <2>4, <2>5, <3>1 DEF EnginesInv, TakesUp, OnCard, OnlyOpening, OnFiles, Pair
        <3>4. EveryEngineIsKnown' /\ EnginesKeepTheirFiles' /\ EnvNamesPulledImage'
            BY <1>1, <3>1 DEF EnginesInv, NothingIsStray, EveryEngineIsKnown, EnginesKeepTheirFiles,
                              EnvNamesPulledImage, Pair, cache, image
        <3>5. QED BY <3>2, <3>3, <3>4 DEF EnginesInv, NothingIsStray, Types
    <2>6. CASE held[c] # Idle
        <3>1. Kill(Of(c)) /\ held' = [held EXCEPT ![c] = Idle] /\ thread' = "fetch" /\ card' = c
            BY <2>1, <2>6
        <3>2. /\ EveryEngineIsKnown' /\ EnginesKeepTheirFiles' /\ EnvNamesPulledImage'
              /\ OneManifest' /\ MarkerSays' /\ Types'
              /\ \A d \in Cards : held'[d] = IF d = c THEN Idle ELSE held[d]
            <4>1. card' \in 0..NCards
                BY <2>2, <3>1, CardsAssumption DEF Cards
            <4>2. QED BY <1>1, <2>2, <3>1, <4>1, Released DEF NothingIsStray
        <3>3. TakesUp' /\ OnCard' /\ OnlyOpening' /\ OnFiles'
            <4>1. held'[c] = Idle /\ Idle.pair = Nothing
                BY <2>2, <3>2 DEF Idle
            <4>2. TakesUp'
                BY <1>1, <3>1, <3>2, <4>1 DEF EnginesInv, TakesUp, Pair
            <4>3. QED BY <1>1, <2>2, <2>4, <3>1, <4>1, <4>2 DEF OnCard, OnlyOpening, OnFiles
        <3>4. QED BY <3>2, <3>3 DEF EnginesInv, NothingIsStray, Types
    <2>7. QED BY <2>5, <2>6
<1>4. QED BY <1>2, <1>3
LEMMA FetchInv == EnginesInv /\ Fetch => EnginesInv'
<1> SUFFICES ASSUME EnginesInv, Fetch PROVE EnginesInv'
    OBVIOUS
<1>1. /\ thread = "fetch" /\ thread' \in {"take", "start"}
      /\ UNCHANGED <<card, key, offers, wished, plan, held, docker, image, lost>>
    BY DEF Fetch, Download
<1>2. card \in Cards /\ plan[card] \in Pairs /\ held[card] = Idle
    BY <1>1 DEF EnginesInv, OnCard
<1>3. Model \in Models /\ Digest \in Digests /\ plan[card] = <<Model, Digest>>
    BY <1>2, ModelAndDigest
<1>4. EnginesTypeOK'
    BY <1>1 DEF EnginesInv, Types, EnginesTypeOK, image
<1>5. OneManifest' /\ TakesUp' /\ OnCard' /\ OnlyOpening' /\ EveryEngineIsKnown' /\ EnvNamesPulledImage'
    BY <1>1, <1>2 DEF EnginesInv, NothingIsStray, OneManifest, TakesUp, OnCard, OnlyOpening, EveryEngineIsKnown,
                      EnvNamesPulledImage, Pair, image
<1>6. CASE UNCHANGED cache /\ (thread' = "start" => Model \in Imaged \/ marker[Model] = Digest)
    <2>1. Types' /\ MarkerSays' /\ EnginesKeepTheirFiles'
        BY <1>1, <1>4, <1>6 DEF EnginesInv, Types, MarkerSays, NothingIsStray, EnginesKeepTheirFiles, Pair, cache
    <2>2. OnFiles'
        BY <1>1, <1>3, <1>6 DEF EnginesInv, MarkerSays, OnFiles, Model, Digest, cache
    <2>3. QED BY <1>4, <1>5, <2>1, <2>2 DEF EnginesInv, NothingIsStray
<1>7. CASE /\ plan[card] \in Wrong /\ thread' = "take"
           /\ files' = [files EXCEPT ![Model] = {}] /\ marker' = [marker EXCEPT ![Model] = None]
    <2>1. Types'
        BY <1>1, <1>3, <1>4, <1>7 DEF EnginesInv, Types
    <2>2. MarkerSays'
        BY <1>3, <1>7, NamesAssumption DEF EnginesInv, Types, MarkerSays
    \* A card that holds another manifest of this model is not planned to.
    <2>3. EnginesKeepTheirFiles'
        <3> SUFFICES ASSUME NEW c \in Cards, Pair(c) # Nothing, Pair(c)[1] \notin Imaged
                     PROVE  Pair(c)[2] \in files'[Pair(c)[1]] /\ Pair(c) \notin Wrong
            BY <1>1 DEF EnginesKeepTheirFiles, Pair
        <3>1. Pair(c)[2] \in files[Pair(c)[1]] /\ Pair(c) \notin Wrong
            BY DEF EnginesInv, NothingIsStray, EnginesKeepTheirFiles
        <3>2. Pair(c) = plan[c]
            BY <1>1 DEF EnginesInv, TakesUp
        <3>3. Pair(c)[1] # Model
            BY <1>2, <1>7, <3>1, <3>2 DEF EnginesInv, OneManifest, Model
        <3>4. Pair(c) \in Pairs
            BY DEF EnginesInv, Types, EnginesTypeOK, Pair
        <3>5. Pair(c)[1] \in Models
            BY <3>4 DEF Pairs
        <3>6. QED BY <1>7, <3>1, <3>3, <3>5 DEF EnginesInv, Types
    <2>4. OnFiles'
        BY <1>7 DEF OnFiles
    <2>5. QED BY <1>4, <1>5, <2>1, <2>2, <2>3, <2>4 DEF EnginesInv, NothingIsStray
<1>8. CASE /\ plan[card] \notin Wrong /\ thread' = "start"
           /\ files' = [files EXCEPT ![Model] = @ \cup {Digest}]
           /\ marker' = [marker EXCEPT ![Model] = Digest]
    <2>1. \A m \in Models : files[m] \subseteq files'[m]
        BY <1>8 DEF EnginesInv, Types
    <2>2. Digest \in files'[Model]
        BY <1>3, <1>8 DEF EnginesInv, Types
    <2>3. Types'
        BY <1>1, <1>3, <1>4, <1>8 DEF EnginesInv, Types
    <2>4. MarkerSays'
        <3>1. \A m \in Models : marker'[m] = IF m = Model THEN Digest ELSE marker[m]
            BY <1>8 DEF EnginesInv, Types
        <3>2. QED BY <1>3, <1>8, <2>1, <2>2, <3>1 DEF EnginesInv, MarkerSays
    <2>5. EnginesKeepTheirFiles'
        <3>1. \A c \in Cards : Pair(c) # Nothing => Pair(c)[1] \in Models
            BY DEF EnginesInv, Types, EnginesTypeOK, Pair, Pairs
        <3>2. QED BY <1>1, <2>1, <3>1 DEF EnginesInv, NothingIsStray, EnginesKeepTheirFiles, Pair
    <2>6. OnFiles'
        BY <1>1, <1>8, <2>2 DEF OnFiles, Model, Digest
    <2>7. QED BY <1>4, <1>5, <2>3, <2>4, <2>5, <2>6 DEF EnginesInv, NothingIsStray
<1>9. QED BY <1>6, <1>7, <1>8 DEF Fetch, Download

LEMMA StartInv == EnginesInv /\ Start => EnginesInv'
<1> SUFFICES ASSUME EnginesInv, Start PROVE EnginesInv'
    OBVIOUS
<1>1. thread = "start" /\ UNCHANGED <<card, offers, wished, plan, held, cache, image, lost>>
    BY DEF Start
<1>2. card \in Cards /\ plan[card] \in Pairs /\ held[card] = Idle
    BY <1>1 DEF EnginesInv, OnCard
<1>3. OneManifest' /\ MarkerSays' /\ EnginesKeepTheirFiles' /\ EnvNamesPulledImage'
    BY <1>1 DEF EnginesInv, OneManifest, MarkerSays, NothingIsStray, EnginesKeepTheirFiles, EnvNamesPulledImage,
                Pair, cache, image
<1>4. CASE thread' = "take" /\ UNCHANGED <<key, docker>>
    <2>1. Types'
        BY <1>1, <1>4 DEF EnginesInv, Types, EnginesTypeOK, cache, image
    <2>2. TakesUp' /\ OnCard' /\ OnlyOpening' /\ OnFiles' /\ EveryEngineIsKnown'
        BY <1>1, <1>4 DEF EnginesInv, NothingIsStray, TakesUp, OnCard, OnlyOpening, OnFiles, EveryEngineIsKnown, Pair
    <2>3. QED BY <1>3, <2>1, <2>2 DEF EnginesInv, NothingIsStray, Types
<1>5. CASE /\ thread' = "ready" /\ Free # {} /\ key' = (CHOOSE k \in Free : TRUE)
           /\ docker' = docker \cup {[card |-> card, key |-> key', pair |-> plan[card]]}
    <2> DEFINE new == [card |-> card, key |-> key', pair |-> plan[card]]
    <2>1. key' \in Keys /\ \A d \in docker : d.key # key'
        BY <1>5, FreeKey DEF Free
    <2>2. new \in Containers
        BY <1>2, <2>1 DEF Containers
    <2>3. new \notin docker /\ new.key = key' /\ new.card = card
        BY <2>1
    <2> HIDE DEF new
    <2>4. docker' = docker \cup {new}
        BY <1>5 DEF new
    <2>5. Types'
        BY <1>1, <1>5, <2>2, <2>4 DEF EnginesInv, Types, EnginesTypeOK, cache, image
    <2>6. TakesUp' /\ OnCard' /\ OnFiles'
        BY <1>1, <1>2, <1>5 DEF EnginesInv, TakesUp, OnCard, OnFiles, Pair, Model, Digest, cache
    <2>7. OnlyOpening'
        BY <1>1, <2>1, <2>3, <2>4 DEF EnginesInv, Types, EnginesTypeOK, OnlyOpening
    <2>8. EveryEngineIsKnown'
        BY <1>1, <1>5, <2>3, <2>4 DEF EnginesInv, NothingIsStray, EveryEngineIsKnown
    <2>9. QED BY <1>3, <2>5, <2>6, <2>7, <2>8 DEF EnginesInv, NothingIsStray, Types
<1>6. QED BY <1>4, <1>5 DEF Start
LEMMA ReadyInv == EnginesInv /\ Ready => EnginesInv'
<1> SUFFICES ASSUME EnginesInv, Ready PROVE EnginesInv'
    OBVIOUS
<1>1. thread = "ready" /\ UNCHANGED <<card, key, offers, wished, plan, cache, image>>
    BY DEF Ready
<1>2. card \in Cards /\ plan[card] \in Pairs /\ held[card] = Idle
    BY <1>1 DEF EnginesInv, OnCard
<1>3. OneManifest' /\ MarkerSays' /\ EnvNamesPulledImage'
    BY <1>1 DEF EnginesInv, OneManifest, MarkerSays, NothingIsStray, EnvNamesPulledImage, cache, image
<1>4. Opening \subseteq docker /\ Opening \cap lost = {}
    BY <1>1 DEF EnginesInv, OnlyOpening, Opening
<1>5. CASE /\ held' = [held EXCEPT ![card] = [pair |-> plan[card], key |-> key]]
           /\ thread' = "declare" /\ UNCHANGED <<docker, lost>>
    <2> DEFINE mine == [pair |-> plan[card], key |-> key]
    <2>1. mine \in Helds /\ mine.pair = plan[card] /\ mine.key = key
        BY <1>1, <1>2 DEF EnginesInv, OnlyOpening, Helds
    <2> HIDE DEF mine
    <2>2. held' \in [Cards -> Helds] /\ \A c \in Cards : held'[c] = IF c = card THEN mine ELSE held[c]
        BY <1>5, <2>1 DEF EnginesInv, Types, mine
    <2>3. Types'
        <3>1. \A c \in Cards : held'[c].pair \in Pairs \cup {Nothing} /\ held'[c].key \in Keys \cup {None}
            BY <2>2 DEF Helds
        <3>2. QED BY <1>1, <1>5, <2>2, <3>1 DEF EnginesInv, Types, EnginesTypeOK, cache, image
    <2>4. EveryEngineIsKnown'
        <3> SUFFICES ASSUME NEW d \in docker \ lost PROVE held'[d.card].key = d.key
            BY <1>5 DEF EveryEngineIsKnown
        <3>1. d.card \in Cards /\ d.key \in Keys
            BY DEF EnginesInv, Types, EnginesTypeOK, Containers
        <3>2. held[d.card].key = d.key \/ d.key = key
            BY DEF EnginesInv, NothingIsStray, EveryEngineIsKnown
        <3>3. CASE d.key = key
            BY <1>1, <2>1, <2>2, <3>1, <3>3 DEF EnginesInv, OnlyOpening
        <3>4. CASE held[d.card].key = d.key
            <4>1. d.card # card
                BY <1>2, <3>1, <3>4, NamesAssumption DEF Idle
            <4>2. QED BY <2>2, <3>1, <3>4, <4>1
        <3>5. QED BY <3>2, <3>3, <3>4
    <2>5. EnginesKeepTheirFiles'
        <3> SUFFICES ASSUME NEW c \in Cards, Pair(c)' # Nothing, Pair(c)'[1] \notin Imaged
                     PROVE  Pair(c)'[2] \in files[Pair(c)'[1]] /\ Pair(c)' \notin Wrong
            BY <1>1 DEF EnginesKeepTheirFiles, cache
        <3>1. CASE c = card
            <4>1. Pair(c)' = plan[card]
                BY <2>1, <2>2, <3>1 DEF Pair
            <4>2. QED BY <1>1, <4>1 DEF EnginesInv, OnFiles, Model, Digest
        <3>2. CASE c # card
            <4>1. Pair(c)' = Pair(c)
                BY <2>2, <3>2 DEF Pair
            <4>2. QED BY <4>1 DEF EnginesInv, NothingIsStray, EnginesKeepTheirFiles
        <3>3. QED BY <3>1, <3>2
    <2>6. TakesUp' /\ OnCard' /\ OnlyOpening' /\ OnFiles'
        <3>1. \A c \in Cards : Pair(c)' \in {Nothing, plan[c]}
            BY <1>1, <2>1, <2>2 DEF EnginesInv, TakesUp, Pair
        <3>2. QED BY <1>1, <1>5, <3>1 DEF TakesUp, OnCard, OnlyOpening, OnFiles, Pair
    <2>7. QED BY <1>3, <2>3, <2>4, <2>5, <2>6 DEF EnginesInv, NothingIsStray, Types
<1>6. CASE /\ thread' = "take" /\ UNCHANGED held
           /\ docker' \subseteq docker /\ lost' \subseteq docker'
           /\ docker' \ lost' = (docker \ lost) \ Opening
    <2>1. Types'
        BY <1>1, <1>6 DEF EnginesInv, Types, EnginesTypeOK, cache, image
    <2>2. EveryEngineIsKnown'
        <3> SUFFICES ASSUME NEW d \in (docker \ lost) \ Opening PROVE held[d.card].key = d.key
            BY <1>6 DEF EveryEngineIsKnown
        <3>1. d.key # key
            BY DEF Opening
        <3>2. QED BY <3>1 DEF EnginesInv, NothingIsStray, EveryEngineIsKnown
    <2>3. EnginesKeepTheirFiles' /\ TakesUp' /\ OnCard' /\ OnlyOpening' /\ OnFiles'
        BY <1>1, <1>6 DEF EnginesInv, NothingIsStray, EnginesKeepTheirFiles, TakesUp, OnCard, OnlyOpening, OnFiles,
                          Pair, cache
    <2>4. QED BY <1>3, <2>1, <2>2, <2>3 DEF EnginesInv, NothingIsStray, Types
<1>7. CASE thread' = "take" /\ GiveUp /\ UNCHANGED held
    <2>1. lost \subseteq docker
        BY DEF EnginesInv, Types, EnginesTypeOK
    <2>2. QED BY <1>4, <1>6, <1>7, <2>1, KillLeaves DEF GiveUp
<1>8. CASE thread' = "take" /\ docker' = docker \ Opening /\ UNCHANGED <<held, lost>>
    BY <1>4, <1>6, <1>8 DEF EnginesInv, Types, EnginesTypeOK
<1>9. QED BY <1>5, <1>7, <1>8 DEF Ready

LEMMA QuietInv == EnginesInv /\ (Declare \/ CheckUpdate \/ Restart \/ StopComes) => EnginesInv'
<1> SUFFICES ASSUME EnginesInv, Declare \/ CheckUpdate \/ Restart \/ StopComes PROVE EnginesInv'
    OBVIOUS
<1>1. env \in {Old, New} /\ pulled \subseteq {Old, New} /\ running \in {Old, New}
      /\ env \in pulled /\ running \in pulled
    BY DEF EnginesInv, Types, EnginesTypeOK, NothingIsStray, EnvNamesPulledImage
<1>2. CASE Declare
    BY <1>1, <1>2, Quiet DEF Declare, image
<1>3. CASE CheckUpdate
    <2>1. /\ env' \in {Old, New} /\ pulled' \subseteq {Old, New} /\ running' = running
          /\ env' \in pulled' /\ running' \in pulled'
        BY <1>1, <1>3 DEF CheckUpdate, PullThenEnv
    <2>2. UNCHANGED agent /\ thread = "review" /\ UNCHANGED <<docker, cache, lost>>
        BY <1>3 DEF CheckUpdate
    <2>3. QED BY <2>1, <2>2, Quiet DEF agent
<1>4. CASE Restart
    BY <1>1, <1>4, Quiet DEF Restart
<1>5. CASE StopComes
    BY <1>1, <1>5, Quiet DEF StopComes, image
<1>6. QED BY <1>2, <1>3, <1>4, <1>5

LEMMA AllIdle ==
    ASSUME held' = [c \in Cards |-> Idle]
    PROVE  /\ held' \in [Cards -> Helds]
           /\ \A c \in Cards : held'[c].pair = Nothing /\ held'[c].key = None
<1>1. Idle \in Helds /\ Idle.pair = Nothing /\ Idle.key = None
    BY DEF Idle, Helds
<1>2. QED BY <1>1

\* The agent is off, and docker runs nothing but what is lost.
LEMMA OffInv ==
    ASSUME EnginesInv, held' = [c \in Cards |-> Idle], thread' = "off", docker' \subseteq docker, docker' = lost',
           UNCHANGED <<card, key, offers, wished, plan, cache, image>>
    PROVE  EnginesInv'
<1>1. Types'
    BY AllIdle DEF EnginesInv, Types, EnginesTypeOK, cache, image
<1>2. OneManifest' /\ TakesUp' /\ OnCard' /\ OnlyOpening' /\ MarkerSays' /\ OnFiles'
    BY DEF EnginesInv, OneManifest, TakesUp, OnCard, OnlyOpening, MarkerSays, OnFiles, cache
<1>3. EveryEngineIsKnown' /\ EnginesKeepTheirFiles' /\ EnvNamesPulledImage'
    BY AllIdle DEF EnginesInv, NothingIsStray, EveryEngineIsKnown, EnginesKeepTheirFiles, EnvNamesPulledImage, Pair, image
<1>4. QED BY <1>1, <1>2, <1>3 DEF EnginesInv, NothingIsStray, Types

LEMMA StopHostInv == EnginesInv /\ (StopHost \/ Death) => EnginesInv'
<1> SUFFICES ASSUME EnginesInv, StopHost \/ Death PROVE EnginesInv'
    OBVIOUS
<1>1. CASE StopHost
    <2>1. lost \subseteq docker
        BY DEF EnginesInv, Types, EnginesTypeOK
    <2>2. docker' \subseteq docker /\ docker' = lost'
        BY <1>1, <2>1, KillLeaves DEF StopHost, Sweep
    <2>3. QED BY <1>1, <2>2, OffInv DEF StopHost
<1>2. CASE Death
    BY <1>2, OffInv DEF Death
<1>3. QED BY <1>1, <1>2

LEMMA BootInv == EnginesInv /\ Boot => EnginesInv'
<1> SUFFICES ASSUME EnginesInv, Boot PROVE EnginesInv'
    OBVIOUS
<1>1. /\ thread = "off" /\ thread' = "review" /\ card' = 0 /\ plan' = [c \in Cards |-> Nothing]
      /\ running' \in {running, env}
      /\ UNCHANGED <<key, offers, wished, held, docker, cache, env, pulled, lost>>
    BY DEF Boot, count
<1>2. plan' \in Holdings /\ card' \in 0..NCards
    BY <1>1, CardsAssumption DEF Holdings
<1>3. Types'
    BY <1>1, <1>2 DEF EnginesInv, Types, EnginesTypeOK, cache
<1>4. OneManifest' /\ TakesUp' /\ OnCard' /\ OnlyOpening' /\ MarkerSays' /\ OnFiles'
    BY <1>1 DEF EnginesInv, OneManifest, TakesUp, OnCard, OnlyOpening, MarkerSays, OnFiles, cache
<1>5. EveryEngineIsKnown' /\ EnginesKeepTheirFiles' /\ EnvNamesPulledImage'
    BY <1>1 DEF EnginesInv, NothingIsStray, EveryEngineIsKnown, EnginesKeepTheirFiles, EnvNamesPulledImage, Pair, cache
<1>6. QED BY <1>3, <1>4, <1>5 DEF EnginesInv, NothingIsStray, Types

LEMMA EnginesStutterInv == EnginesInv /\ UNCHANGED engineVars => EnginesInv'
<1> SUFFICES ASSUME EnginesInv, UNCHANGED engineVars PROVE EnginesInv'
    OBVIOUS
<1>1. UNCHANGED <<thread, card, key, offers, wished, plan, held, docker, cache, lost, env, pulled, running>>
    BY DEF engineVars, agent, image
<1>2. QED BY <1>1, Quiet DEF EnginesInv, Types, EnginesTypeOK, NothingIsStray, EnvNamesPulledImage

LEMMA StepInv == EnginesInv /\ [EnginesNext]_engineVars => EnginesInv'
BY ReviewInv, DropInv, TakeInv, FetchInv, StartInv, ReadyInv, QuietInv, StopHostInv, BootInv, EnginesStutterInv
   DEF EnginesNext, Apply

-----------------------------------------------------------------------------

\* Every reachable state of the agent, its containers, folders and images satisfies Inv.
THEOREM Always == EnginesSpec => []EnginesInv
<1>1. EnginesInit => EnginesInv
    BY EnginesInitInv
<1>2. EnginesInv /\ [EnginesNext]_engineVars => EnginesInv'
    BY StepInv
<1>3. QED BY <1>1, <1>2, PTL DEF EnginesSpec

\* What ServingHost.apply, fetch_model, Docker and Updater hold are cards, pairs, containers and images.
THEOREM EnginesTypeCorrect == EnginesSpec => []EnginesTypeOK
<1>1. EnginesInv => EnginesTypeOK
    BY DEF EnginesInv, Types
<1>2. QED BY <1>1, Always, PTL

\* Nothing runs that no card holds, but what a kill of the agent or of a docker command left.
THEOREM EnginesAreKnown == EnginesSpec => []EveryEngineIsKnown
<1>1. EnginesInv => EveryEngineIsKnown
    BY DEF EnginesInv, NothingIsStray
<1>2. QED BY <1>1, Always, PTL

\* The files under an engine that is held stay there, and are those of its manifest.
THEOREM FilesStay == EnginesSpec => []EnginesKeepTheirFiles
<1>1. EnginesInv => EnginesKeepTheirFiles
    BY DEF EnginesInv, NothingIsStray
<1>2. QED BY <1>1, Always, PTL

\* .env names an image docker has pulled and verified, wherever an update was cut off.
THEOREM ImagesArePulled == EnginesSpec => []EnvNamesPulledImage
<1>1. EnginesInv => EnvNamesPulledImage
    BY DEF EnginesInv, NothingIsStray
<1>2. QED BY <1>1, Always, PTL

\* What runs, the files under it and the agent's image are accounted for: what the run checks.
THEOREM NothingStray == EnginesSpec => []NothingIsStray
<1>1. EnginesInv => NothingIsStray
    BY DEF EnginesInv
<1>2. QED BY <1>1, Always, PTL

\* PlanSettles: a plan made again for what it holds is the same, whatever the cards hold, the
\* catalogue says and the gateway suggests.
THEOREM PlanAlwaysSettles == EnginesSpec => []PlanSettles
<1>1. PlanSettles
    BY CataloguesAssumption, AssignSettles DEF PlanSettles, IsSeen
<1>2. QED BY <1>1, PTL

-----------------------------------------------------------------------------
(* ServingHost. *)

\* Nothing is open without a dial that serves or drains.
OpenInv == NoDial => open = {}

\* A dial ends or drains because the event is set, unless run has cancelled it.
DrainedInv == stage \in {"draining", "over"} /\ pc \notin {"cancel", "stop", "over"} => drain

\* The event is set for a stop, or for the update that is under way.
EventInv == drain /\ ~halt => pc \in {"drain", "update"}

\* What the hello announced is what was held when the review began.
HelloInv ==
    /\ pc \in {"review", "check", "catalogue"} /\ stage # "none" => announced = holding
    /\ pc \in {"apply", "compare"} => stage # "none" /\ announced = before

\* run dials again, and stops, with its dial gone.
StopInv == pc \in {"cancel", "stop", "over"} => NoDial

Inv == /\ TypeOK /\ OneSystemPerCard /\ OpenInv /\ DrainedInv /\ EventInv /\ HelloInv /\ StopInv
       /\ UpdateFindsNoWork /\ StopsClean /\ StopsOnlyWhenAsked

USE DEF Kinds, Assignments, Steps, Empty, Goto, DialStays, NoDial, Dial!TypeOK, Dial!Stages

-----------------------------------------------------------------------------
(* The three dicts. *)

\* A card holds nothing exactly when no dict has it, and else what a dict has.
LEMMA LookUp ==
    ASSUME NEW s \in [Kinds -> Assignments], NEW h, NEW g \in Gpus,
           h = [c \in Gpus |-> IF \E k \in Kinds : s[k][c] # NoModel
                               THEN s[CHOOSE k \in Kinds : s[k][c] # NoModel][c] ELSE NoModel]
    PROVE  /\ h \in Assignments
           /\ h[g] = NoModel <=> \A k \in Kinds : s[k][g] = NoModel
           /\ h[g] # NoModel => \E k \in Kinds : s[k][g] = h[g]
<1> DEFINE Has(c) == \E k \in Kinds : s[k][c] # NoModel
           DictOf(c) == CHOOSE k \in Kinds : s[k][c] # NoModel
<1>1. \A c \in Gpus : Has(c) => DictOf(c) \in Kinds /\ s[DictOf(c)][c] # NoModel
    OBVIOUS
<1>2. \A c \in Gpus : Has(c) => s[DictOf(c)][c] \in Offered \cup {NoModel}
    BY <1>1
<1>3. h = [c \in Gpus |-> IF Has(c) THEN s[DictOf(c)][c] ELSE NoModel]
    OBVIOUS
<1> HIDE DEF Has, DictOf
<1>4. h \in Assignments
    BY <1>2, <1>3
<1>5. h[g] = IF Has(g) THEN s[DictOf(g)][g] ELSE NoModel
    BY <1>3
<1>6. CASE Has(g)
    BY <1>1, <1>4, <1>5, <1>6 DEF Has
<1>7. CASE ~Has(g)
    BY <1>4, <1>5, <1>7 DEF Has
<1>8. QED BY <1>6, <1>7

LEMMA HoldingIs ==
    ASSUME store \in [Kinds -> Assignments], NEW g \in Gpus
    PROVE  /\ holding \in Assignments
           /\ holding[g] = NoModel <=> \A k \in Kinds : store[k][g] = NoModel
           /\ holding[g] # NoModel => \E k \in Kinds : store[k][g] = holding[g]
BY LookUp DEF holding

LEMMA HoldingType == ASSUME store \in [Kinds -> Assignments] PROVE holding \in Assignments
<1>1. CASE Gpus = {}
    BY <1>1 DEF holding
<1>2. CASE Gpus # {}
    BY <1>2, HoldingIs
<1>3. QED BY <1>1, <1>2

\* The dicts decide what is held.
LEMMA HoldingSame == ASSUME UNCHANGED store PROVE holding' = holding
BY DEF holding

LEMMA HoldingEmpty ==
    ASSUME store' = ReleaseAll PROVE holding' = Empty
<1>1. \A k \in Kinds, g \in Gpus : store'[k][g] = NoModel
    BY DEF ReleaseAll
<1>2. QED BY <1>1 DEF holding

\* A release leaves nothing of the card it names, and every other card alone.
LEMMA ReleaseFrees ==
    ASSUME Inv, NEW g \in Gpus, Release(g)
    PROVE  store' \in [Kinds -> Assignments] /\ OneSystemPerCard'
<1> USE DEF Inv, TypeOK
<1>1. PICK k \in Kinds : store[k][g] # NoModel /\ store' = [store EXCEPT ![k][g] = NoModel]
    BY DEF Release
<1>2. store' \in [Kinds -> Assignments]
    BY <1>1
<1>3. \A l \in Kinds, c \in Gpus : store'[l][c] = store[l][c] \/ store'[l][c] = NoModel
    BY <1>1
<1>4. QED BY <1>2, <1>3 DEF OneSystemPerCard

\* A card that holds nothing may take up one model.
LEMMA TakeUpFills ==
    ASSUME Inv, NEW g \in Gpus, holding[g] = NoModel, NEW k \in Kinds,
           store' = [store EXCEPT ![k][g] = wanted[g]]
    PROVE  store' \in [Kinds -> Assignments] /\ OneSystemPerCard'
<1> USE DEF Inv, TypeOK
<1>1. \A l \in Kinds : store[l][g] = NoModel
    BY HoldingIs
<1>2. store' \in [Kinds -> Assignments]
    OBVIOUS
<1>3. \A l \in Kinds, c \in Gpus : (l # k \/ c # g) => store'[l][c] = store[l][c]
    OBVIOUS
<1>4. QED BY <1>1, <1>2, <1>3 DEF OneSystemPerCard

-----------------------------------------------------------------------------
(* Steps beside the loop, and the loop's. *)

LEMMA ServingStep == ASSUME Inv, Serving PROVE Inv'
<1> USE DEF Inv, TypeOK, Serving, host
<1>1. UNCHANGED host /\ holding' = holding
    BY HoldingSame
<1>2. /\ stage' \in Dial!Stages /\ drain' = drain /\ open' \in SUBSET Gpus
      /\ stage = "none" <=> stage' = "none"
      /\ stage = "over" => stage' = "over"
      /\ stage' \in {"draining", "over"} => drain \/ stage \in {"draining", "over"}
      /\ NoDial' => open' = {}
    BY DEF Dial!Take, Dial!Leave, Dial!LoseLink, Dial!DrainOut, Dial!Return, OpenInv
<1>3. TypeOK' /\ OneSystemPerCard' /\ OpenInv' /\ DrainedInv' /\ EventInv'
    BY <1>1, <1>2 DEF OneSystemPerCard, OpenInv, DrainedInv, EventInv
<1>4. HelloInv' /\ StopInv'
    BY <1>1, <1>2 DEF HelloInv, StopInv
<1>5. UpdateFindsNoWork' /\ StopsClean' /\ StopsOnlyWhenAsked'
    BY <1>1, <1>2, <1>4 DEF UpdateFindsNoWork, StopsClean, StopsOnlyWhenAsked, StopInv
<1>6. QED BY <1>3, <1>4, <1>5

LEMMA StoppingStep == ASSUME Inv, Stopping PROVE Inv'
<1> USE DEF Inv, TypeOK, Stopping, Dial!SetDrain
<1>1. holding' = holding
    BY HoldingSame
<1>2. TypeOK' /\ OneSystemPerCard' /\ OpenInv' /\ DrainedInv' /\ EventInv'
    BY DEF OneSystemPerCard, OpenInv, DrainedInv, EventInv
<1>3. HelloInv' /\ StopInv' /\ UpdateFindsNoWork' /\ StopsClean' /\ StopsOnlyWhenAsked'
    BY <1>1 DEF HelloInv, StopInv, UpdateFindsNoWork, StopsClean, StopsOnlyWhenAsked
<1>4. QED BY <1>2, <1>3

\* Leaving the loop cancels the dial or waits for it.
LEMMA LeaveStep ==
    ASSUME Inv, Leave, pc \notin {"over"}, halt' \/ raised', halt' \in BOOLEAN, raised' \in BOOLEAN,
           UNCHANGED <<reviews, store, wanted, before, announced, tried>>, drain => halt'
    PROVE  Inv'
<1> USE DEF Inv, TypeOK, Leave, Dial!Cancel
<1>1. holding' = holding
    BY HoldingSame
<1>2. TypeOK' /\ OneSystemPerCard' /\ OpenInv' /\ EventInv'
    BY DEF OneSystemPerCard, OpenInv, EventInv
<1>3. DrainedInv' /\ HelloInv' /\ StopInv'
    BY <1>1 DEF DrainedInv, HelloInv, StopInv
<1>4. UpdateFindsNoWork' /\ StopsClean' /\ StopsOnlyWhenAsked'
    BY DEF UpdateFindsNoWork, StopsClean, StopsOnlyWhenAsked
<1>5. QED BY <1>2, <1>3, <1>4

\* Steps of run that leave the dicts alone.
LEMMA QuietStep ==
    ASSUME Inv, PendingUpdate \/ DrainForUpdate \/ ApplyUpdate \/ Applied \/ DialAgain \/ Finally
    PROVE  Inv'
<1> USE DEF Inv, TypeOK
<1>1. UNCHANGED <<raised, reviews, store, wanted, before, tried>>
    BY DEF PendingUpdate, DrainForUpdate, ApplyUpdate, Applied, DialAgain, Finally
<1>2. holding' = holding /\ OneSystemPerCard' /\ holding \in Assignments
    <2>1. holding' = holding
        BY <1>1, HoldingSame
    <2>2. OneSystemPerCard'
        BY <1>1 DEF OneSystemPerCard
    <2>3. holding \in Assignments
        BY HoldingType
    <2>4. QED BY <2>1, <2>2, <2>3
<1>3. CASE PendingUpdate
    <2>4. pc = "check" /\ UNCHANGED <<stage, open, halt, announced>>
        BY <1>3 DEF PendingUpdate, Dial!SetDrain
    <2>9. \/ pc' = "catalogue" /\ drain' = drain
          \/ pc' = "update" /\ stage = "none" /\ drain' = TRUE
          \/ pc' = "drain" /\ stage # "none" /\ drain' = TRUE
        BY <1>3 DEF PendingUpdate, Dial!SetDrain
    <2>6. TypeOK'
        BY <1>1, <2>4, <2>9
    <2>7. OpenInv' /\ DrainedInv'
        BY <2>4, <2>9 DEF OpenInv, DrainedInv
    <2>8. EventInv'
        BY <2>4, <2>9 DEF EventInv
    <2>1. TypeOK' /\ OpenInv' /\ DrainedInv' /\ EventInv'
        BY <2>6, <2>7, <2>8
    <2>2. HelloInv' /\ StopInv' /\ UpdateFindsNoWork' /\ StopsClean' /\ StopsOnlyWhenAsked'
        BY <1>1, <1>2, <2>4, <2>9
        DEF HelloInv, StopInv, UpdateFindsNoWork, StopsClean, StopsOnlyWhenAsked, OpenInv
    <2>3. QED BY <1>2, <2>1, <2>2
<1>4. CASE DrainForUpdate
    <2> USE <1>4 DEF DrainForUpdate, Gathered
    <2>1. TypeOK' /\ OpenInv' /\ DrainedInv' /\ EventInv'
        BY <1>1 DEF OpenInv, DrainedInv, EventInv
    <2>2. HelloInv' /\ StopInv' /\ UpdateFindsNoWork' /\ StopsClean' /\ StopsOnlyWhenAsked'
        BY <1>1, <1>2 DEF HelloInv, StopInv, UpdateFindsNoWork, StopsClean, StopsOnlyWhenAsked, OpenInv
    <2>3. QED BY <1>2, <2>1, <2>2
<1>5. CASE ApplyUpdate
    <2> USE <1>5 DEF ApplyUpdate, NewEvent
    <2>1. TypeOK' /\ OpenInv' /\ DrainedInv' /\ EventInv'
        BY <1>1 DEF OpenInv, DrainedInv, EventInv, UpdateFindsNoWork
    <2>2. HelloInv' /\ StopInv' /\ UpdateFindsNoWork' /\ StopsClean' /\ StopsOnlyWhenAsked'
        BY <1>1, <1>2 DEF HelloInv, StopInv, UpdateFindsNoWork, StopsClean, StopsOnlyWhenAsked
    <2>3. QED BY <1>2, <2>1, <2>2
<1>6. CASE Applied
    <2> USE <1>6 DEF Applied
    <2>1. TypeOK' /\ OpenInv' /\ DrainedInv' /\ EventInv'
        BY <1>1 DEF OpenInv, DrainedInv, EventInv
    <2>2. HelloInv' /\ StopInv' /\ UpdateFindsNoWork' /\ StopsClean' /\ StopsOnlyWhenAsked'
        BY <1>1, <1>2 DEF HelloInv, StopInv, UpdateFindsNoWork, StopsClean, StopsOnlyWhenAsked
    <2>3. QED BY <1>2, <2>1, <2>2
<1>7. CASE DialAgain
    <2> USE <1>7 DEF DialAgain
    <2>4. announced' = holding /\ UNCHANGED <<drain, open, halt>> /\ open = {}
          /\ \/ stage' = "over" /\ pc' = "stop"
             \/ stage' = "serving" /\ pc' \in {"finally", "review"}
        BY DEF OpenInv, StopInv
    <2>5. TypeOK'
        BY <1>1, <1>2, <2>4
    <2>6. OpenInv' /\ DrainedInv' /\ EventInv'
        BY <2>4 DEF OpenInv, DrainedInv, EventInv
    <2>1. TypeOK' /\ OpenInv' /\ DrainedInv' /\ EventInv'
        BY <2>5, <2>6
    <2>2. HelloInv' /\ StopInv' /\ UpdateFindsNoWork' /\ StopsClean' /\ StopsOnlyWhenAsked'
        BY <1>1, <1>2 DEF HelloInv, StopInv, UpdateFindsNoWork, StopsClean, StopsOnlyWhenAsked, EventInv
    <2>3. QED BY <1>2, <2>1, <2>2
<1>8. CASE Finally
    <2> USE <1>8 DEF Finally
    <2>1. TypeOK' /\ OpenInv' /\ DrainedInv' /\ EventInv'
        BY <1>1 DEF OpenInv, DrainedInv, EventInv
    <2>2. HelloInv' /\ StopInv' /\ UpdateFindsNoWork' /\ StopsClean' /\ StopsOnlyWhenAsked'
        BY <1>1, <1>2 DEF HelloInv, StopInv, UpdateFindsNoWork, StopsClean, StopsOnlyWhenAsked
    <2>3. QED BY <1>2, <2>1, <2>2
<1>9. QED BY <1>3, <1>4, <1>5, <1>6, <1>7, <1>8

LEMMA PlanNowStep == ASSUME Inv, PlanNow PROVE Inv'
<1> USE DEF Inv, TypeOK
<1>1. PICK next \in Assignments :
        /\ next # holding => reviews < MaxReviews
        /\ reviews' = IF next # holding THEN reviews + 1 ELSE reviews
        /\ wanted' = next
        /\ pc' = IF next # holding THEN "apply" ELSE "compare"
    BY DEF PlanNow
<1>2. /\ pc = "catalogue" /\ before' = holding /\ tried' = {} /\ UNCHANGED <<halt, raised, store>>
      /\ holding' = holding /\ holding \in Assignments
    BY HoldingSame, HoldingType DEF PlanNow
<1>3. /\ UNCHANGED <<drain, open>> /\ stage' \in Dial!Stages \ {"none", "over"}
      /\ announced' = holding /\ stage' \in {"serving", stage}
    BY <1>2 DEF PlanNow, Dialling, HelloInv
<1>4. TypeOK'
    <2>1. reviews' \in 0..MaxReviews
        BY <1>1, BoundsAssumption
    <2>2. QED BY <1>1, <1>2, <1>3, <2>1
<1>5. OneSystemPerCard' /\ OpenInv' /\ DrainedInv' /\ EventInv'
    BY <1>1, <1>2, <1>3 DEF OneSystemPerCard, OpenInv, DrainedInv, EventInv
<1>6. HelloInv' /\ StopInv' /\ UpdateFindsNoWork' /\ StopsClean' /\ StopsOnlyWhenAsked'
    BY <1>1, <1>2, <1>3 DEF HelloInv, StopInv, UpdateFindsNoWork, StopsClean, StopsOnlyWhenAsked
<1>7. QED BY <1>4, <1>5, <1>6

\* apply moves nothing but the dicts and its own place.
LEMMA ApplyStep == ASSUME Inv, Drop \/ TakeUp PROVE Inv'
<1> USE DEF Inv, TypeOK
<1>1. /\ pc = "apply" /\ tried' \in SUBSET Gpus
      /\ UNCHANGED <<pc, halt, raised, reviews, wanted, before, announced, stage, drain, open>>
    BY DEF Drop, TakeUp, ToTakeUp
<1>2. store' \in [Kinds -> Assignments] /\ OneSystemPerCard'
    <2>1. CASE Drop
        BY <2>1, ReleaseFrees DEF Drop, Drops
    <2>2. CASE TakeUp
        <3>1. PICK g \in Gpus :
                 /\ holding[g] = NoModel
                 /\ (\E k \in Kinds : store' = [store EXCEPT ![k][g] = wanted[g]]) \/ UNCHANGED store
            BY <2>2 DEF TakeUp, ToTakeUp
        <3>2. QED BY <3>1, TakeUpFills DEF OneSystemPerCard
    <2>3. QED BY <2>1, <2>2
<1>3. TypeOK'
    BY <1>1, <1>2
<1>4. OpenInv' /\ DrainedInv' /\ EventInv' /\ HelloInv' /\ StopInv'
    BY <1>1 DEF OpenInv, DrainedInv, EventInv, HelloInv, StopInv
<1>5. UpdateFindsNoWork' /\ StopsClean' /\ StopsOnlyWhenAsked'
    BY <1>1 DEF UpdateFindsNoWork, StopsClean, StopsOnlyWhenAsked
<1>6. QED BY <1>2, <1>3, <1>4, <1>5

LEMMA RestStep ==
    ASSUME Inv, pc = "compare", holding = before, Rest,
           UNCHANGED <<halt, raised, reviews, store, wanted, before, announced, tried>>
    PROVE  Inv'
<1> USE DEF Inv, TypeOK
<1>1. CASE drain \/ halt
    <2>1. halt /\ Leave
        BY <1>1 DEF Rest, EventInv
    <2>2. QED BY <2>1, LeaveStep
<1>2. CASE ~(drain \/ halt)
    <2>1. pc' = "review" /\ UNCHANGED <<stage, drain, open>> /\ holding' = holding
        BY <1>2, HoldingSame DEF Rest
    <2>2. TypeOK' /\ OneSystemPerCard' /\ OpenInv' /\ DrainedInv' /\ EventInv'
        BY <2>1 DEF OneSystemPerCard, OpenInv, DrainedInv, EventInv
    <2>3. HelloInv' /\ StopInv' /\ UpdateFindsNoWork' /\ StopsClean' /\ StopsOnlyWhenAsked'
        BY <2>1 DEF HelloInv, StopInv, UpdateFindsNoWork, StopsClean, StopsOnlyWhenAsked
    <2>4. QED BY <2>2, <2>3
<1>3. QED BY <1>1, <1>2

LEMMA CompareStep == ASSUME Inv, Compare PROVE Inv'
<1> USE DEF Inv, TypeOK
<1>1. pc = "compare" /\ UNCHANGED <<halt, raised, reviews, store, wanted, before, announced, tried>>
    BY DEF Compare
<1>2. CASE NeedsDial
    <2>1. pc' = "cancel" /\ stage' = "over" /\ open' = {} /\ UNCHANGED drain
        BY <1>2 DEF Compare, Dial!Cancel
    <2>2. TypeOK' /\ OneSystemPerCard' /\ OpenInv' /\ DrainedInv' /\ EventInv'
        BY <1>1, <2>1 DEF OneSystemPerCard, OpenInv, DrainedInv, EventInv
    <2>3. HelloInv' /\ StopInv' /\ UpdateFindsNoWork' /\ StopsClean' /\ StopsOnlyWhenAsked'
        BY <1>1, <2>1 DEF HelloInv, StopInv, UpdateFindsNoWork, StopsClean, StopsOnlyWhenAsked
    <2>4. QED BY <2>2, <2>3
<1>3. CASE ~NeedsDial
    BY <1>1, <1>3, RestStep DEF Compare, NeedsDial
<1>4. QED BY <1>2, <1>3

LEMMA StopStep == ASSUME Inv, Stop PROVE Inv'
<1> USE DEF Inv, TypeOK, Stop
<1>1. holding' = Empty /\ store' \in [Kinds -> Assignments]
    BY HoldingEmpty DEF ReleaseAll
<1>2. OneSystemPerCard'
    BY DEF OneSystemPerCard, ReleaseAll
<1>3. TypeOK' /\ OpenInv' /\ DrainedInv' /\ EventInv'
    BY <1>1 DEF OpenInv, DrainedInv, EventInv
<1>4. HelloInv' /\ StopInv' /\ UpdateFindsNoWork' /\ StopsClean' /\ StopsOnlyWhenAsked'
    BY <1>1 DEF HelloInv, StopInv, UpdateFindsNoWork, StopsClean, StopsOnlyWhenAsked, OpenInv
<1>5. QED BY <1>2, <1>3, <1>4

LEMMA ReviewStep == ASSUME Inv, Review PROVE Inv'
<1> USE DEF Inv, TypeOK, Review
<1>1. CASE halt
    BY <1>1, LeaveStep
<1>2. CASE ~halt
    <2>1. pc' = "check" /\ UNCHANGED <<stage, drain, open>> /\ holding' = holding
        BY <1>2, HoldingSame
    <2>2. TypeOK' /\ OneSystemPerCard' /\ OpenInv' /\ DrainedInv' /\ EventInv'
        BY <2>1 DEF OneSystemPerCard, OpenInv, DrainedInv, EventInv
    <2>3. HelloInv' /\ StopInv' /\ UpdateFindsNoWork' /\ StopsClean' /\ StopsOnlyWhenAsked'
        BY <2>1 DEF HelloInv, StopInv, UpdateFindsNoWork, StopsClean, StopsOnlyWhenAsked
    <2>4. QED BY <2>2, <2>3
<1>3. QED BY <1>1, <1>2

LEMMA RaiseStep == ASSUME Inv, Raise PROVE Inv'
<1>1. drain => halt
    BY DEF Raise, Inv, EventInv, TypeOK
<1>2. QED BY <1>1, LeaveStep DEF Raise, Inv, TypeOK

-----------------------------------------------------------------------------
(* The theorems. *)

LEMMA InitInv == Init => Inv
<1> SUFFICES ASSUME Init PROVE Inv
    OBVIOUS
<1> USE BoundsAssumption DEF Init
<1>5. 0 \in 0..MaxReviews /\ Empty \in Assignments
    OBVIOUS
<1>6. store \in [Kinds -> Assignments] /\ wanted \in Assignments /\ before \in Assignments /\ announced \in Assignments
    BY <1>5
<1>7. Dial!TypeOK /\ pc \in Steps /\ halt \in BOOLEAN /\ raised \in BOOLEAN /\ tried \in SUBSET Gpus
    OBVIOUS
<1>1. TypeOK
    BY <1>5, <1>6, <1>7 DEF TypeOK
<1>3. OneSystemPerCard /\ OpenInv /\ DrainedInv /\ EventInv
    BY DEF OneSystemPerCard, OpenInv, DrainedInv, EventInv
<1>2. HelloInv /\ StopInv /\ UpdateFindsNoWork /\ StopsClean /\ StopsOnlyWhenAsked
    BY DEF HelloInv, StopInv, UpdateFindsNoWork, StopsClean, StopsOnlyWhenAsked
<1>4. QED BY <1>1, <1>2, <1>3 DEF Inv

LEMMA StutterInv == ASSUME Inv, UNCHANGED vars PROVE Inv'
<1> USE DEF Inv, vars, host
<1>1. holding' = holding
    BY HoldingSame
<1>2. TypeOK' /\ OneSystemPerCard' /\ OpenInv' /\ DrainedInv' /\ EventInv'
    BY DEF TypeOK, OneSystemPerCard, OpenInv, DrainedInv, EventInv
<1>3. HelloInv' /\ StopInv' /\ UpdateFindsNoWork' /\ StopsClean' /\ StopsOnlyWhenAsked'
    BY <1>1 DEF HelloInv, StopInv, UpdateFindsNoWork, StopsClean, StopsOnlyWhenAsked
<1>4. QED BY <1>2, <1>3

LEMMA NextInv == Inv /\ [Next]_vars => Inv'
BY ServingStep, StoppingStep, QuietStep, PlanNowStep, ApplyStep, CompareStep, StopStep, ReviewStep,
   RaiseStep, StutterInv DEF Next, Run

\* The inductive invariant holds in every reachable state of the agent.
THEOREM Invariance == Spec => []Inv
<1>1. QED BY InitInv, NextInv, PTL DEF Spec

\* Every variable of the agent stays within its type.
THEOREM TypeCorrect == Spec => []TypeOK
<1>1. Inv => TypeOK
    BY DEF Inv
<1>2. QED BY <1>1, Invariance, PTL

\* No card is in two of the dicts held, plain and images_held, whatever kinds the
\* catalogue gives its models and whichever of them fail.
THEOREM NeverTwoSystems == Spec => []OneSystemPerCard
<1>1. Inv => OneSystemPerCard
    BY DEF Inv
<1>2. QED BY <1>1, Invariance, PTL

\* Between reviews the hello and the dicts agree, unless the agent drains.
THEOREM HelloIsTrue == Spec => []AnnouncesWhatIsHeld
<1>1. Inv => AnnouncesWhatIsHeld
    BY DEF Inv, HelloInv, DrainedInv, NoDial, AnnouncesWhatIsHeld, TypeOK, Dial!TypeOK
<1>2. QED BY <1>1, Invariance, PTL

\* An update is tried with the dial returned and nothing open; the end of run
\* finds no dial and no holding; and run ends only when it was asked to.
THEOREM StopsAndUpdates == Spec => [](UpdateFindsNoWork /\ StopsClean /\ StopsOnlyWhenAsked)
<1>1. Inv => UpdateFindsNoWork /\ StopsClean /\ StopsOnlyWhenAsked
    BY DEF Inv
<1>2. QED BY <1>1, Invariance, PTL

\* The hello, the update and the end of run at once, for any cards, plans and failures.
THEOREM AgentStaysConsistent == Spec => []AgentIsConsistent
<1>1. QED BY HelloIsTrue, StopsAndUpdates, PTL DEF AgentIsConsistent

\* A step that leaves a card's entries alone leaves what it holds alone.
LEMMA HoldingLocal ==
    ASSUME Inv, Inv', NEW g \in Gpus, \A k \in Kinds : store'[k][g] = store[k][g]
    PROVE  holding'[g] = holding[g]
<1>1. /\ holding[g] = NoModel <=> \A k \in Kinds : store[k][g] = NoModel
      /\ holding[g] # NoModel => \E k \in Kinds : store[k][g] = holding[g]
    BY HoldingIs DEF Inv, TypeOK
<1>2. /\ holding'[g] = NoModel <=> \A k \in Kinds : store'[k][g] = NoModel
      /\ holding'[g] # NoModel => \E k \in Kinds : store'[k][g] = holding'[g]
    BY LookUp DEF Inv, TypeOK, holding
<1>3. QED BY <1>1, <1>2 DEF Inv, OneSystemPerCard

\* A card whose model stays in the plan keeps its engine through the review,
\* whatever happens to the cards beside it.
THEOREM PlannedCardStays == Spec => PlannedCardIsKept
<1> DEFINE Kept == \A g \in Gpus : pc = "apply" /\ holding[g] # NoModel /\ holding[g] = wanted[g]
                                     => holding'[g] = holding[g]
<1>1. ASSUME Inv, Inv', [Next]_vars, NEW g \in Gpus, pc = "apply", holding[g] # NoModel,
             holding[g] = wanted[g]
      PROVE  holding'[g] = holding[g]
    <2>1. CASE UNCHANGED store
        BY <2>1, HoldingSame
    <2>2. CASE Drop
        <3>1. PICK h \in Gpus, k \in Kinds : h # g /\ store' = [store EXCEPT ![k][h] = NoModel]
            BY <2>2, <1>1 DEF Drop, Drops, Release
        <3>2. \A l \in Kinds : store'[l][g] = store[l][g]
            BY <3>1, <1>1 DEF Inv, TypeOK
        <3>3. QED BY <1>1, <3>2, HoldingLocal
    <2>3. CASE TakeUp /\ store' # store
        <3>1. PICK h \in Gpus, k \in Kinds : h # g /\ store' = [store EXCEPT ![k][h] = wanted[h]]
            BY <2>3, <1>1 DEF TakeUp, ToTakeUp
        <3>2. \A l \in Kinds : store'[l][g] = store[l][g]
            BY <3>1, <1>1 DEF Inv, TypeOK
        <3>3. QED BY <1>1, <3>2, HoldingLocal
    <2>4. QED
        BY <1>1, <2>1, <2>2, <2>3
        DEF Next, Run, vars, host, Review, PendingUpdate, DrainForUpdate, ApplyUpdate, PlanNow, Applied,
            Compare, DialAgain, Finally, Stop, Raise, Serving, Stopping
<1>2. Inv /\ Inv' /\ [Next]_vars => [Kept]_vars
    BY <1>1
<1>3. QED BY <1>2, Invariance, NextInv, PTL DEF Spec, PlannedCardIsKept
================================================================================
