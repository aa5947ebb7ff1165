-------------------------------- MODULE ServingProofs --------------------------------
(* Theorems about ServingSettlement, for any documents, dials, pools and metagraphs,   *)
(* and about ServingProbes, for any listing, items, answers, weights and calibrations. *)
EXTENDS ServingSettlement, ServingProbes, FiniteSetTheorems, FunctionTheorems, SequenceTheorems,
        WellFoundedInduction, TLAPS

-----------------------------------------------------------------------------
(* Induction over finite sets and over the naturals, without a predicate parameter:
   the library's WFMin over the strict subsets. *)

\* A set of subsets of a finite set has one that no other is part of.
LEMMA LeastSubset ==
  ASSUME NEW S, IsFiniteSet(S), NEW Bad \in SUBSET (SUBSET S), Bad # {}
  PROVE \E T \in Bad : \A U \in Bad : U \subseteq T => U = T
<1>1. IsWellFoundedOn(StrictSubsetOrdering(S), FiniteSubsetsOf(S))
  BY FS_StrictSubsetOrderingWellFounded
<1>2. Bad \subseteq FiniteSubsetsOf(S)
  BY FS_Subset DEF FiniteSubsetsOf
<1>3. PICK T \in Bad : \A U \in Bad : ~ (<<U, T>> \in StrictSubsetOrdering(S))
  BY <1>1, <1>2, WFMin
<1>4. ASSUME NEW U \in Bad, U \subseteq T PROVE U = T
  BY <1>3, <1>4 DEF StrictSubsetOrdering
<1> QED BY <1>4

\* Induction over a finite set, one element at a time; F is the set of good subsets.
LEMMA SetInduct ==
  ASSUME NEW S, IsFiniteSet(S), NEW F, {} \in F,
         \A T \in SUBSET S : \A x \in S \ T : T \in F => T \cup {x} \in F
  PROVE S \in F
<1> DEFINE Bad == {T \in SUBSET S : T \notin F}
<1>1. SUFFICES ASSUME Bad # {} PROVE FALSE
  <2>1. S \in SUBSET S OBVIOUS
  <2> QED BY <2>1, <1>1
<1>2. \E T \in Bad : \A U \in Bad : U \subseteq T => U = T
  <2>1. Bad \in SUBSET (SUBSET S) OBVIOUS
  <2> HIDE DEF Bad
  <2> QED BY <2>1, <1>1, LeastSubset
<1>3. PICK T \in Bad : \A U \in Bad : U \subseteq T => U = T
  BY <1>2
<1>4. PICK x \in T : TRUE
  OBVIOUS
<1>5. T \ {x} \in F
  BY <1>3, <1>4
<1>6. T = (T \ {x}) \cup {x}
  BY <1>4
<1> QED BY <1>3, <1>4, <1>5, <1>6

\* A set of numbers has a least one.
LEMMA NatMin ==
  ASSUME NEW T \in SUBSET Nat, T # {}
  PROVE \E n \in T : \A m \in T : n <= m
<1>1. PICK m \in T : TRUE
  OBVIOUS
<1> DEFINE S == T \cap 0..m
           F == {U \in SUBSET S : U # {} => \E n \in U : \A k \in U : n <= k}
<1>2. IsFiniteSet(S)
  <2>1. IsFiniteSet(0..m)
    BY FS_Interval
  <2> QED BY <2>1, FS_Subset
<1>3. {} \in F
  OBVIOUS
<1>4. ASSUME NEW U \in SUBSET S, NEW x \in S \ U, U \in F
      PROVE U \cup {x} \in F
  <2>1. CASE U = {}
    BY <2>1
  <2>2. CASE U # {}
    <3>1. PICK n \in U : \A k \in U : n <= k
      BY <2>2, <1>4
    <3>2. n \in Nat /\ x \in Nat /\ U \in SUBSET Nat
      OBVIOUS
    <3>3. CASE n <= x
      BY <3>1, <3>2, <3>3
    <3>4. CASE x < n
      <4>1. \A k \in U \cup {x} : x <= k
        BY <3>1, <3>2, <3>4
      <4> QED BY <4>1
    <3> QED BY <3>2, <3>3, <3>4
  <2> QED BY <2>1, <2>2
<1>5. S \in F
  <2> HIDE DEF S, F
  <2> QED BY <1>2, <1>3, <1>4, SetInduct
<1>6. PICK n \in S : \A k \in S : n <= k
  BY <1>5, <1>1
<1>7. \A k \in T : n <= k
  BY <1>6, <1>1
<1> QED BY <1>7

-----------------------------------------------------------------------------
(* Sums of a function over a finite set. *)

\* s gives every part of S the sum of f over it.
SumTable(s, f, S) ==
    /\ s \in [SUBSET S -> Int] /\ s[{}] = 0
    /\ \A T \in SUBSET S : \A x \in S \ T : s[T \cup {x}] = s[T] + f[x]

\* The recursive function behind a sum over a set exists.
LEMMA SumTableExists ==
  ASSUME NEW S, IsFiniteSet(S), NEW f, \A x \in S : f[x] \in Int
  PROVE \E s : SumTable(s, f, S)
<1> DEFINE F == {T \in SUBSET S : \E s : SumTable(s, f, T)}
<1>1. {} \in F
  <2> DEFINE s == [T \in SUBSET {} |-> 0]
  <2>1. SumTable(s, f, {})
    BY DEF SumTable
  <2> QED BY <2>1
<1>2. ASSUME NEW T \in SUBSET S, NEW y \in S \ T, T \in F
      PROVE T \cup {y} \in F
  <2>1. PICK s : SumTable(s, f, T)
    BY <1>2
  <2> DEFINE r == [U \in SUBSET (T \cup {y}) |->
                      IF y \in U THEN s[U \ {y}] + f[y] ELSE s[U]]
  <2>2. r \in [SUBSET (T \cup {y}) -> Int]
    <3>1. SUFFICES ASSUME NEW U \in SUBSET (T \cup {y}) PROVE r[U] \in Int
      OBVIOUS
    <3>2. U \ {y} \in SUBSET T /\ f[y] \in Int
      BY <1>2
    <3>3. y \notin U => U \in SUBSET T
      OBVIOUS
    <3> QED BY <2>1, <3>2, <3>3 DEF SumTable
  <2>3. r[{}] = 0
    BY <2>1 DEF SumTable
  <2>4. ASSUME NEW U \in SUBSET (T \cup {y}), NEW x \in (T \cup {y}) \ U
        PROVE r[U \cup {x}] = r[U] + f[x]
    <3>1. CASE x = y
      <4>1. (U \cup {x}) \ {y} = U /\ y \notin U /\ U \cup {x} \in SUBSET (T \cup {y})
        BY <3>1, <2>4
      <4> QED BY <4>1, <3>1
    <3>2. CASE x # y /\ y \in U
      <4>1. (U \cup {x}) \ {y} = (U \ {y}) \cup {x} /\ U \cup {x} \in SUBSET (T \cup {y})
        BY <3>2
      <4>2. U \ {y} \in SUBSET T /\ x \in T \ (U \ {y})
        BY <3>2, <2>4
      <4>3. s[(U \ {y}) \cup {x}] = s[U \ {y}] + f[x]
        BY <4>2, <2>1 DEF SumTable
      <4>4. s[U \ {y}] \in Int /\ f[x] \in Int /\ f[y] \in Int
        BY <4>2, <2>1, <1>2 DEF SumTable
      <4>5. r[U \cup {x}] = s[(U \ {y}) \cup {x}] + f[y] /\ r[U] = s[U \ {y}] + f[y]
        BY <4>1, <3>2
      <4> HIDE DEF r
      <4> QED BY <4>3, <4>4, <4>5
    <3>3. CASE x # y /\ y \notin U
      <4>1. y \notin U \cup {x} /\ U \in SUBSET T /\ x \in T \ U
            /\ U \cup {x} \in SUBSET (T \cup {y})
        BY <3>3, <2>4
      <4>2. s[U \cup {x}] = s[U] + f[x]
        BY <4>1, <2>1 DEF SumTable
      <4> QED BY <4>1, <4>2
    <3> QED BY <3>1, <3>2, <3>3
  <2>5. SumTable(r, f, T \cup {y})
    <3> HIDE DEF r
    <3> QED BY <2>2, <2>3, <2>4 DEF SumTable
  <2> QED BY <2>5, <1>2
<1>3. S \in F
  <2> HIDE DEF F
  <2> QED BY <1>1, <1>2, SetInduct
<1> QED BY <1>3

SumStep(g, f, S) ==
    [T \in SUBSET S |-> IF T = {} THEN 0
                        ELSE f[CHOOSE x \in T : TRUE] + g[T \ {CHOOSE x \in T : TRUE}]]

\* ... and is what SumFunctionOnSet reads.
LEMMA SumOnSetTable ==
  ASSUME NEW S, IsFiniteSet(S), NEW f, \A x \in S : f[x] \in Int,
         NEW s, SumTable(s, f, S)
  PROVE SumFunctionOnSet(f, S) = s[S]
<1> DEFINE g == CHOOSE g : g = SumStep(g, f, S)
<1>1. SumFunctionOnSet(f, S) = g[S]
  BY DEF SumFunctionOnSet, FoldFunctionOnSet, MapThenFoldSet, SumStep
<1>2. s = SumStep(s, f, S)
  <2>1. ASSUME NEW T \in SUBSET S, T # {}
        PROVE s[T] = f[CHOOSE x \in T : TRUE] + s[T \ {CHOOSE x \in T : TRUE}]
    <3> DEFINE x == CHOOSE x \in T : TRUE
    <3>1. x \in T
      BY <2>1
    <3> HIDE DEF x
    <3>2. T = (T \ {x}) \cup {x} /\ T \ {x} \in SUBSET S /\ x \in S \ (T \ {x})
      BY <3>1
    <3>3. s[(T \ {x}) \cup {x}] = s[T \ {x}] + f[x]
      BY <3>2 DEF SumTable
    <3>4. f[x] \in Int /\ s[T \ {x}] \in Int
      BY <3>2, <3>1 DEF SumTable
    <3>5. s[T] = s[T \ {x}] + f[x]
      <4>1. s[T] = s[(T \ {x}) \cup {x}]
        BY ONLY <3>2, Zenon
      <4> QED BY ONLY <4>1, <3>3, Zenon
    <3>6. s[T] = f[x] + s[T \ {x}]
      BY <3>5, <3>4
    <3> QED BY <3>6 DEF x
  <2>2. s = [T \in SUBSET S |-> s[T]] /\ s[{}] = 0
    BY DEF SumTable
  <2> QED BY <2>1, <2>2 DEF SumStep
<1>3. g = SumStep(g, f, S)
  <2> HIDE DEF g
  <2>1. \E h : h = SumStep(h, f, S)
    BY <1>2
  <2> QED BY <2>1 DEF g
<1> HIDE DEF g
<1> DEFINE Bad == {T \in SUBSET S : g[T] # s[T]}
<1>4. SUFFICES ASSUME Bad # {} PROVE FALSE
  <2>1. S \in SUBSET S OBVIOUS
  <2> QED BY <2>1, <1>1, <1>4
<1>5. \E T \in Bad : \A U \in Bad : U \subseteq T => U = T
  <2>1. Bad \in SUBSET (SUBSET S) OBVIOUS
  <2> HIDE DEF Bad
  <2> QED BY <2>1, <1>4, LeastSubset
<1>6. PICK T \in Bad : \A U \in Bad : U \subseteq T => U = T
  BY <1>5
<1>7. T # {}
  BY <1>2, <1>3 DEF SumStep
<1> DEFINE x == CHOOSE x \in T : TRUE
<1>8. x \in T
  BY <1>7
<1>9. g[T] = f[x] + g[T \ {x}] /\ s[T] = f[x] + s[T \ {x}]
  <2>1. \A h : h = SumStep(h, f, S) => h[T] = f[x] + h[T \ {x}]
    BY <1>7 DEF SumStep
  <2> HIDE DEF x
  <2> QED BY <2>1, <1>2, <1>3
<1> HIDE DEF x
<1>10. g[T \ {x}] = s[T \ {x}]
  BY <1>8, <1>6
<1> QED BY <1>6, <1>9, <1>10

\* Sums: of nothing,
LEMMA SumOnEmpty ==
  ASSUME NEW f
  PROVE SumFunctionOnSet(f, {}) = 0
<1>1. IsFiniteSet({})
  BY FS_EmptySet
<1>2. PICK s : SumTable(s, f, {})
  BY <1>1, SumTableExists
<1> QED BY <1>1, <1>2, SumOnSetTable DEF SumTable

\* of integers,
LEMMA SumOnInt ==
  ASSUME NEW S, IsFiniteSet(S), NEW f, \A x \in S : f[x] \in Int
  PROVE SumFunctionOnSet(f, S) \in Int
<1>1. PICK s : SumTable(s, f, S)
  BY SumTableExists
<1>2. SumFunctionOnSet(f, S) = s[S]
  BY <1>1, SumOnSetTable
<1> QED BY <1>1, <1>2 DEF SumTable

(* One element more. *)
LEMMA SumOnAdd ==
  ASSUME NEW S, IsFiniteSet(S), NEW x, x \notin S, NEW f, \A y \in S \cup {x} : f[y] \in Int
  PROVE SumFunctionOnSet(f, S \cup {x}) = SumFunctionOnSet(f, S) + f[x]
<1>1. IsFiniteSet(S \cup {x})
  BY FS_AddElement
<1>2. PICK s : SumTable(s, f, S \cup {x})
  BY <1>1, SumTableExists
<1> DEFINE r == [T \in SUBSET S |-> s[T]]
<1>3. SumTable(r, f, S)
  <2>1. r \in [SUBSET S -> Int] /\ r[{}] = 0
    BY <1>2 DEF SumTable
  <2>2. ASSUME NEW T \in SUBSET S, NEW y \in S \ T
        PROVE r[T \cup {y}] = r[T] + f[y]
    <3>1. T \in SUBSET (S \cup {x}) /\ y \in (S \cup {x}) \ T /\ T \cup {y} \in SUBSET S
      OBVIOUS
    <3> QED BY <3>1, <1>2 DEF SumTable
  <2> HIDE DEF r
  <2> QED BY <2>1, <2>2 DEF SumTable
<1>4. SumFunctionOnSet(f, S) = s[S]
  <2>1. SumFunctionOnSet(f, S) = r[S]
    <3> HIDE DEF r
    <3> QED BY <1>3, SumOnSetTable
  <2> QED BY <2>1
<1>5. SumFunctionOnSet(f, S \cup {x}) = s[S \cup {x}]
  BY <1>1, <1>2, SumOnSetTable
<1>6. s[S \cup {x}] = s[S] + f[x]
  BY <1>2 DEF SumTable
<1> QED BY <1>4, <1>5, <1>6

(* Only the values on the set matter. *)
LEMMA SumOnSame ==
  ASSUME NEW S, IsFiniteSet(S), NEW f, NEW g,
         \A x \in S : f[x] \in Int /\ f[x] = g[x]
  PROVE SumFunctionOnSet(f, S) = SumFunctionOnSet(g, S)
<1>1. PICK s : SumTable(s, f, S)
  BY SumTableExists
<1>2. SumTable(s, g, S)
  BY <1>1 DEF SumTable
<1> QED BY <1>1, <1>2, SumOnSetTable

\* with one element taken out,
LEMMA SumOnLess ==
  ASSUME NEW S, IsFiniteSet(S), NEW x \in S, NEW f, \A y \in S : f[y] \in Int
  PROVE SumFunctionOnSet(f, S) = SumFunctionOnSet(f, S \ {x}) + f[x]
<1>1. IsFiniteSet(S \ {x}) /\ S = (S \ {x}) \cup {x} /\ x \notin S \ {x}
  BY FS_Subset
<1>2. SumFunctionOnSet(f, (S \ {x}) \cup {x}) = SumFunctionOnSet(f, S \ {x}) + f[x]
  BY <1>1, SumOnAdd
<1> QED BY <1>1, <1>2

(* A larger summand on every element, a larger sum. *)
LEMMA SumOnMonotone ==
  ASSUME NEW S, IsFiniteSet(S), NEW f, NEW g,
         \A x \in S : f[x] \in Int /\ g[x] \in Int /\ f[x] <= g[x]
  PROVE SumFunctionOnSet(f, S) <= SumFunctionOnSet(g, S)
<1> DEFINE F == {T \in SUBSET S : SumFunctionOnSet(f, T) <= SumFunctionOnSet(g, T)}
<1>1. {} \in F
  BY SumOnEmpty
<1>2. ASSUME NEW T \in SUBSET S, NEW y \in S \ T, T \in F
      PROVE T \cup {y} \in F
  <2>1. IsFiniteSet(T)
    BY FS_Subset
  <2>2. SumFunctionOnSet(f, T \cup {y}) = SumFunctionOnSet(f, T) + f[y]
    BY <2>1, SumOnAdd
  <2>3. SumFunctionOnSet(g, T \cup {y}) = SumFunctionOnSet(g, T) + g[y]
    BY <2>1, SumOnAdd
  <2>4. SumFunctionOnSet(f, T) \in Int /\ SumFunctionOnSet(g, T) \in Int
    BY <2>1, SumOnInt
  <2> QED BY <1>2, <2>2, <2>3, <2>4
<1>3. S \in F
  <2> HIDE DEF F
  <2> QED BY <1>1, <1>2, SetInduct
<1> QED BY <1>3

(* A sum is linear. *)
LEMMA SumOnLinear ==
  ASSUME NEW S, IsFiniteSet(S), NEW f, NEW g, NEW h, NEW a \in Int, NEW b \in Int,
         \A x \in S : f[x] \in Int /\ g[x] \in Int /\ h[x] = a * f[x] + b * g[x]
  PROVE SumFunctionOnSet(h, S) = a * SumFunctionOnSet(f, S) + b * SumFunctionOnSet(g, S)
<1> DEFINE F == {T \in SUBSET S : SumFunctionOnSet(h, T)
                    = a * SumFunctionOnSet(f, T) + b * SumFunctionOnSet(g, T)}
<1>0. \A x \in S : h[x] \in Int
  OBVIOUS
<1>1. {} \in F
  BY SumOnEmpty
<1>2. ASSUME NEW T \in SUBSET S, NEW y \in S \ T, T \in F
      PROVE T \cup {y} \in F
  <2>1. IsFiniteSet(T)
    BY FS_Subset
  <2>2. SumFunctionOnSet(f, T \cup {y}) = SumFunctionOnSet(f, T) + f[y]
    BY <2>1, SumOnAdd
  <2>3. SumFunctionOnSet(g, T \cup {y}) = SumFunctionOnSet(g, T) + g[y]
    BY <2>1, SumOnAdd
  <2>4. SumFunctionOnSet(h, T \cup {y}) = SumFunctionOnSet(h, T) + h[y]
    BY <2>1, <1>0, SumOnAdd
  <2>5. /\ SumFunctionOnSet(f, T) \in Int /\ SumFunctionOnSet(g, T) \in Int
        /\ SumFunctionOnSet(h, T) \in Int
    BY <2>1, <1>0, SumOnInt
  <2>6. SumFunctionOnSet(h, T) = a * SumFunctionOnSet(f, T) + b * SumFunctionOnSet(g, T)
    BY <1>2
  <2>7. h[y] = a * f[y] + b * g[y] /\ f[y] \in Int /\ g[y] \in Int
    OBVIOUS
  <2>8. ASSUME NEW p \in Int, NEW q \in Int, NEW u \in Int, NEW v \in Int
        PROVE (a * p + b * q) + (a * u + b * v) = a * (p + u) + b * (q + v)
    OBVIOUS
  <2>9. (a * SumFunctionOnSet(f, T) + b * SumFunctionOnSet(g, T)) + (a * f[y] + b * g[y])
        = a * (SumFunctionOnSet(f, T) + f[y]) + b * (SumFunctionOnSet(g, T) + g[y])
    BY <2>5, <2>7, <2>8
  <2> QED BY <2>2, <2>3, <2>4, <2>6, <2>7, <2>9
<1>3. S \in F
  <2> HIDE DEF F
  <2> QED BY <1>1, <1>2, SetInduct
<1> QED BY <1>3

\* of sums,
LEMMA SumOnPlus ==
  ASSUME NEW S, IsFiniteSet(S), NEW f, NEW g, NEW h,
         \A x \in S : f[x] \in Int /\ g[x] \in Int /\ h[x] = f[x] + g[x]
  PROVE SumFunctionOnSet(h, S) = SumFunctionOnSet(f, S) + SumFunctionOnSet(g, S)
<1>1. \A x \in S : f[x] \in Int /\ g[x] \in Int /\ h[x] = 1 * f[x] + 1 * g[x]
  OBVIOUS
<1>2. \A x \in S : f[x] \in Int /\ g[x] \in Int
  OBVIOUS
<1>3. SumFunctionOnSet(h, S) = 1 * SumFunctionOnSet(f, S) + 1 * SumFunctionOnSet(g, S)
  <2>1. 1 \in Int
    OBVIOUS
  <2> QED BY <1>1, <2>1, SumOnLinear, SMTT(60)
<1>4. SumFunctionOnSet(f, S) \in Int /\ SumFunctionOnSet(g, S) \in Int
  BY <1>2, SumOnInt
<1> QED BY <1>3, <1>4

\* of multiples,
LEMMA SumOnScale ==
  ASSUME NEW S, IsFiniteSet(S), NEW f, NEW h, NEW a \in Int,
         \A x \in S : f[x] \in Int /\ h[x] = a * f[x]
  PROVE SumFunctionOnSet(h, S) = a * SumFunctionOnSet(f, S)
<1>1. \A x \in S : f[x] \in Int /\ f[x] \in Int /\ h[x] = a * f[x] + 0 * f[x]
  OBVIOUS
<1>2. SumFunctionOnSet(h, S) = a * SumFunctionOnSet(f, S) + 0 * SumFunctionOnSet(f, S)
  BY <1>1, SumOnLinear, SMTT(60)
<1>3. SumFunctionOnSet(f, S) \in Int
  BY SumOnInt
<1> QED BY <1>2, <1>3

(* A sum over two disjoint sets. *)
LEMMA SumOnUnion ==
  ASSUME NEW A, IsFiniteSet(A), NEW B, IsFiniteSet(B), A \cap B = {},
         NEW f, \A x \in A \cup B : f[x] \in Int
  PROVE SumFunctionOnSet(f, A \cup B) = SumFunctionOnSet(f, A) + SumFunctionOnSet(f, B)
<1> DEFINE F == {T \in SUBSET B : SumFunctionOnSet(f, A \cup T)
                    = SumFunctionOnSet(f, A) + SumFunctionOnSet(f, T)}
<1>0. SumFunctionOnSet(f, A) \in Int
  BY SumOnInt
<1>1. {} \in F
  <2>1. A \cup {} = A
    OBVIOUS
  <2> QED BY <2>1, <1>0, SumOnEmpty
<1>2. ASSUME NEW T \in SUBSET B, NEW y \in B \ T, T \in F
      PROVE T \cup {y} \in F
  <2>1. IsFiniteSet(T) /\ IsFiniteSet(A \cup T)
    BY FS_Subset, FS_Union
  <2>2. SumFunctionOnSet(f, T \cup {y}) = SumFunctionOnSet(f, T) + f[y]
    BY <2>1, SumOnAdd
  <2>3. SumFunctionOnSet(f, (A \cup T) \cup {y}) = SumFunctionOnSet(f, A \cup T) + f[y]
    BY <2>1, SumOnAdd
  <2>4. A \cup (T \cup {y}) = (A \cup T) \cup {y}
    OBVIOUS
  <2>5. SumFunctionOnSet(f, T) \in Int /\ f[y] \in Int
    BY <2>1, SumOnInt
  <2>6. SumFunctionOnSet(f, A \cup T) = SumFunctionOnSet(f, A) + SumFunctionOnSet(f, T)
    BY <1>2
  <2>7. SumFunctionOnSet(f, A \cup (T \cup {y})) = SumFunctionOnSet(f, A \cup T) + f[y]
    BY <2>3, <2>4
  <2> QED BY <1>0, <2>2, <2>5, <2>6, <2>7
<1>3. B \in F
  <2> HIDE DEF F
  <2> QED BY <1>1, <1>2, SetInduct
<1> QED BY <1>3

(* A sum of nothing but zeros. *)
LEMMA SumOnZero ==
  ASSUME NEW S, IsFiniteSet(S), NEW f, \A x \in S : f[x] = 0
  PROVE SumFunctionOnSet(f, S) = 0
<1> DEFINE z == [x \in S |-> 0]
<1>1. SumFunctionOnSet(f, S) = 0 * SumFunctionOnSet(z, S) + 0 * SumFunctionOnSet(z, S)
  <2>1. \A x \in S : z[x] \in Int /\ z[x] \in Int /\ f[x] = 0 * z[x] + 0 * z[x]
    OBVIOUS
  <2> HIDE DEF z
  <2> QED BY <2>1, SumOnLinear, SMTT(60)
<1>2. SumFunctionOnSet(z, S) \in Int
  <2>1. \A x \in S : z[x] \in Int
    OBVIOUS
  <2> HIDE DEF z
  <2> QED BY <2>1, SumOnInt
<1> HIDE DEF z
<1> QED BY <1>1, <1>2

\* of naturals,
LEMMA SumOnNat ==
  ASSUME NEW S, IsFiniteSet(S), NEW f, \A x \in S : f[x] \in Nat
  PROVE SumFunctionOnSet(f, S) \in Nat
<1> DEFINE z == [x \in S |-> 0]
<1>1. SumFunctionOnSet(z, S) <= SumFunctionOnSet(f, S)
  <2>1. \A x \in S : z[x] \in Int /\ f[x] \in Int /\ z[x] <= f[x]
    OBVIOUS
  <2> HIDE DEF z
  <2> QED BY <2>1, SumOnMonotone
<1>2. SumFunctionOnSet(z, S) = 0
  <2>1. \A x \in S : z[x] = 0
    OBVIOUS
  <2> HIDE DEF z
  <2> QED BY <2>1, SumOnZero
<1>3. SumFunctionOnSet(f, S) \in Int
  BY SumOnInt
<1> QED BY <1>1, <1>2, <1>3

(* A part of a sum of naturals is no larger than the sum. *)
LEMMA SumOnPart ==
  ASSUME NEW S, IsFiniteSet(S), NEW T \in SUBSET S, NEW f, \A x \in S : f[x] \in Nat
  PROVE SumFunctionOnSet(f, T) <= SumFunctionOnSet(f, S)
<1>1. IsFiniteSet(T) /\ IsFiniteSet(S \ T) /\ T \cup (S \ T) = S /\ T \cap (S \ T) = {}
  BY FS_Subset
<1>2. SumFunctionOnSet(f, S) = SumFunctionOnSet(f, T) + SumFunctionOnSet(f, S \ T)
  <2>1. \A x \in T \cup (S \ T) : f[x] \in Int
    BY <1>1
  <2>2. SumFunctionOnSet(f, T \cup (S \ T)) = SumFunctionOnSet(f, T) + SumFunctionOnSet(f, S \ T)
    BY <1>1, <2>1, SumOnUnion
  <2> QED BY ONLY <1>1, <2>2, Zenon
<1>3. SumFunctionOnSet(f, T) \in Nat /\ SumFunctionOnSet(f, S \ T) \in Nat
  BY <1>1, SumOnNat
<1> QED BY <1>1, <1>2, <1>3

\* no element is more than the sum.
LEMMA SumOnElement ==
  ASSUME NEW S, IsFiniteSet(S), NEW x \in S, NEW f, \A y \in S : f[y] \in Nat
  PROVE f[x] <= SumFunctionOnSet(f, S)
<1>1. IsFiniteSet(S \ {x})
  BY FS_Subset
<1>2. SumFunctionOnSet(f, S \ {x}) \in Nat
  BY <1>1, SumOnNat
<1>3. SumFunctionOnSet(f, S) = SumFunctionOnSet(f, S \ {x}) + f[x]
  BY SumOnLess
<1> QED BY <1>2, <1>3

(* Elements outside a part count nothing when their value is zero. *)
LEMMA SumOnSupport ==
  ASSUME NEW S, IsFiniteSet(S), NEW T \in SUBSET S, NEW f,
         \A x \in S : f[x] \in Int, \A x \in S \ T : f[x] = 0
  PROVE SumFunctionOnSet(f, S) = SumFunctionOnSet(f, T)
<1>1. IsFiniteSet(T) /\ IsFiniteSet(S \ T) /\ T \cup (S \ T) = S /\ T \cap (S \ T) = {}
  BY FS_Subset
<1>2. SumFunctionOnSet(f, S) = SumFunctionOnSet(f, T) + SumFunctionOnSet(f, S \ T)
  <2>1. \A x \in T \cup (S \ T) : f[x] \in Int
    BY <1>1
  <2>2. SumFunctionOnSet(f, T \cup (S \ T)) = SumFunctionOnSet(f, T) + SumFunctionOnSet(f, S \ T)
    BY <1>1, <2>1, SumOnUnion
  <2> QED BY ONLY <1>1, <2>2, Zenon
<1>3. SumFunctionOnSet(f, T) \in Int
  BY <1>1, SumOnInt
<1>4. SumFunctionOnSet(f, S \ T) = 0
  BY <1>1, SumOnZero
<1> QED BY <1>1, <1>2, <1>3, <1>4

(* The same amount for each of some elements. *)
LEMMA SumOnCount ==
  ASSUME NEW S, IsFiniteSet(S), NEW v \in Int, NEW f, \A x \in S : f[x] = v
  PROVE SumFunctionOnSet(f, S) = Cardinality(S) * v
<1> DEFINE F == {T \in SUBSET S : SumFunctionOnSet(f, T) = Cardinality(T) * v}
<1>1. {} \in F
  BY SumOnEmpty, FS_EmptySet
<1>2. ASSUME NEW T \in SUBSET S, NEW y \in S \ T, T \in F
      PROVE T \cup {y} \in F
  <2>1. IsFiniteSet(T) /\ Cardinality(T) \in Nat
    BY FS_Subset, FS_CardinalityType
  <2>2. SumFunctionOnSet(f, T \cup {y}) = SumFunctionOnSet(f, T) + f[y]
    BY <2>1, SumOnAdd
  <2>3. Cardinality(T \cup {y}) = Cardinality(T) + 1
    BY <2>1, FS_AddElement
  <2>4. SumFunctionOnSet(f, T) = Cardinality(T) * v /\ f[y] = v
    BY <1>2
  <2>5. Cardinality(T) * v + v = (Cardinality(T) + 1) * v
    BY <2>1
  <2> QED BY <2>2, <2>3, <2>4, <2>5
<1>3. S \in F
  <2> HIDE DEF F
  <2> QED BY <1>1, <1>2, SetInduct
<1> QED BY <1>3

-----------------------------------------------------------------------------
(* A relation that orders the elements of a set. *)
Orders(R, S) ==
    /\ \A x \in S : <<x, x>> \notin R
    /\ \A x, y, z \in S : <<x, y>> \in R /\ <<y, z>> \in R => <<x, z>> \in R
    /\ \A x, y \in S : x = y \/ <<x, y>> \in R \/ <<y, x>> \in R

Below(R, S, x) == {y \in S : <<y, x>> \in R}

\* A finite set that is ordered has a first element.
LEMMA FirstExists ==
  ASSUME NEW S, IsFiniteSet(S), S # {}, NEW R, Orders(R, S)
  PROVE \E x \in S : Below(R, S, x) = {}
<1> DEFINE Bad == {Below(R, S, x) : x \in S}
<1>1. Bad \in SUBSET (SUBSET S) /\ Bad # {}
  BY DEF Below
<1>2. \E T \in Bad : \A U \in Bad : U \subseteq T => U = T
  <2> HIDE DEF Bad
  <2> QED BY <1>1, LeastSubset
<1>3. PICK x \in S : \A y \in S : Below(R, S, y) \subseteq Below(R, S, x)
                              => Below(R, S, y) = Below(R, S, x)
  BY <1>2
<1>4. ASSUME NEW y \in Below(R, S, x) PROVE FALSE
  <2>1. y \in S /\ <<y, x>> \in R
    BY DEF Below
  <2>2. Below(R, S, y) \subseteq Below(R, S, x)
    BY <2>1 DEF Below, Orders
  <2>3. y \notin Below(R, S, y)
    BY <2>1 DEF Below, Orders
  <2> QED BY <2>1, <2>2, <2>3, <1>3
<1> QED BY <1>4

(* As many elements have fewer than k below them as k says. *)
LEMMA FirstCounted ==
  ASSUME NEW S, IsFiniteSet(S), NEW R, Orders(R, S), NEW k \in Nat, k <= Cardinality(S)
  PROVE Cardinality({x \in S : Cardinality(Below(R, S, x)) < k}) = k
<1> DEFINE n == Cardinality(S)
           at == [x \in S |-> Cardinality(Below(R, S, x))]
           T == 0..(n - 1)
<1>1. n \in Nat
  BY FS_CardinalityType
<1>2. ASSUME NEW x \in S PROVE IsFiniteSet(Below(R, S, x)) /\ at[x] \in T
  <2>1. Below(R, S, x) \in SUBSET (S \ {x})
    BY DEF Below, Orders
  <2>2. IsFiniteSet(S \ {x}) /\ Cardinality(S \ {x}) = n - 1
    BY FS_RemoveElement
  <2>3. /\ IsFiniteSet(Below(R, S, x)) /\ Cardinality(Below(R, S, x)) <= n - 1
    BY <2>1, <2>2, FS_Subset
  <2>4. Cardinality(Below(R, S, x)) \in Nat
    BY <2>3, FS_CardinalityType
  <2> QED BY <2>3, <2>4, <1>1
<1>3. ASSUME NEW x \in S, NEW y \in S, x # y PROVE at[x] # at[y]
  <2>1. ASSUME NEW a \in S, NEW b \in S, <<a, b>> \in R
        PROVE Cardinality(Below(R, S, a)) # Cardinality(Below(R, S, b))
    <3>1. Below(R, S, a) \in SUBSET Below(R, S, b) /\ a \in Below(R, S, b) /\ a \notin Below(R, S, a)
      BY <2>1 DEF Below, Orders
    <3>2. IsFiniteSet(Below(R, S, b))
      BY <1>2
    <3> QED BY <3>1, <3>2, FS_Subset
  <2>2. <<x, y>> \in R \/ <<y, x>> \in R
    BY <1>3 DEF Orders
  <2> QED BY <2>1, <2>2
<1>4. at \in Injection(S, T)
  <2>1. at \in [S -> T]
    BY <1>2
  <2>2. \A x, y \in S : at[x] = at[y] => x = y
    BY <1>3
  <2> HIDE DEF at, T
  <2> QED BY <2>1, <2>2, Fun_IsInj
<1>5. IsFiniteSet(T) /\ Cardinality(T) = n
  <2>1. 0 \in Int /\ n - 1 \in Int
    BY <1>1
  <2>2. IsFiniteSet(0..(n - 1)) /\ Cardinality(0..(n - 1)) = IF 0 > n - 1 THEN 0 ELSE n - 1 - 0 + 1
    BY <2>1, FS_Interval
  <2> HIDE DEF n
  <2> QED BY <2>2, <1>1
<1>6. at \in Surjection(S, T)
  <2> HIDE DEF at, T
  <2> QED BY <1>4, <1>5, FS_Injection
<1>7. \A i \in T : \E x \in S : at[x] = i
  <2> HIDE DEF at, T
  <2> QED BY <1>6, Fun_SurjectionProperties
<1> DEFINE A == {x \in S : Cardinality(Below(R, S, x)) < k}
           B == 0..(k - 1)
           f == [x \in A |-> at[x]]
<1>8. f \in [A -> B]
  BY <1>2
<1>9. \A x, y \in A : f[x] = f[y] => x = y
  BY <1>3
<1>10. \A i \in B : \E x \in A : f[x] = i
  <2>1. TAKE i \in B
  <2>2. i \in T /\ i < k
    BY <1>1
  <2>3. PICK x \in S : at[x] = i
    BY <1>7, <2>2
  <2> QED BY <2>2, <2>3
<1>11. f \in Bijection(A, B)
  <2> HIDE DEF f, A, B
  <2> QED BY <1>8, <1>9, <1>10, Fun_IsBij
<1>12. IsFiniteSet(A)
  <2>1. A \in SUBSET S
    OBVIOUS
  <2> HIDE DEF A
  <2> QED BY <2>1, FS_Subset
<1>13. Cardinality(B) = Cardinality(A)
  <2>1. ExistsBijection(A, B)
    <3> HIDE DEF f, A, B
    <3> QED BY <1>11 DEF ExistsBijection
  <2> HIDE DEF A, B
  <2> QED BY <2>1, <1>12, FS_Bijection
<1>14. Cardinality(B) = k
  <2>1. 0 \in Int /\ k - 1 \in Int
    OBVIOUS
  <2>2. Cardinality(0..(k - 1)) = IF 0 > k - 1 THEN 0 ELSE k - 1 - 0 + 1
    BY <2>1, FS_Interval
  <2> QED BY <2>2
<1> QED BY <1>13, <1>14
-----------------------------------------------------------------------------
(* What is paid: natural amounts to finitely many hotkeys. *)
Pay(f) ==
    /\ f = [h \in DOMAIN f |-> f[h]] /\ IsFiniteSet(DOMAIN f)
    /\ \A h \in DOMAIN f : f[h] \in Nat

\* What is paid, a function from some hotkeys to naturals, adds up.
LEMMA SumIsNat ==
  ASSUME NEW f, Pay(f)
  PROVE SumFunction(f) \in Nat
  BY SumOnNat DEF Pay, SumFunction

\* At is 0 outside of the domain.
LEMMA AtNat ==
  ASSUME NEW f, Pay(f), NEW h
  PROVE At(f, h) \in Nat
  BY DEF Pay, At

\* Two payments together pay both sums.
LEMMA PlusPays ==
  ASSUME NEW f, NEW g, Pay(f), Pay(g)
  PROVE /\ Pay(Plus(f, g)) /\ DOMAIN Plus(f, g) = DOMAIN f \cup DOMAIN g
        /\ \A h : At(Plus(f, g), h) = At(f, h) + At(g, h)
        /\ SumFunction(Plus(f, g)) = SumFunction(f) + SumFunction(g)
<1> DEFINE D == DOMAIN f \cup DOMAIN g
           F == [h \in D |-> At(f, h)]
           G == [h \in D |-> At(g, h)]
<1>1. IsFiniteSet(D)
  BY FS_Union DEF Pay
<1>2. \A h : At(f, h) \in Nat /\ At(g, h) \in Nat
  BY AtNat
<1>3. Pay(Plus(f, g)) /\ DOMAIN Plus(f, g) = D
  BY <1>1, <1>2 DEF Pay, Plus
<1>4. \A h : At(Plus(f, g), h) = At(f, h) + At(g, h)
  BY <1>2 DEF Plus, At
<1>5. SumFunctionOnSet(F, D) = SumFunction(f)
  <2>1. SumFunctionOnSet(F, D) = SumFunctionOnSet(F, DOMAIN f)
    <3>1. DOMAIN f \in SUBSET D /\ (\A h \in D : F[h] \in Int) /\ \A h \in D \ DOMAIN f : F[h] = 0
      BY <1>2 DEF At
    <3> HIDE DEF F, D
    <3> QED BY <1>1, <3>1, SumOnSupport
  <2>2. SumFunctionOnSet(F, DOMAIN f) = SumFunctionOnSet(f, DOMAIN f)
    <3>1. \A h \in DOMAIN f : F[h] \in Int /\ F[h] = f[h]
      BY <1>2 DEF At
    <3> HIDE DEF F, D
    <3> QED BY <3>1, SumOnSame DEF Pay
  <2> QED BY <2>1, <2>2 DEF SumFunction
<1>6. SumFunctionOnSet(G, D) = SumFunction(g)
  <2>1. SumFunctionOnSet(G, D) = SumFunctionOnSet(G, DOMAIN g)
    <3>1. DOMAIN g \in SUBSET D /\ (\A h \in D : G[h] \in Int) /\ \A h \in D \ DOMAIN g : G[h] = 0
      BY <1>2 DEF At
    <3> HIDE DEF G, D
    <3> QED BY <1>1, <3>1, SumOnSupport
  <2>2. SumFunctionOnSet(G, DOMAIN g) = SumFunctionOnSet(g, DOMAIN g)
    <3>1. \A h \in DOMAIN g : G[h] \in Int /\ G[h] = g[h]
      BY <1>2 DEF At
    <3> HIDE DEF G, D
    <3> QED BY <3>1, SumOnSame DEF Pay
  <2> QED BY <2>1, <2>2 DEF SumFunction
<1>7. SumFunctionOnSet(Plus(f, g), D) = SumFunctionOnSet(F, D) + SumFunctionOnSet(G, D)
  <2>1. \A h \in D : /\ F[h] \in Int /\ G[h] \in Int
                     /\ Plus(f, g)[h] = F[h] + G[h]
    BY <1>2 DEF Plus
  <2> HIDE DEF F, G, D
  <2> QED BY <1>1, <2>1, SumOnPlus
<1>8. SumFunction(f) \in Nat /\ SumFunction(g) \in Nat
  BY SumIsNat
<1>9. SumFunction(Plus(f, g)) = SumFunctionOnSet(Plus(f, g), D)
  BY <1>3 DEF SumFunction
<1> QED BY <1>3, <1>4, <1>5, <1>6, <1>7, <1>8, <1>9

\* Nothing is a payment.
LEMMA NonePays == Pay(None) /\ DOMAIN None = {} /\ SumFunction(None) = 0
  BY FS_EmptySet, SumOnEmpty DEF Pay, None, SumFunction

\* A payment, every part multiplied.
LEMMA TimesPays ==
  ASSUME NEW f, Pay(f), NEW n \in Nat, NEW g, g = [h \in DOMAIN f |-> f[h] * n]
  PROVE /\ Pay(g) /\ DOMAIN g = DOMAIN f
        /\ \A h : At(g, h) = At(f, h) * n
        /\ SumFunction(g) = SumFunction(f) * n
<1>1. Pay(g) /\ DOMAIN g = DOMAIN f
  BY DEF Pay
<1>2. \A h : At(g, h) = At(f, h) * n
  BY DEF At
<1>3. SumFunctionOnSet(g, DOMAIN f) = n * SumFunctionOnSet(f, DOMAIN f)
  <2>1. \A h \in DOMAIN f : f[h] \in Int /\ g[h] = n * f[h]
    BY DEF Pay
  <2>2. IsFiniteSet(DOMAIN f)
    BY DEF Pay
  <2> QED BY <2>1, <2>2, SumOnScale
<1>4. SumFunction(f) \in Nat
  BY SumIsNat
<1>5. SumFunction(g) = SumFunctionOnSet(g, DOMAIN f) /\ SumFunction(f) = SumFunctionOnSet(f, DOMAIN f)
  BY <1>1 DEF SumFunction
<1> QED BY <1>1, <1>2, <1>3, <1>4, <1>5

\* A part of a payment.
LEMMA RestrictPays ==
  ASSUME NEW f, Pay(f), NEW S \in SUBSET DOMAIN f
  PROVE /\ Pay(Restrict(f, S)) /\ DOMAIN Restrict(f, S) = S
        /\ SumFunction(Restrict(f, S)) = SumFunctionOnSet(f, S)
        /\ SumFunction(Restrict(f, S)) <= SumFunction(f)
<1>1. IsFiniteSet(S) /\ IsFiniteSet(DOMAIN f)
  BY FS_Subset DEF Pay
<1>2. Pay(Restrict(f, S)) /\ DOMAIN Restrict(f, S) = S
  BY <1>1 DEF Pay, Restrict
<1>3. SumFunction(Restrict(f, S)) = SumFunctionOnSet(f, S)
  <2>1. \A h \in S : f[h] \in Int /\ f[h] = Restrict(f, S)[h]
    BY DEF Pay, Restrict
  <2>2. SumFunctionOnSet(f, S) = SumFunctionOnSet(Restrict(f, S), S)
    BY <1>1, <2>1, SumOnSame
  <2> QED BY <1>2, <2>2 DEF SumFunction
<1>4. SumFunctionOnSet(f, S) <= SumFunctionOnSet(f, DOMAIN f)
  BY <1>1, SumOnPart DEF Pay
<1> QED BY <1>2, <1>3, <1>4 DEF SumFunction

-----------------------------------------------------------------------------
(* The rows that are paid from. *)
GoodRows(rows) ==
    /\ IsFiniteSet(DOMAIN rows) /\ DOMAIN rows \subseteq Nat
    /\ \A c \in DOMAIN rows :
          /\ rows[c].operator \in Hotkeys /\ rows[c].score \in Nat /\ rows[c].billing \in Nat
          /\ IsFiniteSet(rows[c].first)

\* Quotient and remainder.
LEMMA Division ==
  ASSUME NEW a \in Nat, NEW b \in Nat \ {0}
  PROVE /\ a \div b \in Nat /\ a % b \in Nat /\ a % b < b
        /\ a = (a \div b) * b + (a % b)
        /\ (a \div b) * b <= a
<1>1. a \div b \in Int /\ a % b \in 0..(b - 1) /\ a = b * (a \div b) + (a % b)
  OBVIOUS
<1>2. a \div b >= 0
  OBVIOUS
<1>3. b * (a \div b) = (a \div b) * b
  BY <1>1
<1> QED BY <1>1, <1>2, <1>3

\* The product of naturals.
LEMMA NatProduct ==
  ASSUME NEW a \in Nat, NEW b \in Nat
  PROVE a * b \in Nat
  OBVIOUS

\* score_of: no score is negative.
LEMMA ScoreNat ==
  ASSUME NEW row, IsRow(row)
  PROVE Score(row) \in Nat
<1>1. row.inside \in Nat /\ row.outside \in Nat /\ row.probes \in Nat /\ row.passes \in Nat
      /\ ScoreScale \in Nat
  BY SizesAssumption DEF IsRow
<1> DEFINE weighted == 2 * row.inside + row.outside
<1>2. weighted \in Nat
  BY <1>1
<1> HIDE DEF weighted
<1>3. CASE row.probes = 0
  <2>1. Score(row) = (weighted * 1 * ScoreScale) \div (2 * 1)
    BY <1>3 DEF Score, weighted
  <2>2. weighted * 1 * ScoreScale \in Nat
    BY <1>1, <1>2, NatProduct
  <2>3. (weighted * 1 * ScoreScale) \div 2 \in Nat
    BY <2>2, Division
  <2> QED BY <2>1, <2>3
<1>4. CASE row.probes # 0
  <2>1. Score(row) = (weighted * row.passes * ScoreScale) \div (2 * row.probes)
    BY <1>4 DEF Score, weighted
  <2>2. weighted * row.passes \in Nat
    BY <1>1, <1>2, NatProduct
  <2>3. weighted * row.passes * ScoreScale \in Nat
    BY <1>1, <2>2, NatProduct
  <2>4. 2 * row.probes \in Nat \ {0}
    BY <1>1, <1>4
  <2>5. (weighted * row.passes * ScoreScale) \div (2 * row.probes) \in Nat
    BY <2>3, <2>4, Division
  <2> QED BY <2>1, <2>5
<1> QED BY <1>3, <1>4

\* What settle_epoch makes of a document has the types divide relies on.
LEMMA SettledRows ==
  ASSUME NEW d \in Documents
  PROVE GoodRows(SettleEpoch(d.rows))
<1>1. /\ IsFiniteSet(DOMAIN d.rows) /\ DOMAIN d.rows \subseteq Nat
      /\ \A c \in DOMAIN d.rows : IsRow(d.rows[c])
  BY DocumentsAssumption
<1>2. DOMAIN SettleEpoch(d.rows) = DOMAIN d.rows
  BY DEF SettleEpoch
<1>3. ASSUME NEW c \in DOMAIN d.rows
      PROVE LET row == SettleEpoch(d.rows)[c]
            IN  /\ row.operator \in Hotkeys /\ row.score \in Nat /\ row.billing \in Nat
                /\ IsFiniteSet(row.first)
  <2>1. Score(d.rows[c]) \in Nat /\ IsRow(d.rows[c])
    BY <1>1, ScoreNat
  <2> QED BY <2>1 DEF SettleEpoch, SettleRow, IsRow
<1> QED BY <1>1, <1>2, <1>3 DEF GoodRows

\* So has no row at all.
LEMMA NoneRows == GoodRows(None)
  BY FS_EmptySet DEF GoodRows, None

\* An image of a finite set is finite.
LEMMA ImageFinite ==
  ASSUME NEW f, NEW S, IsFiniteSet(S)
  PROVE IsFiniteSet({f[x] : x \in S})
<1> DEFINE F == {T \in SUBSET S : IsFiniteSet({f[x] : x \in T})}
<1>1. {} \in F
  <2>1. {f[x] : x \in {}} = {}
    OBVIOUS
  <2> QED BY <2>1, FS_EmptySet
<1>2. ASSUME NEW T \in SUBSET S, NEW y \in S \ T, T \in F
      PROVE T \cup {y} \in F
  <2>1. IsFiniteSet({f[x] : x \in T})
    BY <1>2
  <2>2. {f[x] : x \in T \cup {y}} = {f[x] : x \in T} \cup {f[y]}
    OBVIOUS
  <2>3. IsFiniteSet({f[x] : x \in T} \cup {f[y]})
    BY <2>1, FS_AddElement
  <2> QED BY <2>2, <2>3
<1>3. S \in F
  <2> HIDE DEF F
  <2> QED BY <1>1, <1>2, SetInduct
<1> QED BY <1>3

\* There are finitely many operators.
LEMMA OperatorsFinite ==
  ASSUME NEW rows, GoodRows(rows)
  PROVE IsFiniteSet(OperatorsOf(rows)) /\ OperatorsOf(rows) \subseteq Hotkeys
<1> DEFINE f == [c \in DOMAIN rows |-> rows[c].operator]
<1>1. IsFiniteSet({f[c] : c \in DOMAIN rows})
  <2> HIDE DEF f
  <2> QED BY ImageFinite DEF GoodRows
<1>2. OperatorsOf(rows) = {f[c] : c \in DOMAIN rows}
  BY DEF OperatorsOf
<1> QED BY <1>1, <1>2 DEF GoodRows, OperatorsOf

\* The total of an operator, and each of its scores.
LEMMA TotalNat ==
  ASSUME NEW rows, GoodRows(rows), NEW o
  PROVE /\ TotalOf(rows, o) \in Nat
        /\ \A c \in CardsOf(rows, o) : rows[c].score <= TotalOf(rows, o)
<1> DEFINE S == CardsOf(rows, o)
           f == [c \in S |-> rows[c].score]
<1>1. IsFiniteSet(S) /\ \A c \in S : f[c] \in Nat
  BY FS_Subset DEF GoodRows, CardsOf
<1>2. TotalOf(rows, o) = SumFunctionOnSet(f, S)
  BY DEF TotalOf, SumFunction
<1> HIDE DEF f
<1>3. SumFunctionOnSet(f, S) \in Nat
  BY <1>1, SumOnNat
<1>4. \A c \in S : f[c] <= SumFunctionOnSet(f, S)
  BY <1>1, SumOnElement
<1> QED BY <1>2, <1>3, <1>4 DEF f

\* Every operator of the rows with a score has a total above 0.
LEMMA EarnedRows ==
  ASSUME NEW rows, GoodRows(rows), NEW E, E = Restrict(rows, Earned(rows))
  PROVE /\ GoodRows(E) /\ OperatorsOf(E) \subseteq OperatorsOf(rows)
        /\ \A o \in OperatorsOf(E) : TotalOf(E, o) > 0
<1>1. /\ DOMAIN E = Earned(rows) /\ Earned(rows) \in SUBSET DOMAIN rows
      /\ \A c \in DOMAIN E : E[c] = rows[c] /\ E[c].score > 0
  BY DEF Restrict, Earned
<1>2. IsFiniteSet(Earned(rows))
  BY <1>1, FS_Subset DEF GoodRows
<1>3. GoodRows(E)
  BY <1>1, <1>2 DEF GoodRows
<1>4. OperatorsOf(E) \subseteq OperatorsOf(rows)
  BY <1>1 DEF OperatorsOf
<1>5. ASSUME NEW o \in OperatorsOf(E) PROVE TotalOf(E, o) > 0
  <2>1. PICK c \in DOMAIN E : E[c].operator = o
    BY DEF OperatorsOf
  <2>2. c \in CardsOf(E, o) /\ E[c].score > 0 /\ E[c].score \in Nat
    BY <2>1, <1>1, <1>3 DEF CardsOf, GoodRows
  <2>3. E[c].score <= TotalOf(E, o) /\ TotalOf(E, o) \in Nat
    BY <2>2, <1>3, TotalNat
  <2> QED BY <2>2, <2>3
<1> QED BY <1>3, <1>4, <1>5

(* A pool divided by weight is not overspent, floors and all. *)
LEMMA Proportion ==
  ASSUME NEW S, IsFiniteSet(S), NEW total, \A o \in S : total[o] \in Nat,
         NEW amount \in Nat, NEW whole \in Nat \ {0}, whole = SumFunctionOnSet(total, S),
         NEW floor, \A o \in S : floor[o] = (amount * total[o]) \div whole
  PROVE /\ \A o \in S : floor[o] \in Nat
        /\ SumFunctionOnSet(floor, S) \in Nat /\ SumFunctionOnSet(floor, S) <= amount
<1>1. ASSUME NEW o \in S PROVE floor[o] \in Nat /\ floor[o] * whole <= amount * total[o]
                               /\ amount * total[o] \in Nat
  <2>1. amount * total[o] \in Nat
    BY NatProduct
  <2> QED BY <2>1, Division
<1>2. SumFunctionOnSet(floor, S) \in Nat
  BY <1>1, SumOnNat
<1> DEFINE f == [o \in S |-> floor[o] * whole]
           g == [o \in S |-> amount * total[o]]
<1>3. SumFunctionOnSet(f, S) = whole * SumFunctionOnSet(floor, S)
  <2>1. whole \in Int /\ \A o \in S : floor[o] \in Int /\ f[o] = whole * floor[o]
    BY <1>1
  <2> HIDE DEF f
  <2> QED BY <2>1, SumOnScale
<1>4. SumFunctionOnSet(g, S) = amount * SumFunctionOnSet(total, S)
  <2>1. amount \in Int /\ \A o \in S : total[o] \in Int /\ g[o] = amount * total[o]
    OBVIOUS
  <2> HIDE DEF g
  <2> QED BY <2>1, SumOnScale
<1>5. SumFunctionOnSet(f, S) <= SumFunctionOnSet(g, S)
  <2>1. \A o \in S : f[o] \in Int /\ g[o] \in Int /\ f[o] <= g[o]
    BY <1>1
  <2> HIDE DEF f, g
  <2> QED BY <2>1, SumOnMonotone
<1>6. whole * SumFunctionOnSet(floor, S) <= amount * whole
  <2> HIDE DEF f, g
  <2> QED BY <1>2, <1>3, <1>4, <1>5
<1>7. ASSUME NEW x \in Nat, whole * x <= amount * whole PROVE x <= amount
  <2>1. SUFFICES ASSUME x >= amount + 1 PROVE FALSE
    OBVIOUS
  <2>2. whole * x >= whole * (amount + 1)
    BY <2>1
  <2>3. whole * (amount + 1) = whole * amount + whole
    OBVIOUS
  <2> QED BY <2>2, <2>3, <1>7
<1> QED BY <1>1, <1>2, <1>6, <1>7

\* _shares hands out all of the pool, and to operators that scored.
LEMMA SharesFit ==
  ASSUME NEW rows, GoodRows(rows), NEW serving \in Int
  PROVE /\ Pay(Shares(serving, rows)) /\ DOMAIN Shares(serving, rows) \subseteq OperatorsOf(rows)
        /\ serving <= 0 => Shares(serving, rows) = None
        /\ serving > 0 => SumFunction(Shares(serving, rows)) <= serving
<1> DEFINE earned == Restrict(rows, Earned(rows))
           who == OperatorsOf(earned)
           total == [o \in who |-> TotalOf(earned, o)]
           whole == SumFunction(total)
           floor == [o \in who |-> (serving * total[o]) \div whole]
           largest == CHOOSE o \in who : \A p \in who \ {o} : Ahead(earned, o, p)
           result == [floor EXCEPT ![largest] = @ + serving - SumFunction(floor)]
<1>1. Shares(serving, rows) = IF serving <= 0 \/ who = {} THEN None ELSE result
  BY DEF Shares
<1>2. GoodRows(earned) /\ who \subseteq OperatorsOf(rows) /\ \A o \in who : TotalOf(earned, o) > 0
  BY EarnedRows
<1>3. CASE serving <= 0 \/ who = {}
  <2>1. Shares(serving, rows) = None
    BY <1>1, <1>3
  <2> QED BY <2>1, NonePays
<1>4. CASE serving > 0 /\ who # {}
  <2>1. IsFiniteSet(who) /\ \A o \in who : total[o] \in Nat \ {0}
    BY <1>2, OperatorsFinite, TotalNat
  <2>2. whole = SumFunctionOnSet(total, who)
    BY DEF SumFunction
  <2> HIDE DEF total, earned
  <2>3. whole \in Nat \ {0}
    <3>1. whole \in Nat
      BY <2>1, <2>2, SumOnNat
    <3>2. PICK o \in who : TRUE
      BY <1>4
    <3>3. total[o] <= whole
      <4> HIDE DEF who, whole
      <4> QED BY <2>1, <2>2, <3>2, SumOnElement
    <3> QED BY <2>1, <3>1, <3>2, <3>3
  <2>4. /\ \A o \in who : floor[o] \in Nat
        /\ SumFunctionOnSet(floor, who) \in Nat /\ SumFunctionOnSet(floor, who) <= serving
    <3>1. \A o \in who : floor[o] = (serving * total[o]) \div whole
      OBVIOUS
    <3> HIDE DEF floor, who, whole
    <3> QED BY <2>1, <2>2, <2>3, <3>1, <1>4, Proportion
  <2>5. SumFunction(floor) = SumFunctionOnSet(floor, who) /\ DOMAIN floor = who
    BY DEF SumFunction
  <2>6. floor = [o \in who |-> floor[o]]
    OBVIOUS
  <2> HIDE DEF floor, who, whole, largest
  <2>7. DOMAIN result = who /\ result = [o \in who |-> result[o]]
    BY <2>5, <2>6
  <2>8. CASE largest \in who
    <3> DEFINE left == serving - SumFunction(floor)
    <3>1. result[largest] = floor[largest] + serving - SumFunction(floor)
          /\ \A o \in who \ {largest} : result[o] = floor[o]
      BY <2>8, <2>5, <2>6
    <3>2. \A o \in who : result[o] \in Nat
      BY <3>1, <2>4, <2>5, <2>8
    <3> HIDE DEF result
    <3>3. SumFunctionOnSet(result, who) = SumFunctionOnSet(result, who \ {largest}) + result[largest]
      BY <2>1, <2>8, <3>2, SumOnLess
    <3>4. SumFunctionOnSet(floor, who) = SumFunctionOnSet(floor, who \ {largest}) + floor[largest]
      BY <2>1, <2>8, <2>4, SumOnLess
    <3>5. IsFiniteSet(who \ {largest})
      BY <2>1, FS_Subset
    <3>6. SumFunctionOnSet(result, who \ {largest}) = SumFunctionOnSet(floor, who \ {largest})
      BY <3>5, <3>1, <3>2, SumOnSame
    <3>7. SumFunctionOnSet(floor, who \ {largest}) \in Nat
      BY <3>5, <2>4, SumOnNat
    <3>8. SumFunctionOnSet(result, who) = serving
      BY <3>1, <3>3, <3>4, <3>6, <3>7, <2>4, <2>5, <2>8
    <3> QED BY <1>1, <1>2, <1>4, <2>1, <2>7, <3>2, <3>8 DEF Pay, SumFunction
  <2>9. CASE largest \notin who
    <3>1. result = floor
      BY <2>9, <2>5, <2>6, <2>7
    <3> HIDE DEF result
    <3> QED BY <1>1, <1>2, <1>4, <2>1, <2>4, <2>5, <2>6, <3>1 DEF Pay, SumFunction
  <2> QED BY <2>8, <2>9
<1> QED BY <1>3, <1>4

-----------------------------------------------------------------------------
(* What claims of several amounts add up to, counted by claimant and by amount. *)
LEMMA SumsSwap ==
  ASSUME NEW D, IsFiniteSet(D), NEW P, IsFiniteSet(P),
         NEW each, \A d \in D : each[d] \in Nat,
         NEW C, \A d \in D : C[d] \in SUBSET P,
         NEW spent, \A d \in D : spent[d] = Cardinality(C[d]) * each[d],
         NEW V, \A o \in P : V[o] \in SUBSET D /\ \A d \in D : d \in V[o] <=> o \in C[d],
         NEW W, \A o \in P : W[o] = SumFunctionOnSet(each, V[o])
  PROVE SumFunctionOnSet(W, P) = SumFunctionOnSet(spent, D)
<1> DEFINE of(T, o) == SumFunctionOnSet(each, {d \in T : o \in C[d]})
           won(T) == [o \in P |-> of(T, o)]
           F == {T \in SUBSET D : SumFunctionOnSet(won(T), P) = SumFunctionOnSet(spent, T)}
<1>0. ASSUME NEW T \in SUBSET D, NEW o \in P PROVE of(T, o) \in Nat
  <2> DEFINE U == {d \in T : o \in C[d]}
  <2>1. U \in SUBSET D
    OBVIOUS
  <2>2. IsFiniteSet(U)
    BY <2>1, FS_Subset
  <2> QED BY <2>1, <2>2, SumOnNat
<1>1. {} \in F
  <2>1. \A o \in P : won({})[o] = 0
    <3>1. TAKE o \in P
    <3>2. {d \in {} : o \in C[d]} = {}
      OBVIOUS
    <3>3. of({}, o) = 0
      BY <3>2, SumOnEmpty
    <3> QED BY <3>3
  <2>2. SumFunctionOnSet(won({}), P) = 0
    <3> HIDE DEF won
    <3> QED BY <2>1, SumOnZero
  <2> QED BY <2>2, SumOnEmpty
<1>2. ASSUME NEW T \in SUBSET D, NEW y \in D \ T, T \in F
      PROVE T \cup {y} \in F
  <2> DEFINE own == [o \in P |-> IF o \in C[y] THEN each[y] ELSE 0]
  <2> DEFINE before == won(T)
             after == won(T \cup {y})
  <2>1. ASSUME NEW o \in P PROVE after[o] = before[o] + own[o] /\ before[o] \in Nat
    <3>0. before[o] = of(T, o) /\ after[o] = of(T \cup {y}, o)
      OBVIOUS
    <3> SUFFICES of(T \cup {y}, o) = of(T, o) + own[o]
      <4> HIDE DEF of, own, before, after
      <4> QED BY <3>0, <1>0
    <3>1. CASE o \in C[y]
      <4> DEFINE U == {d \in T : o \in C[d]}
      <4>1. {d \in T \cup {y} : o \in C[d]} = U \cup {y} /\ y \notin U /\ U \in SUBSET D
        BY <3>1
      <4>2. IsFiniteSet(U) /\ y \notin U /\ \A d \in U \cup {y} : each[d] \in Int
        BY <4>1, FS_Subset
      <4>3. SumFunctionOnSet(each, U \cup {y}) = SumFunctionOnSet(each, U) + each[y]
        <5> HIDE DEF U
        <5> QED BY <4>2, SumOnAdd
      <4>4. of(T \cup {y}, o) = SumFunctionOnSet(each, U \cup {y})
        BY ONLY <4>1, Zenon
      <4> QED BY <4>3, <4>4, <3>1
    <3>2. CASE o \notin C[y]
      <4>1. {d \in T \cup {y} : o \in C[d]} = {d \in T : o \in C[d]}
        BY <3>2
      <4>2. of(T \cup {y}, o) = of(T, o)
        BY ONLY <4>1, Zenon
      <4>3. of(T, o) \in Nat /\ own[o] = 0
        BY <1>0, <3>2
      <4> HIDE DEF of, own
      <4> QED BY <4>2, <4>3
    <3> QED BY <3>1, <3>2
  <2>2. SumFunctionOnSet(own, P) = spent[y]
    <3>1. C[y] \in SUBSET P /\ (\A o \in P : own[o] \in Int) /\ \A o \in P \ C[y] : own[o] = 0
      OBVIOUS
    <3>2. each[y] \in Int /\ \A o \in C[y] : own[o] = each[y]
      BY <3>1
    <3> HIDE DEF own
    <3>3. SumFunctionOnSet(own, P) = SumFunctionOnSet(own, C[y])
      BY <3>1, SumOnSupport
    <3>4. IsFiniteSet(C[y])
      BY <3>1, FS_Subset
    <3>5. SumFunctionOnSet(own, C[y]) = Cardinality(C[y]) * each[y]
      BY <3>2, <3>4, SumOnCount
    <3> QED BY <3>3, <3>5
  <2>3. SumFunctionOnSet(won(T \cup {y}), P)
        = SumFunctionOnSet(won(T), P) + SumFunctionOnSet(own, P)
    <3>1. \A o \in P : own[o] \in Nat
      OBVIOUS
    <3> HIDE DEF before, after, own
    <3>2. \A o \in P : /\ before[o] \in Int /\ own[o] \in Int
                       /\ after[o] = before[o] + own[o]
      BY <3>1, <2>1
    <3>3. SumFunctionOnSet(after, P) = SumFunctionOnSet(before, P) + SumFunctionOnSet(own, P)
      BY <3>2, SumOnPlus
    <3> QED BY <3>3 DEF before, after
  <2>4. SumFunctionOnSet(won(T), P) = SumFunctionOnSet(spent, T)
    BY <1>2
  <2>5. IsFiniteSet(T) /\ \A d \in T \cup {y} : spent[d] \in Int
    <3>1. IsFiniteSet(T)
      BY FS_Subset
    <3>2. ASSUME NEW d \in T \cup {y} PROVE spent[d] \in Int
      <4>1. IsFiniteSet(C[d]) /\ d \in D
        BY FS_Subset
      <4>2. Cardinality(C[d]) \in Nat
        BY <4>1, FS_CardinalityType
      <4> QED BY <4>1, <4>2
    <3> QED BY <3>1, <3>2
  <2>6. SumFunctionOnSet(spent, T \cup {y}) = SumFunctionOnSet(spent, T) + spent[y]
    BY <2>5, SumOnAdd
  <2>7. SumFunctionOnSet(spent, T) \in Int /\ spent[y] \in Int
    BY <2>5, SumOnInt
  <2>8. SumFunctionOnSet(won(T \cup {y}), P) = SumFunctionOnSet(spent, T \cup {y})
    <3> HIDE DEF won, own
    <3> QED BY <2>2, <2>3, <2>4, <2>6, <2>7
  <2> QED BY <2>8
<1>3. D \in F
  <2> HIDE DEF F
  <2> QED BY <1>1, <1>2, SetInduct
<1>4. SumFunctionOnSet(won(D), P) = SumFunctionOnSet(W, P)
  <2>1. ASSUME NEW o \in P PROVE won(D)[o] \in Int /\ won(D)[o] = W[o]
    <3>1. of(D, o) \in Nat
      BY <1>0
    <3>2. {d \in D : o \in C[d]} = V[o]
      OBVIOUS
    <3>3. of(D, o) = W[o]
      <4>1. of(D, o) = SumFunctionOnSet(each, V[o])
        BY ONLY <3>2, Zenon
      <4> HIDE DEF of
      <4> QED BY <4>1
    <3>4. won(D)[o] = of(D, o)
      OBVIOUS
    <3> QED BY ONLY <3>1, <3>3, <3>4
  <2> HIDE DEF won
  <2> QED BY <2>1, SumOnSame
<1> QED BY <1>3, <1>4

\* bounties_of: no digest pays more than its part of the reserve, and all of them
\* together no more than the reserve: each digest divides its part by its claims.
LEMMA BountiesFit ==
  ASSUME NEW rows, GoodRows(rows), NEW reserve \in Nat
  PROVE LET won == BountiesOf(reserve, rows)
        IN  /\ Pay(won) /\ DOMAIN won \subseteq OperatorsOf(rows) \ ExcludedOf(rows)
            /\ SumFunction(won) <= reserve
<1> DEFINE C == [d \in UNION {rows[c].first : c \in DOMAIN rows} |-> ClaimsOf(rows, d)]
           D == {d \in UNION {rows[c].first : c \in DOMAIN rows} : ClaimsOf(rows, d) # {}}
           P == OperatorsOf(rows)
           per == reserve \div Cardinality(D)
           each == [d \in D |-> (reserve \div Cardinality(D)) \div Cardinality(ClaimsOf(rows, d))]
           won(o) == SumFunction(Restrict(each, {d \in D : o \in ClaimsOf(rows, d)}))
           W == [o \in P |-> SumFunctionOnSet(each, {d \in D : o \in ClaimsOf(rows, d)})]
           result == [o \in {p \in P : won(p) > 0} |-> won(o)]
<1>1. BountiesOf(reserve, rows) = IF reserve <= 0 THEN None ELSE result
  BY DEF BountiesOf
<1>2. CASE reserve <= 0
  <2>1. BountiesOf(reserve, rows) = None /\ reserve = 0
    BY <1>1, <1>2
  <2> QED BY <2>1, NonePays
<1>3. CASE reserve > 0
  <2>1. IsFiniteSet(P)
    BY OperatorsFinite
  <2>2. \A d : ClaimsOf(rows, d) \in SUBSET (P \ ExcludedOf(rows))
    BY DEF ClaimsOf, OperatorsOf
  <2>3. IsFiniteSet(D)
    <3> DEFINE f == [c \in DOMAIN rows |-> rows[c].first]
               firsts == {f[c] : c \in DOMAIN rows}
    <3>1. IsFiniteSet(firsts)
      <4> HIDE DEF f
      <4> QED BY ImageFinite DEF GoodRows
    <3>2. \A T \in firsts : IsFiniteSet(T)
      BY DEF GoodRows
    <3>3. IsFiniteSet(UNION firsts)
      <4> HIDE DEF firsts
      <4> QED BY <3>1, <3>2, FS_UNION
    <3>4. D \in SUBSET (UNION firsts)
      OBVIOUS
    <3> HIDE DEF D, firsts
    <3> QED BY <3>3, <3>4, FS_Subset
  <2>4. \A d \in D : C[d] = ClaimsOf(rows, d)
    OBVIOUS
  <2>5. \A d \in D : IsFiniteSet(C[d]) /\ Cardinality(C[d]) \in Nat \ {0}
    <3>1. TAKE d \in D
    <3>2. C[d] \in SUBSET P /\ C[d] # {}
      BY <2>2
    <3>3. IsFiniteSet(C[d])
      BY <2>1, <3>2, FS_Subset
    <3> HIDE DEF C
    <3> QED BY <3>2, <3>3, FS_CardinalityType, FS_EmptySet
  <2>6. Cardinality(D) \in Nat
    BY <2>3, FS_CardinalityType
  <2>7. \A d \in D : per \in Nat /\ each[d] \in Nat /\ Cardinality(C[d]) * each[d] <= per
                     /\ per * Cardinality(D) <= reserve
    <3>1. TAKE d \in D
    <3>2. Cardinality(D) # 0
      <4> HIDE DEF D
      <4> QED BY <2>3, FS_EmptySet
    <3>3. per \in Nat /\ per * Cardinality(D) <= reserve
      BY <2>6, <3>2, <1>3, Division
    <3>4. each[d] = per \div Cardinality(C[d])
      BY <2>4
    <3>5. Cardinality(C[d]) \in Nat \ {0}
      BY <2>5
    <3> HIDE DEF per, each, C
    <3>6. each[d] \in Nat /\ each[d] * Cardinality(C[d]) <= per
      BY <3>3, <3>4, <3>5, Division
    <3>7. each[d] * Cardinality(C[d]) = Cardinality(C[d]) * each[d]
      BY <3>5, <3>6
    <3> QED BY <3>3, <3>6, <3>7
  <2> DEFINE spent == [d \in D |-> Cardinality(C[d]) * each[d]]
             same == [d \in D |-> per]
  <2>8. SumFunctionOnSet(spent, D) <= reserve
    <3> HIDE DEF C, D, each, per
    <3>1. CASE D = {}
      <4>1. SumFunctionOnSet(spent, {}) = 0
        BY SumOnEmpty
      <4>2. SumFunctionOnSet(spent, D) = 0
        BY ONLY <3>1, <4>1, Zenon
      <4> QED BY <4>2, <1>3
    <3>2. CASE D # {}
      <4>1. per \in Nat /\ per * Cardinality(D) <= reserve
        BY <2>7, <3>2
      <4>2. \A d \in D : spent[d] \in Int /\ same[d] \in Int /\ spent[d] <= same[d]
        BY <2>5, <2>7
      <4>3. per \in Int /\ \A d \in D : same[d] = per
        BY <4>1
      <4> HIDE DEF spent, same
      <4>4. SumFunctionOnSet(spent, D) <= SumFunctionOnSet(same, D)
        BY <2>3, <4>2, SumOnMonotone
      <4>5. SumFunctionOnSet(same, D) = Cardinality(D) * per
        BY <2>3, <4>3, SumOnCount
      <4>6. Cardinality(D) * per = per * Cardinality(D)
        BY <2>6, <4>1
      <4>7. SumFunctionOnSet(spent, D) \in Int
        BY <2>3, <4>2, SumOnInt
      <4>8. per * Cardinality(D) \in Int
        BY <2>6, <4>1
      <4> QED BY <4>1, <4>4, <4>5, <4>6, <4>7, <4>8
    <3> QED BY <3>1, <3>2
  <2>9. SumFunctionOnSet(W, P) = SumFunctionOnSet(spent, D)
    <3>1. \A d \in D : /\ each[d] \in Nat /\ C[d] \in SUBSET P
                       /\ spent[d] = Cardinality(C[d]) * each[d]
      BY <2>2, <2>7
    <3> DEFINE V == [o \in P |-> {d \in D : o \in ClaimsOf(rows, d)}]
    <3>2. \A o \in P : /\ W[o] = SumFunctionOnSet(each, V[o])
                       /\ V[o] \in SUBSET D /\ \A d \in D : d \in V[o] <=> o \in C[d]
      <4>1. \A o \in P : /\ W[o] = SumFunctionOnSet(each, V[o])
                         /\ V[o] = {d \in D : o \in ClaimsOf(rows, d)}
        <5> HIDE DEF P, D, each
        <5> QED OBVIOUS
      <4> HIDE DEF V, W, C, P, D, each
      <4> QED BY <4>1, <2>4
    <3> HIDE DEF spent, C, D, P, W, each, V
    <3> QED BY <2>1, <2>3, <3>1, <3>2, SumsSwap
  <2>10. ASSUME NEW o PROVE
            /\ won(o) = SumFunctionOnSet(each, {d \in D : o \in ClaimsOf(rows, d)})
            /\ won(o) \in Nat
            /\ won(o) > 0 => o \in P \ ExcludedOf(rows)
    <3> DEFINE U == {d \in D : o \in ClaimsOf(rows, d)}
    <3>1. U \in SUBSET D
      OBVIOUS
    <3>2. IsFiniteSet(U) /\ \A d \in U : each[d] \in Nat
      <4>1. IsFiniteSet(U)
        <5> HIDE DEF D, U
        <5> QED BY <2>3, <3>1, FS_Subset
      <4>2. \A d \in U : each[d] \in Nat
        <5> HIDE DEF each
        <5> QED BY <2>7
      <4> QED BY <4>1, <4>2
    <3>3. DOMAIN Restrict(each, U) = U /\ \A d \in U : Restrict(each, U)[d] = each[d]
      BY DEF Restrict
    <3>4. won(o) = SumFunctionOnSet(Restrict(each, U), U)
      BY <3>3 DEF SumFunction
    <3>5. U # {} => o \in P \ ExcludedOf(rows)
      BY <2>2
    <3> HIDE DEF U, each, won
    <3>6. SumFunctionOnSet(each, U) = SumFunctionOnSet(Restrict(each, U), U)
      BY <3>2, <3>3, SumOnSame
    <3>7. SumFunctionOnSet(each, U) \in Nat
      BY <3>2, SumOnNat
    <3>8. won(o) > 0 => U # {}
      BY <3>4, <3>6, SumOnEmpty
    <3> QED BY <3>4, <3>5, <3>6, <3>7, <3>8 DEF U
  <2>16. \A o \in P : W[o] \in Nat /\ W[o] = won(o)
    <3>1. \A o \in P : W[o] = SumFunctionOnSet(each, {d \in D : o \in ClaimsOf(rows, d)})
      <4> HIDE DEF each, D, P
      <4> QED OBVIOUS
    <3> HIDE DEF W, won, each, D, P
    <3> QED BY <2>10, <3>1
  <2>11. SumFunction(result) <= SumFunctionOnSet(W, P)
    <3> DEFINE Q == {p \in P : won(p) > 0}
    <3>2. DOMAIN result = Q /\ Q \in SUBSET P /\ \A o \in Q : result[o] = won(o)
      <4> HIDE DEF won, P
      <4> QED OBVIOUS
    <3> HIDE DEF W, won
    <3>3. \A o \in P : W[o] \in Nat /\ W[o] = won(o)
      BY <2>16
    <3> HIDE DEF P, Q, result
    <3>4. IsFiniteSet(Q)
      BY <2>1, <3>2, FS_Subset
    <3>5. SumFunctionOnSet(result, Q) = SumFunctionOnSet(W, Q)
      <4>1. \A o \in Q : result[o] \in Int /\ result[o] = W[o]
        BY <3>2, <3>3
      <4> QED BY <4>1, <3>4, SumOnSame
    <3>6. SumFunctionOnSet(W, Q) <= SumFunctionOnSet(W, P)
      BY <2>1, <3>2, <3>3, SumOnPart
    <3> QED BY <3>2, <3>5, <3>6 DEF SumFunction
  <2>12. Pay(result) /\ DOMAIN result \subseteq P \ ExcludedOf(rows)
    <3> DEFINE Q == {p \in P : won(p) > 0}
    <3>1. IsFiniteSet(Q)
      <4>1. Q \in SUBSET P
        OBVIOUS
      <4> HIDE DEF P, Q
      <4> QED BY <2>1, <4>1, FS_Subset
    <3> HIDE DEF won, P
    <3> QED BY <3>1, <2>10 DEF Pay
  <2>13. /\ SumFunctionOnSet(W, P) \in Int /\ SumFunction(result) \in Nat
         /\ SumFunctionOnSet(spent, D) \in Int
    <3>1. \A o \in P : W[o] \in Int
      <4> HIDE DEF W, won, P
      <4> QED BY <2>16
    <3> HIDE DEF W, P, result, spent, D
    <3> QED BY <2>1, <2>12, <3>1, SumOnInt, SumIsNat, <2>9
  <2> HIDE DEF result, W, P, spent, D
  <2>14. SumFunction(result) <= reserve
    BY <2>8, <2>9, <2>11, <2>13
  <2>15. BountiesOf(reserve, rows) = result
    BY <1>1, <1>3
  <2> QED BY <2>12, <2>14, <2>15 DEF P
<1> QED BY <1>2, <1>3

-----------------------------------------------------------------------------
\* Induction over the naturals; F is the set of good numbers.
LEMMA NatInduct ==
  ASSUME NEW F, 0 \in F, \A n \in Nat : n \in F => n + 1 \in F
  PROVE \A n \in Nat : n \in F
<1> DEFINE Bad == Nat \ F
<1>1. SUFFICES ASSUME NEW k \in Nat, k \notin F PROVE FALSE
  OBVIOUS
<1>2. \E n \in Bad : \A m \in Bad : n <= m
  <2>1. Bad \in SUBSET Nat /\ Bad # {}
    BY <1>1
  <2> HIDE DEF Bad
  <2> QED BY <2>1, NatMin
<1>3. PICK n \in Bad : \A m \in Bad : n <= m
  BY <1>2
<1>4. n # 0 /\ n - 1 \in Nat /\ n - 1 \in F
  BY <1>3
<1> QED BY <1>4, <1>3

\* A finite set of numbers has a last one.
LEMMA LastName ==
  ASSUME NEW S \in SUBSET Nat, IsFiniteSet(S), S # {}
  PROVE Max(S) \in S /\ \A n \in S : n <= Max(S)
<1> DEFINE R == {p \in S \X S : p[1] > p[2]}
<1>1. Orders(R, S)
  BY DEF Orders
<1>2. \E x \in S : Below(R, S, x) = {}
  <2> HIDE DEF R
  <2> QED BY <1>1, FirstExists
<1>3. PICK x \in S : \A n \in S : n <= x
  <2>1. PICK x \in S : Below(R, S, x) = {}
    BY <1>2
  <2>2. ASSUME NEW n \in S, n > x PROVE FALSE
    <3>1. <<n, x>> \in R
      BY <2>2
    <3> HIDE DEF R
    <3>2. n \in Below(R, S, x)
      BY <3>1 DEF Below
    <3> QED BY <2>1, <3>2
  <2> QED BY <2>2
<1>4. \E y \in S : \A n \in S : y >= n
  BY <1>3
<1>5. Max(S) = CHOOSE y \in S : \A n \in S : y >= n
  BY DEF Max
<1> QED BY <1>4, <1>5

\* _floors raises newcomers one after the other and never past the ceiling.
LEMMA FloorsFit ==
  ASSUME NEW ceiling \in Nat, NEW shares, Pay(shares), SumFunction(shares) <= ceiling,
         NEW who \in SUBSET Hotkeys, IsFiniteSet(who), NEW target \in Nat
  PROVE LET paid == Floors(ceiling, shares, who, target)
        IN  /\ Pay(paid) /\ SumFunction(paid) <= ceiling
            /\ DOMAIN paid \subseteq DOMAIN shares \cup who
<1> DEFINE raise(found, o) ==
             LET left == ceiling - SumFunction(found)
                 gap == target - At(found, o)
             IN  IF gap <= 0 \/ left <= 0 THEN found
                 ELSE Plus(found, [k \in {o} |-> Least(gap, left)])
           last == Max(who \cup {Owner})
           all(g, n) == [o \in Owner..n |->
                           IF o = Owner THEN shares
                           ELSE IF o \in who THEN raise(g[o - 1], o) ELSE g[o - 1]]
           Fits(f) == /\ Pay(f) /\ SumFunction(f) <= ceiling
                      /\ DOMAIN f \subseteq DOMAIN shares \cup who
<1>1. last \in Nat
  <2>1. who \cup {Owner} \in SUBSET Nat /\ who \cup {Owner} # {}
    BY HotkeysAssumption DEF Owner
  <2>2. IsFiniteSet(who \cup {Owner})
    BY FS_AddElement
  <2> QED BY <2>1, <2>2, LastName
<1>2. Floors(ceiling, shares, who, target) = (CHOOSE g : g = all(g, last))[last]
  BY DEF Floors
<1>3. ASSUME NEW f, Fits(f), NEW o \in who PROVE Fits(raise(f, o))
  <2> DEFINE left == ceiling - SumFunction(f)
             gap == target - At(f, o)
             more == [k \in {o} |-> Least(gap, left)]
  <2>1. CASE gap <= 0 \/ left <= 0
    <3>1. raise(f, o) = f
      BY <2>1
    <3> HIDE DEF raise
    <3> QED BY <3>1, <1>3
  <2>2. CASE ~(gap <= 0 \/ left <= 0)
    <3>1. raise(f, o) = Plus(f, more)
      BY <2>2
    <3>2. gap \in Int /\ left \in Int /\ gap > 0 /\ left > 0
      BY <1>3, <2>2, AtNat, SumIsNat
    <3>3. Least(gap, left) \in Nat /\ Least(gap, left) <= left
      <4> HIDE DEF gap, left
      <4> QED BY <3>2 DEF Least
    <3> HIDE DEF gap, left, raise
    <3>4. Pay(more) /\ DOMAIN more = {o} /\ more[o] = Least(gap, left)
      BY <3>3, FS_Singleton DEF Pay
    <3> HIDE DEF more
    <3>5. SumFunction(more) = Least(gap, left)
      <4>1. SumFunctionOnSet(more, {o}) = Cardinality({o}) * Least(gap, left)
        <5>1. (\A x \in {o} : more[x] = Least(gap, left)) /\ Least(gap, left) \in Int
          BY <3>3, <3>4
        <5>2. IsFiniteSet({o})
          BY FS_Singleton
        <5> QED BY <5>1, <5>2, SumOnCount
      <4>2. Cardinality({o}) = 1
        BY FS_Singleton
      <4>3. SumFunction(more) = SumFunctionOnSet(more, {o})
        BY ONLY <3>4 DEF SumFunction
      <4> QED BY <4>1, <4>2, <4>3, <3>3
    <3>6. /\ Pay(Plus(f, more)) /\ DOMAIN Plus(f, more) = DOMAIN f \cup {o}
          /\ SumFunction(Plus(f, more)) = SumFunction(f) + SumFunction(more)
      BY <1>3, <3>4, PlusPays
    <3>7. SumFunction(f) \in Nat /\ left = ceiling - SumFunction(f)
      BY <1>3, SumIsNat DEF left
    <3>8. SumFunction(Plus(f, more)) <= ceiling
      BY <3>3, <3>5, <3>6, <3>7
    <3> QED BY <1>3, <3>1, <3>6, <3>8
  <2> QED BY <2>1, <2>2
<1> HIDE DEF raise, last
<1>4. \A n \in Nat : \E g : g = all(g, n)
  <2> DEFINE F == {n \in Nat : \E g : g = all(g, n)}
  <2>1. 0 \in F
    <3> DEFINE g == [o \in Owner..0 |-> shares]
    <3>1. g = all(g, 0)
      BY DEF Owner
    <3> QED BY <3>1
  <2>2. ASSUME NEW n \in Nat, n \in F PROVE n + 1 \in F
    <3>1. PICK g : g = all(g, n)
      BY <2>2
    <3> DEFINE h == [o \in Owner..(n + 1) |->
                       IF o <= n THEN g[o]
                       ELSE IF o \in who THEN raise(g[o - 1], o) ELSE g[o - 1]]
    <3>2. \A o \in Owner..n : g[o] = IF o = Owner THEN shares
                                     ELSE IF o \in who THEN raise(g[o - 1], o) ELSE g[o - 1]
      BY <3>1
    <3>3. ASSUME NEW o \in Owner..(n + 1)
          PROVE h[o] = IF o = Owner THEN shares
                       ELSE IF o \in who THEN raise(h[o - 1], o) ELSE h[o - 1]
      <4>1. CASE o <= n
        <5>1. h[o] = g[o] /\ o \in Owner..n
          BY <4>1 DEF Owner
        <5>2. o # Owner => h[o - 1] = g[o - 1]
          BY <4>1 DEF Owner
        <5> HIDE DEF h
        <5> QED BY <5>1, <5>2, <3>2
      <4>2. CASE o = n + 1
        <5>1. h[o - 1] = g[o - 1] /\ o # Owner
          BY <4>2 DEF Owner
        <5>2. h[o] = IF o \in who THEN raise(g[o - 1], o) ELSE g[o - 1]
          BY <4>2 DEF Owner
        <5> HIDE DEF h
        <5> QED BY <5>1, <5>2
      <4> QED BY <4>1, <4>2 DEF Owner
    <3>4. h = all(h, n + 1)
      <4>1. h = [o \in Owner..(n + 1) |-> h[o]]
        OBVIOUS
      <4>2. all(h, n + 1) = [o \in Owner..(n + 1) |-> all(h, n + 1)[o]]
        OBVIOUS
      <4>3. \A o \in Owner..(n + 1) : h[o] = all(h, n + 1)[o]
        <5> HIDE DEF h
        <5> QED BY <3>3
      <4> HIDE DEF h, all
      <4> QED BY <4>1, <4>2, <4>3
    <3> HIDE DEF h, all
    <3> QED BY <3>4
  <2>3. \A n \in Nat : n \in F
    <3> HIDE DEF F
    <3> QED BY <2>1, <2>2, NatInduct
  <2> QED BY <2>3
<1> DEFINE g == CHOOSE g : g = all(g, last)
<1>5. g = all(g, last)
  <2>1. \E x : x = all(x, last)
    BY <1>1, <1>4
  <2> QED BY <2>1
<1> HIDE DEF g
<1>6. \A o \in Owner..last : g[o] = IF o = Owner THEN shares
                                    ELSE IF o \in who THEN raise(g[o - 1], o) ELSE g[o - 1]
  BY <1>5
<1> HIDE DEF Fits
<1>7. Fits(shares)
  BY DEF Fits
<1>8. \A n \in Nat : n <= last => Fits(g[n])
  <2> DEFINE F == {n \in Nat : n <= last => Fits(g[n])}
  <2>1. 0 \in F
    <3>1. g[0] = shares
      BY <1>1, <1>6 DEF Owner
    <3> QED BY <3>1, <1>7
  <2>2. ASSUME NEW n \in Nat, n \in F PROVE n + 1 \in F
    <3> SUFFICES ASSUME n + 1 <= last PROVE Fits(g[n + 1])
      OBVIOUS
    <3>1. Fits(g[n])
      BY <2>2, <1>1
    <3>2. n + 1 \in Owner..last /\ n + 1 # Owner /\ (n + 1) - 1 = n
      BY <1>1 DEF Owner
    <3>3. g[n + 1] = IF n + 1 \in who THEN raise(g[n], n + 1) ELSE g[n]
      BY <3>2, <1>6
    <3> QED BY <3>1, <3>3, <1>3
  <2>3. \A n \in Nat : n \in F
    <3> HIDE DEF F
    <3> QED BY <2>1, <2>2, NatInduct
  <2> QED BY <2>3
<1>9. Fits(Floors(ceiling, shares, who, target))
  BY <1>1, <1>2, <1>8 DEF g
<1> QED BY <1>9 DEF Fits

\* fraction_of a natural.
LEMMA PercentNat ==
  ASSUME NEW a \in Nat, NEW b \in Nat
  PROVE Percent(a, b) \in Nat /\ (b <= 100 => Percent(a, b) <= a)
<1>1. a * b \in Nat
  BY NatProduct
<1>2. (a * b) \div 100 \in Nat /\ ((a * b) \div 100) * 100 <= a * b
  BY <1>1, Division
<1>3. b <= 100 => a * b <= a * 100
  OBVIOUS
<1>4. b <= 100 => (a * b) \div 100 <= a
  BY <1>1, <1>2, <1>3
<1> QED BY <1>2, <1>4 DEF Percent

(* What the division of a pool keeps to. *)
Sound(s, rows) ==
    /\ s.serving \in Nat /\ s.burned \in Nat /\ s.modelling \in Nat
    /\ s.serving + s.modelling = Scale
    /\ Pay(s.shares) /\ DOMAIN s.shares \subseteq Hotkeys
    /\ SumFunction(s.shares) + s.burned = s.serving
    /\ DOMAIN s.earnings \subseteq OperatorsOf(rows) \ ExcludedOf(rows)

\* divide: the pool is paid or burned, and earnings go to who is not excluded.
LEMMA DivideFits ==
  ASSUME NEW rows, GoodRows(rows), NEW cap \in Nat, cap <= 100,
         NEW who \in SUBSET Hotkeys, IsFiniteSet(who), NEW floor \in Nat,
         NEW bounty \in Nat, bounty <= Half
  PROVE Sound(Divide(rows, cap, who, floor, bounty), rows)
<1> DEFINE earned == Earned(rows)
           billed == [c \in earned |-> rows[c].billing]
           rebated == Percent(SumFunction(billed), Rebate)
           ceiling == Percent(Scale, cap)
           paid == Least(rebated, ceiling)
           reserve == IF earned = {} THEN 0 ELSE Percent(paid, bounty)
           usage == Shares(paid - reserve, rows)
           kept == Restrict(usage, DOMAIN usage \ ExcludedOf(rows))
           earnings == Plus(kept, BountiesOf(reserve, rows))
           shares == Floors(ceiling, earnings, who, Percent(ceiling, floor))
           result == [serving |-> ceiling, modelling |-> Scale - ceiling, shares |-> shares,
                      earnings |-> earnings, burned |-> ceiling - SumFunction(shares)]
<1>1. Divide(rows, cap, who, floor, bounty) = result
  BY DEF Divide
<1>2. ceiling \in Nat /\ ceiling <= Scale
  BY SizesAssumption, PercentNat
<1>3. SumFunction(billed) \in Nat
  <2>1. Pay(billed)
    <3>1. earned \in SUBSET DOMAIN rows
      BY DEF Earned
    <3>2. IsFiniteSet(earned)
      BY <3>1, FS_Subset DEF GoodRows
    <3> QED BY <3>1, <3>2 DEF Pay, GoodRows
  <2> HIDE DEF billed
  <2> QED BY <2>1, SumIsNat
<1>4. rebated \in Nat
  BY <1>3, PercentNat DEF Rebate
<1> HIDE DEF rebated, ceiling, earned
<1>5. paid \in Nat /\ paid <= ceiling
  BY <1>2, <1>4 DEF Least
<1> HIDE DEF paid
<1>6. reserve \in Nat /\ reserve <= paid
  <2>1. bounty <= 100
    BY DEF Half
  <2>2. Percent(paid, bounty) \in Nat /\ Percent(paid, bounty) <= paid
    BY <2>1, <1>5, PercentNat
  <2> QED BY <2>2, <1>5
<1> HIDE DEF reserve
<1>7. paid - reserve \in Int
  BY <1>5, <1>6
<1>8. /\ Pay(usage) /\ DOMAIN usage \subseteq OperatorsOf(rows)
      /\ SumFunction(usage) <= paid - reserve
  <2>1. /\ Pay(usage) /\ DOMAIN usage \subseteq OperatorsOf(rows)
        /\ paid - reserve <= 0 => usage = None
        /\ paid - reserve > 0 => SumFunction(usage) <= paid - reserve
    BY <1>7, SharesFit
  <2> HIDE DEF usage
  <2> QED BY <1>5, <1>6, <1>7, <2>1, NonePays
<1> HIDE DEF usage
<1>9. /\ Pay(kept) /\ DOMAIN kept = DOMAIN usage \ ExcludedOf(rows)
      /\ SumFunction(kept) <= SumFunction(usage)
  BY <1>8, RestrictPays
<1>10. LET won == BountiesOf(reserve, rows)
       IN  /\ Pay(won) /\ DOMAIN won \subseteq OperatorsOf(rows) \ ExcludedOf(rows)
           /\ SumFunction(won) <= reserve
  BY <1>6, BountiesFit
<1> HIDE DEF kept
<1>11. /\ Pay(earnings) /\ DOMAIN earnings \subseteq OperatorsOf(rows) \ ExcludedOf(rows)
       /\ SumFunction(earnings) = SumFunction(kept) + SumFunction(BountiesOf(reserve, rows))
  BY <1>8, <1>9, <1>10, PlusPays
<1>12. SumFunction(earnings) <= ceiling
  <2>1. /\ SumFunction(kept) \in Nat /\ SumFunction(BountiesOf(reserve, rows)) \in Nat
        /\ SumFunction(usage) \in Nat
    BY <1>8, <1>9, <1>10, SumIsNat
  <2> HIDE DEF earnings
  <2> QED BY <2>1, <1>2, <1>5, <1>6, <1>8, <1>9, <1>10, <1>11
<1> HIDE DEF earnings
<1>13. Percent(ceiling, floor) \in Nat
  BY <1>2, PercentNat
<1>14. /\ Pay(shares) /\ SumFunction(shares) <= ceiling
       /\ DOMAIN shares \subseteq DOMAIN earnings \cup who
  BY <1>2, <1>11, <1>12, <1>13, FloorsFit
<1>15. DOMAIN shares \subseteq Hotkeys
  BY <1>11, <1>14, OperatorsFinite
<1> HIDE DEF shares
<1>16. SumFunction(shares) \in Nat
  BY <1>14, SumIsNat
<1>17. ceiling - SumFunction(shares) \in Nat /\ Scale - ceiling \in Nat
  BY <1>2, <1>14, <1>16, SizesAssumption
<1>18. SumFunction(shares) + (ceiling - SumFunction(shares)) = ceiling
       /\ ceiling + (Scale - ceiling) = Scale
  BY <1>2, <1>16, SizesAssumption
<1> QED BY <1>1, <1>2, <1>11, <1>14, <1>15, <1>17, <1>18 DEF Sound

-----------------------------------------------------------------------------
(* The system pools. *)

\* The parts of RANK_PAYOUT up to a place.
LEMMA UptoNat ==
  ASSUME NEW n \in 1..Len(Payout)
  PROVE Upto(n) \in Nat \ {0}
<1> DEFINE f == [k \in 1..n |-> Payout[k]]
<1>1. \A k \in 1..n : f[k] \in Nat \ {0}
  BY SizesAssumption
<1>2. IsFiniteSet(1..n) /\ 1 \in 1..n
  BY SizesAssumption, FS_Interval
<1>3. Upto(n) = SumFunctionOnSet(f, 1..n)
  BY DEF Upto, SumFunction
<1> HIDE DEF f
<1>4. SumFunctionOnSet(f, 1..n) \in Nat
  BY <1>1, <1>2, SumOnNat
<1>5. f[1] <= SumFunctionOnSet(f, 1..n)
  BY <1>1, <1>2, SumOnElement
<1> QED BY <1>1, <1>2, <1>3, <1>4, <1>5

\* The common denominator is no less than any schedule's.
LEMMA UnitCovers == Unit \in Nat \ {0} /\ \A n \in 1..Len(Payout) : Upto(n) <= Unit
<1> DEFINE L == Len(Payout)
           all(g, n) == [k \in 0..n |-> IF k = 0 THEN 1 ELSE g[k - 1] * Upto(k)]
<1>1. L \in Nat
  BY SizesAssumption
<1>2. Unit = (CHOOSE g : g = all(g, L))[L]
  BY DEF Unit
<1> HIDE DEF L
<1>3. \A n \in Nat : \E g : g = all(g, n)
  <2> DEFINE F == {n \in Nat : \E g : g = all(g, n)}
  <2>1. 0 \in F
    <3> DEFINE g == [k \in 0..0 |-> 1]
    <3>1. g = all(g, 0)
      OBVIOUS
    <3> QED BY <3>1
  <2>2. ASSUME NEW n \in Nat, n \in F PROVE n + 1 \in F
    <3>1. PICK g : g = all(g, n)
      BY <2>2
    <3> DEFINE h == [k \in 0..(n + 1) |-> IF k <= n THEN g[k] ELSE g[k - 1] * Upto(k)]
    <3>2. \A k \in 0..n : g[k] = IF k = 0 THEN 1 ELSE g[k - 1] * Upto(k)
      BY <3>1
    <3>3. ASSUME NEW k \in 0..(n + 1)
          PROVE h[k] = IF k = 0 THEN 1 ELSE h[k - 1] * Upto(k)
      <4>1. CASE k <= n
        <5>1. h[k] = g[k] /\ k \in 0..n /\ (k # 0 => h[k - 1] = g[k - 1])
          BY <4>1
        <5> HIDE DEF h
        <5> QED BY <5>1, <3>2
      <4>2. CASE k = n + 1
        <5>1. h[k - 1] = g[k - 1] /\ k # 0 /\ h[k] = g[k - 1] * Upto(k)
          BY <4>2
        <5> HIDE DEF h
        <5> QED BY <5>1
      <4> QED BY <4>1, <4>2
    <3>4. h = all(h, n + 1)
      <4>1. h = [k \in 0..(n + 1) |-> h[k]]
        OBVIOUS
      <4>2. all(h, n + 1) = [k \in 0..(n + 1) |-> all(h, n + 1)[k]]
        OBVIOUS
      <4>3. \A k \in 0..(n + 1) : h[k] = all(h, n + 1)[k]
        <5> HIDE DEF h
        <5> QED BY <3>3
      <4> HIDE DEF h, all
      <4> QED BY <4>1, <4>2, <4>3
    <3> HIDE DEF h, all
    <3> QED BY <3>4
  <2>3. \A n \in Nat : n \in F
    <3> HIDE DEF F
    <3> QED BY <2>1, <2>2, NatInduct
  <2> QED BY <2>3
<1> DEFINE g == CHOOSE g : g = all(g, L)
<1>4. g = all(g, L)
  <2>1. \E x : x = all(x, L)
    BY <1>1, <1>3
  <2> QED BY <2>1
<1> HIDE DEF g
<1>5. \A k \in 0..L : g[k] = IF k = 0 THEN 1 ELSE g[k - 1] * Upto(k)
  BY <1>4
<1>6. \A n \in Nat : n <= L => g[n] \in Nat \ {0} /\ \A m \in 1..n : Upto(m) <= g[n]
  <2> DEFINE F == {n \in Nat : n <= L => g[n] \in Nat \ {0} /\ \A m \in 1..n : Upto(m) <= g[n]}
  <2>1. 0 \in F
    BY <1>1, <1>5
  <2>2. ASSUME NEW n \in Nat, n \in F PROVE n + 1 \in F
    <3> SUFFICES ASSUME n + 1 <= L
                 PROVE g[n + 1] \in Nat \ {0} /\ \A m \in 1..(n + 1) : Upto(m) <= g[n + 1]
      OBVIOUS
    <3>1. g[n] \in Nat \ {0} /\ \A m \in 1..n : Upto(m) <= g[n]
      BY <2>2, <1>1
    <3>2. n + 1 \in 0..L /\ n + 1 # 0 /\ (n + 1) - 1 = n
      BY <1>1
    <3>3. g[n + 1] = g[n] * Upto(n + 1)
      BY <3>2, <1>5
    <3>4. \A m \in 1..(n + 1) : Upto(m) \in Nat \ {0}
      BY <1>1, UptoNat DEF L
    <3>5. Upto(n + 1) \in Nat \ {0}
      BY <3>4
    <3>6. ASSUME NEW a \in Nat \ {0}, NEW b \in Nat \ {0}
          PROVE a * b \in Nat \ {0} /\ a <= a * b /\ b <= a * b
      <4>1. a * b >= a * 1 /\ a * b >= 1 * b
        OBVIOUS
      <4> QED BY <4>1
    <3>7. g[n + 1] \in Nat \ {0} /\ g[n] <= g[n + 1] /\ Upto(n + 1) <= g[n + 1]
      BY <3>1, <3>3, <3>5, <3>6
    <3>8. ASSUME NEW m \in 1..(n + 1) PROVE Upto(m) <= g[n + 1]
      <4>1. CASE m = n + 1
        BY <4>1, <3>7
      <4>2. CASE m \in 1..n
        <5>1. Upto(m) <= g[n] /\ Upto(m) \in Nat
          BY <4>2, <3>1, <3>4
        <5> QED BY <5>1, <3>1, <3>7
      <4> QED BY <4>1, <4>2
    <3> QED BY <3>7, <3>8
  <2>3. \A n \in Nat : n \in F
    <3> HIDE DEF F
    <3> QED BY <2>1, <2>2, NatInduct
  <2> QED BY <2>3
<1>7. Unit = g[L]
  BY <1>2 DEF g
<1> QED BY <1>1, <1>6, <1>7 DEF L

IsStanding(s) ==
    /\ DOMAIN s \subseteq Hotkeys /\ IsFiniteSet(DOMAIN s)
    /\ \A h \in DOMAIN s : s[h].score \in Nat /\ s[h].commit \in Nat

\* A pool pays hotkeys, and something if anybody is ranked.
LEMMA PayoutPays ==
  ASSUME NEW s, IsStanding(s)
  PROVE /\ Pay(PoolPayout(s)) /\ DOMAIN PoolPayout(s) \subseteq Hotkeys
        /\ Ranked(s) # {} => \E h \in DOMAIN PoolPayout(s) : PoolPayout(s)[h] > 0
<1> DEFINE n == Least(Cardinality(Ranked(s)), Len(Payout))
           D == {g \in Ranked(s) : Place(s, g) <= n}
<1>1. /\ DOMAIN PoolPayout(s) = D
      /\ PoolPayout(s) = [h \in D |-> (Payout[Place(s, h)] * Unit) \div Upto(n)]
  BY DEF PoolPayout
<1>2. Ranked(s) \in SUBSET DOMAIN s /\ IsFiniteSet(Ranked(s))
  <2>1. Ranked(s) \in SUBSET DOMAIN s
    BY DEF Ranked
  <2> QED BY <2>1, FS_Subset DEF IsStanding
<1>3. Cardinality(Ranked(s)) \in Nat /\ (Ranked(s) # {} => Cardinality(Ranked(s)) # 0)
  BY <1>2, FS_CardinalityType, FS_EmptySet
<1>4. Len(Payout) \in Nat \ {0} /\ \A k \in 1..Len(Payout) : Payout[k] \in Nat \ {0}
  BY SizesAssumption
<1>5. n \in Nat /\ n <= Len(Payout) /\ (Ranked(s) # {} => n \in 1..Len(Payout))
  BY <1>3, <1>4 DEF Least
<1> HIDE DEF n
<1>6. ASSUME NEW h \in Ranked(s) PROVE Place(s, h) \in Nat \ {0}
  <2>1. {g \in Ranked(s) : Better(s, g, h)} \in SUBSET Ranked(s)
    OBVIOUS
  <2>2. IsFiniteSet({g \in Ranked(s) : Better(s, g, h)})
    BY <2>1, <1>2, FS_Subset
  <2>3. Cardinality({g \in Ranked(s) : Better(s, g, h)}) \in Nat
    BY <2>2, FS_CardinalityType
  <2> QED BY <2>3 DEF Place
<1>7. ASSUME NEW h \in D
      PROVE /\ Payout[Place(s, h)] \in Nat \ {0} /\ Upto(n) \in Nat \ {0}
            /\ Payout[Place(s, h)] * Unit \in Nat
            /\ Payout[Place(s, h)] * Unit >= Upto(n)
  <2>1. Place(s, h) \in 1..Len(Payout) /\ n \in 1..Len(Payout)
    BY <1>4, <1>5, <1>6
  <2>2. Payout[Place(s, h)] \in Nat \ {0} /\ Upto(n) \in Nat \ {0}
    BY <2>1, <1>4, UptoNat
  <2>3. Unit \in Nat \ {0} /\ Upto(n) <= Unit
    BY <2>1, UnitCovers
  <2>4. Payout[Place(s, h)] * Unit \in Nat
    BY <2>2, <2>3, NatProduct
  <2>5. Payout[Place(s, h)] * Unit >= 1 * Unit
    BY <2>2, <2>3
  <2> QED BY <2>2, <2>3, <2>4, <2>5
<1>8. ASSUME NEW h \in D PROVE PoolPayout(s)[h] \in Nat /\ PoolPayout(s)[h] > 0
  <2> DEFINE a == Payout[Place(s, h)] * Unit
             b == Upto(n)
  <2>1. a \in Nat /\ b \in Nat \ {0} /\ a >= b
    BY <1>7
  <2>2. PoolPayout(s)[h] = a \div b
    BY <1>1
  <2> HIDE DEF a, b
  <2>3. a \div b \in Nat /\ a % b < b /\ a % b \in Nat /\ a = (a \div b) * b + (a % b)
    BY <2>1, Division
  <2>4. a \div b # 0
    <3>1. a \div b = 0 => a = a % b
      BY <2>1, <2>3
    <3> QED BY <3>1, <2>1, <2>3
  <2> QED BY <2>2, <2>3, <2>4
<1>9. Pay(PoolPayout(s)) /\ DOMAIN PoolPayout(s) \subseteq Hotkeys
  <2>1. D \in SUBSET Ranked(s)
    OBVIOUS
  <2>2. IsFiniteSet(D)
    BY <2>1, <1>2, FS_Subset
  <2>3. PoolPayout(s) = [h \in DOMAIN PoolPayout(s) |-> PoolPayout(s)[h]]
    BY <1>1
  <2> HIDE DEF D
  <2> QED BY <2>1, <2>2, <2>3, <1>1, <1>2, <1>8 DEF Pay, IsStanding
<1>10. ASSUME Ranked(s) # {} PROVE D # {}
  <2> DEFINE R == {p \in Ranked(s) \X Ranked(s) : Better(s, p[1], p[2])}
  <2>1. \A h \in Ranked(s) : h \in Nat /\ s[h].score \in Nat /\ s[h].commit \in Nat
    BY <1>2, HotkeysAssumption DEF IsStanding
  <2>2. Orders(R, Ranked(s))
    <3>1. \A x, y \in Ranked(s) : <<x, y>> \in R <=> Better(s, x, y)
      OBVIOUS
    <3> HIDE DEF R
    <3>2. \A x, y, z \in Ranked(s) : Better(s, x, y) /\ Better(s, y, z) => Better(s, x, z)
      BY <2>1 DEF Better
    <3>3. \A x \in Ranked(s) : ~Better(s, x, x)
      BY <2>1 DEF Better
    <3>4. \A x, y \in Ranked(s) : x = y \/ Better(s, x, y) \/ Better(s, y, x)
      BY <2>1 DEF Better
    <3> QED BY <3>1, <3>2, <3>3, <3>4 DEF Orders
  <2>3. \A x, y \in Ranked(s) : <<x, y>> \in R <=> Better(s, x, y)
    OBVIOUS
  <2> HIDE DEF R
  <2>4. PICK h \in Ranked(s) : Below(R, Ranked(s), h) = {}
    BY <1>2, <1>10, <2>2, FirstExists
  <2>5. {g \in Ranked(s) : Better(s, g, h)} = {}
    BY <2>3, <2>4 DEF Below
  <2>6. Cardinality({g \in Ranked(s) : Better(s, g, h)}) = 0
    <3>1. Cardinality({}) = 0
      BY FS_EmptySet
    <3> QED BY ONLY <3>1, <2>5, Zenon
  <2>7. Place(s, h) = 1
    BY <2>6 DEF Place
  <2> QED BY <2>7, <1>5, <1>10
<1> QED BY <1>1, <1>8, <1>9, <1>10

\* So do the pools together; an empty one pays the owner.
LEMMA CombinePays ==
  ASSUME standings \in Standings, burnTo \in Owners
  PROVE /\ Pay(Combine(standings)) /\ DOMAIN Combine(standings) \subseteq Nat
        /\ burnTo # {} => SumFunction(Combine(standings)) > 0
<1> DEFINE s == standings
           paid == [p \in Pools |-> IF Ranked(s[p]) # {} THEN PoolPayout(s[p])
                                    ELSE [h \in burnTo |-> Unit]]
           D == UNION {DOMAIN paid[p] : p \in Pools}
           by(h) == [p \in Pools |-> At(paid[p], h)]
           result == [h \in D |-> SumFunction(by(h))]
<1>1. Combine(s) = result
  BY DEF Combine
<1>2. \A p \in Pools : IsStanding(s[p])
  BY StandingsAssumption DEF IsStanding
<1>3. burnTo \subseteq {Owner}
  BY OwnersAssumption
<1>4. Unit \in Nat \ {0}
  BY UnitCovers
<1>5. ASSUME NEW p \in Pools
      PROVE /\ Pay(paid[p]) /\ DOMAIN paid[p] \subseteq Nat
            /\ burnTo # {} => \E h \in DOMAIN paid[p] : paid[p][h] > 0
  <2>1. CASE Ranked(s[p]) # {}
    <3>1. paid[p] = PoolPayout(s[p])
      BY <2>1
    <3> HIDE DEF paid
    <3> QED BY <3>1, <2>1, <1>2, PayoutPays, HotkeysAssumption
  <2>2. CASE ~(Ranked(s[p]) # {})
    <3>1. paid[p] = [h \in burnTo |-> Unit]
      BY <2>2
    <3> HIDE DEF paid
    <3>2. IsFiniteSet(burnTo)
      BY <1>3, FS_Singleton, FS_Subset
    <3> QED BY <3>1, <3>2, <1>3, <1>4 DEF Pay, Owner
  <2> QED BY <2>1, <2>2
<1> HIDE DEF paid
<1>6. IsFiniteSet(D) /\ D \subseteq Nat
  <2> DEFINE f == [p \in Pools |-> DOMAIN paid[p]]
             sets == {f[p] : p \in Pools}
  <2>1. IsFiniteSet(sets)
    <3> HIDE DEF f
    <3> QED BY PoolsAssumption, ImageFinite
  <2>2. \A T \in sets : IsFiniteSet(T)
    BY <1>5 DEF Pay
  <2>3. IsFiniteSet(UNION sets)
    <3> HIDE DEF sets
    <3> QED BY <2>1, <2>2, FS_UNION
  <2>4. D = UNION sets
    OBVIOUS
  <2>5. D \subseteq Nat
    BY <1>5
  <2> HIDE DEF D, sets
  <2> QED BY <2>3, <2>4, <2>5
<1>7. ASSUME NEW h PROVE /\ SumFunction(by(h)) \in Nat
                         /\ \A p \in Pools : At(paid[p], h) <= SumFunction(by(h))
  <2>1. \A p \in Pools : At(paid[p], h) \in Nat
    BY <1>5, AtNat
  <2> DEFINE f == by(h)
  <2>2. DOMAIN f = Pools /\ \A p \in Pools : f[p] \in Nat /\ f[p] = At(paid[p], h)
    BY <2>1
  <2> HIDE DEF f
  <2>3. SumFunctionOnSet(f, Pools) \in Nat /\ \A p \in Pools : f[p] <= SumFunctionOnSet(f, Pools)
    BY <2>2, PoolsAssumption, SumOnNat, SumOnElement
  <2>4. SumFunction(f) \in Nat /\ \A p \in Pools : f[p] <= SumFunction(f)
    BY <2>2, <2>3 DEF SumFunction
  <2>5. SumFunction(f) \in Nat /\ \A p \in Pools : At(paid[p], h) <= SumFunction(f)
    BY <2>2, <2>4
  <2> QED BY <2>5 DEF f
<1>8. DOMAIN result = D /\ result = [h \in D |-> result[h]]
      /\ \A h \in D : result[h] = SumFunction(by(h))
  <2> HIDE DEF D, by
  <2> QED OBVIOUS
<1> HIDE DEF result, by
<1>9. Pay(result)
  <2> HIDE DEF D
  <2> QED BY <1>6, <1>7, <1>8 DEF Pay
<1>10. ASSUME burnTo # {} PROVE SumFunction(result) > 0
  <2>1. PICK p \in Pools : TRUE
    BY PoolsAssumption
  <2>2. PICK h \in DOMAIN paid[p] : paid[p][h] > 0
    BY <1>5, <1>10
  <2>3. h \in D /\ At(paid[p], h) = paid[p][h]
    BY <2>2 DEF At
  <2>4. At(paid[p], h) \in Nat
    BY <1>5, AtNat
  <2>5. result[h] > 0 /\ result[h] \in Nat
    <3> HIDE DEF D
    <3> QED BY <1>7, <1>8, <2>2, <2>3, <2>4
  <2>6. result[h] <= SumFunctionOnSet(result, DOMAIN result)
    <3> HIDE DEF D
    <3> QED BY <1>8, <1>9, <2>3, SumOnElement DEF Pay
  <2>7. SumFunction(result) \in Nat
    BY <1>9, SumIsNat
  <2> QED BY <2>5, <2>6, <2>7 DEF SumFunction
<1> QED BY <1>1, <1>6, <1>8, <1>9, <1>10

-----------------------------------------------------------------------------
(* The split, the fold and the vector. *)

\* Of the bands the billing is below there is a first.
LEMMA FirstBand ==
  ASSUME NEW S \in SUBSET Nat, S # {}
  PROVE Min(S) \in S
<1>1. \E n \in S : \A m \in S : n <= m
  BY NatMin
<1>2. Min(S) = CHOOSE n \in S : \A m \in S : n <= m
  BY DEF Min
<1> QED BY <1>1, <1>2

\* The cap that applies is a percentage.
LEMMA CapIsPart ==
  ASSUME NEW bands \in Seq([cap : Nat, below : SUBSET Nat]), NEW amount, NEW c \in CapFor(bands, amount)
  PROVE c \in Nat /\ c <= 100
<1> DEFINE reach == {k \in DOMAIN bands : bands[k].below = {} \/ \E b \in bands[k].below : amount < b}
           at == Min(reach)
           rises == \A k \in 2..at : \A a \in bands[k - 1].below, b \in bands[k].below : a < b
           takes == /\ reach # {} /\ rises
                    /\ \A k \in 1..at : bands[k].cap <= 100
                    /\ bands[at].below = {} => at = Len(bands)
<1>1. CapFor(bands, amount) = IF takes THEN {bands[at].cap} ELSE {}
  BY DEF CapFor
<1>2. takes /\ c = bands[at].cap
  <2> HIDE DEF takes, at
  <2> QED BY <1>1
<1>3. reach \in SUBSET Nat /\ reach \subseteq 1..Len(bands)
  OBVIOUS
<1>4. at \in reach
  <2> HIDE DEF reach
  <2> QED BY <1>2, <1>3, FirstBand
<1>5. at \in 1..Len(bands) /\ at \in 1..at
  <2> HIDE DEF at, reach
  <2> QED BY <1>3, <1>4
<1>6. bands[at].cap <= 100
  <2> HIDE DEF at, reach
  <2> QED BY <1>2, <1>5
<1>7. bands[at].cap \in Nat
  <2> HIDE DEF at, reach
  <2> DEFINE R == [cap : Nat, below : SUBSET Nat]
  <2>1. bands \in Seq(R) /\ \A r \in R : r.cap \in Nat
    OBVIOUS
  <2> HIDE DEF R
  <2>2. bands[at] \in R
    BY <2>1, <1>5
  <2> QED BY <2>1, <2>2
<1> QED BY <1>2, <1>6, <1>7

\* What serving_fold divides is sound whatever was read, an invalid block included.
LEMMA SplitFits ==
  ASSUME block \in Serving, NEW rows, GoodRows(rows), NEW amount,
         NEW who \in SUBSET Hotkeys, IsFiniteSet(who)
  PROVE Sound(SplitOf(rows, amount, who), rows)
<1> DEFINE cap == CapFor(block.bands, amount)
<1>1. /\ block.floor \in Nat /\ block.bounty \in Nat
      /\ block.bands \in Seq([cap : Nat, below : SUBSET Nat])
  BY ServingAssumption
<1>2. SplitOf(rows, amount, who) =
        IF cap = {} \/ block.floor > Half \/ block.bounty > Half
        THEN Divide(None, DefaultCap, {}, 0, 0)
        ELSE Divide(rows, CHOOSE c \in cap : TRUE,
                    IF block.floor > 0 THEN who ELSE {}, block.floor, block.bounty)
  BY DEF SplitOf
<1>3. \A c \in cap : c \in Nat /\ c <= 100
  BY <1>1, CapIsPart
<1> HIDE DEF cap
<1>4. CASE cap = {} \/ block.floor > Half \/ block.bounty > Half
  <2>1. Sound(Divide(None, DefaultCap, {}, 0, 0), None)
    <3>1. DefaultCap \in Nat /\ DefaultCap <= 100 /\ 0 \in Nat /\ 0 <= Half /\ {} \in SUBSET Hotkeys
      BY DEF DefaultCap, Half
    <3> QED BY <3>1, NoneRows, FS_EmptySet, DivideFits
  <2>2. OperatorsOf(None) = {}
    BY NonePays DEF OperatorsOf
  <2>3. Sound(Divide(None, DefaultCap, {}, 0, 0), rows)
    BY <2>1, <2>2 DEF Sound
  <2> QED BY <1>2, <1>4, <2>3
<1>5. CASE ~(cap = {} \/ block.floor > Half \/ block.bounty > Half)
  <2> DEFINE c == CHOOSE c \in cap : TRUE
             listed2 == IF block.floor > 0 THEN who ELSE {}
  <2>1. c \in Nat /\ c <= 100 /\ block.bounty <= Half
    BY <1>1, <1>3, <1>5 DEF Half
  <2>2. listed2 \in SUBSET Hotkeys /\ IsFiniteSet(listed2)
    BY FS_EmptySet
  <2>3. SplitOf(rows, amount, who) = Divide(rows, c, listed2, block.floor, block.bounty)
    BY <1>2, <1>5
  <2> HIDE DEF c, listed2
  <2>4. Sound(Divide(rows, c, listed2, block.floor, block.bounty), rows)
    BY <1>1, <2>1, <2>2, DivideFits
  <2> QED BY <2>3, <2>4
<1> QED BY <1>4, <1>5

Mass(f) == IF SumFunction(f) = 0 THEN 1 ELSE SumFunction(f)
Times(f, n) == [h \in DOMAIN f |-> f[h] * n]
Together(paid, s, owner) ==
    Plus(Times(paid, s.modelling),
         Plus(Times(s.shares, Mass(paid)), [h \in owner |-> s.burned * Mass(paid)]))

\* Both parts of the emission in one vector: nothing is lost, nothing paid twice.
LEMMA TogetherPays ==
  ASSUME NEW paid, Pay(paid), DOMAIN paid \subseteq Nat, NEW s, NEW rows, Sound(s, rows),
         NEW owner \in Owners
  PROVE LET all == Together(paid, s, owner)
            mass == SumFunction(paid)
        IN  /\ Pay(all) /\ DOMAIN all \subseteq Nat
            /\ owner # {} /\ mass > 0 =>
                  /\ At(all, Owner) = s.burned * mass + At(paid, Owner) * s.modelling
                  /\ SumFunction(all) = mass * Scale
<1> DEFINE mass == SumFunction(paid)
           part == Mass(paid)
           a == Times(paid, s.modelling)
           b == Times(s.shares, part)
           c == [h \in owner |-> s.burned * part]
           all == Together(paid, s, owner)
<1>1. mass \in Nat /\ part \in Nat /\ (mass > 0 => part = mass)
  BY SumIsNat DEF Mass
<1>2. /\ s.serving \in Nat /\ s.burned \in Nat /\ s.modelling \in Nat
      /\ s.serving + s.modelling = Scale /\ Pay(s.shares) /\ DOMAIN s.shares \subseteq Hotkeys
      /\ SumFunction(s.shares) + s.burned = s.serving
  BY DEF Sound
<1>3. owner \subseteq {Owner}
  BY OwnersAssumption
<1>4. SumFunction(s.shares) \in Nat
  BY <1>2, SumIsNat
<1>5. all = Plus(a, Plus(b, c))
  BY DEF Together
<1>6. a = [h \in DOMAIN paid |-> paid[h] * s.modelling]
      /\ b = [h \in DOMAIN s.shares |-> s.shares[h] * part]
  BY DEF Times
<1> HIDE DEF mass, part, a, b, all
<1>7. /\ Pay(a) /\ DOMAIN a = DOMAIN paid /\ (\A h : At(a, h) = At(paid, h) * s.modelling)
      /\ SumFunction(a) = SumFunction(paid) * s.modelling
  BY <1>2, <1>6, TimesPays
<1>8. /\ Pay(b) /\ DOMAIN b = DOMAIN s.shares /\ (\A h : At(b, h) = At(s.shares, h) * part)
      /\ SumFunction(b) = SumFunction(s.shares) * part
  BY <1>1, <1>2, <1>6, TimesPays
<1>9. s.burned * part \in Nat
  BY <1>1, <1>2, NatProduct
<1>10. /\ Pay(c) /\ DOMAIN c = owner /\ IsFiniteSet(owner)
  <2>1. IsFiniteSet(owner)
    BY <1>3, FS_Singleton, FS_Subset
  <2> QED BY <2>1, <1>9 DEF Pay
<1>11. owner # {} => At(c, Owner) = s.burned * part /\ SumFunction(c) = s.burned * part
  <2> SUFFICES ASSUME owner # {}
               PROVE At(c, Owner) = s.burned * part /\ SumFunction(c) = s.burned * part
    OBVIOUS
  <2>1. owner = {Owner}
    BY <1>3
  <2>2. At(c, Owner) = s.burned * part
    BY <2>1 DEF At
  <2>3. SumFunctionOnSet(c, owner) = Cardinality(owner) * (s.burned * part)
    <3>1. \A h \in owner : c[h] = s.burned * part
      OBVIOUS
    <3> HIDE DEF c
    <3> QED BY <3>1, <1>9, <1>10, SumOnCount
  <2>4. Cardinality(owner) = 1
    BY <2>1, FS_Singleton
  <2>5. SumFunction(c) = SumFunctionOnSet(c, owner)
    <3> HIDE DEF c
    <3> QED BY <1>10 DEF SumFunction
  <2> HIDE DEF c
  <2> QED BY <2>2, <2>3, <2>4, <2>5, <1>9
<1> HIDE DEF c
<1>12. /\ Pay(Plus(b, c)) /\ DOMAIN Plus(b, c) = DOMAIN b \cup DOMAIN c
       /\ (\A h : At(Plus(b, c), h) = At(b, h) + At(c, h))
       /\ SumFunction(Plus(b, c)) = SumFunction(b) + SumFunction(c)
  BY <1>8, <1>10, PlusPays
<1>13. /\ Pay(all) /\ DOMAIN all = DOMAIN a \cup DOMAIN Plus(b, c)
       /\ (\A h : At(all, h) = At(a, h) + At(Plus(b, c), h))
       /\ SumFunction(all) = SumFunction(a) + SumFunction(Plus(b, c))
  <2> DEFINE bc == Plus(b, c)
  <2>1. Pay(bc)
    BY <1>12
  <2> HIDE DEF bc
  <2>2. /\ Pay(Plus(a, bc)) /\ DOMAIN Plus(a, bc) = DOMAIN a \cup DOMAIN bc
        /\ (\A h : At(Plus(a, bc), h) = At(a, h) + At(bc, h))
        /\ SumFunction(Plus(a, bc)) = SumFunction(a) + SumFunction(bc)
    BY <1>7, <2>1, PlusPays
  <2>3. all = Plus(a, bc)
    BY <1>5 DEF bc
  <2>4. /\ Pay(all) /\ DOMAIN all = DOMAIN a \cup DOMAIN bc
        /\ (\A h : At(all, h) = At(a, h) + At(bc, h))
        /\ SumFunction(all) = SumFunction(a) + SumFunction(bc)
    BY ONLY <2>2, <2>3, Zenon
  <2> QED BY <2>4 DEF bc
<1>14. DOMAIN all \subseteq Nat
  <2>1. DOMAIN all = DOMAIN a \cup DOMAIN Plus(b, c)
    BY <1>13
  <2>2. DOMAIN Plus(b, c) = DOMAIN b \cup DOMAIN c
    BY <1>12
  <2>3. DOMAIN a \subseteq Nat
    BY <1>7
  <2>4. DOMAIN b \subseteq Nat
    BY <1>2, <1>8, HotkeysAssumption
  <2>5. DOMAIN c \subseteq Nat
    BY <1>3, <1>10 DEF Owner
  <2> QED BY <2>1, <2>2, <2>3, <2>4, <2>5
<1>15. ASSUME owner # {}, mass > 0
       PROVE /\ At(all, Owner) = s.burned * mass + At(paid, Owner) * s.modelling
             /\ SumFunction(all) = mass * Scale
  <2>1. part = mass
    BY <1>1, <1>15
  <2>2. At(s.shares, Owner) = 0
    BY <1>2, HotkeysAssumption DEF At
  <2>3. At(b, Owner) = 0
    <3>1. At(b, Owner) = At(s.shares, Owner) * part
      BY <1>8
    <3> QED BY <3>1, <2>2, <1>1
  <2>4. At(c, Owner) = s.burned * mass /\ SumFunction(c) = s.burned * mass
    BY <1>11, <1>15, <2>1
  <2>5. At(all, Owner) = At(paid, Owner) * s.modelling + (0 + s.burned * mass)
    BY <1>7, <1>12, <1>13, <2>3, <2>4
  <2>6. At(paid, Owner) * s.modelling \in Nat /\ s.burned * mass \in Nat
    BY <1>1, <1>2, AtNat, NatProduct
  <2>7. SumFunction(all) = mass * s.modelling + (SumFunction(s.shares) * mass + s.burned * mass)
    BY <1>7, <1>8, <1>12, <1>13, <2>1, <2>4 DEF mass
  <2>8. SumFunction(all) = mass * (s.modelling + (SumFunction(s.shares) + s.burned))
    BY <2>7, <1>1, <1>2, <1>4
  <2>9. s.modelling + (SumFunction(s.shares) + s.burned) = Scale
    BY <1>2, <1>4
  <2>10. SumFunction(all) = mass * Scale
    BY <2>8, <2>9
  <2> QED BY <2>5, <2>6, <2>10
<1> QED BY <1>13, <1>14, <1>15 DEF mass, all

\* A product tells on which side of nothing, and of what, its other factor is.
LEMMA FactorSide ==
  ASSUME NEW a \in Int, NEW b \in Int, NEW m \in Nat \ {0}
  PROVE /\ a * m >= 0 => a >= 0
        /\ a * m <= b * m => a <= b
        /\ a * m < b * m + m => a <= b
<1>1. ASSUME NEW x \in Int, x >= 1 PROVE x * m >= m
  <2>1. x * m >= 1 * m
    BY <1>1
  <2> QED BY <2>1
<1>2. a < 0 => (0 - a) * m >= m
  BY <1>1
<1>3. (0 - a) * m = 0 - a * m
  OBVIOUS
<1>4. a > b => (a - b) * m >= m
  BY <1>1
<1>5. (a - b) * m = a * m - b * m
  OBVIOUS
<1>6. a * m \in Int /\ b * m \in Int
  OBVIOUS
<1> QED BY <1>2, <1>3, <1>4, <1>5, <1>6

\* Weights divided by their sum: whole parts, what is left of each, and the
\* hotkeys with something left.
Divided(uids, w, mass, floor, rest, some) ==
    /\ IsFiniteSet(uids) /\ \A h \in uids : w[h] \in Nat
    /\ mass \in Nat \ {0} /\ mass = SumFunctionOnSet(w, uids)
    /\ \A h \in uids : floor[h] = (w[h] * Total) \div mass
    /\ \A h \in uids : rest[h] = (w[h] * Total) % mass
    /\ some \in SUBSET uids /\ \A h \in uids : h \in some <=> rest[h] > 0

-----------------------------------------------------------------------------
(* The integers of the vector. *)

\* The division of every weight, and how much flooring lost: less than one unit
\* for each weight with a remainder.
LEMMA Remainders ==
  ASSUME NEW uids, NEW w, NEW mass, NEW floor, NEW rest, NEW some,
         Divided(uids, w, mass, floor, rest, some)
  PROVE /\ \A h \in uids : /\ floor[h] \in Nat /\ rest[h] \in Nat /\ rest[h] < mass
                           /\ w[h] * Total = floor[h] * mass + rest[h]
        /\ SumFunctionOnSet(floor, uids) \in Nat
        /\ Total - SumFunctionOnSet(floor, uids) \in Nat
        /\ Total - SumFunctionOnSet(floor, uids) <= Cardinality(some)
<1> DEFINE prod == [h \in uids |-> w[h] * Total]
           most == [h \in some |-> mass - 1]
           F == SumFunctionOnSet(floor, uids)
           R == SumFunctionOnSet(rest, uids)
           short == Total - F
<1> USE DEF Divided
<1>0. Total \in Nat \ {0}
  BY SizesAssumption
<1>1. ASSUME NEW h \in uids
      PROVE /\ floor[h] \in Nat /\ rest[h] \in Nat /\ rest[h] < mass
            /\ w[h] * Total = floor[h] * mass + rest[h]
  <2> DEFINE p == w[h] * Total
  <2>1. p \in Nat
    BY <1>0, NatProduct
  <2>2. floor[h] = p \div mass /\ rest[h] = p % mass
    OBVIOUS
  <2> HIDE DEF p
  <2>3. floor[h] \in Nat /\ rest[h] \in Nat /\ rest[h] < mass /\ p = floor[h] * mass + rest[h]
    BY <2>1, <2>2, Division, SMTT(60)
  <2> QED BY <2>3 DEF p
<1>2. F \in Nat /\ R \in Nat
  BY <1>1, SumOnNat
<1>3. SumFunctionOnSet(prod, uids) = Total * mass
  <2>1. \A h \in uids : w[h] \in Int /\ prod[h] = Total * w[h]
    BY <1>0
  <2> HIDE DEF prod
  <2>2. Total \in Int
    BY <1>0
  <2>3. SumFunctionOnSet(prod, uids) = Total * SumFunctionOnSet(w, uids)
    BY <2>1, <2>2, SumOnScale
  <2> QED BY <2>3
<1>4. SumFunctionOnSet(prod, uids) = mass * F + 1 * R
  <2>1. \A h \in uids : /\ floor[h] \in Int /\ rest[h] \in Int
                        /\ prod[h] = mass * floor[h] + 1 * rest[h]
    BY <1>1
  <2> HIDE DEF prod
  <2> QED BY <2>1, SumOnLinear, SMTT(60)
<1>5. IsFiniteSet(some)
  BY FS_Subset
<1>6. Cardinality(some) \in Nat
  BY <1>5, FS_CardinalityType
<1>7. R = SumFunctionOnSet(rest, some)
  <2>1. (\A h \in uids : rest[h] \in Int) /\ \A h \in uids \ some : rest[h] = 0
    BY <1>1
  <2> QED BY <1>5, <2>1, SumOnSupport
<1>8. SumFunctionOnSet(rest, some) <= SumFunctionOnSet(most, some)
  <2>1. \A h \in some : rest[h] \in Int /\ most[h] \in Int /\ rest[h] <= most[h]
    BY <1>1
  <2> HIDE DEF most
  <2> QED BY <1>5, <2>1, SumOnMonotone
<1>9. SumFunctionOnSet(most, some) = Cardinality(some) * (mass - 1)
  <2>1. (\A h \in some : most[h] = mass - 1) /\ mass - 1 \in Int
    OBVIOUS
  <2> HIDE DEF most
  <2> QED BY <1>5, <2>1, SumOnCount
<1> HIDE DEF F, R, most, prod
<1>10. short \in Int /\ short * mass = R
  <2>1. short * mass = Total * mass - mass * F
    BY <1>0, <1>2
  <2> QED BY <2>1, <1>0, <1>2, <1>3, <1>4
<1>11. R <= Cardinality(some) * (mass - 1)
  BY <1>7, <1>8, <1>9
<1>12. Cardinality(some) * (mass - 1) = Cardinality(some) * mass - Cardinality(some)
       /\ Cardinality(some) * mass \in Nat
  BY <1>6
<1> HIDE DEF short
<1>13. short >= 0 /\ short <= Cardinality(some)
  <2>1. short * mass >= 0 /\ short * mass <= Cardinality(some) * mass
    BY <1>2, <1>6, <1>10, <1>11, <1>12
  <2> QED BY <2>1, <1>6, <1>10, FactorSide
<1> QED BY <1>1, <1>2, <1>10, <1>13 DEF F, short

\* The largest remainders take what the division leaves: the vector adds up to
\* the chain's total, and each value is less than a unit away from its share.
LEMMA QuantiseKeeps ==
  ASSUME NEW w, Pay(w), DOMAIN w \subseteq Nat, SumFunction(w) > 0
  PROVE LET v == QuantiseWeights(w)
            mass == SumFunction(w)
        IN  /\ SumFunction(v) = Total
            /\ \A h \in DOMAIN w : /\ At(v, h) * mass < w[h] * Total + mass
                                   /\ At(v, h) * mass > w[h] * Total - mass
<1> DEFINE D == DOMAIN w
           uids == {h \in D : w[h] > 0}
           mass == SumFunction(Restrict(w, uids))
           floor == [h \in uids |-> (w[h] * Total) \div mass]
           rest == [h \in uids |-> (w[h] * Total) % mass]
           before(h) == {g \in uids : \/ rest[g] > rest[h]
                                      \/ rest[g] = rest[h] /\ g < h}
           short == Total - SumFunction(floor)
           whole == [h \in uids |-> IF Cardinality(before(h)) < short
                                    THEN floor[h] + 1 ELSE floor[h]]
           sent == {h \in uids : whole[h] > 0}
           v == QuantiseWeights(w)
           more == {h \in uids : Cardinality(before(h)) < short}
           one == [h \in uids |-> IF h \in more THEN 1 ELSE 0]
           some == {h \in uids : rest[h] > 0}
           R == {p \in uids \X uids : \/ rest[p[1]] > rest[p[2]]
                                      \/ rest[p[1]] = rest[p[2]] /\ p[1] < p[2]}
<1>0. Total \in Nat \ {0}
  BY SizesAssumption
<1>1. v = Restrict(whole, sent)
  BY DEF QuantiseWeights
<1>2. IsFiniteSet(D) /\ (\A h \in D : w[h] \in Nat) /\ D \subseteq Nat
  BY DEF Pay
<1>3. uids \in SUBSET D
  OBVIOUS
<1>4. IsFiniteSet(uids)
  <2> HIDE DEF uids, D
  <2> QED BY <1>2, <1>3, FS_Subset
<1>5. mass = SumFunctionOnSet(w, uids)
  <2> HIDE DEF uids
  <2> QED BY <1>3, RestrictPays
<1>6. SumFunction(w) = SumFunctionOnSet(w, uids)
  <2>1. \A h \in D : w[h] \in Int
    BY <1>2
  <2>2. \A h \in D \ uids : w[h] = 0
    BY <1>2
  <2>3. SumFunctionOnSet(w, D) = SumFunctionOnSet(w, uids)
    <3> HIDE DEF uids, D
    <3> QED BY <1>2, <1>3, <2>1, <2>2, SumOnSupport
  <2> QED BY <2>3 DEF SumFunction
<1>7. mass \in Nat \ {0} /\ mass = SumFunction(w)
  <2> HIDE DEF mass, uids
  <2> QED BY <1>5, <1>6, SumIsNat
<1> HIDE DEF mass
<1>8. DOMAIN floor = uids /\ \A h \in uids : floor[h] = (w[h] * Total) \div mass
  OBVIOUS
<1>9. \A h \in uids : rest[h] = (w[h] * Total) % mass
  OBVIOUS
<1>10. \A h \in uids : w[h] \in Nat /\ h \in Nat /\ w[h] > 0
  BY <1>2
<1> HIDE DEF floor, rest
<1>11. SumFunction(floor) = SumFunctionOnSet(floor, uids)
  <2> HIDE DEF uids
  <2> QED BY <1>8 DEF SumFunction
<1>12. /\ \A h \in uids : /\ floor[h] \in Nat /\ rest[h] \in Nat /\ rest[h] < mass
                          /\ w[h] * Total = floor[h] * mass + rest[h]
       /\ SumFunctionOnSet(floor, uids) \in Nat
       /\ Total - SumFunctionOnSet(floor, uids) \in Nat
       /\ Total - SumFunctionOnSet(floor, uids) <= Cardinality(some)
  <2> HIDE DEF uids
  <2>1. \A h \in uids : w[h] \in Nat
    BY <1>10
  <2>2. /\ \A h \in uids : floor[h] = (w[h] * Total) \div mass
        /\ \A h \in uids : rest[h] = (w[h] * Total) % mass
    BY <1>8, <1>9
  <2>3. mass \in Nat \ {0} /\ mass = SumFunctionOnSet(w, uids)
    BY <1>5, <1>7
  <2>4. some \in SUBSET uids /\ \A h \in uids : h \in some <=> rest[h] > 0
    OBVIOUS
  <2> HIDE DEF some
  <2>5. Divided(uids, w, mass, floor, rest, some)
    BY <1>4, <2>1, <2>2, <2>3, <2>4 DEF Divided
  <2> QED BY <2>5, Remainders
<1>13. short \in Nat /\ short <= Cardinality(some) /\ short = Total - SumFunctionOnSet(floor, uids)
  <2> HIDE DEF uids, some
  <2> QED BY <1>11, <1>12
<1> HIDE DEF short
<1>14. some \in SUBSET uids /\ IsFiniteSet(some) /\ Cardinality(some) <= Cardinality(uids)
  <2>1. some \in SUBSET uids
    OBVIOUS
  <2> HIDE DEF some, uids
  <2> QED BY <2>1, <1>4, FS_Subset
<1>15. Cardinality(some) \in Nat /\ Cardinality(uids) \in Nat
  <2> HIDE DEF some, uids
  <2> QED BY <1>4, <1>14, FS_CardinalityType
<1>16. \A h \in uids : before(h) = Below(R, uids, h)
  BY DEF Below
<1>17. Orders(R, uids)
  <2>1. \A g, h \in uids : <<g, h>> \in R <=> \/ rest[g] > rest[h]
                                              \/ rest[g] = rest[h] /\ g < h
    OBVIOUS
  <2>2. \A h \in uids : rest[h] \in Nat /\ h \in Nat
    BY <1>10, <1>12
  <2> HIDE DEF R, uids
  <2> QED BY <2>1, <2>2 DEF Orders
<1> HIDE DEF R
<1>18. Cardinality(more) = short
  <2> DEFINE first == {h \in uids : Cardinality(Below(R, uids, h)) < short}
  <2>1. Cardinality(first) = short
    <3> HIDE DEF uids, some
    <3> QED BY <1>4, <1>13, <1>14, <1>15, <1>17, FirstCounted
  <2>2. \A h \in uids : Cardinality(before(h)) = Cardinality(Below(R, uids, h))
    <3> TAKE h \in uids
    <3>1. before(h) = Below(R, uids, h)
      BY <1>16
    <3> HIDE DEF before, uids
    <3> QED BY ONLY <3>1, Zenon
  <2>3. more = first
    <3> HIDE DEF before, uids
    <3> QED BY <2>2
  <2> HIDE DEF more, first
  <2> QED BY <2>1, <2>3
<1>19. more \in SUBSET uids /\ IsFiniteSet(more)
  <2>1. more \in SUBSET uids
    OBVIOUS
  <2> HIDE DEF more, uids
  <2> QED BY <2>1, <1>4, FS_Subset
<1>20. ASSUME NEW h \in more PROVE rest[h] > 0
  <2>1. SUFFICES ASSUME rest[h] = 0 PROVE FALSE
    BY <1>12, <1>19
  <2>2. some \in SUBSET before(h)
    BY <2>1, <1>12, <1>19
  <2>3. before(h) \in SUBSET uids
    OBVIOUS
  <2>4. Cardinality(before(h)) < short
    OBVIOUS
  <2> HIDE DEF before, some, uids, more
  <2>5. IsFiniteSet(before(h))
    BY <2>3, <1>4, FS_Subset
  <2>6. Cardinality(some) <= Cardinality(before(h)) /\ Cardinality(before(h)) \in Nat
    BY <2>2, <2>5, FS_Subset, FS_CardinalityType
  <2> QED BY <2>4, <2>6, <1>13, <1>15
<1>21. \A h \in uids : /\ whole[h] = floor[h] + one[h] /\ one[h] \in {0, 1}
                       /\ whole[h] \in Nat /\ floor[h] \in Nat
                       /\ one[h] = 1 <=> h \in more
  <2> TAKE h \in uids
  <2>1. h \in more <=> Cardinality(before(h)) < short
    OBVIOUS
  <2>2. whole[h] = IF Cardinality(before(h)) < short THEN floor[h] + 1 ELSE floor[h]
    OBVIOUS
  <2>3. one[h] = IF h \in more THEN 1 ELSE 0
    OBVIOUS
  <2>4. floor[h] \in Nat
    BY <1>12
  <2> HIDE DEF more, whole, one, before, uids
  <2> QED BY <2>1, <2>2, <2>3, <2>4
<1>22. DOMAIN whole = uids /\ whole = [h \in uids |-> whole[h]]
  OBVIOUS
<1> HIDE DEF whole, one, before, some
<1>23. SumFunctionOnSet(one, uids) = short
  <2>1. SumFunctionOnSet(one, uids) = SumFunctionOnSet(one, more)
    <3>1. (\A h \in uids : one[h] \in Int) /\ \A h \in uids \ more : one[h] = 0
      BY <1>21
    <3> HIDE DEF uids, more
    <3> QED BY <1>4, <1>19, <3>1, SumOnSupport
  <2>2. SumFunctionOnSet(one, more) = Cardinality(more) * 1
    <3>1. \A h \in more : one[h] = 1
      BY <1>19, <1>21
    <3> HIDE DEF more
    <3> QED BY <1>19, <3>1, SumOnCount
  <2> HIDE DEF uids, more
  <2> QED BY <2>1, <2>2, <1>13, <1>18
<1>24. SumFunctionOnSet(whole, uids) = Total
  <2>1. \A h \in uids : floor[h] \in Int /\ one[h] \in Int /\ whole[h] = floor[h] + one[h]
    BY <1>21
  <2>2. SumFunctionOnSet(whole, uids)
          = SumFunctionOnSet(floor, uids) + SumFunctionOnSet(one, uids)
    <3> HIDE DEF uids
    <3> QED BY <1>4, <2>1, SumOnPlus
  <2> HIDE DEF uids
  <2> QED BY <2>2, <1>0, <1>12, <1>13, <1>23
<1>25. Pay(whole)
  <2> HIDE DEF uids
  <2> QED BY <1>4, <1>21, <1>22 DEF Pay
<1>26. sent \in SUBSET uids
  OBVIOUS
<1>27. SumFunction(v) = Total
  <2>1. SumFunction(Restrict(whole, sent)) = SumFunctionOnSet(whole, sent)
    <3> HIDE DEF sent, uids
    <3> QED BY <1>22, <1>25, <1>26, RestrictPays
  <2>2. SumFunctionOnSet(whole, uids) = SumFunctionOnSet(whole, sent)
    <3>1. (\A h \in uids : whole[h] \in Int) /\ \A h \in uids \ sent : whole[h] = 0
      BY <1>21
    <3> HIDE DEF uids, sent
    <3> QED BY <1>4, <1>26, <3>1, SumOnSupport
  <2> HIDE DEF v, sent, uids
  <2> QED BY <1>1, <2>1, <2>2, <1>24
<1>28. \A h \in uids : At(v, h) = whole[h]
  <2>1. DOMAIN v = sent /\ \A h \in sent : v[h] = whole[h]
    <3> HIDE DEF v, sent
    <3> QED BY <1>1 DEF Restrict
  <2>2. \A h \in uids \ sent : whole[h] = 0
    BY <1>21
  <2> HIDE DEF v, uids, sent
  <2> QED BY <1>26, <2>1, <2>2 DEF At
<1>29. \A h \in D \ uids : At(v, h) = 0 /\ w[h] = 0
  <2>1. DOMAIN v = sent
    <3> HIDE DEF v, sent
    <3> QED BY <1>1 DEF Restrict
  <2>2. \A h \in D \ uids : w[h] = 0
    BY <1>2
  <2> HIDE DEF v, uids, sent
  <2> QED BY <1>26, <2>1, <2>2 DEF At
<1> HIDE DEF v, uids, sent, more
<1>30. ASSUME NEW h \in D
       PROVE At(v, h) * mass < w[h] * Total + mass /\ At(v, h) * mass > w[h] * Total - mass
  <2>1. CASE h \in uids
    <3> DEFINE x == w[h] * Total
               y == floor[h] * mass
    <3>1. x = y + rest[h] /\ rest[h] \in Nat /\ rest[h] < mass
      BY <2>1, <1>12
    <3>2. y \in Nat
      BY <2>1, <1>7, <1>12, NatProduct
    <3>3. At(v, h) * mass = (floor[h] + one[h]) * mass
      BY <2>1, <1>21, <1>28
    <3>4. one[h] = 0 \/ (one[h] = 1 /\ rest[h] > 0)
      BY <2>1, <1>20, <1>21
    <3>5. floor[h] \in Nat
      BY <2>1, <1>12
    <3>6. At(v, h) * mass = y \/ (At(v, h) * mass = y + mass /\ rest[h] > 0)
      <4>1. (floor[h] + 0) * mass = y /\ (floor[h] + 1) * mass = y + mass
        BY <3>5, <1>7
      <4> QED BY <3>3, <3>4, <4>1
    <3> HIDE DEF x, y
    <3>7. At(v, h) * mass < x + mass /\ At(v, h) * mass > x - mass
      BY <3>1, <3>2, <3>6, <1>7
    <3> QED BY <3>7 DEF x
  <2>2. CASE h \notin uids
    <3>1. At(v, h) = 0 /\ w[h] = 0
      BY <2>2, <1>29
    <3>2. At(v, h) * mass = 0 /\ w[h] * Total = 0
      BY <3>1, <1>0, <1>7
    <3> QED BY <3>2, <1>7
  <2> QED BY <2>1, <2>2
<1> QED BY <1>7, <1>27, <1>30 DEF v

-----------------------------------------------------------------------------
(* The inductive invariant, and what follows from it. *)
Reading == {"fetch", "receipts", "audit", "operators", "divide"}

\* What was published and what the chain holds do not change while they are read.
InputsInv ==
    /\ doc \in Documents /\ newcomers \in Catalogues /\ block \in Serving
    /\ standings \in Standings /\ burnTo \in Owners
    /\ phase \in Reading \cup {"combine", "fold", "send", "done"}

\* Rows are those of a settlement that holds, or none.
ReadInv ==
    /\ settled = None \/ (settled = SettleEpoch(doc.rows) /\ doc.rated /\ Holds(doc))
    /\ listed \in {{}, newcomers}

\* The division is sound, and nothing is earned before the rows are divided.
SplitInv == Sound(split, settled) /\ (phase \in Reading => split.earnings = None)

\* With an owner to burn to, the system pools always pay something.
PooledInv ==
    /\ Pay(pooled) /\ DOMAIN pooled \subseteq Nat
    /\ phase \in {"fold", "send", "done"} /\ burnTo # {} => SumFunction(pooled) > 0

FoldedInv ==
    /\ Pay(folded) /\ DOMAIN folded \subseteq Nat
    /\ phase \in {"send", "done"} /\ burnTo # {} =>
          /\ At(folded, Owner) = split.burned * SumFunction(pooled)
                                   + At(pooled, Owner) * split.modelling
          /\ SumFunction(folded) = SumFunction(pooled) * Scale

VectorInv ==
    phase = "done" => vector = QuantiseWeights(Restrict(folded, DOMAIN folded \cap registered))

Inv == InputsInv /\ ReadInv /\ SplitInv /\ PooledInv /\ FoldedInv /\ VectorInv

\* Every state starts with nothing read and nothing paid.
LEMMA InitInv == Init => Inv
<1> SUFFICES ASSUME Init PROVE Inv
  OBVIOUS
<1>1. InputsInv
  BY DEF Init, InputsInv, Reading
<1>2. ReadInv /\ VectorInv
  BY DEF Init, ReadInv, VectorInv
<1>3. SplitInv
  <2>1. /\ split.serving = 0 /\ split.modelling = Scale /\ split.shares = None
        /\ split.earnings = None /\ split.burned = 0
    BY DEF Init
  <2>2. DOMAIN None \subseteq Hotkeys /\ SumFunction(None) = 0 /\ Pay(None) /\ DOMAIN None = {}
    BY NonePays
  <2> QED BY <2>1, <2>2, SizesAssumption DEF SplitInv, Sound
<1>4. PooledInv /\ FoldedInv
  BY NonePays DEF Init, PooledInv, FoldedInv
<1> QED BY <1>1, <1>2, <1>3, <1>4 DEF Inv

\* The rows and operators that are divided have their types.
LEMMA RowsOfInv == ReadInv /\ doc \in Documents => GoodRows(settled)
  BY SettledRows, NoneRows DEF ReadInv

\* ... and the operators.
LEMMA ListedOfInv ==
  ReadInv /\ newcomers \in Catalogues => listed \in SUBSET Hotkeys /\ IsFiniteSet(listed)
  BY CataloguesAssumption, FS_EmptySet DEF ReadInv

\* A step that only reads leaves what is paid alone.
LEMMA ReadingStep ==
  ASSUME Inv, UNCHANGED <<inputs, split, pooled, folded, vector>>,
         phase \in Reading, phase' \in Reading, ReadInv'
  PROVE Inv'
<1>1. InputsInv'
  BY DEF Inv, InputsInv, inputs
<1>2. SplitInv'
  <2>1. split' = split /\ split.earnings = None
    BY DEF Inv, SplitInv
  <2>2. DOMAIN split.earnings = {}
    BY <2>1, NonePays
  <2> QED BY <2>1, <2>2 DEF Inv, SplitInv, Sound
<1>3. PooledInv' /\ FoldedInv' /\ VectorInv'
  BY DEF Inv, PooledInv, FoldedInv, VectorInv, Reading
<1> QED BY <1>1, <1>2, <1>3 DEF Inv

\* Every step preserves the invariant.
LEMMA NextInv == Inv /\ [Next]_vars => Inv'
<1> SUFFICES ASSUME Inv, [Next]_vars PROVE Inv'
  OBVIOUS
<1> USE DEF Inv
<1>1. CASE ReadFails
  BY <1>1, ReadingStep DEF ReadFails, Goes, Reading, inputs, ReadInv
<1>2. CASE Fetch
  BY <1>2, ReadingStep DEF Fetch, Goes, Reading, inputs, ReadInv
<1>3. CASE FetchReceipts
  BY <1>3, ReadingStep DEF FetchReceipts, Goes, Reading, inputs, ReadInv
<1>4. CASE Audit
  <2>1. /\ UNCHANGED <<inputs, split, pooled, folded, vector>>
        /\ phase \in Reading /\ phase' \in Reading
    BY <1>4 DEF Audit, Goes, Reading
  <2>2. ReadInv'
    BY <1>4 DEF Audit, Goes, ReadInv, inputs, Holds
  <2> QED BY <2>1, <2>2, ReadingStep
<1>5. CASE FetchOperators
  BY <1>5, ReadingStep DEF FetchOperators, Goes, Reading, inputs, ReadInv
<1>6. CASE ServingFold
  <2>1. /\ phase = "divide" /\ phase' = "combine" /\ UNCHANGED inputs
        /\ split' = SplitOf(settled, billing, listed)
        /\ UNCHANGED <<settled, billing, listed, pooled, folded, vector>>
    BY <1>6 DEF ServingFold, Goes
  <2>2. InputsInv' /\ ReadInv' /\ PooledInv' /\ FoldedInv' /\ VectorInv'
    BY <2>1 DEF InputsInv, ReadInv, PooledInv, FoldedInv, VectorInv, inputs
  <2>3. Sound(split, settled)'
    <3>1. Sound(SplitOf(settled, billing, listed), settled)
      BY RowsOfInv, ListedOfInv, SplitFits DEF InputsInv
    <3>2. settled' = settled
      BY <2>1
    <3> QED BY <2>1, <3>1, <3>2 DEF Sound
  <2> QED BY <2>1, <2>2, <2>3 DEF SplitInv, Reading
<1>7. CASE CombinePools
  <2>1. /\ phase = "combine" /\ phase' = "fold" /\ UNCHANGED inputs
        /\ pooled' = Combine(standings)
        /\ UNCHANGED <<settled, billing, listed, split, folded, vector>>
    BY <1>7 DEF CombinePools, Goes
  <2>2. InputsInv' /\ ReadInv' /\ FoldedInv' /\ VectorInv'
    BY <2>1 DEF InputsInv, ReadInv, FoldedInv, VectorInv, inputs
  <2>3. SplitInv'
    BY <2>1 DEF SplitInv, Reading, Sound
  <2>4. PooledInv'
    <3>1. /\ Pay(pooled') /\ DOMAIN pooled' \subseteq Nat
          /\ burnTo # {} => SumFunction(pooled') > 0
      BY <2>1, CombinePays DEF InputsInv
    <3>2. burnTo' = burnTo
      BY <2>1 DEF inputs
    <3> QED BY <3>1, <3>2 DEF PooledInv, Pay
  <2> QED BY <2>2, <2>3, <2>4
<1>8. CASE Fold
  <2>1. /\ phase = "fold" /\ phase' = "send" /\ UNCHANGED inputs
        /\ folded' = Together(pooled, split, burnTo)
        /\ UNCHANGED <<settled, billing, listed, split, pooled, vector>>
    BY <1>8 DEF Fold, Goes, Together, Times, Mass
  <2>2. InputsInv' /\ ReadInv' /\ VectorInv'
    BY <2>1 DEF InputsInv, ReadInv, VectorInv, inputs
  <2>3. SplitInv' /\ PooledInv'
    BY <2>1 DEF SplitInv, PooledInv, Reading, Sound, inputs
  <2>4. FoldedInv'
    <3> DEFINE all == Together(pooled, split, burnTo)
               mass == SumFunction(pooled)
    <3>1. /\ Pay(all) /\ DOMAIN all \subseteq Nat
          /\ burnTo # {} /\ mass > 0 =>
                /\ At(all, Owner) = split.burned * mass + At(pooled, Owner) * split.modelling
                /\ SumFunction(all) = mass * Scale
      BY TogetherPays DEF InputsInv, SplitInv, PooledInv
    <3>2. burnTo # {} => mass > 0
      BY <2>1 DEF PooledInv
    <3> HIDE DEF all
    <3>3. folded' = all /\ pooled' = pooled /\ split' = split /\ burnTo' = burnTo
      BY <2>1 DEF inputs, all
    <3> QED BY <3>1, <3>2, <3>3 DEF FoldedInv, Pay
  <2> QED BY <2>2, <2>3, <2>4
<1>9. CASE Submit
  <2>1. /\ phase = "send" /\ phase' = "done" /\ UNCHANGED inputs
        /\ vector' = QuantiseWeights(Restrict(folded, DOMAIN folded \cap registered))
        /\ UNCHANGED <<settled, billing, listed, split, pooled, folded>>
    BY <1>9 DEF Submit, Goes
  <2>2. InputsInv' /\ ReadInv' /\ PooledInv' /\ FoldedInv'
    BY <2>1 DEF InputsInv, ReadInv, PooledInv, FoldedInv, inputs
  <2>3. SplitInv'
    BY <2>1 DEF SplitInv, Reading, Sound
  <2>4. VectorInv'
    BY <2>1 DEF VectorInv, inputs
  <2> QED BY <2>2, <2>3, <2>4
<1>10. CASE UNCHANGED vars
  BY <1>10 DEF vars, inputs, InputsInv, ReadInv, SplitInv, PooledInv, FoldedInv, VectorInv
<1> QED BY <1>1, <1>2, <1>3, <1>4, <1>5, <1>6, <1>7, <1>8, <1>9, <1>10 DEF Next

\* The parts of the settlement keep to one another at every step: the rows are
\* those of a settlement that holds, the division is sound, the pools and the
\* fold are amounts, the vector is that of the folded pools.
THEOREM InvAlways == Spec => []Inv
<1>1. Init => Inv
  BY InitInv
<1>2. Inv /\ [Next]_vars => Inv'
  BY NextInv
<1> QED BY <1>1, <1>2, PTL DEF Spec

\* The serving pool is paid or burned to the last unit, and what the owner and
\* the vector as a whole get follows from it.
THEOREM PaidOrBurned == Spec => []PoolIsPaidOrBurned
<1>1. Inv => PoolIsPaidOrBurned
  <2> SUFFICES ASSUME Inv PROVE PoolIsPaidOrBurned
    OBVIOUS
  <2>1. /\ SumFunction(split.shares) + split.burned = split.serving
        /\ split.burned >= 0
        /\ \A h \in DOMAIN split.shares : split.shares[h] >= 0
    BY DEF Inv, SplitInv, Sound, Pay
  <2> QED BY <2>1 DEF Inv, FoldedInv, PoolIsPaidOrBurned
<1> QED BY <1>1, InvAlways, PTL

\* Rows of one operator, and its coldkey, are read off the figures as off the evidence.
LEMMA FiguresOfEvidence ==
  ASSUME NEW rows, IsFiniteSet(DOMAIN rows), DOMAIN rows \subseteq Nat,
         NEW ours, ours = SettleEpoch(rows)
  PROVE /\ DOMAIN ours = DOMAIN rows /\ OperatorsOf(ours) = OperatorsOf(rows)
        /\ \A c \in DOMAIN rows : ours[c] = SettleRow(rows[c])
        /\ \A c \in DOMAIN rows : /\ ours[c].operator = rows[c].operator
                                  /\ ours[c].team = rows[c].team
        /\ \A o : ColdkeyOf(ours, o) = ColdkeyOf(rows, o)
<1>1. DOMAIN ours = DOMAIN rows /\ \A c \in DOMAIN rows : ours[c] = SettleRow(rows[c])
  BY DEF SettleEpoch
<1>2. ASSUME NEW c \in DOMAIN rows
      PROVE /\ ours[c].operator = rows[c].operator /\ ours[c].team = rows[c].team
            /\ ours[c].coldkey = rows[c].coldkey
  BY <1>1 DEF SettleRow
<1>3. OperatorsOf(ours) = OperatorsOf(rows)
  BY <1>1, <1>2 DEF OperatorsOf
<1>4. ASSUME NEW o PROVE ColdkeyOf(ours, o) = ColdkeyOf(rows, o)
  <2> DEFINE named == {c \in CardsOf(rows, o) : rows[c].coldkey # NoColdkey}
             same == {c \in CardsOf(ours, o) : ours[c].coldkey # NoColdkey}
             m == Max(named)
  <2>1. same = named
    BY <1>1, <1>2 DEF CardsOf
  <2>2. ColdkeyOf(rows, o) = IF named = {} THEN NoColdkey ELSE rows[Max(named)].coldkey
    BY DEF ColdkeyOf
  <2>3. ColdkeyOf(ours, o) = IF same = {} THEN NoColdkey ELSE ours[Max(same)].coldkey
    BY DEF ColdkeyOf
  <2>4. ASSUME named # {} PROVE Max(named) \in DOMAIN rows
    <3>1. named \in SUBSET DOMAIN rows
      BY DEF CardsOf
    <3> HIDE DEF named
    <3>2. IsFiniteSet(named) /\ named \in SUBSET Nat
      BY <3>1, FS_Subset
    <3> QED BY <3>1, <3>2, <2>4, LastName
  <2>5. named # {} => ours[Max(named)].coldkey = rows[Max(named)].coldkey
    <3> HIDE DEF named
    <3> QED BY <2>4, <1>2
  <2>6. Max(same) = Max(named)
    <3> HIDE DEF same, named
    <3> QED BY ONLY <2>1, Zenon
  <2> HIDE DEF same, named
  <2> QED BY <2>1, <2>2, <2>3, <2>5, <2>6
<1> QED BY <1>1, <1>2, <1>3, <1>4

\* What is earned is of a settlement that was read whole and holds, and of one
\* coldkey one operator earns it.
THEOREM EarningsDue == Spec => []EarningsAreDue
<1>1. Inv => EarningsAreDue
  <2> DEFINE earning == {h \in DOMAIN split.earnings : split.earnings[h] > 0}
             rows == doc.rows
             ours == SettleEpoch(rows)
  <2> SUFFICES ASSUME Inv, earning # {}
               PROVE /\ doc.root # "differs" /\ ~doc.forged /\ doc.rated
                     /\ DOMAIN doc.published = DOMAIN rows
                     /\ \A c \in DOMAIN rows :
                           /\ Compared(doc.published[c]) = Compared(SettleRow(rows[c]))
                           /\ rows[c].operator \in earning => ~rows[c].team
                     /\ earning \subseteq OperatorsOf(rows)
                     /\ \A a \in earning, b \in earning :
                           ColdkeyOf(rows, a) = ColdkeyOf(rows, b)
                             /\ ColdkeyOf(rows, a) # NoColdkey => a = b
    BY DEF EarningsAreDue
  <2>1. earning \subseteq OperatorsOf(settled) \ ExcludedOf(settled)
    BY DEF Inv, SplitInv, Sound
  <2>2. settled # None
    BY <2>1, NonePays DEF OperatorsOf
  <2>3. settled = ours /\ doc.rated /\ Holds(doc)
    BY <2>2 DEF Inv, ReadInv
  <2>4. /\ IsFiniteSet(DOMAIN rows) /\ DOMAIN rows \subseteq Nat /\ doc \in Documents
    BY DocumentsAssumption DEF Inv, InputsInv
  <2>5. GoodRows(ours)
    BY <2>4, SettledRows
  <2>6. /\ DOMAIN doc.published = DOMAIN ours
        /\ \A c \in DOMAIN ours : Compared(doc.published[c]) = Compared(ours[c])
        /\ doc.root # "differs" /\ ~doc.forged
    BY <2>3 DEF Holds, ReceiptsAddUp
  <2> HIDE DEF earning, ours
  <2>7. /\ DOMAIN ours = DOMAIN rows /\ OperatorsOf(ours) = OperatorsOf(rows)
        /\ \A c \in DOMAIN rows : ours[c] = SettleRow(rows[c])
        /\ \A c \in DOMAIN rows : /\ ours[c].operator = rows[c].operator
                                  /\ ours[c].team = rows[c].team
        /\ \A o : ColdkeyOf(ours, o) = ColdkeyOf(rows, o)
    BY <2>4, FiguresOfEvidence DEF ours
  <2>8. earning \subseteq OperatorsOf(ours) \ ExcludedOf(ours)
    BY <2>1, <2>3
  <2>9. \A c \in DOMAIN rows : Compared(doc.published[c]) = Compared(SettleRow(rows[c]))
    <3> TAKE c \in DOMAIN rows
    <3>1. Compared(doc.published[c]) = Compared(ours[c])
      BY <2>6, <2>7
    <3>2. ours[c] = SettleRow(rows[c])
      BY <2>7
    <3> QED BY ONLY <3>1, <3>2, Zenon
  <2>10. ASSUME NEW c \in DOMAIN rows, rows[c].operator \in earning, rows[c].team
         PROVE FALSE
    <3> DEFINE o == rows[c].operator
    <3>1. c \in CardsOf(ours, o) /\ ours[c].team
      BY <2>7, <2>10 DEF CardsOf
    <3>2. o \in Team(ours)
      BY <3>1, <2>8, <2>10 DEF Team
    <3> QED BY <3>2, <2>8, <2>10 DEF ExcludedOf
  <2>11. ASSUME NEW a \in earning, NEW b \in earning, a # b,
                ColdkeyOf(rows, a) = ColdkeyOf(rows, b), ColdkeyOf(rows, a) # NoColdkey
         PROVE FALSE
    <3>1. ColdkeyOf(ours, a) = ColdkeyOf(ours, b) /\ ColdkeyOf(ours, a) # NoColdkey
      BY <2>7, <2>11
    <3>2. /\ a \in OperatorsOf(ours) \ Team(ours) /\ b \in OperatorsOf(ours) \ Team(ours)
          /\ a \notin ExcludedOf(ours) /\ b \notin ExcludedOf(ours)
      BY <2>8 DEF ExcludedOf
    <3>3. a \in Nat /\ b \in Nat
      BY <3>2, <2>5, OperatorsFinite, HotkeysAssumption
    <3>4. TotalOf(ours, a) \in Nat /\ TotalOf(ours, b) \in Nat
      BY <2>5, TotalNat
    <3>5. Ahead(ours, a, b) \/ Ahead(ours, b, a)
      BY <3>3, <3>4, <2>11 DEF Ahead
    <3>6. a \in Siblings(ours, b) /\ b \in Siblings(ours, a)
      BY <3>1, <3>2 DEF Siblings
    <3> QED BY <3>1, <3>2, <3>5, <3>6 DEF ExcludedOf
  <2> QED BY <2>3, <2>6, <2>7, <2>8, <2>9, <2>10, <2>11
<1> QED BY <1>1, InvAlways, PTL

\* The vector adds up to the chain's total, each value less than a unit from
\* the exact share of its hotkey.
THEOREM VectorWhole == Spec => []VectorIsWhole
<1>1. Inv => VectorIsWhole
  <2> DEFINE S == DOMAIN folded \cap registered
             paid == Restrict(folded, S)
  <2> SUFFICES ASSUME Inv, phase = "done", SumFunction(paid) > 0
               PROVE /\ SumFunction(vector) = Total
                     /\ \A h \in DOMAIN paid :
                           /\ At(vector, h) * SumFunction(paid)
                                < paid[h] * Total + SumFunction(paid)
                           /\ At(vector, h) * SumFunction(paid)
                                > paid[h] * Total - SumFunction(paid)
    BY DEF VectorIsWhole
  <2>1. Pay(folded) /\ DOMAIN folded \subseteq Nat /\ S \in SUBSET DOMAIN folded
    BY DEF Inv, FoldedInv
  <2>2. vector = QuantiseWeights(paid)
    BY DEF Inv, VectorInv
  <2> HIDE DEF S
  <2>3. Pay(paid) /\ DOMAIN paid = S
    BY <2>1, RestrictPays
  <2>4. DOMAIN paid \subseteq Nat
    BY <2>1, <2>3
  <2> HIDE DEF paid
  <2>5. LET v == QuantiseWeights(paid)
            mass == SumFunction(paid)
        IN  /\ SumFunction(v) = Total
            /\ \A h \in DOMAIN paid : /\ At(v, h) * mass < paid[h] * Total + mass
                                      /\ At(v, h) * mass > paid[h] * Total - mass
    BY <2>3, <2>4, QuantiseKeeps
  <2> QED BY <2>2, <2>5
<1> QED BY <1>1, InvAlways, PTL

-----------------------------------------------------------------------------
(* The probes: limits, formats and margins. *)
\* within is the documentation's inside the limits.
LEMMA WithinIsInside ==
  ASSUME NEW envelope \in [long : Nat, ttft : Nat, longTtft : Nat, longTotal : Nat],
         NEW a, a.tokens \in Int, a.ttft \in Int, a.total \in Int
  PROVE Within(envelope, a) <=> IsInside(envelope, a)
<1> DEFINE long == envelope.long > 0 /\ a.tokens > envelope.long
<1>1. CASE ~long
  BY <1>1 DEF Within, IsInside
<1>2. CASE long /\ envelope.longTtft > 0
  BY <1>2 DEF Within, IsInside
<1>3. CASE long /\ envelope.longTtft = 0
  BY <1>3 DEF Within, IsInside
<1> QED BY <1>1, <1>2, <1>3

\* What format_failure refuses is not a reply the documentation describes.
LEMMA BrokenIsNotWellFormed ==
  ASSUME NEW a, a.calls \in Seq(Range(a.calls)), NEW tools, BrokenFormat(tools, a.finish, a.calls)
  PROVE ~WellFormed(a, tools)
<1>1. a.calls # <<>> => 1 \in DOMAIN a.calls
  <2> DEFINE calls == a.calls
  <2>1. calls \in Seq(Range(calls))
    OBVIOUS
  <2> HIDE DEF calls
  <2>2. calls # <<>> => Len(calls) \in Nat \ {0}
    BY <2>1, EmptySeq
  <2>3. DOMAIN calls = 1..Len(calls)
    BY <2>1
  <2> QED BY <2>2, <2>3 DEF calls
<1>2. tools = {} /\ a.calls # <<>> => \E k \in DOMAIN a.calls : a.calls[k].name \notin tools
  BY <1>1
<1>3. CASE \E k \in DOMAIN a.calls : a.calls[k].name \notin tools
  BY <1>3 DEF WellFormed
<1>4. CASE a.finish \notin {"stop", "tool_calls", "length"}
  BY <1>4 DEF WellFormed
<1>5. CASE a.finish = "tool_calls" /\ a.calls = <<>>
  BY <1>5 DEF WellFormed
<1>6. CASE a.finish = "stop" /\ a.calls # <<>>
  BY <1>6 DEF WellFormed
<1>7. CASE a.finish \notin {"stop", "length"} /\ \E k \in DOMAIN a.calls : a.calls[k].arguments = "broken"
  BY <1>7 DEF WellFormed
<1> QED BY <1>2, <1>3, <1>4, <1>5, <1>6, <1>7 DEF BrokenFormat

\* A mean over the threshold is a sum over it: margins within the tolerance only lower it.
LEMMA CheatIsProven ==
  ASSUME NEW gaps \in Seq(Nat), NEW c, c.threshold \in Int, c.separated \in BOOLEAN,
         Verdict(Summarise(gaps), c) = "cheat"
  PROVE c.separated /\ 100 * Parts * SumFunction(gaps) > c.threshold * Len(gaps)
<1> DEFINE S == {k \in DOMAIN gaps : gaps[k] > Tolerance}
           mean == (Parts * SumFunction(Restrict(gaps, S))) \div Len(gaps)
<1>1. gaps # <<>> /\ Len(gaps) \in Nat \ {0}
  BY DEF Verdict, Summarise, Empty
<1>2. c.separated /\ 100 * mean > c.threshold
  BY <1>1 DEF Verdict, Summarise, Empty
<1>3. Pay(gaps)
  <2>1. IsFiniteSet(1..Len(gaps))
    BY FS_Interval
  <2>2. DOMAIN gaps = 1..Len(gaps) /\ gaps = [k \in DOMAIN gaps |-> gaps[k]]
    OBVIOUS
  <2> QED BY <2>1, <2>2 DEF Pay
<1>4. SumFunction(Restrict(gaps, S)) \in Nat /\ SumFunction(gaps) \in Nat
      /\ SumFunction(Restrict(gaps, S)) <= SumFunction(gaps)
  BY <1>3, RestrictPays, SumIsNat
<1> DEFINE n == Len(gaps)
           part == SumFunction(Restrict(gaps, S))
           all == SumFunction(gaps)
<1>5. mean \in Nat /\ mean * n <= Parts * part
  <2>1. Parts * part \in Nat
    BY <1>4 DEF Parts
  <2> DEFINE whole == Parts * part
  <2>2. n \in Nat \ {0}
    BY <1>1
  <2> HIDE DEF n, whole
  <2>3. (whole \div n) \in Nat /\ (whole \div n) * n <= whole
    BY <2>1, <2>2, Division DEF whole
  <2> QED BY <2>3 DEF n, whole
<1>6. 100 * Parts * all > c.threshold * n
  <2> HIDE DEF n, part, all, mean
  <2>1. n \in Nat \ {0} /\ part \in Nat /\ all \in Nat /\ part <= all
    BY <1>1, <1>4 DEF n, part, all
  <2>2. Parts * part <= Parts * all
    BY <2>1 DEF Parts
  <2>3. (100 * mean - c.threshold) * n > 0
    BY <1>2, <1>5, <2>1
  <2>4. 100 * (mean * n) > c.threshold * n
    BY <1>5, <2>1, <2>3
  <2> QED BY <1>5, <2>1, <2>2, <2>4 DEF Parts
<1> QED BY <1>2, <1>6

-----------------------------------------------------------------------------
(* The invariant. *)
ListedModels == {l.model : l \in Listings}
Kinds == {"hidden", "exact", "canary"}
ProbesTypes ==
    /\ world \in [DOMAIN CardList -> Listings] /\ listing \in [DOMAIN CardList -> Listings]
    /\ next \in Nat \ {0} /\ (pc = "probe" => next \in DOMAIN CardList)
    /\ round \in Seq({"pass", "fail", "unproven", "none"}) /\ kinds \in Seq(Kinds)
    /\ fetched \in Seq([model : ListedModels, set : UNION {ServerSets(m) : m \in ListedModels}])

\* The item sets in use are of the model, and those of its own have no limits.
HeldInv ==
    pc = "probe" =>
    /\ held # {}
    /\ \A set \in held : IF local THEN set.envelope = NoEnvelope ELSE set \in ServerSets(listing[next].model)

\* What the server sent in a cycle is of the model it is kept for.
FetchedInv ==
    \A k \in DOMAIN fetched : fetched[k].set \in ServerSets(fetched[k].model)

\* A round is what is left of one of the plans of the card.
RoundInv ==
    pc = "probe" =>
    /\ \E plan \in Plans(listing[next]) \ {<<>>} :
          /\ Len(round) < Len(plan) /\ Len(kinds) = Len(plan) - Len(round)
          /\ \A k \in DOMAIN kinds : kinds[k] = plan[Len(round) + k]
    /\ \A k \in DOMAIN round : round[k] = "pass"

\* Who asks a chat found the model in the catalogue, and its calibration when it started.
ChatInv ==
    /\ pc # "dead" => Starts
    /\ pc = "chat" => Declared[next].model \in DOMAIN Catalogue

ProbesInv == ProbesTypes /\ HeldInv /\ FetchedInv /\ RoundInv /\ ChatInv

\* What a card is planned for.
LEMMA PlansAreKinds ==
  ASSUME NEW card
  PROVE Plans(card) \in SUBSET Seq(Kinds)
<1>1. {<<>>, <<"hidden">>, <<"exact">>, <<"canary">>} \subseteq Seq(Kinds)
  BY DEF Kinds
<1>2. AdmissionKinds \in Seq(Kinds)
  BY DEF AdmissionKinds, Kinds
<1> QED BY <1>1, <1>2 DEF Plans

\* The kind that is asked is the first one left, or hidden for exact.
LEMMA KindIsOfPlan ==
  ASSUME ProbesInv, pc = "probe"
  PROVE /\ kinds # <<>> /\ Kind \in Kinds
        /\ Kind = Head(kinds) \/ (Head(kinds) = "exact" /\ Kind = "hidden")
        /\ \E plan \in Plans(listing[next]) : Len(round) + 1 \in DOMAIN plan /\ Head(kinds) = plan[Len(round) + 1]
<1>1. PICK plan \in Plans(listing[next]) \ {<<>>} :
          /\ Len(round) < Len(plan) /\ Len(kinds) = Len(plan) - Len(round)
          /\ \A k \in DOMAIN kinds : kinds[k] = plan[Len(round) + k]
  BY DEF ProbesInv, RoundInv
<1>2. plan \in Seq(Kinds)
  BY PlansAreKinds
<1>3. kinds \in Seq(Kinds) /\ Len(round) \in Nat
  BY DEF ProbesInv, ProbesTypes
<1>4. Len(kinds) > 0 /\ 1 \in DOMAIN kinds /\ Len(round) + 1 \in DOMAIN plan
  BY <1>1, <1>2, <1>3
<1>5. kinds # <<>> /\ Head(kinds) = kinds[1] /\ kinds[1] = plan[Len(round) + 1] /\ Head(kinds) \in Kinds
  BY <1>1, <1>3, <1>4
<1> QED BY <1>4, <1>5 DEF Kind, Kinds

\* The item set in use and its limits.
LEMMA LimitsOfHeld ==
  ASSUME ProbesInv, pc = "probe"
  PROVE /\ HeldSet.envelope = IF local THEN NoEnvelope ELSE EnvelopeOf[listing[next].model]
        /\ listing[next] \in Listings
        /\ local \/ EnvelopeOf[listing[next].model] \in [long : Nat, ttft : Nat, longTtft : Nat, longTotal : Nat]
<1>1. HeldSet \in held /\ listing[next] \in Listings
  BY DEF ProbesInv, ProbesTypes, HeldInv, HeldSet
<1>2. listing[next].model \in {l.model : l \in Listings}
  BY <1>1
<1> QED BY <1>1, <1>2, ProbesAssumption DEF ProbesInv, HeldInv

-----------------------------------------------------------------------------
(* A report of a card is judged. *)
LEMMA ReportIsJudged ==
  ASSUME ProbesInv, pc = "probe", NEW i \in PoolFor(HeldSet, Kind), NEW a \in Answers,
         NEW verdict, verdict = GpuVerdict(Kind, HeldSet, i, a, listing[next].digest),
         verdict # "unproven"
  PROVE RecordedIsJudged(CardReport(i, a, verdict)) /\ RoundIsInARow(CardReport(i, a, verdict))
<1> DEFINE r == CardReport(i, a, verdict)
           found == Judge(Kind, HeldSet, i, a)
<1>1. /\ r.card = next /\ r.kind = Kind /\ r.model = listing[next].model /\ r.item = i /\ r.answer = a
      /\ r.verdict = verdict /\ r.failed = (verdict = "fail") /\ r.listed = listing[next]
      /\ r.before = round /\ r.source = local /\ r.wants = HeldSet.items[i]
  BY DEF CardReport
<1>2. found \in {"pass", "fail", "unproven"}
  BY KindIsOfPlan DEF Judge, Judged, Kinds
<1>3. found # "unproven" => (found = "pass" <=> IsRight(r))
  <2>1. CASE Kind = "exact"
    <3>1. Referenced(HeldSet.items[i])
      BY <2>1 DEF PoolFor
    <3> QED BY <1>1, <2>1, <3>1 DEF Judge, Judged, IsRight
  <2>2. CASE Kind = "canary"
    BY <1>1, <2>2 DEF Judge, Judged, IsRight
  <2>3. CASE Kind = "hidden"
    BY <1>1, <2>3 DEF Judge, Judged, IsRight
  <2> QED BY <2>1, <2>2, <2>3, KindIsOfPlan DEF Kinds
<1>4. Within(HeldSet.envelope, a) <=> (local \/ IsInside(EnvelopeOf[listing[next].model], a))
  <2>0. a.tokens \in Int /\ a.ttft \in Int /\ a.total \in Int
    BY ProbesAssumption
  <2>1. CASE local
    BY <2>0, <2>1, LimitsOfHeld DEF Within, NoEnvelope
  <2>2. CASE ~local
    <3>1. EnvelopeOf[listing[next].model] \in [long : Nat, ttft : Nat, longTtft : Nat, longTotal : Nat]
      BY <2>2, LimitsOfHeld
    <3> QED BY <2>0, <2>2, <3>1, LimitsOfHeld, WithinIsInside
  <2> QED BY <2>1, <2>2
<1>5. OtherArtifact(r) <=> (a.digest # "" /\ listing[next].digest # "" /\ a.digest # listing[next].digest)
  BY <1>1 DEF OtherArtifact
<1>6. RecordedIsJudged(r)
  <2> HIDE DEF r, found
  <2>1. verdict = IF OtherArtifact(r) THEN "fail"
                  ELSE IF found = "pass" /\ Kind # "exact" /\ ~Within(HeldSet.envelope, a) THEN "fail" ELSE found
    BY <1>5 DEF GpuVerdict, found
  <2>2. verdict \in {"pass", "fail"}
    BY <1>2, <2>1
  <2>3. verdict = "pass" <=> ~OtherArtifact(r) /\ IsRight(r)
            /\ (Kind = "exact" \/ local \/ IsInside(EnvelopeOf[listing[next].model], a))
    BY <1>2, <1>3, <1>4, <2>1
  <2> QED BY <1>1, <2>2, <2>3 DEF RecordedIsJudged
<1>7. RoundIsInARow(r)
  <2>1. PICK plan \in Plans(listing[next]) : Len(round) + 1 \in DOMAIN plan /\ Head(kinds) = plan[Len(round) + 1]
    BY KindIsOfPlan
  <2>2. Len(round) \in Nat /\ (Len(round) = 0 => round = <<>>)
    BY EmptySeq DEF ProbesInv, ProbesTypes
  <2>3. \A k \in DOMAIN round : round[k] = "pass"
    BY DEF ProbesInv, RoundInv
  <2>4. listing[next].due /\ Kind = "canary" => Len(round) = 4
    <3>1. SUFFICES ASSUME listing[next].due, Kind = "canary" PROVE Len(round) = 4
      OBVIOUS
    <3>2. Head(kinds) = "canary"
      BY <3>1, KindIsOfPlan
    <3>3. CASE plan = <<"hidden">>
      BY <2>1, <2>2, <3>2, <3>3
    <3>4. CASE plan = AdmissionKinds
      <4>1. /\ AdmissionKinds[1] = "hidden" /\ AdmissionKinds[2] = "hidden"
            /\ AdmissionKinds[3] = "hidden" /\ AdmissionKinds[4] = "hidden" /\ DOMAIN AdmissionKinds = 1..5
        BY DEF AdmissionKinds
      <4> DEFINE n == Len(round) + 1
      <4>2. n \in 1..5 /\ AdmissionKinds[n] = "canary"
        BY <2>1, <3>2, <3>4, <4>1
      <4> HIDE DEF n
      <4>3. n \notin {1, 2, 3, 4}
        BY <4>1, <4>2
      <4>4. n = 5
        BY <4>2, <4>3
      <4>5. Len(round) \in Nat /\ Len(round) + 1 = 5
        BY <2>2, <4>4 DEF n
      <4>6. \A m \in Nat : m + 1 = 5 => m = 4
        OBVIOUS
      <4> QED BY ONLY <4>5, <4>6
    <3> QED BY <3>1, <3>3, <3>4 DEF Plans
  <2>5. listing[next].due /\ listing[next].status = "serving" => Kind = "hidden" /\ round = <<>>
    <3>1. SUFFICES ASSUME listing[next].due, listing[next].status = "serving" PROVE Kind = "hidden" /\ round = <<>>
      OBVIOUS
    <3>2. plan = <<"hidden">>
      BY <3>1 DEF Plans
    <3>3. Len(round) = 0 /\ Head(kinds) = "hidden"
      BY <2>1, <2>2, <3>2
    <3> QED BY <2>2, <3>3, KindIsOfPlan
  <2> QED BY <1>1, <2>3, <2>4, <2>5 DEF RoundIsInARow
<1> QED BY <1>6, <1>7

(* A report of a chat is proven. *)
LEMMA ReportIsProven ==
  ASSUME ProbesInv, pc = "chat", NEW k, NEW a \in Chats
  PROVE OnlyProvenFails(ChatReport(k, a, ChatVerdict(Declared[next].model, k, a)))
<1> DEFINE model == Declared[next].model
           entry == Catalogue[model]
           verdict == ChatVerdict(model, k, a)
           r == ChatReport(k, a, verdict)
<1> SUFFICES OnlyProvenFails(r)
  OBVIOUS
<1>1. r.model = model /\ r.item = k /\ r.answer = a /\ r.verdict = verdict /\ (r.failed <=> verdict \in Failing)
  BY DEF ChatReport
<1>2. /\ a.calls \in Seq(Range(a.calls)) /\ (a.gaps = NoMargins \/ a.gaps \in Seq(Nat))
      /\ \A c \in Calibrated : c.calibration.threshold \in Int /\ c.calibration.separated \in BOOLEAN
  BY ProbesAssumption
<1>3. CASE a.digest # "" /\ a.digest # entry.digest
  <2>1. verdict = "cheat"
    BY <1>3 DEF ChatVerdict
  <2> HIDE DEF verdict, r
  <2> QED BY <1>1, <1>3, <2>1 DEF OnlyProvenFails
<1>4. CASE ~(a.digest # "" /\ a.digest # entry.digest) /\ BrokenFormat(Pool[k].tools, a.finish, a.calls)
  <2>1. verdict = "format"
    BY <1>4 DEF ChatVerdict
  <2>2. ~WellFormed(a, Pool[k].tools)
    BY <1>2, <1>4, BrokenIsNotWellFormed
  <2> HIDE DEF verdict, r
  <2> QED BY <1>1, <2>1, <2>2 DEF OnlyProvenFails
<1>5. CASE /\ ~(a.digest # "" /\ a.digest # entry.digest) /\ ~BrokenFormat(Pool[k].tools, a.finish, a.calls)
           /\ ~entry.verifiable
  <2>1. verdict = "pass"
    BY <1>5 DEF ChatVerdict, Verifiable
  <2> HIDE DEF verdict, r
  <2> QED BY <1>1, <1>5, <2>1 DEF OnlyProvenFails, Failing
<1>6. CASE /\ ~(a.digest # "" /\ a.digest # entry.digest) /\ ~BrokenFormat(Pool[k].tools, a.finish, a.calls)
           /\ entry.verifiable
  <2> DEFINE stored == CHOOSE c \in CalibrationFor(model) : TRUE
             calibration == stored.calibration
  <2>1. stored \in CalibrationFor(model) /\ stored \in Calibrated
    BY <1>6 DEF ProbesInv, ChatInv, Starts, Verifiable, CalibrationFor
  <2>2. verdict = ModelVerdict(a, calibration)
    BY <1>6 DEF ChatVerdict, Verifiable
  <2> HIDE DEF verdict, r, stored
  <2>3. verdict \in Failing \cup {"pass"} => a.ours /\ a.rebuilt /\ a.gaps # NoMargins
                                    /\ verdict = Verdict(Summarise(a.gaps), calibration)
    BY <2>2 DEF ModelVerdict, Failing
  <2>4. verdict \in Failing => /\ calibration.separated
                               /\ 100 * Parts * SumFunction(a.gaps) > calibration.threshold * Len(a.gaps)
    <3>1. ASSUME verdict \in Failing
          PROVE a.gaps \in Seq(Nat) /\ Verdict(Summarise(a.gaps), calibration) = "cheat"
      BY <1>2, <2>3, <3>1 DEF Failing, Verdict
    <3>2. calibration.threshold \in Int /\ calibration.separated \in BOOLEAN
      BY <1>2, <2>1
    <3> HIDE DEF calibration
    <3> QED BY <3>1, <3>2, CheatIsProven
  <2>5. verdict = "pass" => a.gaps # <<>>
    <3>1. Summarise(<<>>).positions = 0
      BY DEF Summarise
    <3> QED BY <2>3, <3>1 DEF Verdict, Empty
  <2> QED BY <1>1, <2>1, <2>3, <2>4, <2>5 DEF OnlyProvenFails
<1> QED BY <1>3, <1>4, <1>5, <1>6

-----------------------------------------------------------------------------
(* The invariant holds. *)
\* It holds at the start.
LEMMA ProbesInitInv == ProbesInit => ProbesInv
<1> SUFFICES ASSUME ProbesInit PROVE ProbesInv
  OBVIOUS
<1>1. pc \in {"idle", "dead"} /\ (pc # "dead" => Starts)
  BY DEF ProbesInit
<1>2. ProbesTypes
  BY <1>1 DEF ProbesInit, ProbesTypes
<1> QED BY <1>1, <1>2 DEF ProbesInit, ProbesInv, HeldInv, FetchedInv, RoundInv, ChatInv

\* A turn is of a card of the listing.
LEMMA CardInList ==
  ASSUME ProbesTypes, next <= Len(CardList)
  PROVE next \in DOMAIN CardList /\ listing[next] \in Listings /\ listing[next].model \in ListedModels
<1>1. CardList \in Seq(Range(CardList))
  BY ProbesAssumption
<1>2. next \in DOMAIN CardList
  BY <1>1 DEF ProbesTypes
<1> QED BY <1>2 DEF ProbesTypes, ListedModels

\* A probe, answered or not, leaves what is left of the plan or goes to the next card.
LEMMA AfterProbeInv ==
  ASSUME ProbesInv, pc = "probe", NEW verdict \in {"pass", "fail", "unproven", "none"},
         AfterProbe(verdict), round' = Append(round, verdict),
         UNCHANGED <<world, listing, local, fetched, held>>
  PROVE ProbesInv'
<1>1. Len(kinds) \in Nat /\ Len(round) \in Nat /\ next \in Nat \ {0} /\ kinds # <<>>
  BY KindIsOfPlan DEF ProbesInv, ProbesTypes
<1>2. CASE RoundGoesOn(verdict)
  <2>1. /\ verdict = "pass" /\ Len(kinds) > 1 /\ kinds' = Tail(kinds) /\ pc' = pc /\ next' = next
    BY <1>2 DEF AfterProbe, RoundGoesOn
  <2>2. kinds' \in Seq(Kinds) /\ Len(kinds') = Len(kinds) - 1 /\ \A k \in DOMAIN kinds' : kinds'[k] = kinds[k + 1] /\ k + 1 \in DOMAIN kinds
    BY <1>1, <2>1 DEF ProbesInv, ProbesTypes
  <2>3. /\ round' \in Seq({"pass", "fail", "unproven", "none"}) /\ Len(round') = Len(round) + 1
        /\ \A k \in DOMAIN round' : round'[k] = IF k <= Len(round) THEN round[k] ELSE verdict
    BY DEF ProbesInv, ProbesTypes
  <2>4. ProbesTypes'
    BY <2>1, <2>2, <2>3 DEF ProbesInv, ProbesTypes
  <2>5. RoundInv'
    <3>1. PICK plan \in Plans(listing[next]) \ {<<>>} :
              /\ Len(round) < Len(plan) /\ Len(kinds) = Len(plan) - Len(round)
              /\ \A k \in DOMAIN kinds : kinds[k] = plan[Len(round) + k]
      BY DEF ProbesInv, RoundInv
    <3>2. plan \in Seq(Kinds)
      BY PlansAreKinds
    <3>3. plan \in Plans(listing'[next']) \ {<<>>}
      BY <2>1, <3>1
    <3>4. Len(round') < Len(plan) /\ Len(kinds') = Len(plan) - Len(round')
      BY <1>1, <2>1, <2>2, <2>3, <3>1, <3>2
    <3>5. \A k \in DOMAIN kinds' : kinds'[k] = plan[Len(round') + k]
      <4> TAKE k \in DOMAIN kinds'
      <4>1. k \in Nat /\ kinds'[k] = kinds[k + 1] /\ k + 1 \in DOMAIN kinds
        BY <2>2
      <4>2. kinds[k + 1] = plan[Len(round) + (k + 1)]
        BY <3>1, <4>1
      <4>3. Len(round) + (k + 1) = Len(round') + k
        BY <1>1, <2>3, <4>1
      <4> QED BY <4>1, <4>2, <4>3
    <3>6. \A k \in DOMAIN round' : round'[k] = "pass"
      <4> TAKE k \in DOMAIN round'
      <4>1. k \in 1..(Len(round) + 1) /\ round \in Seq({"pass", "fail", "unproven", "none"})
        BY <2>3 DEF ProbesInv, ProbesTypes
      <4>2. k <= Len(round) => k \in DOMAIN round
        BY <1>1, <4>1
      <4> QED BY <2>1, <2>3, <4>2 DEF ProbesInv, RoundInv
    <3> QED BY <3>3, <3>4, <3>5, <3>6 DEF RoundInv
  <2>6. HeldInv' /\ FetchedInv' /\ ChatInv'
    BY <2>1 DEF ProbesInv, HeldInv, FetchedInv, ChatInv
  <2> QED BY <2>4, <2>5, <2>6 DEF ProbesInv
<1>3. CASE ~RoundGoesOn(verdict)
  <2>1. kinds' = <<>> /\ next' = next + 1 /\ pc' = "cards"
    BY <1>3 DEF AfterProbe, NextCard
  <2>2. round' \in Seq({"pass", "fail", "unproven", "none"})
    BY DEF ProbesInv, ProbesTypes
  <2>3. ProbesTypes'
    BY <1>1, <2>1, <2>2 DEF ProbesInv, ProbesTypes
  <2> QED BY <2>1, <2>3 DEF ProbesInv, HeldInv, FetchedInv, RoundInv, ChatInv
<1> QED BY <1>2, <1>3

\* A plan starts with an empty round and the items of the card's model.
LEMMA PlanCardInv ==
  ASSUME ProbesInv, PlanCard
  PROVE ProbesInv'
<1>1. /\ next \in DOMAIN CardList /\ listing[next] \in Listings /\ listing[next].model \in ListedModels
      /\ pc = "cards" /\ kinds' \in Plans(listing[next]) \ {<<>>} /\ round' = <<>>
      /\ UNCHANGED <<world, listing, local>>
  BY CardInList DEF PlanCard, ProbesInv
<1>2. PICK sets \in HeldSets :
           /\ held' = sets
           /\ fetched' = IF local \/ sets = {} \/ Fetched # {} THEN fetched
                         ELSE Append(fetched, [model |-> listing[next].model, set |-> CHOOSE s \in sets : TRUE])
           /\ pc' = IF sets # {} /\ Usable(sets) THEN "probe" ELSE "cards"
           /\ next' = CardAfter(sets)
  BY DEF PlanCard
<1>3. /\ next' \in Nat \ {0}
      /\ pc' = "probe" => next' = next /\ sets # {}
  BY <1>2 DEF CardAfter, ProbesInv, ProbesTypes
<1>4. /\ kinds' \in Seq(Kinds) /\ Len(kinds') > 0
  <2>1. kinds' \in Seq(Kinds) /\ kinds' # <<>>
    BY <1>1, PlansAreKinds
  <2>2. Len(kinds') \in Nat \ {0}
    BY <2>1, EmptySeq
  <2> QED BY <2>1, <2>2
<1>5. \A set \in sets : IF local THEN set.envelope = NoEnvelope ELSE set \in ServerSets(listing[next].model)
  <2>1. CASE local
    <3>1. \A digest : \A set \in Latest(digest) : set.envelope = NoEnvelope
      <4>1. \A file : Loaded(file).envelope = NoEnvelope
        BY DEF Loaded
      <4>2. \A digest : \A set \in Latest(digest) : \E k : set = Loaded(Files[k])
        BY DEF Latest
      <4> QED BY <4>1, <4>2
    <3> QED BY <1>2, <2>1, <3>1 DEF HeldSets
  <2>2. CASE ~local /\ Fetched # {}
    <3>1. PICK k \in Fetched : sets = {fetched[k].set}
      BY <1>2, <2>2 DEF HeldSets
    <3> QED BY <2>2, <3>1 DEF Fetched, ProbesInv, FetchedInv
  <2>3. CASE ~local /\ Fetched = {}
    BY <1>2, <2>3 DEF HeldSets
  <2> QED BY <2>1, <2>2, <2>3
<1>6. /\ fetched' \in Seq([model : ListedModels, set : UNION {ServerSets(m) : m \in ListedModels}])
      /\ FetchedInv'
  <2> DEFINE entry == [model |-> listing[next].model, set |-> CHOOSE s \in sets : TRUE]
  <2>1. CASE local \/ sets = {} \/ Fetched # {}
    BY <1>2, <2>1 DEF ProbesInv, ProbesTypes, FetchedInv
  <2>2. CASE ~(local \/ sets = {} \/ Fetched # {})
    <3>1. /\ entry \in [model : ListedModels, set : UNION {ServerSets(m) : m \in ListedModels}]
          /\ entry.set \in ServerSets(entry.model)
      <4>1. entry.set \in ServerSets(listing[next].model)
        BY <1>5, <2>2
      <4> QED BY <1>1, <4>1
    <3>2. fetched' = Append(fetched, entry)
      BY <1>2, <2>2
    <3> HIDE DEF entry
    <3>3. fetched \in Seq([model : ListedModels, set : UNION {ServerSets(m) : m \in ListedModels}])
      BY DEF ProbesInv, ProbesTypes
    <3>4. fetched' \in Seq([model : ListedModels, set : UNION {ServerSets(m) : m \in ListedModels}])
      BY <3>1, <3>2, <3>3
    <3>5. \A k \in DOMAIN fetched' : fetched'[k] = entry \/ (k \in DOMAIN fetched /\ fetched'[k] = fetched[k])
      BY <3>2, <3>3
    <3> QED BY <3>1, <3>4, <3>5 DEF ProbesInv, FetchedInv
  <2> QED BY <2>1, <2>2
<1>7. ProbesTypes'
  BY <1>1, <1>3, <1>4, <1>6 DEF ProbesInv, ProbesTypes
<1>8. HeldInv'
  BY <1>1, <1>2, <1>3, <1>5 DEF HeldInv
<1>9. RoundInv'
  <2> SUFFICES ASSUME pc' = "probe" PROVE RoundInv'
    BY DEF RoundInv
  <2>1. Len(<<>>) = 0 /\ \A k \in DOMAIN kinds' : k \in Nat /\ 0 + k = k
    BY <1>4
  <2>2. kinds' \in Plans(listing'[next']) \ {<<>>}
    BY <1>1, <1>3
  <2> QED BY <1>1, <1>4, <2>1, <2>2 DEF RoundInv
<1>10. ChatInv'
  BY <1>1, <1>2 DEF ProbesInv, ChatInv
<1> QED BY <1>6, <1>7, <1>8, <1>9, <1>10 DEF ProbesInv

\* What every step records.
Fair(r) == RecordedIsJudged(r) /\ OnlyProvenFails(r) /\ RoundIsInARow(r)

\* No report is fair,
LEMMA NothingIsFair == Fair(NoReport)
  BY DEF Fair, NoReport, RecordedIsJudged, OnlyProvenFails, RoundIsInARow

\* the report of a chat is,
LEMMA ChatIsFair ==
  ASSUME ProbesInv, Chat
  PROVE ProbesInv' /\ Fair(recorded')
<1>1. pc = "chat" /\ next \in Nat \ {0}
  BY DEF Chat, ProbesInv, ProbesTypes
<1>2. ProbesInv'
  <2>1. /\ pc' \in {"chat", "general"} /\ (pc' = "chat" => next' = next) /\ next' \in Nat \ {0}
        /\ UNCHANGED <<world, listing, kinds, fetched, round>>
    BY <1>1 DEF Chat
  <2> QED BY <1>1, <2>1 DEF ProbesInv, ProbesTypes, HeldInv, FetchedInv, RoundInv, ChatInv
<1>3. PICK k \in pending, a \in Chats :
         recorded' \in {ChatReport(k, a, ChatVerdict(Declared[next].model, k, a)), NoReport}
  BY DEF Chat, Report
<1>4. Fair(ChatReport(k, a, ChatVerdict(Declared[next].model, k, a)))
  <2>1. ChatReport(k, a, ChatVerdict(Declared[next].model, k, a)).card = 0
    BY DEF ChatReport
  <2> QED BY <1>1, <2>1, ReportIsProven DEF Fair, RecordedIsJudged, RoundIsInARow
<1> QED BY <1>2, <1>3, <1>4, NothingIsFair

\* and that of a probe.
LEMMA ProbeIsFair ==
  ASSUME ProbesInv, ProbeCard
  PROVE ProbesInv' /\ Fair(recorded')
<1>1. PICK i \in PoolFor(HeldSet, Kind), a \in {a \in Answers : a.ok} :
         LET verdict == GpuVerdict(Kind, HeldSet, i, a, listing[next].digest)
         IN  /\ AfterProbe(verdict) /\ round' = Append(round, verdict)
             /\ IF verdict = "unproven" THEN recorded' = NoReport ELSE Report(CardReport(i, a, verdict))
  BY DEF ProbeCard
<1> DEFINE verdict == GpuVerdict(Kind, HeldSet, i, a, listing[next].digest)
           r == CardReport(i, a, verdict)
<1>2. verdict \in {"pass", "fail", "unproven"}
  <2>1. pc = "probe"
    BY DEF ProbeCard
  <2> QED BY <2>1, KindIsOfPlan DEF GpuVerdict, Judge, Judged, Kinds
<1>3. pc = "probe" /\ UNCHANGED <<world, listing, local, fetched, held>>
  BY DEF ProbeCard
<1>4. AfterProbe(verdict) /\ round' = Append(round, verdict)
      /\ IF verdict = "unproven" THEN recorded' = NoReport ELSE Report(r)
  BY <1>1
<1>5. verdict # "unproven" => Fair(r)
  <2>1. r.kind # "chat"
    BY <1>3, KindIsOfPlan DEF CardReport, Kinds
  <2> HIDE DEF verdict
  <2>2. verdict = GpuVerdict(Kind, HeldSet, i, a, listing[next].digest)
    BY DEF verdict
  <2>3. verdict # "unproven" => RecordedIsJudged(r) /\ RoundIsInARow(r)
    BY <1>3, <2>2, ReportIsJudged
  <2> HIDE DEF r
  <2> QED BY <2>1, <2>3 DEF Fair, OnlyProvenFails
<1> HIDE DEF verdict, r
<1>6. ProbesInv'
  BY <1>2, <1>3, <1>4, AfterProbeInv
<1> QED BY <1>4, <1>5, <1>6, NothingIsFair DEF Report

\* Every step keeps the invariant and records what is fair.
LEMMA ProbesStep ==
  ASSUME ProbesInv, ProbesNext
  PROVE ProbesInv' /\ Fair(recorded')
<1> USE DEF ProbesInv
<1>1. CASE StartCycle
  BY <1>1, NothingIsFair DEF StartCycle, ProbesTypes, HeldInv, FetchedInv, RoundInv, ChatInv
<1>2. CASE SkipDeclared
  BY <1>2, NothingIsFair DEF SkipDeclared, ProbesTypes, HeldInv, FetchedInv, RoundInv, ChatInv
<1>3. CASE Sample
  BY <1>3, NothingIsFair DEF Sample, ProbesTypes, HeldInv, FetchedInv, RoundInv, ChatInv
<1>4. CASE Chat
  BY <1>4, ChatIsFair
<1>5. CASE EndGeneral
  BY <1>5, NothingIsFair DEF EndGeneral, loop, ProbesTypes, HeldInv, FetchedInv, RoundInv, ChatInv
<1>6. CASE ListCards
  BY <1>6, NothingIsFair DEF ListCards, ProbesTypes, HeldInv, FetchedInv, RoundInv, ChatInv
<1>7. CASE ListingFails
  BY <1>7, NothingIsFair DEF ListingFails, loop, ProbesTypes, HeldInv, FetchedInv, RoundInv, ChatInv
<1>8. CASE SkipCard
  BY <1>8, NothingIsFair DEF SkipCard, NextCard, ProbesTypes, HeldInv, FetchedInv, RoundInv, ChatInv
<1>9. CASE PlanCard
  <2>1. recorded' = NoReport
    BY <1>9 DEF PlanCard
  <2> QED BY <1>9, <2>1, PlanCardInv, NothingIsFair
<1>10. CASE ProbeIsSkipped
  <2>1. /\ AfterProbe("none") /\ round' = Append(round, "none") /\ pc = "probe" /\ recorded' = NoReport
        /\ UNCHANGED <<world, listing, local, fetched, held>>
    BY <1>10 DEF ProbeIsSkipped
  <2> QED BY <2>1, AfterProbeInv, NothingIsFair
<1>11. CASE ProbeIsGarbled
  BY <1>11, NothingIsFair DEF ProbeIsGarbled, loop, ProbesTypes, HeldInv, FetchedInv, RoundInv, ChatInv
<1>12. CASE ProbeCard
  BY <1>12, ProbeIsFair
<1>13. CASE EndCycle
  BY <1>13, NothingIsFair DEF EndCycle, ProbesTypes, HeldInv, FetchedInv, RoundInv, ChatInv
<1>14. CASE WorldMoves
  BY <1>14, NothingIsFair DEF WorldMoves, loop, ProbesTypes, HeldInv, FetchedInv, RoundInv, ChatInv
<1> QED BY <1>1, <1>2, <1>3, <1>4, <1>5, <1>6, <1>7, <1>8, <1>9, <1>10, <1>11, <1>12, <1>13, <1>14
        DEF ProbesNext, Loop

(***************************************************************************)
(* Whatever the listing, the items, the answers and the calibrations are,  *)
(* and however the listing moves while probes are under way: a report the  *)
(* server holds of a card says what the card did, a general model is       *)
(* reported failing only for what proves it, and a round is passes in a    *)
(* row.  (cycle_gpus, probe_gpu, probe_general, judge, summarise)          *)
(***************************************************************************)
THEOREM ReportsAreAlwaysFair == ProbesSpec => []ReportsAreFair
<1>1. ProbesInit => ProbesInv /\ ReportsAreFair
  BY ProbesInitInv, NothingIsFair DEF ProbesInit, ReportsAreFair, Fair
<1>2. ProbesInv /\ ReportsAreFair /\ [ProbesNext]_probesVars => ProbesInv' /\ ReportsAreFair'
  <2>1. ASSUME ProbesInv, ProbesNext PROVE ProbesInv' /\ ReportsAreFair'
    BY <2>1, ProbesStep DEF ReportsAreFair, Fair
  <2>2. ASSUME ProbesInv, ReportsAreFair, UNCHANGED probesVars PROVE ProbesInv' /\ ReportsAreFair'
    BY <2>2 DEF probesVars, loop, ReportsAreFair, ProbesInv, ProbesTypes, HeldInv, FetchedInv, RoundInv, ChatInv
  <2> QED BY <2>1, <2>2
<1> QED BY <1>1, <1>2, PTL DEF ProbesSpec

-----------------------------------------------------------------------------
(* The margins of an answer. *)

\* A finite row has a highest value.
LEMMA HighestIs ==
  ASSUME NEW V, IsFiniteSet(V), V # {}, NEW row \in [V -> Int]
  PROVE /\ \E v \in V : Highest(row) = row[v]
        /\ \A v \in V : row[v] <= Highest(row)
<1> DEFINE S == {row[v] : v \in DOMAIN row}
           R == {p \in S \X S : p[1] > p[2]}
<1>1. IsFiniteSet(S)
  <2>1. S = {row[v] : v \in V}
    OBVIOUS
  <2> QED BY <2>1, ImageFinite
<1>2. S \subseteq Int /\ S # {}
  OBVIOUS
<1>3. Orders(R, S)
  <2> HIDE DEF S
  <2> QED BY <1>2 DEF Orders
<1>4. \E x \in S : Below(R, S, x) = {}
  <2> HIDE DEF R, S
  <2> QED BY <1>1, <1>2, <1>3, FirstExists
<1>5. PICK m \in S : Below(R, S, m) = {}
  BY <1>4
<1>6. \A n \in S : n <= m
  <2>1. SUFFICES ASSUME NEW n \in S, n > m PROVE FALSE
    BY <1>2, <1>5
  <2>2. <<n, m>> \in R
    BY <1>5, <2>1
  <2> HIDE DEF R, S
  <2>3. n \in Below(R, S, m)
    BY <2>2, <2>1 DEF Below
  <2> QED BY <1>5, <2>3
<1>7. \E h \in S : \A v \in DOMAIN row : row[v] <= h
  BY <1>6
<1>8. Highest(row) \in S /\ \A v \in DOMAIN row : row[v] <= Highest(row)
  <2>1. Highest(row) = CHOOSE h \in S : \A v \in DOMAIN row : row[v] <= h
    BY DEF Highest
  <2> HIDE DEF S
  <2> QED BY <1>7, <2>1
<1> QED BY <1>8

\* The tokens up to a place of the completion, and the one at it.
LEMMA UpToPlace ==
  ASSUME NEW V, NEW p \in Seq(V), p # <<>>, NEW c \in Seq(V), NEW k \in 1..Len(c)
  PROVE /\ p \o c \in Seq(V) /\ Len(p \o c) = Len(p) + Len(c)
        /\ SubSeq(p \o c, 1, Len(p) + k - 1) = p \o SubSeq(c, 1, k - 1)
        /\ (p \o c)[Len(p) + k] = c[k] /\ Len(p) \in Nat \ {0} /\ Len(c) \in Nat
<1>1. p \o c \in Seq(V) /\ Len(p \o c) = Len(p) + Len(c) /\ Len(p) \in Nat \ {0} /\ Len(c) \in Nat
  BY ConcatProperties
<1>2. (p \o c)[Len(p) + k] = c[k]
  BY <1>1, ConcatProperties
<1> DEFINE s == SubSeq(p \o c, 1, Len(p) + k - 1)
           part == SubSeq(c, 1, k - 1)
           t == p \o part
<1>3. s \in Seq(V) /\ Len(s) = Len(p) + k - 1 /\ \A i \in 1..(Len(p) + k - 1) : s[i] = (p \o c)[i]
  <2>1. \A i \in 1..(Len(p) + k - 1) : (p \o c)[i] \in V
    BY <1>1
  <2> QED BY <1>1, <2>1, SubSeqProperties
<1>4. part \in Seq(V) /\ Len(part) = k - 1 /\ \A i \in 1..(k - 1) : part[i] = c[i]
  <2>1. \A i \in 1..(k - 1) : c[i] \in V
    BY <1>1
  <2> QED BY <1>1, <2>1, SubSeqProperties
<1>5. t \in Seq(V) /\ Len(t) = Len(p) + k - 1
      /\ \A i \in 1..(Len(p) + k - 1) : t[i] = IF i <= Len(p) THEN p[i] ELSE part[i - Len(p)]
  <2>1. part \in Seq(V) /\ Len(part) = k - 1 /\ k - 1 \in Nat
    BY <1>1, <1>4
  <2> HIDE DEF part
  <2>2. t \in Seq(V) /\ Len(t) = Len(p) + Len(part)
        /\ \A i \in 1..(Len(p) + Len(part)) : t[i] = IF i <= Len(p) THEN p[i] ELSE part[i - Len(p)]
    BY <2>1, ConcatProperties
  <2>3. Len(p) + Len(part) = Len(p) + k - 1
    BY <1>1, <2>1
  <2> HIDE DEF t
  <2> QED BY <2>2, <2>3
<1>6. s = t
  <2>0. Len(s) = Len(t) /\ s \in Seq(V) /\ t \in Seq(V) /\ Len(s) = Len(p) + k - 1
    BY <1>3, <1>5
  <2>1. \A i \in 1..(Len(p) + k - 1) : s[i] = t[i]
    <3>1. SUFFICES ASSUME NEW i \in 1..(Len(p) + k - 1) PROVE s[i] = t[i]
      OBVIOUS
    <3>2. s[i] = IF i <= Len(p) THEN p[i] ELSE c[i - Len(p)]
      BY <1>1, <1>3, ConcatProperties
    <3>3. i > Len(p) => part[i - Len(p)] = c[i - Len(p)]
      BY <1>1, <1>4
    <3> HIDE DEF s, t, part
    <3> QED BY <1>1, <1>5, <3>2, <3>3
  <2> HIDE DEF s, t
  <2> QED BY <2>0, <2>1, SeqEqual
<1> QED BY <1>1, <1>2, <1>6

\* The row that scores a place of the completion.
RowAt(p, c, k) == Logits[p \o SubSeq(c, 1, k - 1)]
LEMMA RowIs ==
  ASSUME NEW p \in Texts, NEW c \in Texts, NEW k \in 1..Len(c)
  PROVE /\ RowAt(p, c, k) \in [Vocabulary -> Int] /\ c[k] \in Vocabulary
        /\ Highest(RowAt(p, c, k)) \in Int /\ RowAt(p, c, k)[c[k]] \in Int
        /\ Highest(RowAt(p, c, k)) - RowAt(p, c, k)[c[k]] \in Nat
        /\ Gap(Highest(RowAt(p, c, k)), RowAt(p, c, k)[c[k]]) = Highest(RowAt(p, c, k)) - RowAt(p, c, k)[c[k]]
<1>1. c \in Seq(Vocabulary) /\ IsFiniteSet(Vocabulary)
  BY VerdictAssumption
<1>2. c[k] \in Vocabulary /\ k - 1 \in 0..Len(c)
  BY <1>1
<1>3. RowAt(p, c, k) \in [Vocabulary -> Int]
  BY <1>2, VerdictAssumption DEF RowAt
<1> DEFINE row == RowAt(p, c, k)
<1> HIDE DEF row
<1>4. row \in [Vocabulary -> Int]
  BY <1>3 DEF row
<1>5. (\E v \in Vocabulary : Highest(row) = row[v]) /\ \A v \in Vocabulary : row[v] <= Highest(row)
  BY <1>1, <1>2, <1>4, HighestIs
<1>6. Highest(row) \in Int /\ row[c[k]] \in Int /\ row[c[k]] <= Highest(row)
  BY <1>2, <1>4, <1>5
<1>7. Gap(Highest(row), row[c[k]]) = Highest(row) - row[c[k]]
  BY <1>6 DEF Gap
<1> QED BY <1>2, <1>4, <1>6, <1>7 DEF row

\* The margins, by the rows that score the places.
LEMMA LeftBelowIs ==
  ASSUME NEW p, NEW c
  PROVE LeftBelow(p, c) = [k \in DOMAIN c |-> Highest(RowAt(p, c, k)) - RowAt(p, c, k)[c[k]]]
  BY DEF LeftBelow, RowAt

ScoredAs(token, row) == [token |-> token, known |-> TRUE, value |-> row[token], top |-> Highest(row)]
EntryAt(p, c, k) == ScoredAs(c[k], RowAt(p, c, k))
LEMMA EntryFields ==
  ASSUME NEW p, NEW c, NEW k
  PROVE /\ EntryAt(p, c, k).token = c[k] /\ EntryAt(p, c, k).known
        /\ EntryAt(p, c, k).value = RowAt(p, c, k)[c[k]] /\ EntryAt(p, c, k).top = Highest(RowAt(p, c, k))
  BY DEF EntryAt, ScoredAs

\* The sequence scored by SGLang has one place more than the completion.
LEMMA SGLangIs ==
  ASSUME NEW p \in Texts \ {<<>>}, NEW c \in Texts \ {<<>>}
  PROVE SGLangMargins(Logits, p, c) = LeftBelow(p, c)
<1> DEFINE ids == p \o c
           L == Len(p)
           n == Len(c)
           entries == Scored(Logits, ids, L - 1)
           last == [k \in DOMAIN c |-> entries[Len(entries) - Len(c) + k]]
<1>1. /\ p \in Seq(Vocabulary) /\ c \in Seq(Vocabulary) /\ L \in Nat \ {0} /\ n \in Nat \ {0}
      /\ DOMAIN c = 1..n /\ Len(ids) = L + n
  BY VerdictAssumption, ConcatProperties
<1>2. DOMAIN entries = 1..(n + 1)
  <2>1. DOMAIN entries = 1..(Len(ids) - (L - 1))
    BY DEF Scored
  <2> HIDE DEF entries, ids, L, n
  <2> QED BY <1>1, <2>1
<1>3. Len(entries) = n + 1
  <2>1. n + 1 \in Nat
    BY <1>1
  <2> HIDE DEF entries, n
  <2> QED BY <1>2, <2>1
<1>4. ASSUME NEW k \in 1..n
      PROVE last[k] = EntryAt(p, c, k)
  <2>1. last[k] = entries[k + 1]
    <3>1. last[k] = entries[Len(entries) - n + k]
      BY <1>1
    <3>2. Len(entries) - n + k = k + 1
      <4> HIDE DEF entries, n
      <4> QED BY <1>1, <1>3
    <3> HIDE DEF entries, last, n
    <3> QED BY <3>1, <3>2
  <2>2. /\ ids[L + k] = c[k] /\ SubSeq(ids, 1, L + k - 1) = p \o SubSeq(c, 1, k - 1)
    <3>1. p # <<>>
      OBVIOUS
    <3> QED BY <1>1, <3>1, UpToPlace
  <2>3. k + 1 \in 1..(Len(ids) - (L - 1)) /\ (L - 1) + (k + 1) = L + k /\ L + k > 1
    <3> HIDE DEF ids, L, n
    <3> QED BY <1>1, <1>4
  <2>4. entries[k + 1] = LET q == (L - 1) + (k + 1)
                             row == Logits[SubSeq(ids, 1, q - 1)]
                         IN  [token |-> ids[q], known |-> q > 1, value |-> row[ids[q]], top |-> Highest(row)]
    <3> HIDE DEF ids, L
    <3> QED BY <2>3 DEF Scored
  <2>5. entries[k + 1] = ScoredAs(ids[L + k], Logits[SubSeq(ids, 1, L + k - 1)])
    <3> DEFINE q == (L - 1) + (k + 1)
    <3>1. q = L + k
      BY <2>3
    <3>2. (q > 1) = TRUE /\ q - 1 = L + k - 1
      BY <1>1, <3>1, <2>3
    <3> HIDE DEF ids, L, entries, q
    <3>3. entries[k + 1] = [token |-> ids[q], known |-> q > 1, value |-> Logits[SubSeq(ids, 1, q - 1)][ids[q]],
                            top |-> Highest(Logits[SubSeq(ids, 1, q - 1)])]
      BY <2>4 DEF q
    <3> DEFINE known == q > 1
               row == Logits[SubSeq(ids, 1, q - 1)]
    <3>4. entries[k + 1] = [token |-> ids[q], known |-> known, value |-> row[ids[q]], top |-> Highest(row)]
      BY <3>3
    <3>5. known = TRUE
      BY <3>2
    <3> HIDE DEF known, row
    <3>6. entries[k + 1] = ScoredAs(ids[q], row)
      BY <3>4, <3>5 DEF ScoredAs
    <3>7. ids[q] = ids[L + k]
      BY <3>1
    <3>8. row = Logits[SubSeq(ids, 1, L + k - 1)]
      BY <3>2 DEF row
    <3> QED BY <3>6, <3>7, <3>8
  <2> HIDE DEF ids, L, entries
  <2>8. entries[k + 1] = EntryAt(p, c, k)
    BY <2>2, <2>5 DEF RowAt, EntryAt
  <2> QED BY <2>1, <2>8
<1>5. \A k \in DOMAIN last : last[k].known /\ last[k].token = c[k]
  <2>1. SUFFICES ASSUME NEW k \in 1..n PROVE last[k].known /\ last[k].token = c[k]
    BY <1>1
  <2>2. last[k] = EntryAt(p, c, k)
    BY <1>4
  <2> HIDE DEF last
  <2> QED BY <2>2, EntryFields
<1>6. LogprobMargins(entries, c) = [k \in DOMAIN last |-> Gap(last[k].top, last[k].value)]
  <2>1. ~ (Len(entries) < Len(c))
    <3> HIDE DEF entries
    <3> QED BY <1>1, <1>3
  <2> HIDE DEF entries, n
  <2> QED BY <2>1, <1>5 DEF LogprobMargins
<1>7. \A k \in 1..n : Gap(last[k].top, last[k].value) = Highest(RowAt(p, c, k)) - RowAt(p, c, k)[c[k]]
  <2>1. SUFFICES ASSUME NEW k \in 1..n
                 PROVE Gap(last[k].top, last[k].value) = Highest(RowAt(p, c, k)) - RowAt(p, c, k)[c[k]]
    OBVIOUS
  <2>2. last[k].top = Highest(RowAt(p, c, k)) /\ last[k].value = RowAt(p, c, k)[c[k]]
    <3>1. last[k] = EntryAt(p, c, k)
      BY <1>4
    <3> HIDE DEF last
    <3> QED BY <3>1, EntryFields
  <2>3. Gap(Highest(RowAt(p, c, k)), RowAt(p, c, k)[c[k]]) = Highest(RowAt(p, c, k)) - RowAt(p, c, k)[c[k]]
    BY RowIs
  <2> HIDE DEF last
  <2> QED BY <2>2, <2>3
<1>8. LogprobMargins(entries, c) = [k \in DOMAIN c |-> Highest(RowAt(p, c, k)) - RowAt(p, c, k)[c[k]]]
  <2>1. DOMAIN last = 1..n /\ DOMAIN c = 1..n
    BY <1>1
  <2> HIDE DEF last, n, entries
  <2> QED BY <2>1, <1>6, <1>7
<1>9. SGLangMargins(Logits, p, c) = LogprobMargins(entries, c)
  BY DEF SGLangMargins
<1> HIDE DEF entries
<1> QED BY <1>8, <1>9, LeftBelowIs

\* The rows of llama.cpp are cut to those before each token.
LEMMA LlamaIs ==
  ASSUME NEW p \in Texts \ {<<>>}, NEW c \in Texts \ {<<>>}, NEW context \in Contexts
  PROVE LlamaMargins(Logits, context, p, c) =
            IF Len(p) + Len(c) <= context THEN LeftBelow(p, c) ELSE NoMargins
<1> DEFINE ids == p \o c
           L == Len(p)
           n == Len(c)
           eval == Eval(Logits, ids)
           rows == SubSeq(eval, L, L - 1 + n)
<1>1. /\ p \in Seq(Vocabulary) /\ c \in Seq(Vocabulary) /\ L \in Nat \ {0} /\ n \in Nat \ {0}
      /\ DOMAIN c = 1..n /\ Len(ids) = L + n /\ context \in Int
  <2>1. p \in Seq(Vocabulary) /\ c \in Seq(Vocabulary) /\ context \in Int
    BY VerdictAssumption
  <2> QED BY <2>1, ConcatProperties
<1>2. CASE L + n > context
  <2>1. c # <<>> /\ ~ (L + n <= context)
    BY <1>1, <1>2
  <2> QED BY <2>1, <1>2 DEF LlamaMargins
<1>3. CASE ~ (L + n > context)
  <2>1. /\ \A i \in L..(L - 1 + n) : eval[i] = Logits[SubSeq(ids, 1, i)]
    <3> SUFFICES ASSUME NEW i \in L..(L - 1 + n) PROVE eval[i] = Logits[SubSeq(ids, 1, i)]
      OBVIOUS
    <3>1. i \in 1..Len(ids)
      <4> HIDE DEF ids, L, n
      <4> QED BY <1>1
    <3> QED BY <3>1 DEF Eval
  <2>2. Len(rows) = n /\ \A k \in 1..n : rows[k] = Logits[SubSeq(ids, 1, L + k - 1)]
    <3> DEFINE S == {eval[i] : i \in L..(L - 1 + n)}
               last == L - 1 + n
    <3>1. L \in Int /\ last \in Int /\ \A i \in L..last : eval[i] \in S
      BY <1>1
    <3> HIDE DEF S, eval, L, n, last
    <3>2. Len(SubSeq(eval, L, last)) = (IF L <= last THEN last - L + 1 ELSE 0)
          /\ \A k \in 1..(last - L + 1) : SubSeq(eval, L, last)[k] = eval[L + k - 1]
      BY <3>1, SubSeqProperties
    <3>3. last - L + 1 = n /\ L <= last /\ \A k \in 1..n : L + k - 1 \in L..last
      BY <1>1 DEF last
    <3> QED BY <2>1, <3>2, <3>3 DEF last
  <2>3. \A k \in 1..n : rows[k] = RowAt(p, c, k)
    <3> SUFFICES ASSUME NEW k \in 1..n PROVE rows[k] = RowAt(p, c, k)
      OBVIOUS
    <3>1. SubSeq(ids, 1, L + k - 1) = p \o SubSeq(c, 1, k - 1)
      <4>1. p # <<>>
        OBVIOUS
      <4> QED BY <1>1, <4>1, UpToPlace
    <3> HIDE DEF rows, ids, L, n
    <3> QED BY <2>2, <3>1 DEF RowAt
  <2>4. Margins(rows, c) = [k \in DOMAIN c |-> Gap(Highest(rows[k]), rows[k][c[k]])]
    <3>1. \A k \in DOMAIN c : c[k] \in DOMAIN rows[k]
      <4> SUFFICES ASSUME NEW k \in DOMAIN c PROVE c[k] \in DOMAIN rows[k]
        OBVIOUS
      <4>1. k \in 1..n
        BY <1>1
      <4>2. RowAt(p, c, k) \in [Vocabulary -> Int] /\ c[k] \in Vocabulary
        BY <4>1, RowIs
      <4> HIDE DEF rows, n
      <4> QED BY <4>1, <4>2, <2>3
    <3> HIDE DEF rows
    <3> QED BY <3>1, <2>2 DEF Margins
  <2>5. \A k \in DOMAIN c : Gap(Highest(rows[k]), rows[k][c[k]]) = Highest(RowAt(p, c, k)) - RowAt(p, c, k)[c[k]]
    <3> SUFFICES ASSUME NEW k \in DOMAIN c
                 PROVE Gap(Highest(rows[k]), rows[k][c[k]]) = Highest(RowAt(p, c, k)) - RowAt(p, c, k)[c[k]]
      OBVIOUS
    <3>1. k \in 1..n
      BY <1>1
    <3>2. Gap(Highest(RowAt(p, c, k)), RowAt(p, c, k)[c[k]]) = Highest(RowAt(p, c, k)) - RowAt(p, c, k)[c[k]]
      BY <3>1, RowIs
    <3>3. rows[k] = RowAt(p, c, k)
      BY <3>1, <2>3
    <3> HIDE DEF rows
    <3> QED BY <3>2, <3>3
  <2>6. LlamaMargins(Logits, context, p, c) = Margins(rows, c)
    <3>1. c # <<>> /\ p # <<>>
      OBVIOUS
    <3> QED BY <1>3, <3>1 DEF LlamaMargins, AlignedRows
  <2>7. L + n <= context
    <3> HIDE DEF L, n
    <3> QED BY <1>1, <1>3
  <2>8. Margins(rows, c) = LeftBelow(p, c)
    <3> HIDE DEF rows
    <3> QED BY <2>4, <2>5, LeftBelowIs
  <2> QED BY <2>6, <2>7, <2>8
<1> QED BY <1>2, <1>3

\* Both engines score what was returned: with any weights, the margin at a place is that
\* of the token there (canonical.aligned_rows, logprob_margins).
THEOREM MarginsAreOfTokens == MarginsAreOfTheNextToken
  BY SGLangIs, LlamaIs DEF MarginsAreOfTheNextToken

-----------------------------------------------------------------------------
(* Places of a sorted list. *)
Means(samples) == {samples[k].mean : k \in Kept(samples)}
MeansUpTo(samples, m) == {k \in Kept(samples) : samples[k].mean <= m}
MeansUnder(samples, m) == {k \in Kept(samples) : samples[k].mean < m}
IsAtPlace(samples, n, m) == Cardinality(MeansUnder(samples, m)) < n /\ n <= Cardinality(MeansUpTo(samples, m))

\* Finitely many samples, whose means are numbers.
Sampled(samples) == IsFiniteSet(Kept(samples)) /\ \A k \in Kept(samples) : samples[k].mean \in Nat

\* The samples up to a mean and under it, of the kept ones.
LEMMA CountsOfMeans ==
  ASSUME NEW samples, Sampled(samples), NEW m
  PROVE /\ IsFiniteSet(MeansUpTo(samples, m)) /\ Cardinality(MeansUpTo(samples, m)) \in Nat
        /\ IsFiniteSet(MeansUnder(samples, m)) /\ Cardinality(MeansUnder(samples, m)) \in Nat
        /\ Cardinality(Kept(samples)) \in Nat
<1>1. MeansUpTo(samples, m) \in SUBSET Kept(samples) /\ MeansUnder(samples, m) \in SUBSET Kept(samples)
  BY DEF MeansUpTo, MeansUnder
<1> QED BY <1>1, FS_Subset, FS_CardinalityType DEF Sampled

\* A finite set of numbers has a highest one.
LEMMA HasHighest ==
  ASSUME NEW S \in SUBSET Nat, IsFiniteSet(S), S # {}
  PROVE \E x \in S : \A n \in S : n <= x
  BY LastName

\* Every place of the sorted means holds one of them.
LEMMA AtPlaceIs ==
  ASSUME NEW samples, Sampled(samples), NEW n \in 1..Cardinality(Kept(samples))
  PROVE AtPlace(samples, n) \in Means(samples) /\ IsAtPlace(samples, n, AtPlace(samples, n))
<1> DEFINE M == Means(samples)
           Good == {m \in M : n <= Cardinality(MeansUpTo(samples, m))}
<1>1. M \in SUBSET Nat /\ IsFiniteSet(M)
  <2> DEFINE f == [k \in Kept(samples) |-> samples[k].mean]
  <2>1. M = {f[k] : k \in Kept(samples)}
    BY DEF Means
  <2>2. IsFiniteSet({f[k] : k \in Kept(samples)})
    <3> HIDE DEF f
    <3> QED BY ImageFinite DEF Sampled
  <2> QED BY <2>1, <2>2 DEF Means, Sampled
<1>2. Kept(samples) # {} /\ n \in Nat \ {0} /\ Cardinality(Kept(samples)) \in Nat
  <2>1. Cardinality(Kept(samples)) \in Nat
    BY CountsOfMeans
  <2> QED BY <2>1, FS_EmptySet DEF Sampled
<1>3. Good # {}
  <2>1. M # {}
    BY <1>2 DEF Means
  <2>2. PICK x \in M : \A y \in M : y <= x
    <3> HIDE DEF M
    <3> QED BY <1>1, <2>1, HasHighest
  <2>3. MeansUpTo(samples, x) = Kept(samples)
    BY <2>2 DEF Means, MeansUpTo
  <2>4. n <= Cardinality(MeansUpTo(samples, x))
    BY <2>3
  <2> QED BY <2>4
<1>4. PICK m \in Good : \A y \in Good : m <= y
  <2>1. Good \in SUBSET Nat
    BY <1>1
  <2> HIDE DEF Good
  <2> QED BY <1>3, <2>1, NatMin
<1>5. Cardinality(MeansUnder(samples, m)) < n
  <2> DEFINE U == MeansUnder(samples, m)
             V == {y \in M : y < m}
  <2>1. SUFFICES ASSUME Cardinality(U) >= n PROVE FALSE
    <3>1. Cardinality(U) \in Nat
      BY CountsOfMeans
    <3> HIDE DEF U
    <3> QED BY <1>2, <3>1 DEF U
  <2>2. U # {}
    <3>1. Cardinality({}) = 0
      BY FS_EmptySet
    <3> HIDE DEF U
    <3> QED BY <1>2, <2>1, <3>1
  <2>3. V # {} /\ V \in SUBSET Nat /\ IsFiniteSet(V)
    <3>1. V # {}
      BY <2>2 DEF MeansUnder, Means
    <3> HIDE DEF M
    <3> QED BY <1>1, <3>1, FS_Subset
  <2>4. PICK x \in V : \A y \in V : y <= x
    <3> HIDE DEF V
    <3> QED BY <2>3, HasHighest
  <2>5. U \subseteq MeansUpTo(samples, x)
    <3> SUFFICES ASSUME NEW k \in U PROVE k \in MeansUpTo(samples, x)
      OBVIOUS
    <3>1. k \in Kept(samples) /\ samples[k].mean < m
      BY DEF MeansUnder
    <3>2. samples[k].mean \in V
      BY <3>1 DEF Means
    <3>3. samples[k].mean <= x
      BY <3>2, <2>4
    <3> QED BY <3>1, <3>3 DEF MeansUpTo
  <2>6. Cardinality(U) <= Cardinality(MeansUpTo(samples, x))
    BY <2>5, CountsOfMeans, FS_Subset
  <2>7. n <= Cardinality(MeansUpTo(samples, x))
    <3>1. Cardinality(U) \in Nat /\ Cardinality(MeansUpTo(samples, x)) \in Nat
      BY CountsOfMeans
    <3> HIDE DEF U
    <3> QED BY <1>2, <2>1, <2>6, <3>1
  <2>8. x \in Good /\ x < m
    BY <2>4, <2>7
  <2> HIDE DEF Good
  <2>9. m <= x /\ m \in Nat /\ x \in Nat
    <3>1. m \in M /\ x \in M
      BY <1>4, <2>4 DEF Good
    <3> QED BY <3>1, <1>1, <1>4, <2>8
  <2> QED BY <2>8, <2>9
<1>6. \E y \in M : IsAtPlace(samples, n, y)
  BY <1>4, <1>5 DEF IsAtPlace
<1>7. AtPlace(samples, n) = CHOOSE y \in M : IsAtPlace(samples, n, y)
  BY DEF AtPlace, IsAtPlace, MeansUpTo, MeansUnder, Means
<1> HIDE DEF M
<1>8. AtPlace(samples, n) \in M /\ IsAtPlace(samples, n, AtPlace(samples, n))
  BY <1>6, <1>7
<1> QED BY <1>8 DEF M

\* The mean at a place is a number.
LEMMA MeanAtPlace ==
  ASSUME NEW samples, Sampled(samples), NEW n \in 1..Cardinality(Kept(samples))
  PROVE AtPlace(samples, n) \in Nat
<1>1. AtPlace(samples, n) \in Means(samples)
  BY AtPlaceIs
<1> QED BY <1>1 DEF Means, Sampled

\* Later places hold no lower means.
LEMMA PlacesGrow ==
  ASSUME NEW samples, Sampled(samples), NEW n \in 1..Cardinality(Kept(samples)),
         n + 1 \in 1..Cardinality(Kept(samples))
  PROVE AtPlace(samples, n) <= AtPlace(samples, n + 1)
<1> DEFINE a == AtPlace(samples, n)
           b == AtPlace(samples, n + 1)
<1>1. a \in Nat /\ b \in Nat
  BY MeanAtPlace
<1>2. IsAtPlace(samples, n, a) /\ IsAtPlace(samples, n + 1, b)
  BY AtPlaceIs
<1> HIDE DEF a, b
<1>3. SUFFICES ASSUME b < a PROVE FALSE
  BY <1>1 DEF a, b
<1>4. MeansUpTo(samples, b) \in SUBSET MeansUnder(samples, a)
  BY <1>1, <1>3 DEF MeansUpTo, MeansUnder, Sampled
<1>5. Cardinality(MeansUpTo(samples, b)) <= Cardinality(MeansUnder(samples, a))
  BY <1>4, CountsOfMeans, FS_Subset
<1>6. Cardinality(MeansUpTo(samples, b)) \in Nat /\ Cardinality(MeansUnder(samples, a)) \in Nat /\ n \in Nat
  BY CountsOfMeans
<1>7. n + 1 <= Cardinality(MeansUpTo(samples, b)) /\ Cardinality(MeansUnder(samples, a)) < n
  BY <1>2 DEF IsAtPlace
<1> QED BY <1>5, <1>6, <1>7

\* Above place n lie no more than come after it.
LEMMA FewAbove ==
  ASSUME NEW samples, Sampled(samples), NEW n \in 1..Cardinality(Kept(samples)),
         NEW S \in SUBSET Kept(samples), \A k \in S : samples[k].mean > AtPlace(samples, n)
  PROVE IsFiniteSet(S) /\ Cardinality(S) <= Cardinality(Kept(samples)) - n
<1> DEFINE a == AtPlace(samples, n)
           K == Kept(samples)
           U == MeansUpTo(samples, a)
<1>1. a \in Nat /\ IsFiniteSet(K) /\ n <= Cardinality(U)
  BY MeanAtPlace, AtPlaceIs DEF Sampled, IsAtPlace
<1>2. S \in SUBSET (K \ U)
  BY <1>1 DEF MeansUpTo, Sampled
<1>3. U \in SUBSET K /\ K \cap U = U
  BY DEF MeansUpTo
<1>4. IsFiniteSet(K \ U) /\ Cardinality(K \ U) = Cardinality(K) - Cardinality(U)
  <2> HIDE DEF K, U
  <2> QED BY <1>1, <1>3, FS_Difference
<1>5. IsFiniteSet(S) /\ Cardinality(S) <= Cardinality(K \ U)
  <2> HIDE DEF K, U
  <2> QED BY <1>2, <1>4, FS_Subset
<1>6. Cardinality(S) \in Nat /\ Cardinality(K) \in Nat /\ Cardinality(U) \in Nat /\ n \in Nat
  BY <1>5, CountsOfMeans, FS_CardinalityType
<1>7. Cardinality(S) <= Cardinality(K) - n
  <2> HIDE DEF K, U, a
  <2> QED BY <1>1, <1>4, <1>5, <1>6
<1> QED BY <1>5, <1>7

-----------------------------------------------------------------------------
(* The threshold. *)

\* The place of a quantile among n sorted values.
LEMMA PlaceOfQuantile ==
  ASSUME NEW n \in Nat \ {0}, NEW alpha \in 1..99, NEW place, place = (100 - alpha) * (n - 1),
         NEW low, low = place \div 100, NEW part, part = place % 100
  PROVE /\ low \in Nat /\ part \in 0..99 /\ low + 1 \in 1..n /\ (part # 0 => low + 2 \in 1..n)
        /\ 100 * (n - (low + 1)) = alpha * (n - 1) + part
<1>1. place \in Nat
  <2>1. 100 - alpha \in Nat /\ n - 1 \in Nat
    OBVIOUS
  <2> QED BY <2>1, NatProduct
<1>2. low \in Nat /\ part \in 0..99 /\ place = 100 * low + part
  BY <1>1
<1>3. place = 100 * (n - 1) - alpha * (n - 1)
  OBVIOUS
<1>4. alpha * (n - 1) >= n - 1
  OBVIOUS
<1>5. 100 * low + part <= 99 * (n - 1)
  BY <1>1, <1>2, <1>3, <1>4
<1>6. low + 1 \in 1..n /\ (part # 0 => low + 2 \in 1..n)
  BY <1>2, <1>5
<1>7. 100 * (n - (low + 1)) = alpha * (n - 1) + part
  BY <1>2, <1>3
<1> QED BY <1>2, <1>6, <1>7

\* A quantile is no lower than the place before it, above which lies the share of alpha.
LEMMA QuantileIs ==
  ASSUME NEW samples, Sampled(samples), Kept(samples) # {}, NEW alpha \in 1..99
  PROVE /\ Quantile(samples, alpha) \in Nat
        /\ \E n \in 1..Cardinality(Kept(samples)) :
              /\ 100 * AtPlace(samples, n) <= Quantile(samples, alpha)
              /\ 100 * (Cardinality(Kept(samples)) - n) < alpha * (Cardinality(Kept(samples)) - 1) + 100
<1> DEFINE N == Cardinality(Kept(samples))
           place == (100 - alpha) * (N - 1)
           low == place \div 100
           part == place % 100
           a == AtPlace(samples, low + 1)
           b == AtPlace(samples, low + 2)
<1>1. N \in Nat \ {0}
  BY FS_CardinalityType, FS_EmptySet DEF Sampled
<1>2. /\ low \in Nat /\ part \in 0..99 /\ low + 1 \in 1..N /\ (part # 0 => low + 2 \in 1..N)
      /\ 100 * (N - (low + 1)) = alpha * (N - 1) + part
  <2> HIDE DEF N
  <2> QED BY <1>1, PlaceOfQuantile
<1>3. a \in Nat /\ (part # 0 => b \in Nat /\ a <= b)
  <2> HIDE DEF place, low, part
  <2>1. a \in Nat
    BY <1>2, MeanAtPlace
  <2>2. ASSUME part # 0 PROVE b \in Nat /\ a <= b
    <3>1. low + 2 \in 1..N /\ (low + 1) + 1 = low + 2
      BY <1>2, <2>2
    <3>2. b \in Nat
      BY <3>1, MeanAtPlace
    <3> DEFINE l == low + 1
    <3>3. l \in 1..N /\ l + 1 \in 1..N
      BY <1>2, <3>1
    <3> HIDE DEF l
    <3>4. AtPlace(samples, l) <= AtPlace(samples, l + 1)
      BY <3>3, PlacesGrow
    <3> QED BY <3>1, <3>2, <3>4 DEF l
  <2> QED BY <2>1, <2>2
<1>4. Quantile(samples, alpha) = IF part = 0 THEN 100 * a ELSE 100 * a + (b - a) * part
  BY DEF Quantile
<1> DEFINE q == Quantile(samples, alpha)
<1>5. q \in Nat /\ 100 * a <= q
  <2> HIDE DEF a, b, part, q
  <2>1. CASE part = 0
    BY <1>3, <1>4, <2>1 DEF q
  <2>2. CASE part # 0
    <3>1. b - a \in Nat /\ part \in Nat
      BY <1>2, <1>3, <2>2
    <3>2. (b - a) * part \in Nat
      BY <3>1, NatProduct
    <3> QED BY <1>3, <1>4, <2>2, <3>2 DEF q
  <2> QED BY <2>1, <2>2
<1>6. 100 * (N - (low + 1)) < alpha * (N - 1) + 100
  <2> DEFINE share == alpha * (N - 1)
  <2>1. share \in Int
    <3> HIDE DEF N
    <3> QED BY <1>1
  <2> HIDE DEF share, N, low, part
  <2> QED BY <1>2, <2>1 DEF share
<1> HIDE DEF N, a, q
<1> QED BY <1>2, <1>5, <1>6 DEF N, a, q

\* What is made of the margins of a reply is a number.
LEMMA SummaryIs ==
  ASSUME NEW gaps \in Seq(Nat)
  PROVE /\ Summarise(gaps).mean \in Nat /\ Summarise(gaps).positions = Len(gaps)
        /\ (\A k \in DOMAIN gaps : gaps[k] = 0) => Summarise(gaps).mean = 0
<1> DEFINE S == {k \in DOMAIN gaps : gaps[k] > Tolerance}
           sum == SumFunction(Restrict(gaps, S))
           n == Len(gaps)
<1>1. Pay(gaps)
  <2>1. IsFiniteSet(1..Len(gaps))
    BY FS_Interval
  <2>2. DOMAIN gaps = 1..Len(gaps) /\ gaps = [k \in DOMAIN gaps |-> gaps[k]]
    OBVIOUS
  <2> QED BY <2>1, <2>2 DEF Pay
<1>2. sum \in Nat
  <2>1. S \in SUBSET DOMAIN gaps
    OBVIOUS
  <2> HIDE DEF S
  <2> QED BY <1>1, <2>1, RestrictPays, SumIsNat
<1>3. Summarise(gaps).positions = n /\ Summarise(gaps).mean = IF gaps = <<>> THEN 0 ELSE (Parts * sum) \div n
  BY DEF Summarise
<1>4. gaps # <<>> => (Parts * sum) \div n \in Nat /\ n \in Nat \ {0}
  <2>1. SUFFICES ASSUME gaps # <<>> PROVE (Parts * sum) \div n \in Nat /\ n \in Nat \ {0}
    OBVIOUS
  <2>2. n \in Nat \ {0}
    BY <2>1
  <2> DEFINE whole == Parts * sum
  <2>3. whole \in Nat
    BY <1>2 DEF Parts
  <2> HIDE DEF whole, n
  <2> QED BY <2>2, <2>3, Division DEF whole
<1>5. (\A k \in DOMAIN gaps : gaps[k] = 0) => sum = 0
  <2>1. SUFFICES ASSUME \A k \in DOMAIN gaps : gaps[k] = 0 PROVE sum = 0
    OBVIOUS
  <2>2. S = {}
    BY <2>1 DEF Tolerance
  <2>3. sum = SumFunctionOnSet(gaps, {})
    <3> HIDE DEF S
    <3>1. S \in SUBSET DOMAIN gaps
      BY <2>2
    <3> QED BY <1>1, <2>2, <3>1, RestrictPays
  <2> QED BY <2>3, SumOnEmpty
<1>6. gaps # <<>> /\ sum = 0 => (Parts * sum) \div n = 0
  <2>1. SUFFICES ASSUME gaps # <<>>, sum = 0 PROVE (Parts * sum) \div n = 0
    OBVIOUS
  <2>2. n \in Nat \ {0} /\ Parts * sum = 0
    BY <1>4, <2>1 DEF Parts
  <2> DEFINE whole == Parts * sum
  <2> HIDE DEF whole, n
  <2>3. whole = 0
    BY <2>2 DEF whole
  <2>4. 0 \div n = 0
    BY <2>2
  <2> QED BY <2>3, <2>4 DEF whole
<1> HIDE DEF sum, n
<1> QED BY <1>3, <1>4, <1>5, <1>6 DEF n

\* The statistics of a run are finitely many samples.
LEMMA StatisticsAre ==
  ASSUME NEW run \in Seq(Seq(Nat))
  PROVE Sampled(Statistics(run)) /\ DOMAIN Statistics(run) = 1..Len(run)
<1> DEFINE s == Statistics(run)
<1>1. DOMAIN s = 1..Len(run) /\ \A k \in DOMAIN s : s[k] = Summarise(run[k]) /\ run[k] \in Seq(Nat)
  BY DEF Statistics
<1>2. \A k \in DOMAIN s : s[k].mean \in Nat
  <2> HIDE DEF s
  <2> QED BY <1>1, SummaryIs
<1>3. IsFiniteSet(DOMAIN s)
  BY <1>1, FS_Interval
<1> HIDE DEF s
<1>4. Kept(s) \in SUBSET DOMAIN s
  BY DEF Kept
<1> QED BY <1>1, <1>2, <1>3, <1>4, FS_Subset DEF Sampled, s

\* A threshold: a number, above which at most the share of alpha and one lie.
LEMMA ThresholdIs ==
  ASSUME NEW honest, Sampled(honest), Kept(honest) # {}, NEW substituted, NEW alpha \in 1..99
  PROVE /\ Calibrate(honest, substituted, alpha).threshold \in Nat
        /\ 100 * (Cardinality(Reported(honest, Calibrate(honest, substituted, alpha))) - 1)
              < alpha * (Cardinality(Kept(honest)) - 1)
<1> DEFINE c == Calibrate(honest, substituted, alpha)
           q == Quantile(honest, alpha)
           R == Reported(honest, c)
           N == Cardinality(Kept(honest))
<1>1. c.threshold = q /\ q \in Nat
  BY QuantileIs DEF Calibrate
<1>2. PICK n \in 1..N : 100 * AtPlace(honest, n) <= q /\ 100 * (N - n) < alpha * (N - 1) + 100
  BY QuantileIs
<1>3. \A k \in R : k \in Kept(honest) /\ 100 * honest[k].mean > q
  <2> HIDE DEF c, q
  <2> QED BY <1>1 DEF Reported, Verdict, Kept
<1>4. \A k \in R : honest[k].mean > AtPlace(honest, n)
  <2> SUFFICES ASSUME NEW k \in R PROVE honest[k].mean > AtPlace(honest, n)
    OBVIOUS
  <2>1. honest[k].mean \in Nat /\ AtPlace(honest, n) \in Nat /\ 100 * honest[k].mean > q
    BY <1>3, MeanAtPlace DEF Sampled
  <2> HIDE DEF q
  <2> QED BY <1>1, <1>2, <2>1
<1>5. IsFiniteSet(R) /\ Cardinality(R) <= N - n
  <2>1. R \in SUBSET Kept(honest)
    BY <1>3
  <2> HIDE DEF R
  <2> QED BY <1>4, <2>1, FewAbove
<1>6. Cardinality(R) \in Nat /\ N \in Nat
  BY <1>5, CountsOfMeans, FS_CardinalityType
<1>7. 100 * (Cardinality(R) - 1) < alpha * (N - 1)
  <2> DEFINE over == Cardinality(R)
             share == alpha * (N - 1)
  <2>1. share \in Int
    <3> HIDE DEF N
    <3> QED BY <1>6
  <2>2. over <= N - n /\ over \in Nat /\ n \in Nat /\ 100 * (N - n) < share + 100
    BY <1>2, <1>5, <1>6
  <2> HIDE DEF over, share, N
  <2>3. 100 * (over - 1) < share
    BY <1>6, <2>1, <2>2
  <2> QED BY <2>3 DEF over, share
<1> QED BY <1>1, <1>7

\* The first choices have no margin.
LEMMA FirstChoicesAre ==
  ASSUME NEW reply \in FirstChoices
  PROVE reply.mean = 0
<1>1. PICK p \in Texts \ {<<>>}, c \in Texts \ {<<>>} :
         AlwaysFirst(p, c) /\ reply = Summarise(SGLangMargins(Logits, p, c))
  BY DEF FirstChoices
<1> DEFINE gaps == SGLangMargins(Logits, p, c)
<1>2. gaps = [k \in DOMAIN c |-> Highest(RowAt(p, c, k)) - RowAt(p, c, k)[c[k]]]
  BY SGLangIs, LeftBelowIs
<1>3. c \in Seq(Vocabulary) /\ Len(c) \in Nat /\ DOMAIN c = 1..Len(c)
  <2>1. c \in Seq(Vocabulary)
    BY VerdictAssumption
  <2> QED BY <2>1
<1>4. \A k \in 1..Len(c) : Highest(RowAt(p, c, k)) - RowAt(p, c, k)[c[k]] = 0
  <2> SUFFICES ASSUME NEW k \in 1..Len(c)
               PROVE Highest(RowAt(p, c, k)) - RowAt(p, c, k)[c[k]] = 0
    OBVIOUS
  <2> DEFINE row == RowAt(p, c, k)
  <2>1. \A v \in Vocabulary : row[v] <= row[c[k]]
    BY <1>1, <1>3 DEF AlwaysFirst, RowAt
  <2>2. row \in [Vocabulary -> Int] /\ c[k] \in Vocabulary
    BY RowIs
  <2> HIDE DEF row
  <2>3. IsFiniteSet(Vocabulary) /\ Vocabulary # {}
    BY <2>2, VerdictAssumption
  <2>4. \E v \in Vocabulary : Highest(row) = row[v]
    BY <2>2, <2>3, HighestIs
  <2>5. row[c[k]] <= Highest(row)
    BY <2>2, <2>3, HighestIs
  <2>6. Highest(row) = row[c[k]] /\ row[c[k]] \in Int
    BY <2>1, <2>2, <2>4, <2>5
  <2> QED BY <2>6 DEF row
<1>5. gaps \in Seq(Nat) /\ \A k \in DOMAIN gaps : gaps[k] = 0
  <2> HIDE DEF gaps
  <2>1. DOMAIN gaps = 1..Len(c) /\ \A k \in 1..Len(c) : gaps[k] = 0
    BY <1>2, <1>3, <1>4
  <2>2. gaps = [k \in 1..Len(c) |-> gaps[k]]
    BY <1>2, <1>3
  <2>3. gaps \in [1..Len(c) -> Nat]
    BY <2>1, <2>2
  <2> QED BY <1>3, <2>1, <2>3
<1>6. Summarise(gaps).mean = 0
  <2> HIDE DEF gaps
  <2> QED BY <1>5, SummaryIs
<1> QED BY <1>1, <1>6

\* For any samples and any share: a threshold that separated reports every substitute,
\* and of the honest samples its share at most (verify.calibrate, _quantile, judge).
THEOREM CalibrationAlwaysSeparates == CalibrationSeparates
<1> SUFFICES ASSUME NEW run \in Honest, NEW other \in Substituted, Kept(Statistics(run)) # {}, NEW alpha \in Alphas
             PROVE LET c == Calibrate(Statistics(run), Statistics(other), alpha)
                       over == Cardinality(Reported(Statistics(run), c))
                   IN  /\ c.separated => Reported(Statistics(other), c) = Kept(Statistics(other))
                                           /\ Kept(Statistics(other)) # {}
                       /\ 100 * (over - 1) < alpha * (Cardinality(Kept(Statistics(run))) - 1)
                       /\ \A reply \in FirstChoices : Verdict(reply, c) # "cheat"
  BY DEF CalibrationSeparates
<1> DEFINE honest == Statistics(run)
           substituted == Statistics(other)
           c == Calibrate(honest, substituted, alpha)
<1>1. alpha \in 1..99 /\ Sampled(honest) /\ Sampled(substituted)
  BY VerdictAssumption, StatisticsAre
<1> HIDE DEF honest, substituted
<1>2. c.separated => Reported(substituted, c) = Kept(substituted) /\ Kept(substituted) # {}
  BY DEF Calibrate, Reported, Verdict, Kept
<1>3. c.threshold \in Nat
      /\ 100 * (Cardinality(Reported(honest, c)) - 1) < alpha * (Cardinality(Kept(honest)) - 1)
  BY <1>1, ThresholdIs DEF honest
<1>4. \A reply \in FirstChoices : Verdict(reply, c) # "cheat"
  <2> HIDE DEF c
  <2> SUFFICES ASSUME NEW reply \in FirstChoices PROVE ~ (100 * reply.mean > c.threshold)
    BY DEF Verdict
  <2>1. reply.mean = 0
    BY FirstChoicesAre
  <2> QED BY <1>3, <2>1
<1> QED BY <1>2, <1>3, <1>4 DEF honest, substituted

-----------------------------------------------------------------------------
(* Texts of replies. *)
Tokens(f) == Words \cup {"<call>", "</call>", f.separator}
IsCalls(calls) == calls \in Seq([name : Words, arguments : Words])

\* A function defined step by step up to N.
Iterated(g, S, base, N, G) ==
    g \in [0..N -> S] /\ g[0] = base /\ \A k \in 1..N : g[k] = G[<<k, g[k - 1]>>]

LEMMA Iterates ==
  ASSUME NEW S, NEW base \in S, NEW N \in Nat, NEW G \in [(1..N) \X S -> S]
  PROVE \E g : Iterated(g, S, base, N, G)
<1> DEFINE good(g, n) == g[0] = base /\ \A k \in 1..n : g[k] = G[<<k, g[k - 1]>>]
           F == {n \in Nat : n <= N => \E g \in [0..n -> S] : good(g, n)}
<1>1. 0 \in F
  <2> DEFINE g == [k \in 0..0 |-> base]
  <2>1. g \in [0..0 -> S] /\ good(g, 0)
    OBVIOUS
  <2> HIDE DEF g, good
  <2> QED BY <2>1
<1>2. ASSUME NEW n \in Nat, n \in F PROVE n + 1 \in F
  <2> SUFFICES ASSUME n + 1 <= N PROVE \E h \in [0..(n + 1) -> S] : good(h, n + 1)
    OBVIOUS
  <2>1. PICK g \in [0..n -> S] : good(g, n)
    BY <1>2
  <2> DEFINE h == [k \in 0..(n + 1) |-> IF k <= n THEN g[k] ELSE G[<<n + 1, g[n]>>]]
  <2>2. G[<<n + 1, g[n]>>] \in S
    <3>1. n + 1 \in 1..N /\ g[n] \in S
      BY SMTT(30)
    <3> QED BY <3>1, Zenon
  <2>3. h \in [0..(n + 1) -> S] /\ h[n + 1] = G[<<n + 1, g[n]>>] /\ \A k \in 0..n : h[k] = g[k]
    BY <2>2
  <2> HIDE DEF h
  <2>4. \A k \in 1..(n + 1) : h[k] = G[<<k, h[k - 1]>>]
    <3> TAKE k \in 1..(n + 1)
    <3>1. CASE k = n + 1
      BY <3>1, <2>3
    <3>2. CASE k # n + 1
      <4>1. k \in 1..n /\ k \in 0..n /\ k - 1 \in 0..n
        BY <3>2
      <4> QED BY <4>1, <2>1, <2>3
    <3> QED BY <3>1, <3>2
  <2>5. good(h, n + 1)
    BY <2>1, <2>3, <2>4
  <2> HIDE DEF good
  <2> QED BY <2>3, <2>5
<1>3. N \in F
  <2> HIDE DEF F
  <2> QED BY <1>1, <1>2, NatInduct
<1> QED BY <1>3 DEF Iterated

\* Texts of one token and of none.
LEMMA OneOrNone ==
  ASSUME NEW S
  PROVE /\ <<>> \in Seq(S) /\ Len(<<>>) = 0
        /\ \A x \in S : <<x>> \in Seq(S) /\ Len(<<x>>) = 1 /\ <<x>>[1] = x
  OBVIOUS

\* A marker that a family does not have takes no place.
LEMMA PutIs ==
  ASSUME NEW S, NEW m, m = "" \/ m \in S
  PROVE /\ Put(m) \in Seq(S) /\ (m = "" => Put(m) = <<>> /\ Len(Put(m)) = 0)
        /\ m # "" => Put(m) = <<m>> /\ Len(Put(m)) = 1 /\ Put(m)[1] = m
<1>1. (m = "" => Put(m) = <<>>) /\ (m # "" => Put(m) = <<m>>)
  BY DEF Put
<1> QED BY <1>1, OneOrNone, Zenon

\* A call is four tokens.
LEMMA CallIs ==
  ASSUME NEW f, NEW call \in [name : Words, arguments : Words]
  PROVE /\ RenderedCall(f, call) \in Seq(Tokens(f)) /\ Len(RenderedCall(f, call)) = 4
        /\ RenderedCall(f, call)[1] = "<call>" /\ RenderedCall(f, call)[2] = call.name
        /\ RenderedCall(f, call)[3] = call.arguments
<1>1. "<call>" \in Tokens(f) /\ "</call>" \in Tokens(f) /\ call.name \in Tokens(f) /\ call.arguments \in Tokens(f)
  BY DEF Tokens
<1> QED BY <1>1 DEF RenderedCall

\* The calls joined so far.
NextJoined(f, calls, text, n) ==
    text \o (IF n = 1 THEN <<>> ELSE Put(f.separator)) \o RenderedCall(f, calls[n])

IsJoined(f, calls, joined) ==
    /\ joined[0] = <<>>
    /\ \A n \in 1..Len(calls) : joined[n] = NextJoined(f, calls, joined[n - 1], n)

\* A call joined to a text leaves what stands there.
Grown(f, calls, text, n, gap) ==
    /\ NextJoined(f, calls, text, n) \in Seq(Tokens(f))
    /\ Len(NextJoined(f, calls, text, n)) = Len(text) + gap + 4
    /\ \A i \in 1..Len(text) : NextJoined(f, calls, text, n)[i] = text[i]
    /\ \A i \in 1..4 : NextJoined(f, calls, text, n)[Len(text) + gap + i] = RenderedCall(f, calls[n])[i]

LEMMA NextJoinedIs ==
  ASSUME NEW f, NEW calls, IsCalls(calls), NEW text \in Seq(Tokens(f)), NEW n \in 1..Len(calls)
  PROVE /\ NextJoined(f, calls, text, n) \in Seq(Tokens(f))
        /\ n = 1 \/ f.separator = "" => Grown(f, calls, text, n, 0)
        /\ ~ (n = 1 \/ f.separator = "") => Grown(f, calls, text, n, 1)
<1> DEFINE gap == IF n = 1 \/ f.separator = "" THEN 0 ELSE 1
           between == IF n = 1 THEN <<>> ELSE Put(f.separator)
           r == RenderedCall(f, calls[n])
           T == Tokens(f)
<1>1. between \in Seq(T) /\ Len(between) = gap /\ gap \in 0..1
  <2>1. f.separator \in T
    BY DEF Tokens
  <2>2. Put(f.separator) \in Seq(T) /\ Len(Put(f.separator)) = IF f.separator = "" THEN 0 ELSE 1
    <3> HIDE DEF T
    <3> QED BY <2>1, PutIs
  <2>3. <<>> \in Seq(T) /\ Len(<<>>) = 0
    OBVIOUS
  <2>4. CASE n = 1
    <3>1. between = <<>> /\ gap = 0
      BY <2>4
    <3> HIDE DEF T, between, gap
    <3> QED BY <3>1, <2>3
  <2>5. CASE n # 1
    <3>1. between = Put(f.separator) /\ gap = IF f.separator = "" THEN 0 ELSE 1
      BY <2>5
    <3>2. gap \in 0..1
      OBVIOUS
    <3> HIDE DEF T, between, gap
    <3>3. between \in Seq(T) /\ Len(between) = gap
      BY <3>1, <2>2, Zenon
    <3> QED BY <3>2, <3>3
  <2> QED BY <2>4, <2>5
<1>2. r \in Seq(T) /\ Len(r) = 4
  <2>1. calls[n] \in [name : Words, arguments : Words]
    <3> DEFINE C == [name : Words, arguments : Words]
    <3>1. calls \in Seq(C)
      BY DEF IsCalls
    <3> HIDE DEF C
    <3>2. calls[n] \in C
      BY <3>1
    <3> QED BY <3>2 DEF C
  <2> QED BY <2>1, CallIs
<1> HIDE DEF gap, between, r, T
<1>3. text \in Seq(T) /\ Len(text) \in Nat
  BY DEF T
<1> DEFINE one == text \o between
           all == one \o r
<1>4. one \in Seq(T) /\ Len(one) = Len(text) + gap /\ \A i \in 1..Len(text) : one[i] = text[i]
  BY <1>1, <1>3, ConcatProperties
<1> HIDE DEF one
<1>5. all \in Seq(T) /\ Len(all) = Len(one) + 4 /\ (\A i \in 1..Len(one) : all[i] = one[i])
      /\ \A i \in 1..4 : all[Len(one) + i] = r[i]
  <2>1. Len(one) \in Nat
    BY <1>4
  <2>2. all \in Seq(T) /\ Len(all) = Len(one) + Len(r)
        /\ \A i \in 1..(Len(one) + Len(r)) : all[i] = IF i <= Len(one) THEN one[i] ELSE r[i - Len(one)]
    BY <1>2, <1>4, ConcatProperties
  <2> DEFINE l == Len(one)
  <2>3. l \in Nat /\ Len(all) = l + 4 /\ all \in Seq(T)
        /\ \A i \in 1..(l + 4) : all[i] = IF i <= l THEN one[i] ELSE r[i - l]
    BY <1>2, <2>1, <2>2
  <2> HIDE DEF all, l
  <2>4. \A i \in 1..l : all[i] = one[i]
    BY <2>3
  <2>5. \A i \in 1..4 : all[l + i] = r[i]
    <3> SUFFICES ASSUME NEW i \in 1..4 PROVE all[l + i] = r[i]
      OBVIOUS
    <3>1. l + i \in 1..(l + 4) /\ ~ (l + i <= l) /\ (l + i) - l = i
      BY <2>3
    <3> QED BY <2>3, <3>1
  <2> QED BY <2>3, <2>4, <2>5 DEF l
<1>6. NextJoined(f, calls, text, n) = all
  BY DEF NextJoined, one, between, r
<1> HIDE DEF all
<1>7. /\ all \in Seq(T) /\ Len(all) = Len(text) + gap + 4 /\ (\A i \in 1..Len(text) : all[i] = text[i])
      /\ \A i \in 1..4 : all[Len(text) + gap + i] = r[i]
  <2> DEFINE l == Len(text)
             o == Len(one)
  <2>1. l \in Nat /\ o = l + gap /\ (gap = 0 \/ gap = 1)
    BY <1>1, <1>3, <1>4
  <2>2. /\ all \in Seq(T) /\ Len(all) = o + 4 /\ (\A i \in 1..o : all[i] = one[i])
        /\ (\A i \in 1..4 : all[o + i] = r[i]) /\ \A i \in 1..l : one[i] = text[i]
    BY <1>4, <1>5
  <2> HIDE DEF l, o
  <2>3. \A i \in 1..l : all[i] = text[i]
    <3>1. \A i \in 1..l : i \in 1..o
      BY <2>1
    <3> QED BY <2>2, <3>1, Zenon
  <2>4. \A i \in 1..4 : all[l + gap + i] = r[i]
    BY <2>1, <2>2, Zenon
  <2>5. Len(all) = l + gap + 4
    BY <2>1, <2>2, Zenon
  <2> QED BY <2>2, <2>3, <2>4, <2>5 DEF l
<1>8. Grown(f, calls, text, n, gap)
  BY <1>6, <1>7 DEF Grown, r, T
<1>9. gap = IF n = 1 \/ f.separator = "" THEN 0 ELSE 1
  BY DEF gap
<1> QED BY <1>8, <1>9 DEF Grown

\* Joined is what the steps give.
LEMMA JoinedIs ==
  ASSUME NEW f, NEW calls, IsCalls(calls)
  PROVE \E joined : /\ IsJoined(f, calls, joined) /\ Joined(f, calls) = joined[Len(calls)]
                    /\ joined \in [0..Len(calls) -> Seq(Tokens(f))]
<1> DEFINE N == Len(calls)
           S == Seq(Tokens(f))
           G == [x \in (1..N) \X S |-> NextJoined(f, calls, x[2], x[1])]
           good(g) == g = [n \in 0..N |-> IF n = 0 THEN <<>> ELSE NextJoined(f, calls, g[n - 1], n)]
<1>1. <<>> \in S /\ N \in Nat
  BY DEF IsCalls
<1>2. G \in [(1..N) \X S -> S]
  <2>1. \A n \in 1..N, text \in S : NextJoined(f, calls, text, n) \in S
    BY NextJoinedIs
  <2> HIDE DEF S, N
  <2> QED BY <2>1
<1>3. \A n \in 1..N, text \in S : G[<<n, text>>] = NextJoined(f, calls, text, n)
  OBVIOUS
<1> HIDE DEF S, G
<1>4. PICK g : Iterated(g, S, <<>>, N, G)
  BY <1>1, <1>2, Iterates
<1>5. good(g)
  <2>1. \A k \in 0..N : k # 0 => k \in 1..N /\ k - 1 \in 0..N
    BY <1>1
  <2> HIDE DEF N
  <2>2. ASSUME NEW k \in 0..N PROVE g[k] = IF k = 0 THEN <<>> ELSE NextJoined(f, calls, g[k - 1], k)
    <3>1. CASE k = 0
      BY <3>1, <1>4 DEF Iterated
    <3>2. CASE k # 0
      <4>1. k \in 1..N /\ g[k - 1] \in S
        BY <2>1, <3>2, <1>4 DEF Iterated
      <4> QED BY <4>1, <3>2, <1>3, <1>4 DEF Iterated
    <3> QED BY <3>1, <3>2
  <2>3. g = [k \in 0..N |-> g[k]]
    BY <1>4 DEF Iterated
  <2> QED BY <2>2, <2>3
<1> DEFINE h == CHOOSE g0 : good(g0)
<1>6. Joined(f, calls) = h[N]
  BY DEF Joined, NextJoined
<1>7. good(h)
  <2> HIDE DEF good
  <2> QED BY <1>5
<1> HIDE DEF h
<1>8. IsJoined(f, calls, h)
  <2>1. 0 \in 0..N /\ \A n \in 1..N : n \in 0..N /\ n # 0
    BY <1>1
  <2> HIDE DEF N
  <2>2. h[0] = <<>> /\ \A n \in 1..N : h[n] = NextJoined(f, calls, h[n - 1], n)
    BY <1>7, <2>1
  <2> QED BY <2>2 DEF IsJoined, N
<1>9. h \in [0..N -> S]
  <2> DEFINE F == {n \in Nat : n <= N => h[n] \in S}
  <2>1. 0 \in F
    BY <1>1, <1>8 DEF IsJoined
  <2>2. ASSUME NEW n \in Nat, n \in F PROVE n + 1 \in F
    <3> SUFFICES ASSUME n + 1 <= N PROVE h[n + 1] \in S
      OBVIOUS
    <3>1. h[n] \in S /\ n + 1 \in 1..N /\ (n + 1) - 1 = n
      BY <1>1, <2>2
    <3>2. h[n + 1] = NextJoined(f, calls, h[n], n + 1)
      BY <3>1, <1>8 DEF IsJoined
    <3>3. NextJoined(f, calls, h[n], n + 1) \in S
      BY <3>1, NextJoinedIs DEF S
    <3> QED BY <3>2, <3>3
  <2>3. \A n \in Nat : n \in F
    <3> HIDE DEF F
    <3> QED BY <2>1, <2>2, NatInduct
  <2>4. \A n \in 0..N : h[n] \in S
    BY <1>1, <2>3
  <2>5. h = [n \in 0..N |-> h[n]]
    BY <1>7
  <2> HIDE DEF N
  <2> QED BY <2>4, <2>5
<1> QED BY <1>6, <1>8, <1>9 DEF S

\* Where the calls stand in the text: s is the length of what separates them.
Separated(f) == IF f.separator = "" THEN 0 ELSE 1
Stands(f, calls, text, n) ==
    /\ text \in Seq(Tokens(f))
    /\ Len(text) = n * (4 + Separated(f)) - Separated(f)
    /\ \A k \in 1..n : \A i \in 1..4 : text[(k - 1) * (4 + Separated(f)) + i] = RenderedCall(f, calls[k])[i]

LEMMA JoinedStands ==
  ASSUME NEW f, NEW calls, IsCalls(calls), Len(calls) > 0
  PROVE Stands(f, calls, Joined(f, calls), Len(calls))
<1>1. PICK joined : /\ IsJoined(f, calls, joined) /\ Joined(f, calls) = joined[Len(calls)]
                    /\ joined \in [0..Len(calls) -> Seq(Tokens(f))]
  BY JoinedIs
<1> DEFINE N == Len(calls)
           s == Separated(f)
           w == 4 + s
           F == {n \in Nat : n + 1 <= N => Stands(f, calls, joined[n + 1], n + 1)}
<1>2. N \in Nat \ {0} /\ s \in 0..1
  BY DEF IsCalls, Separated
<1>3. 0 \in F
  <2>1. 1 \in 1..N /\ <<>> \in Seq(Tokens(f)) /\ Len(<<>>) = 0 /\ 1 - 1 = 0
    BY <1>2
  <2>2. joined[1] = NextJoined(f, calls, <<>>, 1)
    <3>1. joined[1] = NextJoined(f, calls, joined[1 - 1], 1) /\ joined[0] = <<>>
      BY <2>1, <1>1, Zenon DEF IsJoined
    <3> QED BY <2>1, <3>1, Zenon
  <2> DEFINE t == joined[1]
  <2>3. t \in Seq(Tokens(f)) /\ Len(t) = 4 /\ \A i \in 1..4 : t[i] = RenderedCall(f, calls[1])[i]
    <3> DEFINE empty == <<>>
    <3>1. empty \in Seq(Tokens(f)) /\ Len(empty) = 0
      BY <2>1
    <3> HIDE DEF empty
    <3>2. /\ NextJoined(f, calls, empty, 1) \in Seq(Tokens(f))
          /\ Len(NextJoined(f, calls, empty, 1)) = Len(empty) + 0 + 4
          /\ \A i \in 1..4 : NextJoined(f, calls, empty, 1)[Len(empty) + 0 + i] = RenderedCall(f, calls[1])[i]
      <4>1. Grown(f, calls, empty, 1, 0)
        BY <2>1, <3>1, NextJoinedIs
      <4> QED BY <4>1 DEF Grown
    <3>3. t = NextJoined(f, calls, empty, 1)
      BY <2>2 DEF empty
    <3> HIDE DEF t
    <3>4. \A i \in 1..4 : Len(empty) + 0 + i = i
      BY <3>1
    <3> QED BY <3>1, <3>2, <3>3, <3>4
  <2> HIDE DEF t
  <2>4. Len(t) = 1 * (4 + s) - s /\ \A k \in 1..1 : \A i \in 1..4 : k = 1 /\ (k - 1) * (4 + s) + i = i
    BY <1>2, <2>3
  <2> HIDE DEF s
  <2>5. \A k \in 1..1 : \A i \in 1..4 : t[(k - 1) * (4 + s) + i] = RenderedCall(f, calls[k])[i]
    BY <2>3, <2>4
  <2>6. Stands(f, calls, t, 1)
    BY <2>3, <2>4, <2>5 DEF Stands, s
  <2>7. 0 + 1 = 1
    OBVIOUS
  <2> QED BY <2>6, <2>7 DEF t
<1>4. ASSUME NEW n \in Nat, n \in F PROVE n + 1 \in F
  <2> SUFFICES ASSUME n + 2 <= N PROVE Stands(f, calls, joined[n + 2], n + 2)
    OBVIOUS
  <2> DEFINE text == joined[n + 1]
             longer == NextJoined(f, calls, text, n + 2)
  <2>1. /\ n + 2 \in 1..N /\ (n + 2) - 1 = n + 1 /\ n + 1 <= N /\ n + 2 # 1 /\ n + 1 \in Nat
    BY <1>2
  <2>2. joined[n + 2] = longer
    BY <2>1, <1>1 DEF IsJoined
  <2>3. Stands(f, calls, text, n + 1)
    BY <1>4, <2>1
  <2>4. /\ longer \in Seq(Tokens(f)) /\ Len(longer) = Len(text) + s + 4
        /\ \A i \in 1..Len(text) : longer[i] = text[i]
        /\ \A i \in 1..4 : longer[Len(text) + s + i] = RenderedCall(f, calls[n + 2])[i]
    <3>1. text \in Seq(Tokens(f)) /\ s = IF f.separator = "" THEN 0 ELSE 1
      BY <2>3 DEF Stands, Separated
    <3> HIDE DEF text, s
    <3>2. Grown(f, calls, text, n + 2, s)
      BY <2>1, <3>1, NextJoinedIs
    <3> QED BY <3>2 DEF Grown, longer
  <2>5. /\ text \in Seq(Tokens(f)) /\ Len(text) = (n + 1) * (4 + s) - s /\ Len(text) \in Nat
        /\ \A k \in 1..(n + 1) : \A i \in 1..4 : text[(k - 1) * (4 + s) + i] = RenderedCall(f, calls[k])[i]
    BY <2>3 DEF Stands
  <2> HIDE DEF text, longer, s
  <2>6. Len(longer) = (n + 2) * (4 + s) - s
    <3>1. s = 0 \/ s = 1
      BY <1>2
    <3>2. Len(longer) = Len(text) + s + 4 /\ Len(text) = (n + 1) * (4 + s) - s
      BY <2>4, <2>5
    <3> QED BY <3>1, <3>2, <2>1
  <2>7. ASSUME NEW k \in 1..(n + 2), NEW i \in 1..4
        PROVE longer[(k - 1) * (4 + s) + i] = RenderedCall(f, calls[k])[i]
    <3>0. s = 0 \/ s = 1
      BY <1>2
    <3>1. CASE k = n + 2
      <4>1. (k - 1) * (4 + s) + i = Len(text) + s + i
        BY <3>0, <3>1, <2>5
      <4> QED BY <4>1, <3>1, <2>4
    <3>2. CASE k # n + 2
      <4>1. k \in 1..(n + 1)
        BY <3>2
      <4>2. (k - 1) * (4 + s) + i \in 1..Len(text)
        <5>1. CASE s = 0
          BY <4>1, <5>1, <2>5
        <5>2. CASE s = 1
          BY <4>1, <5>2, <2>5
        <5> QED BY <3>0, <5>1, <5>2
      <4> QED BY <4>1, <4>2, <2>4, <2>5
    <3> QED BY <3>1, <3>2
  <2>8. Stands(f, calls, longer, n + 2)
    BY <2>4, <2>6, <2>7 DEF Stands, s
  <2> QED BY <2>2, <2>8
<1>5. \A n \in Nat : n \in F
  <2> HIDE DEF F
  <2> QED BY <1>3, <1>4, NatInduct
<1>6. N - 1 \in Nat /\ (N - 1) + 1 = N
  BY <1>2
<1>7. Stands(f, calls, joined[N], N)
  <2>1. N - 1 \in F
    BY <1>5, <1>6
  <2> QED BY <1>2, <1>6, <2>1
<1> QED BY <1>1, <1>7

\* A list of calls is read back from a text in which no call follows it.
LEMMA CallsAreToldApart ==
  ASSUME NEW f, f.separator # "<call>", NEW a, IsCalls(a), a # <<>>, NEW b, IsCalls(b), b # <<>>,
         NEW S, Tokens(f) \subseteq S, NEW s \in Seq(S \ {"<call>"}), NEW t \in Seq(S \ {"<call>"}),
         Joined(f, a) \o s = Joined(f, b) \o t
  PROVE Len(a) <= Len(b) => Len(a) = Len(b) /\ a = b
<1> DEFINE n == Len(a)
           m == Len(b)
           g == Separated(f)
           x == Joined(f, a)
           y == Joined(f, b)
           T == S
           C == [name : Words, arguments : Words]
<1>1. /\ n \in Nat \ {0} /\ m \in Nat \ {0} /\ (g = 0 \/ g = 1) /\ a \in Seq(C) /\ b \in Seq(C)
  BY DEF IsCalls, Separated
<1>2. Stands(f, a, x, n) /\ Stands(f, b, y, m)
  BY <1>1, JoinedStands
<1>3. /\ x \in Seq(T) /\ y \in Seq(T) /\ s \in Seq(T) /\ t \in Seq(T) /\ Len(s) \in Nat /\ Len(t) \in Nat
      /\ \A i \in 1..Len(s) : s[i] # "<call>"
  BY <1>2 DEF Stands
<1>4. /\ Len(x) = n * (4 + g) - g /\ Len(y) = m * (4 + g) - g /\ Len(x) \in Nat /\ Len(y) \in Nat
      /\ \A k \in 1..n : \A i \in 1..4 : x[(k - 1) * (4 + g) + i] = RenderedCall(f, a[k])[i]
      /\ \A k \in 1..m : \A i \in 1..4 : y[(k - 1) * (4 + g) + i] = RenderedCall(f, b[k])[i]
  BY <1>2, <1>3 DEF Stands
<1> HIDE DEF n, m, g, x, y, T, C
<1> DEFINE z == x \o s
<1>5. /\ Len(z) = Len(x) + Len(s) /\ \A i \in 1..(Len(x) + Len(s)) : z[i] = IF i <= Len(x) THEN x[i] ELSE s[i - Len(x)]
  BY <1>3, ConcatProperties
<1>6. /\ Len(z) = Len(y) + Len(t) /\ \A i \in 1..(Len(y) + Len(t)) : z[i] = IF i <= Len(y) THEN y[i] ELSE t[i - Len(y)]
  <2>1. z = y \o t
    BY DEF x, y
  <2> HIDE DEF z
  <2> QED BY <1>3, <2>1, ConcatProperties
<1> HIDE DEF z
<1> SUFFICES ASSUME n <= m PROVE n = m /\ a = b
  BY DEF n, m
<1>7. n = m
  <2> SUFFICES ASSUME n < m PROVE FALSE
    BY <1>1
  <2> DEFINE p == n * (4 + g) + 1
  <2>1. /\ p \in 1..Len(y) /\ p > Len(x) /\ p - Len(x) = g + 1
    <3>1. CASE g = 0
      BY <3>1, <1>1, <1>4
    <3>2. CASE g = 1
      BY <3>2, <1>1, <1>4
    <3> QED BY <1>1, <3>1, <3>2
  <2>2. y[p] = "<call>"
    <3>1. n + 1 \in 1..m /\ 1 \in 1..4 /\ ((n + 1) - 1) * (4 + g) + 1 = p
      BY <1>1
    <3>2. b[n + 1] \in C
      BY <1>1, <3>1 DEF m
    <3>3. RenderedCall(f, b[n + 1])[1] = "<call>"
      BY <3>2, CallIs DEF C
    <3> HIDE DEF p
    <3>4. y[((n + 1) - 1) * (4 + g) + 1] = RenderedCall(f, b[n + 1])[1]
      BY <1>4, <3>1
    <3> QED BY <3>1, <3>3, <3>4
  <2> HIDE DEF p
  <2>3. z[p] = y[p] /\ p \in 1..Len(z)
    BY <1>3, <1>4, <1>6, <2>1
  <2>4. z[p] = s[g + 1] /\ g + 1 \in 1..Len(s)
    BY <1>3, <1>4, <1>5, <2>1, <2>3
  <2> QED BY <1>3, <2>2, <2>3, <2>4
<1>8. \A k \in 1..n : a[k] = b[k]
  <2> SUFFICES ASSUME NEW k \in 1..n PROVE a[k] = b[k]
    OBVIOUS
  <2>1. a[k] \in C /\ b[k] \in C
    BY <1>1, <1>7 DEF n, m
  <2>2. ASSUME NEW i \in 1..4 PROVE RenderedCall(f, a[k])[i] = RenderedCall(f, b[k])[i]
    <3> DEFINE p == (k - 1) * (4 + g) + i
    <3>1. p \in 1..Len(x) /\ Len(x) = Len(y)
      <4>1. CASE g = 0
        BY <4>1, <1>1, <1>4, <1>7
      <4>2. CASE g = 1
        BY <4>2, <1>1, <1>4, <1>7
      <4> QED BY <1>1, <4>1, <4>2
    <3>2. x[p] = RenderedCall(f, a[k])[i] /\ y[p] = RenderedCall(f, b[k])[i]
      BY <1>4, <1>7
    <3> HIDE DEF p
    <3>3. z[p] = x[p] /\ z[p] = y[p]
      BY <1>3, <1>4, <1>5, <1>6, <3>1
    <3> QED BY <3>2, <3>3
  <2>3. a[k].name = b[k].name /\ a[k].arguments = b[k].arguments
    <3>1. 2 \in 1..4 /\ 3 \in 1..4
      OBVIOUS
    <3> QED BY <2>1, <2>2, <3>1, CallIs DEF C
  <2> QED BY <2>1, <2>3 DEF C
<1>9. a = b
  <2>1. Len(a) = Len(b) /\ \A k \in 1..Len(a) : a[k] = b[k]
    BY <1>7, <1>8 DEF n, m
  <2> QED BY <1>1, <2>1, SeqEqual
<1> QED BY <1>7, <1>9

-----------------------------------------------------------------------------
(* Replies told apart. *)
Finishes == {"stop", "tool_calls", "length"}
Fragments == Words \cup {""}
All(f) == Tokens(f) \cup Markers(f)
Thought(f, reasoning) == IF reasoning = "" THEN <<>> ELSE Put(f.open) \o <<reasoning>> \o Put(f.close)
Said(f, content) == IF content = "" THEN <<>> ELSE Put(f.prefix) \o <<content>>
Header(f, content) == (IF content = "" THEN <<>> ELSE Put(f.before)) \o Put(f.opened)
Called(f, content, calls) ==
    IF calls = <<>> THEN <<>> ELSE Header(f, content) \o Joined(f, calls) \o Put(f.closed)
Ending(f, content, calls, finish) == Called(f, content, calls) \o EndOf(f, finish)
Rest(f, content, calls, finish) == Said(f, content) \o Ending(f, content, calls, finish)

\* What tells the parts of a text apart.
Legible(f) ==
    /\ f.close # "" =>
           f.close \notin {"<call>", "</call>", f.prefix, f.before, f.opened, f.separator, f.closed, f.end, f.ended}
    /\ f.prefix # "" => f.prefix \notin {"<call>", f.opened, f.end, f.ended}
    /\ "<call>" \notin {f.separator, f.closed, f.end, f.ended}
    /\ Words \cap Markers(f) = {}

\* The six families of markers.py.
LEMMA FamiliesAreLegible == \A f \in {Families[name] : name \in DOMAIN Families} : Legible(f)
<1> SUFFICES ASSUME NEW name \in DOMAIN Families PROVE Legible(Families[name])
  OBVIOUS
<1>1. Words \cap Markers(Families[name]) = {}
  BY VerdictAssumption
<1>2. name \in {"deepseek", "glm", "kimi", "qwen", "qwen_coder", "hermes"}
  BY DEF Families
<1>3. CASE name = "deepseek"
  BY <1>1, <1>3 DEF Legible, Families, Family
<1>4. CASE name = "glm"
  BY <1>1, <1>4 DEF Legible, Families, Family
<1>5. CASE name = "kimi"
  BY <1>1, <1>5 DEF Legible, Families, Family
<1>6. CASE name = "qwen"
  BY <1>1, <1>6 DEF Legible, Families, Family
<1>7. CASE name = "qwen_coder"
  BY <1>1, <1>7 DEF Legible, Families, Family
<1>8. CASE name = "hermes"
  BY <1>1, <1>8 DEF Legible, Families, Family
<1> QED BY <1>2, <1>3, <1>4, <1>5, <1>6, <1>7, <1>8

\* Texts that start with parts of one length are equal part by part.
LEMMA SameFronts ==
  ASSUME NEW S, NEW p \in Seq(S), NEW q \in Seq(S), NEW s \in Seq(S), NEW t \in Seq(S),
         Len(p) = Len(q), p \o s = q \o t
  PROVE p = q /\ s = t
<1> DEFINE z == p \o s
<1>1. /\ Len(z) = Len(p) + Len(s) /\ \A i \in 1..(Len(p) + Len(s)) : z[i] = IF i <= Len(p) THEN p[i] ELSE s[i - Len(p)]
  BY ConcatProperties
<1>2. /\ Len(z) = Len(q) + Len(t) /\ \A i \in 1..(Len(q) + Len(t)) : z[i] = IF i <= Len(q) THEN q[i] ELSE t[i - Len(q)]
  <2>1. z = q \o t
    OBVIOUS
  <2> HIDE DEF z
  <2> QED BY <2>1, ConcatProperties
<1> HIDE DEF z
<1>3. Len(p) \in Nat /\ Len(s) \in Nat /\ Len(t) \in Nat /\ Len(q) \in Nat
  OBVIOUS
<1>4. \A i \in 1..Len(p) : p[i] = q[i]
  BY <1>1, <1>2, <1>3
<1>5. p = q
  BY <1>4, SeqEqual
<1>6. s = t
  BY <1>5, ConcatSimplifications
<1> QED BY <1>5, <1>6

\* A token of the first part stands in the text, where a text without it has none.
LEMMA NotWithout ==
  ASSUME NEW S, NEW m, NEW p \in Seq(S), NEW s \in Seq(S), NEW j \in 1..Len(p), p[j] = m,
         NEW t \in Seq(S \ {m}), p \o s = t
  PROVE FALSE
<1> DEFINE z == p \o s
<1>1. /\ Len(z) = Len(p) + Len(s) /\ \A i \in 1..(Len(p) + Len(s)) : z[i] = IF i <= Len(p) THEN p[i] ELSE s[i - Len(p)]
  BY ConcatProperties
<1>2. z = t
  OBVIOUS
<1> HIDE DEF z
<1>3. Len(p) \in Nat /\ Len(s) \in Nat
  OBVIOUS
<1>4. j \in 1..Len(z) /\ z[j] = m
  BY <1>1, <1>3
<1>5. t[j] \in S \ {m}
  BY <1>2, <1>4, ElementOfSeq
<1> QED BY <1>2, <1>4, <1>5

Grouped(s, t, u) == (s \o t) \o u = s \o (t \o u)
LEMMA Grouping ==
  ASSUME NEW S, NEW s \in Seq(S), NEW t \in Seq(S), NEW u \in Seq(S)
  PROVE Grouped(s, t, u)
BY ConcatAssociative DEF Grouped

\* A text of four parts.
Regrouped(h, j, c, e) == ((h \o j) \o c) \o e = h \o (j \o (c \o e))
LEMMA FourParts ==
  ASSUME NEW S, NEW h \in Seq(S), NEW j \in Seq(S), NEW c \in Seq(S), NEW e \in Seq(S)
  PROVE /\ Regrouped(h, j, c, e)
        /\ c \o e \in Seq(S) /\ j \o (c \o e) \in Seq(S)
<1>1. h \o j \in Seq(S) /\ j \o c \in Seq(S) /\ c \o e \in Seq(S)
  BY ConcatProperties
<1>2. Grouped(h \o j, c, e)
  BY <1>1, Grouping, Zenon
<1>3. Grouped(h, j, c \o e)
  BY <1>1, Grouping, Zenon
<1>4. j \o (c \o e) \in Seq(S)
  BY <1>1, ConcatProperties
<1>5. Regrouped(h, j, c, e)
  BY <1>2, <1>3, Zenon DEF Regrouped, Grouped
<1> QED BY <1>1, <1>4, <1>5

\* So does a token in the middle of it.
LEMMA NotWithoutInside ==
  ASSUME NEW S, NEW m, NEW h \in Seq(S), NEW p \in Seq(S), NEW s \in Seq(S), 1 \in 1..Len(p), p[1] = m,
         NEW t \in Seq(S \ {m}), h \o (p \o s) = t
  PROVE FALSE
<1> DEFINE l == Len(h)
           z == h \o p
<1>1. /\ z \in Seq(S) /\ Len(z) = Len(h) + Len(p)
      /\ \A i \in 1..(Len(h) + Len(p)) : z[i] = IF i <= Len(h) THEN h[i] ELSE p[i - Len(h)]
  BY ConcatProperties
<1>2. l \in Nat /\ Len(p) \in Nat
  OBVIOUS
<1>3. z \o s = t
  BY ConcatAssociative
<1> HIDE DEF z
<1>4. l + 1 \in 1..Len(z) /\ z[l + 1] = m
  <2>1. l + 1 \in 1..(l + Len(p)) /\ ~ (l + 1 <= l) /\ (l + 1) - l = 1
    BY <1>2
  <2>2. Len(z) = l + Len(p) /\ \A i \in 1..(l + Len(p)) : z[i] = IF i <= l THEN h[i] ELSE p[i - l]
    BY <1>1
  <2> HIDE DEF l
  <2>3. z[l + 1] = p[(l + 1) - l]
    BY <2>1, <2>2
  <2> QED BY <2>1, <2>2, <2>3
<1> HIDE DEF l
<1> QED BY <1>1, <1>3, <1>4, NotWithout

\* The end of a text.
LEMMA EndIs ==
  ASSUME NEW f, NEW finish \in Finishes, NEW S, {f.end, f.ended} \subseteq S \cup {""}
  PROVE EndOf(f, finish) \in Seq(S)
<1>1. Put(f.end) \in Seq(S) /\ Put(f.ended) \in Seq(S) /\ <<>> \in Seq(S)
  BY PutIs
<1> QED BY <1>1 DEF EndOf

\* The calls of a text start with a tag.
LEMMA JoinedIn ==
  ASSUME NEW f, NEW calls, IsCalls(calls), calls # <<>>, NEW S, Tokens(f) \subseteq S
  PROVE Joined(f, calls) \in Seq(S) /\ 1 \in 1..Len(Joined(f, calls)) /\ Joined(f, calls)[1] = "<call>"
<1> DEFINE n == Len(calls)
           g == Separated(f)
           x == Joined(f, calls)
           C == [name : Words, arguments : Words]
<1>1. calls \in Seq(C)
  BY DEF IsCalls
<1>2. n \in Nat \ {0} /\ (g = 0 \/ g = 1)
  <2> HIDE DEF C
  <2> QED BY <1>1, EmptySeq DEF Separated
<1>3. Stands(f, calls, x, n)
  BY <1>2, JoinedStands
<1>4. calls[1] \in C
  <2> HIDE DEF C
  <2> QED BY <1>1, <1>2
<1>5. RenderedCall(f, calls[1])[1] = "<call>"
  BY <1>4, CallIs
<1>6. x \in Seq(S)
  BY <1>3, SeqMonotonic DEF Stands
<1>7. /\ Len(x) = n * (4 + g) - g
      /\ \A k \in 1..n : \A i \in 1..4 : x[(k - 1) * (4 + g) + i] = RenderedCall(f, calls[k])[i]
  BY <1>3 DEF Stands
<1> HIDE DEF x, n, g
<1>8. Len(x) >= 1
  <2>1. CASE g = 0
    BY <1>2, <1>7, <2>1
  <2>2. CASE g = 1
    BY <1>2, <1>7, <2>2
  <2> QED BY <1>2, <2>1, <2>2
<1>9. x[1] = "<call>"
  <2>1. 1 \in 1..n /\ 1 \in 1..4 /\ (1 - 1) * (4 + g) + 1 = 1
    BY <1>2
  <2>2. x[(1 - 1) * (4 + g) + 1] = RenderedCall(f, calls[1])[1]
    BY <1>7, <2>1
  <2> QED BY <1>5, <2>1, <2>2
<1>10. Len(x) \in Nat
  BY <1>6
<1> QED BY <1>6, <1>8, <1>9, <1>10 DEF x

\* The calls of a text and what follows them are read back.
LEMMA CalledIsToldApart ==
  ASSUME NEW f, Legible(f), NEW content \in Fragments, NEW a, IsCalls(a), NEW b, IsCalls(b),
         NEW s \in Finishes, NEW t \in Finishes,
         Ending(f, content, a, s) = Ending(f, content, b, t)
  PROVE a # <<>> => b # <<>> /\ (Len(a) <= Len(b) => a = b)
<1> SUFFICES ASSUME a # <<>> PROVE b # <<>> /\ (Len(a) <= Len(b) => a = b)
  OBVIOUS
<1> DEFINE T == All(f)
           h == Header(f, content)
           c == Put(f.closed)
           es == EndOf(f, s)
           et == EndOf(f, t)
           U == T \ {"<call>"}
           ja == Joined(f, a)
           jb == Joined(f, b)
<1>1. es \in Seq(U) /\ et \in Seq(U) /\ c \in Seq(U)
  <2>1. {f.end, f.ended} \subseteq U \cup {""} /\ f.closed \in U
    BY DEF Legible, All, Markers
  <2> HIDE DEF U
  <2> QED BY <2>1, EndIs, PutIs
<1>2. h \in Seq(T)
  <2>1. f.before \in T /\ f.opened \in T
    BY DEF All, Markers
  <2> HIDE DEF T
  <2>2. Put(f.before) \in Seq(T) /\ Put(f.opened) \in Seq(T) /\ <<>> \in Seq(T)
    BY <2>1, PutIs
  <2>3. (IF content = "" THEN <<>> ELSE Put(f.before)) \in Seq(T)
    BY <2>2
  <2> QED BY <2>2, <2>3, ConcatProperties DEF Header
<1>3. U \subseteq T /\ es \in Seq(T) /\ et \in Seq(T) /\ c \in Seq(T)
  <2>1. U \subseteq T
    OBVIOUS
  <2> HIDE DEF U
  <2> QED BY <1>1, <2>1, SeqMonotonic
<1>4. ja \in Seq(T) /\ 1 \in 1..Len(ja) /\ ja[1] = "<call>"
  BY JoinedIn DEF All
<1>5. Called(f, content, a) = (h \o ja) \o c
  BY DEF Called
<1> HIDE DEF h, c, es, et, ja, T
<1>6. Called(f, content, a) \o es = h \o (ja \o (c \o es))
  <2>1. ((h \o ja) \o c) \o es = h \o (ja \o (c \o es))
    <3>1. Regrouped(h, ja, c, es)
      BY <1>2, <1>3, <1>4, FourParts, Zenon
    <3> QED BY <3>1, Zenon DEF Regrouped
  <2> QED BY <1>5, <2>1, Zenon
<1>7. b # <<>>
  <2> SUFFICES ASSUME b = <<>> PROVE FALSE
    OBVIOUS
  <2>1. Called(f, content, b) \o et = et
    <3>1. Called(f, content, b) = <<>>
      BY DEF Called
    <3> QED BY <3>1, <1>3, ConcatEmptySeq
  <2>2. Called(f, content, a) \o es = Called(f, content, b) \o et
    BY DEF es, et, Ending
  <2> DEFINE v == c \o es
  <2>3. v \in Seq(T)
    BY <1>2, <1>3, <1>4, FourParts
  <2>4. h \o (ja \o v) = et
    BY <1>6, <2>1, <2>2, Zenon
  <2> HIDE DEF v
  <2> QED BY <1>1, <1>2, <1>4, <2>3, <2>4, NotWithoutInside, Zenon
<1>8. ASSUME Len(a) <= Len(b) PROVE a = b
  <2>1. jb \in Seq(T)
    BY <1>7, JoinedIn DEF All, T
  <2>2. Called(f, content, b) = (h \o jb) \o c
    BY <1>7 DEF Called, h, c
  <2> HIDE DEF jb
  <2>3. Called(f, content, b) \o et = h \o (jb \o (c \o et))
    <3>1. ((h \o jb) \o c) \o et = h \o (jb \o (c \o et))
      <4>1. Regrouped(h, jb, c, et)
        BY <1>2, <1>3, <2>1, FourParts, Zenon
      <4> QED BY <4>1, Zenon DEF Regrouped
    <3> QED BY <2>2, <3>1, Zenon
  <2> DEFINE u == c \o es
             v == c \o et
  <2>4. u \in Seq(U) /\ v \in Seq(U)
    <3> HIDE DEF U
    <3> QED BY <1>1, ConcatProperties
  <2>5. ja \o u \in Seq(T) /\ jb \o v \in Seq(T)
    BY <1>2, <1>3, <1>4, <2>1, FourParts, Zenon
  <2> HIDE DEF u, v
  <2>6. h \o (ja \o u) = h \o (jb \o v)
    <3>1. Called(f, content, a) \o es = Called(f, content, b) \o et
      BY DEF es, et, Ending
    <3> QED BY <3>1, <1>6, <2>3 DEF u, v
  <2> DEFINE one == ja \o u
             two == jb \o v
  <2>7. one = two
    <3>1. one \in Seq(T) /\ two \in Seq(T) /\ h \o one = h \o two
      BY <2>5, <2>6
    <3> HIDE DEF one, two
    <3> QED BY <1>2, <3>1, SameFronts, Zenon
  <2>8. f.separator # "<call>" /\ Tokens(f) \subseteq T
    BY DEF Legible, All, T, Markers
  <2>9. Joined(f, a) \o u = Joined(f, b) \o v
    BY <2>7, Zenon DEF ja, jb, one, two
  <2>10. u \in Seq(T \ {"<call>"}) /\ v \in Seq(T \ {"<call>"})
    BY <2>4
  <2> HIDE DEF T
  <2>11. Len(a) <= Len(b) => Len(a) = Len(b) /\ a = b
    BY <1>7, <2>8, <2>9, <2>10, CallsAreToldApart
  <2> QED BY <1>8, <2>11, Zenon
<1> QED BY <1>7, <1>8

\* Tokens put one after the other.
Pair(x, y) == <<x>> \o <<y>> = <<x, y>>
Triple(x, y, z) == <<x, y>> \o <<z>> = <<x, y, z>>
LEMMA Tuples ==
  ASSUME NEW S, NEW x \in S, NEW y \in S, NEW z \in S
  PROVE /\ Pair(x, y) /\ Triple(x, y, z)
        /\ <<x>> \in Seq(S) /\ <<x, y>> \in Seq(S) /\ <<x, y, z>> \in Seq(S)
<1>1. <<x>> \in Seq(S) /\ <<y>> \in Seq(S) /\ <<z>> \in Seq(S) /\ <<x, y>> \in Seq(S) /\ <<x, y, z>> \in Seq(S)
  OBVIOUS
<1>2. <<x>> \o <<y>> = <<x, y>>
  <2> DEFINE u == <<x>> \o <<y>>
             v == <<x, y>>
  <2>1. u \in Seq(S) /\ v \in Seq(S) /\ Len(u) = Len(v) /\ \A i \in 1..Len(u) : u[i] = v[i]
    BY <1>1, ConcatProperties
  <2> HIDE DEF u, v
  <2>2. u = v
    BY <2>1, SeqEqual
  <2> QED BY <2>2 DEF u, v
<1>3. <<x, y>> \o <<z>> = <<x, y, z>>
  <2> DEFINE u == <<x, y>> \o <<z>>
             v == <<x, y, z>>
  <2>1. u \in Seq(S) /\ v \in Seq(S) /\ Len(u) = Len(v) /\ \A i \in 1..Len(u) : u[i] = v[i]
    BY <1>1, ConcatProperties
  <2> HIDE DEF u, v
  <2>2. u = v
    BY <2>1, SeqEqual
  <2> QED BY <2>2 DEF u, v
<1> QED BY <1>1, <1>2, <1>3 DEF Pair, Triple

\* Texts of one, two and three tokens.
One(p, m) == Len(p) = 1 /\ 1 \in 1..Len(p) /\ p[1] = m
Two(p, m, n) == Len(p) = 2 /\ 1 \in 1..Len(p) /\ 2 \in 1..Len(p) /\ p[1] = m /\ p[2] = n
Three(p, m, n, o) ==
    Len(p) = 3 /\ 1 \in 1..Len(p) /\ 2 \in 1..Len(p) /\ 3 \in 1..Len(p) /\ p[1] = m /\ p[2] = n /\ p[3] = o
LEMMA Shapes ==
  /\ \A p, m : p = <<m>> => One(p, m)
  /\ \A p, m, n : p = <<m, n>> => Two(p, m, n)
  /\ \A p, m, n, o : p = <<m, n, o>> => Three(p, m, n, o)
BY DEF One, Two, Three

\* A text starts as its first part does.
OpensAs(p, s) == (p \o s)[1] = p[1] /\ p \o s # <<>>
LEMMA StartsWith ==
  ASSUME NEW S, NEW p \in Seq(S), NEW s \in Seq(S), 1 \in 1..Len(p)
  PROVE OpensAs(p, s)
<1> DEFINE z == p \o s
<1>1. z \in Seq(S) /\ Len(z) = Len(p) + Len(s) /\ Len(p) \in Nat /\ Len(s) \in Nat
      /\ \A i \in 1..(Len(p) + Len(s)) : z[i] = IF i <= Len(p) THEN p[i] ELSE s[i - Len(p)]
  BY ConcatProperties, LenProperties
<1> HIDE DEF z
<1>2. z[1] = p[1] /\ z # <<>>
  BY <1>1
<1> QED BY <1>2 DEF OpensAs, z

\* The content and the prefix in front of it.
LEMMA SaidIs ==
  ASSUME NEW f, NEW content, NEW S, content \in S, f.prefix = "" \/ f.prefix \in S
  PROVE content # "" => /\ f.prefix = "" => Said(f, content) = <<content>>
                        /\ f.prefix # "" => Said(f, content) = <<f.prefix, content>>
<1> SUFFICES ASSUME content # ""
             PROVE /\ f.prefix = "" => Said(f, content) = <<content>>
                   /\ f.prefix # "" => Said(f, content) = <<f.prefix, content>>
  OBVIOUS
<1>1. Said(f, content) = Put(f.prefix) \o <<content>>
  BY DEF Said
<1>2. CASE f.prefix = ""
  <2>1. Put(f.prefix) = <<>>
    BY <1>2 DEF Put
  <2>2. <<>> \o <<content>> = <<content>>
    BY ConcatEmptySeq, OneOrNone, Zenon
  <2> QED BY <1>1, <1>2, <2>1, <2>2, Zenon
<1>3. CASE f.prefix # ""
  <2>1. Put(f.prefix) = <<f.prefix>>
    BY <1>3 DEF Put
  <2>2. Pair(f.prefix, content)
    BY <1>3, Tuples, Zenon
  <2>3. Said(f, content) = <<f.prefix, content>>
    BY <1>1, <2>1, <2>2, Zenon DEF Pair
  <2> QED BY <1>3, <2>3, Zenon
<1> QED BY <1>2, <1>3

\* The reasoning between its markers.
LEMMA ThoughtIs ==
  ASSUME NEW f, NEW reasoning, NEW S, reasoning \in S, f.open = "" \/ f.open \in S, f.close \in S, f.close # ""
  PROVE reasoning # "" => /\ f.open = "" => Thought(f, reasoning) = <<reasoning, f.close>>
                          /\ f.open # "" => Thought(f, reasoning) = <<f.open, reasoning, f.close>>
<1> SUFFICES ASSUME reasoning # ""
             PROVE /\ f.open = "" => Thought(f, reasoning) = <<reasoning, f.close>>
                   /\ f.open # "" => Thought(f, reasoning) = <<f.open, reasoning, f.close>>
  OBVIOUS
<1>1. Thought(f, reasoning) = (Put(f.open) \o <<reasoning>>) \o Put(f.close)
  BY DEF Thought
<1>2. Put(f.close) = <<f.close>>
  BY DEF Put
<1>3. CASE f.open = ""
  <2>1. Put(f.open) = <<>>
    BY <1>3 DEF Put
  <2>2. <<>> \o <<reasoning>> = <<reasoning>> /\ Pair(reasoning, f.close)
    BY ConcatEmptySeq, OneOrNone, Tuples, Zenon
  <2>3. Thought(f, reasoning) = <<reasoning, f.close>>
    BY <1>1, <1>2, <2>1, <2>2, Zenon DEF Pair
  <2> QED BY <1>3, <2>3, Zenon
<1>4. CASE f.open # ""
  <2>1. Put(f.open) = <<f.open>>
    BY <1>4 DEF Put
  <2>2. Pair(f.open, reasoning) /\ Triple(f.open, reasoning, f.close)
    BY <1>4, Tuples, Zenon
  <2>3. Thought(f, reasoning) = <<f.open, reasoning, f.close>>
    BY <1>1, <1>2, <2>1, <2>2, Zenon DEF Pair, Triple
  <2> QED BY <1>4, <2>3, Zenon
<1> QED BY <1>3, <1>4

\* The tokens of a text after its reasoning.
LEMMA RestIs ==
  ASSUME NEW f, NEW content, NEW calls, IsCalls(calls), NEW finish \in Finishes,
         NEW S, Tokens(f) \subseteq S, content = "" \/ content \in S,
         {f.prefix, f.before, f.opened, f.closed, f.end, f.ended} \subseteq S \cup {""}
  PROVE /\ Said(f, content) \in Seq(S) /\ Called(f, content, calls) \in Seq(S) /\ EndOf(f, finish) \in Seq(S)
        /\ Ending(f, content, calls, finish) \in Seq(S) /\ Rest(f, content, calls, finish) \in Seq(S)
<1> DEFINE none == <<>>
<1>1. none \in Seq(S)
  BY OneOrNone
<1>2. Put(f.prefix) \in Seq(S) /\ Put(f.before) \in Seq(S) /\ Put(f.opened) \in Seq(S) /\ Put(f.closed) \in Seq(S)
  BY PutIs
<1>3. Said(f, content) \in Seq(S)
  <2>1. CASE content = ""
    BY <1>1, <2>1 DEF Said
  <2>2. CASE content # ""
    <3>1. <<content>> \in Seq(S)
      BY <2>2, OneOrNone
    <3>2. Put(f.prefix) \o <<content>> \in Seq(S)
      BY <1>2, <3>1, ConcatProperties
    <3> QED BY <2>2, <3>2 DEF Said
  <2> QED BY <2>1, <2>2
<1>4. Header(f, content) \in Seq(S)
  <2> DEFINE g == IF content = "" THEN <<>> ELSE Put(f.before)
  <2>1. g \in Seq(S)
    BY <1>1, <1>2
  <2> HIDE DEF g
  <2>2. g \o Put(f.opened) \in Seq(S)
    BY <1>2, <2>1, ConcatProperties
  <2> QED BY <2>2 DEF Header, g
<1>5. Called(f, content, calls) \in Seq(S)
  <2>1. CASE calls = <<>>
    BY <1>1, <2>1 DEF Called
  <2>2. CASE calls # <<>>
    <3>1. Joined(f, calls) \in Seq(S)
      BY <2>2, JoinedIn
    <3>2. Header(f, content) \o Joined(f, calls) \in Seq(S)
      BY <1>4, <3>1, ConcatProperties
    <3>3. (Header(f, content) \o Joined(f, calls)) \o Put(f.closed) \in Seq(S)
      BY <1>2, <3>2, ConcatProperties
    <3> QED BY <2>2, <3>3 DEF Called
  <2> QED BY <2>1, <2>2
<1>6. EndOf(f, finish) \in Seq(S)
  BY EndIs
<1>7. Ending(f, content, calls, finish) \in Seq(S)
  BY <1>5, <1>6, ConcatProperties DEF Ending
<1>8. Rest(f, content, calls, finish) \in Seq(S)
  BY <1>3, <1>7, ConcatProperties DEF Rest
<1> QED BY <1>3, <1>5, <1>6, <1>7, <1>8

\* What follows where there is no content.
Firsts(f) == {f.opened, "<call>", f.end, f.ended}
LEMMA FirstIs ==
  ASSUME NEW f, NEW calls, IsCalls(calls), NEW finish \in Finishes,
         Ending(f, "", calls, finish) # <<>>
  PROVE Ending(f, "", calls, finish)[1] \in Firsts(f)
<1> DEFINE S == All(f)
           e == EndOf(f, finish)
           c == Put(f.closed)
           o == Put(f.opened)
           j == Joined(f, calls)
           k == Called(f, "", calls)
<1>1. /\ {f.opened, f.closed, f.end, f.ended} \subseteq S /\ Tokens(f) \subseteq S
      /\ {f.end, f.ended} \subseteq S \cup {""}
  BY DEF All, Markers
<1> HIDE DEF S
<1>2. e \in Seq(S) /\ c \in Seq(S) /\ o \in Seq(S)
  BY <1>1, EndIs, PutIs
<1>3. CASE calls = <<>>
  <2>1. k = <<>>
    BY <1>3 DEF Called
  <2>2. <<>> \o e = e
    BY <1>2, ConcatEmptySeq
  <2>3. k \o e = e
    BY <2>1, <2>2, Zenon
  <2>4. e = <<>> \/ e[1] \in {f.end, f.ended}
    <3>1. e = Put(f.ended) \/ e = Put(f.end) \/ e = <<>>
      <4> HIDE DEF S
      <4> QED BY DEF EndOf
    <3>2. \A m : Put(m) = <<>> \/ Put(m)[1] = m
      BY DEF Put
    <3> HIDE DEF e
    <3> QED BY <3>1, <3>2
  <2> HIDE DEF k, e
  <2>5. e # <<>>
    BY <2>3 DEF k, e, Ending
  <2> QED BY <2>3, <2>4, <2>5 DEF Firsts, k, e, Ending
<1>4. CASE calls # <<>>
  <2>1. j \in Seq(S) /\ 1 \in 1..Len(j) /\ j[1] = "<call>"
    BY <1>1, <1>4, JoinedIn
  <2>2. k = (o \o j) \o c
    <3>1. k = (Header(f, "") \o j) \o c
      BY <1>4 DEF Called
    <3>2. Header(f, "") = <<>> \o o
      BY DEF Header
    <3>3. <<>> \o o = o
      BY <1>2, ConcatEmptySeq
    <3> QED BY <3>1, <3>2, <3>3, Zenon
  <2> HIDE DEF e, c, j, k
  <2> DEFINE r == j \o (c \o e)
  <2>3. k \o e = o \o r /\ r \in Seq(S)
    <3>1. Regrouped(o, j, c, e) /\ r \in Seq(S)
      BY <1>2, <2>1, FourParts, Zenon
    <3> QED BY <2>2, <3>1, Zenon DEF Regrouped
  <2>4. r[1] = "<call>"
    <3> DEFINE q == c \o e
    <3>1. q \in Seq(S)
      BY <1>2, ConcatProperties
    <3> HIDE DEF q
    <3>2. OpensAs(j, q)
      BY <2>1, <3>1, StartsWith, Zenon
    <3> QED BY <2>1, <3>2 DEF q, OpensAs
  <2> HIDE DEF r
  <2>5. (o \o r)[1] \in Firsts(f)
    <3>1. CASE f.opened = ""
      <4>1. o = <<>>
        BY <3>1 DEF Put
      <4>2. o \o r = r
        BY <2>3, <4>1, ConcatEmptySeq
      <4> HIDE DEF o
      <4> QED BY <4>2, <2>4 DEF Firsts
    <3>2. CASE f.opened # ""
      <4>1. f.opened \in S
        BY <1>1
      <4>2. o \in Seq(S) /\ Len(o) = 1 /\ o[1] = f.opened
        BY <3>2, <4>1, PutIs
      <4> HIDE DEF o
      <4>3. OpensAs(o, r)
        <5>1. 1 \in 1..Len(o)
          <6>1. Put(f.opened) = <<f.opened>>
            BY <3>2 DEF Put
          <6>2. One(Put(f.opened), f.opened)
            BY <6>1, Shapes, Zenon
          <6> QED BY <6>2, Zenon DEF One, o
        <5> QED BY <2>3, <4>2, <5>1, StartsWith, Zenon
      <4> QED BY <4>2, <4>3 DEF Firsts, OpensAs
    <3> QED BY <3>1, <3>2
  <2>6. (k \o e)[1] \in Firsts(f)
    BY <2>3, <2>5
  <2> QED BY <2>6 DEF k, e, Ending
<1> QED BY <1>3, <1>4

\* The content of a reply, and what follows it, are read back.
SameContent(f, x, y, a, s, b, t) == x # "" => x = y /\ Ending(f, x, a, s) = Ending(f, x, b, t)
LEMMA ContentIsToldApart ==
  ASSUME NEW f, Legible(f), NEW x \in Fragments, NEW y \in Fragments,
         NEW a, IsCalls(a), NEW b, IsCalls(b),
         NEW s \in Finishes, NEW t \in Finishes,
         Rest(f, x, a, s) = Rest(f, y, b, t)
  PROVE SameContent(f, x, y, a, s, b, t)
<1> SUFFICES ASSUME x # "" PROVE x = y /\ Ending(f, x, a, s) = Ending(f, x, b, t)
  BY DEF SameContent
<1> DEFINE S == All(f)
           p == Said(f, x)
           q == Said(f, y)
           u == Ending(f, x, a, s)
           v == Ending(f, y, b, t)
<1>1. /\ Tokens(f) \subseteq S /\ x \in S /\ y \in S /\ f.prefix \in S
      /\ {f.prefix, f.before, f.opened, f.closed, f.end, f.ended} \subseteq S \cup {""}
  BY DEF All, Markers, Tokens, Fragments
<1>2. x \notin Firsts(f) /\ (f.prefix # "" => f.prefix \notin Firsts(f))
  BY DEF Legible, Firsts, Markers, Fragments
<1> HIDE DEF S
<1>3. p \in Seq(S) /\ q \in Seq(S) /\ u \in Seq(S) /\ v \in Seq(S)
  BY <1>1, RestIs
<1>4. /\ f.prefix = "" => p = <<x>>
      /\ f.prefix # "" => p = <<f.prefix, x>>
  BY <1>1, SaidIs
<1>5. Rest(f, x, a, s) = p \o u /\ Rest(f, y, b, t) = q \o v
  BY DEF Rest
<1>6. y # ""
  <2> SUFFICES ASSUME y = "" PROVE FALSE
    OBVIOUS
  <2>1. q = <<>>
    BY DEF Said
  <2>2. Rest(f, y, b, t) = v
    <3>1. <<>> \o v = v
      BY <1>3, ConcatEmptySeq
    <3> QED BY <1>5, <2>1, <3>1, Zenon
  <2>3. 1 \in 1..Len(p) /\ p[1] \notin Firsts(f)
    <3> HIDE DEF p, u, v, q
    <3>1. CASE f.prefix = ""
      <4>1. One(p, x)
        BY <1>4, <3>1, Shapes, Zenon
      <4> QED BY <1>2, <4>1, Zenon DEF One
    <3>2. CASE f.prefix # ""
      <4>1. Two(p, f.prefix, x)
        BY <1>4, <3>2, Shapes, Zenon
      <4> QED BY <1>2, <3>2, <4>1, Zenon DEF Two
    <3> QED BY <3>1, <3>2
  <2> HIDE DEF p
  <2>4. OpensAs(p, u)
    BY <1>3, <2>3, StartsWith, Zenon
  <2>5. v # <<>> /\ v[1] = p[1]
    <3> DEFINE z == p \o u
    <3>1. z # <<>> /\ z[1] = p[1]
      BY <2>4 DEF OpensAs
    <3>2. v = z
      BY <1>5, <2>2
    <3> HIDE DEF z, v
    <3> QED BY <3>1, <3>2
  <2>6. v[1] \in Firsts(f)
    BY <2>5, FirstIs
  <2> QED BY <2>3, <2>5, <2>6
<1>7. /\ f.prefix = "" => q = <<y>>
      /\ f.prefix # "" => q = <<f.prefix, y>>
  BY <1>1, <1>6, SaidIs
<1> HIDE DEF p, q, u, v
<1> DEFINE one == One(p, x) /\ One(q, y)
           two == Two(p, f.prefix, x) /\ Two(q, f.prefix, y)
<1>0. one \/ two
  BY <1>4, <1>7, Shapes, Zenon
<1>8. Len(p) = Len(q)
  <2>1. CASE one
    <3>1. Len(p) = 1 /\ Len(q) = 1
      BY <2>1, Zenon DEF One
    <3> QED BY <3>1, Zenon
  <2>2. CASE two
    <3>1. Len(p) = 2 /\ Len(q) = 2
      BY <2>2, Zenon DEF Two
    <3> QED BY <3>1, Zenon
  <2> QED BY <1>0, <2>1, <2>2, Zenon
<1>9. p = q /\ u = v
  <2>1. p \o u = q \o v
    BY <1>5, Zenon
  <2> QED BY <1>3, <1>8, <2>1, SameFronts, Zenon
<1>10. x = y
  BY <1>0, <1>9, Zenon DEF One, Two
<1> QED BY <1>9, <1>10 DEF u, v

\* The reasoning of a reply, and the rest of it, are read back.
Thinks(f, x, u) == Thought(f, x) \o u
SameReasoning(x, y, u, v) == x # "" => x = y /\ u = v
LEMMA ReasoningIsToldApart ==
  ASSUME NEW f, Legible(f), f.close # "", NEW x \in Fragments, NEW y \in Fragments,
         NEW u \in Seq(All(f) \ {f.close}), NEW v \in Seq(All(f) \ {f.close}),
         Thinks(f, x, u) = Thinks(f, y, v)
  PROVE SameReasoning(x, y, u, v)
<1> SUFFICES ASSUME x # "" PROVE x = y /\ u = v
  BY DEF SameReasoning
<1> DEFINE S == All(f)
           p == Thought(f, x)
           q == Thought(f, y)
<1>1. x \in S /\ y \in S /\ f.open \in S /\ f.close \in S
  BY DEF All, Markers, Tokens, Fragments
<1>2. S \ {f.close} \subseteq S
  OBVIOUS
<1> HIDE DEF S
<1>3. u \in Seq(S) /\ v \in Seq(S) /\ v \in Seq(S \ {f.close})
  BY <1>2, SeqMonotonic DEF S
<1>4. p \o u = q \o v
  BY DEF Thinks
<1>5. /\ f.open = "" => p = <<x, f.close>>
      /\ f.open # "" => p = <<f.open, x, f.close>>
  BY <1>1, ThoughtIs
<1>6. y # "" => /\ f.open = "" => q = <<y, f.close>>
                /\ f.open # "" => q = <<f.open, y, f.close>>
  BY <1>1, ThoughtIs
<1>7. y = "" => q = <<>>
  BY DEF Thought
<1> HIDE DEF p, q
<1>8. p \in Seq(S)
  BY <1>1, <1>5, Tuples
<1>9. y # ""
  <2> SUFFICES ASSUME y = "" PROVE FALSE
    OBVIOUS
  <2>1. p \o u = v
    <3>1. <<>> \o v = v
      BY <1>3, ConcatEmptySeq
    <3> QED BY <1>4, <1>7, <3>1, Zenon
  <2>2. PICK j \in 1..Len(p) : p[j] = f.close
    <3>1. CASE f.open = ""
      <4>0. Two(p, x, f.close)
        BY <1>5, <3>1, Shapes, Zenon
      <4>1. 2 \in 1..Len(p) /\ p[2] = f.close
        BY <4>0, Zenon DEF Two
      <4> QED BY <4>1
    <3>2. CASE f.open # ""
      <4>0. Three(p, f.open, x, f.close)
        BY <1>5, <3>2, Shapes, Zenon
      <4>1. 3 \in 1..Len(p) /\ p[3] = f.close
        BY <4>0, Zenon DEF Three
      <4> QED BY <4>1
    <3> QED BY <3>1, <3>2
  <2> QED BY <1>3, <1>8, <2>1, <2>2, NotWithout, Zenon
<1>10. q \in Seq(S)
  BY <1>1, <1>6, <1>9, Tuples
<1> DEFINE two == Two(p, x, f.close) /\ Two(q, y, f.close)
           three == Three(p, f.open, x, f.close) /\ Three(q, f.open, y, f.close)
<1>0. two \/ three
  BY <1>5, <1>6, <1>9, Shapes, Zenon
<1>11. Len(p) = Len(q)
  <2>1. CASE two
    <3>1. Len(p) = 2 /\ Len(q) = 2
      BY <2>1, Zenon DEF Two
    <3> QED BY <3>1, Zenon
  <2>2. CASE three
    <3>1. Len(p) = 3 /\ Len(q) = 3
      BY <2>2, Zenon DEF Three
    <3> QED BY <3>1, Zenon
  <2> QED BY <1>0, <2>1, <2>2, Zenon
<1>12. p = q /\ u = v
  BY <1>3, <1>4, <1>8, <1>10, <1>11, SameFronts, Zenon
<1>13. x = y
  BY <1>0, <1>12, Zenon DEF Two, Three
<1> QED BY <1>12, <1>13

\* A text is the reasoning, then the rest.
Completed(f, r, content, calls, finish) ==
    Reassemble(f, r, content, calls) \o EndOf(f, finish) = Thought(f, r) \o Rest(f, content, calls, finish)
LEMMA CompletionIs ==
  ASSUME NEW f, Legible(f), NEW r, NEW S, r = "" \/ r \in S, f.open = "" \/ f.open \in S, f.close = "" \/ f.close \in S,
         NEW content \in S, NEW calls, IsCalls(calls), NEW finish \in Finishes,
         Tokens(f) \subseteq S, {f.prefix, f.before, f.opened, f.closed, f.end, f.ended} \subseteq S \cup {""}
  PROVE Completed(f, r, content, calls, finish)
<1> DEFINE h == Thought(f, r)
           j == Said(f, content)
           c == Called(f, content, calls)
           e == EndOf(f, finish)
<1>1. j \in Seq(S) /\ c \in Seq(S) /\ e \in Seq(S)
  BY RestIs
<1>2. h \in Seq(S)
  <2>1. CASE r = ""
    BY <2>1, OneOrNone DEF Thought
  <2>2. CASE r # ""
    <3>1. Put(f.open) \in Seq(S) /\ Put(f.close) \in Seq(S)
      BY PutIs
    <3>2. <<r>> \in Seq(S)
      BY <2>2, OneOrNone
    <3>3. Put(f.open) \o <<r>> \in Seq(S)
      BY <3>1, <3>2, ConcatProperties
    <3>4. (Put(f.open) \o <<r>>) \o Put(f.close) \in Seq(S)
      BY <3>1, <3>3, ConcatProperties
    <3> QED BY <2>2, <3>4 DEF Thought
  <2> QED BY <2>1, <2>2
<1>3. Reassemble(f, r, content, calls) = (h \o j) \o c
  BY DEF Reassemble, Thought, Said, Called, Header
<1>4. Rest(f, content, calls, finish) = j \o (c \o e)
  BY DEF Rest, Ending
<1> HIDE DEF h, j, c, e
<1>5. Regrouped(h, j, c, e)
  BY <1>1, <1>2, FourParts, Zenon
<1>6. Reassemble(f, r, content, calls) \o e = h \o Rest(f, content, calls, finish)
  BY <1>3, <1>4, <1>5, Zenon DEF Regrouped
<1> QED BY <1>6 DEF h, e, Completed

\* Part of RepliesAreToldApart, of one order of two replies.
LEMMA OneReplyIsToldApart ==
  ASSUME NEW f, Legible(f), NEW a \in Replies(f), NEW b \in Replies(f), CompletionText(f, a) = CompletionText(f, b)
  PROVE /\ a.reasoning # "" => a.reasoning = b.reasoning
        /\ (a.reasoning # "" \/ b.reasoning = "") =>
               Rest(f, a.content, a.calls, a.finish) = Rest(f, b.content, b.calls, b.finish)
<1> DEFINE W == Fragments
           S == All(f)
           u == Rest(f, a.content, a.calls, a.finish)
           v == Rest(f, b.content, b.calls, b.finish)
<1>1. /\ a.reasoning \in W /\ b.reasoning \in W /\ a.content \in W /\ b.content \in W
      /\ a.finish \in Finishes /\ b.finish \in Finishes
      /\ Renders(f, a.calls) /\ Renders(f, b.calls)
      /\ (f.close = "" => a.reasoning = "" /\ b.reasoning = "")
  BY DEF Replies, Fragments, Finishes
<1>2. IsCalls(a.calls) /\ IsCalls(b.calls)
  BY VerdictAssumption DEF Replies, IsCalls
<1>3. /\ W \subseteq S /\ f.open \in S /\ f.close \in S /\ Tokens(f) \subseteq S
      /\ {f.prefix, f.before, f.opened, f.closed, f.end, f.ended} \subseteq S \cup {""}
  BY DEF All, Markers, Tokens, Fragments
<1>4. /\ CompletionText(f, a) = Reassemble(f, a.reasoning, a.content, a.calls) \o EndOf(f, a.finish)
      /\ CompletionText(f, b) = Reassemble(f, b.reasoning, b.content, b.calls) \o EndOf(f, b.finish)
  BY <1>1 DEF CompletionText
<1>5. Thought(f, a.reasoning) \o u = Thought(f, b.reasoning) \o v
  <2> HIDE DEF S, W
  <2>1. Completed(f, a.reasoning, a.content, a.calls, a.finish)
    BY <1>1, <1>2, <1>3, CompletionIs
  <2>2. Completed(f, b.reasoning, b.content, b.calls, b.finish)
    BY <1>1, <1>2, <1>3, CompletionIs
  <2> QED BY <1>4, <2>1, <2>2, Zenon DEF Completed
<1>6. u \in Seq(S) /\ v \in Seq(S)
  <2> HIDE DEF S, W
  <2> QED BY <1>1, <1>2, <1>3, RestIs
<1>7. CASE f.close = ""
  <2>1. Thought(f, a.reasoning) = <<>> /\ Thought(f, b.reasoning) = <<>>
    BY <1>1, <1>7 DEF Thought
  <2>2. <<>> \o u = u /\ <<>> \o v = v
    <3> HIDE DEF u, v
    <3> QED BY <1>6, ConcatEmptySeq
  <2>3. u = v
    BY <1>5, <2>1, <2>2, Zenon
  <2> QED BY <1>1, <1>7, <2>3
<1>8. CASE f.close # ""
  <2> DEFINE T == S \ {f.close}
  <2>1. /\ a.content = "" \/ a.content \in T
        /\ b.content = "" \/ b.content \in T
        /\ Tokens(f) \subseteq T /\ {f.prefix, f.before, f.opened, f.closed, f.end, f.ended} \subseteq T \cup {""}
    BY <1>1, <1>3, <1>8 DEF Legible, Markers, Tokens, Fragments
  <2>2. u \in Seq(T) /\ v \in Seq(T)
    <3> HIDE DEF T, S
    <3> QED BY <1>1, <1>2, <2>1, RestIs
  <2> HIDE DEF S
  <2>3. a.reasoning # "" => a.reasoning = b.reasoning /\ u = v
    <3>1. Thinks(f, a.reasoning, u) = Thinks(f, b.reasoning, v)
      BY <1>5, Zenon DEF Thinks
    <3> HIDE DEF u, v
    <3>2. u \in Seq(All(f) \ {f.close}) /\ v \in Seq(All(f) \ {f.close})
      BY <2>2 DEF S
    <3>3. SameReasoning(a.reasoning, b.reasoning, u, v)
      BY <1>1, <1>8, <3>1, <3>2, ReasoningIsToldApart, Zenon
    <3> QED BY <3>3, Zenon DEF SameReasoning
  <2>5. ASSUME a.reasoning = "", b.reasoning = "" PROVE u = v
    <3>1. Thought(f, a.reasoning) = <<>> /\ Thought(f, b.reasoning) = <<>>
      BY <2>5 DEF Thought
    <3>2. <<>> \o u = u /\ <<>> \o v = v
      <4> HIDE DEF u, v
      <4> QED BY <1>6, ConcatEmptySeq
    <3> QED BY <1>5, <3>1, <3>2, Zenon
  <2> QED BY <2>3, <2>5
<1> QED BY <1>7, <1>8

\* Whatever the words and the calls are: the text rebuilt of a reply, in the raw format of
\* each family, is that of one reply (markers.reassemble, end_of).
THEOREM RepliesAlwaysToldApart == RepliesAreToldApart
<1> SUFFICES ASSUME NEW f \in {Families[name] : name \in DOMAIN Families}, NEW a \in Replies(f), NEW b \in Replies(f),
                    CompletionText(f, a) = CompletionText(f, b)
             PROVE a.reasoning = b.reasoning /\ a.content = b.content /\ a.calls = b.calls
  BY Zenon DEF RepliesAreToldApart
<1>1. Legible(f)
  BY FamiliesAreLegible
<1>2. CompletionText(f, b) = CompletionText(f, a)
  OBVIOUS
<1>3. a.reasoning # "" => a.reasoning = b.reasoning
  BY <1>1, OneReplyIsToldApart, Zenon
<1>4. b.reasoning # "" => b.reasoning = a.reasoning
  BY <1>1, <1>2, OneReplyIsToldApart, Zenon
<1>5. a.reasoning = b.reasoning
  BY <1>3, <1>4, Zenon
<1> DEFINE x == a.content
           y == b.content
           s == a.finish
           t == b.finish
           k == a.calls
           l == b.calls
<1>6. Rest(f, x, k, s) = Rest(f, y, l, t)
  BY <1>1, <1>5, OneReplyIsToldApart, Zenon
<1>7. /\ x \in Fragments /\ y \in Fragments
      /\ s \in Finishes /\ t \in Finishes
  BY DEF Replies, Fragments, Finishes
<1>8. IsCalls(k) /\ IsCalls(l)
  BY VerdictAssumption DEF Replies, IsCalls
<1> HIDE DEF x, y, s, t, k, l
<1>9. SameContent(f, x, y, k, s, l, t)
  BY <1>1, <1>6, <1>7, <1>8, ContentIsToldApart, Zenon
<1>10. SameContent(f, y, x, l, t, k, s)
  <2>1. Rest(f, y, l, t) = Rest(f, x, k, s)
    BY <1>6
  <2> QED BY <1>1, <2>1, <1>7, <1>8, ContentIsToldApart, Zenon
<1>11. x = y
  BY <1>9, <1>10, Zenon DEF SameContent
<1>12. Ending(f, x, k, s) = Ending(f, x, l, t)
  <2>1. CASE x # ""
    BY <1>9, <2>1, Zenon DEF SameContent
  <2>2. CASE x = ""
    <3>1. Said(f, x) = <<>> /\ Said(f, y) = <<>>
      BY <1>11, <2>2 DEF Said
    <3> DEFINE u == Ending(f, x, k, s)
               v == Ending(f, y, l, t)
               S == All(f)
    <3>2. u \in Seq(S) /\ v \in Seq(S)
      <4>1. /\ Tokens(f) \subseteq S /\ x \in S /\ y \in S
            /\ {f.prefix, f.before, f.opened, f.closed, f.end, f.ended} \subseteq S \cup {""}
        BY <1>7 DEF All, Markers, Tokens, Fragments
      <4> HIDE DEF S
      <4> QED BY <1>7, <1>8, <4>1, RestIs
    <3>3. Rest(f, x, k, s) = Said(f, x) \o u /\ Rest(f, y, l, t) = Said(f, y) \o v
      BY DEF Rest
    <3> HIDE DEF u, v, S
    <3>4. <<>> \o u = u /\ <<>> \o v = v
      BY <3>2, ConcatEmptySeq
    <3>5. u = v
      BY <1>6, <3>1, <3>3, <3>4, Zenon
    <3> QED BY <1>11, <3>5, Zenon DEF u, v
  <2> QED BY <2>1, <2>2
<1>13. /\ k # <<>> => l # <<>> /\ (Len(k) <= Len(l) => k = l)
  BY <1>1, <1>7, <1>8, <1>12, CalledIsToldApart, Zenon
<1>14. /\ l # <<>> => k # <<>> /\ (Len(l) <= Len(k) => l = k)
  <2>1. Ending(f, x, l, t) = Ending(f, x, k, s)
    BY <1>12
  <2> QED BY <1>1, <1>7, <1>8, <2>1, CalledIsToldApart, Zenon
<1>15. Len(k) \in Nat /\ Len(l) \in Nat
  BY <1>8 DEF IsCalls
<1>16. k = l
  <2>1. Len(k) <= Len(l) \/ Len(l) <= Len(k)
    BY <1>15
  <2> QED BY <1>13, <1>14, <2>1, Zenon
<1> QED BY <1>5, <1>11, <1>16 DEF x, y, k, l

(***************************************************************************)
(* Whatever the weights, the samples of a calibration and the replies are, *)
(* a verdict rests on the margins of the tokens returned, a threshold      *)
(* reports every substitute and of the honest samples its share at most,   *)
(* and replies that differ are rebuilt into texts that differ.             *)
(* (canonical.py, verify.calibrate, _quantile, judge, markers.reassemble)  *)
(***************************************************************************)
THEOREM JudgementAlwaysSound == ProbesSpec => []JudgementIsSound
<1>1. VerdictIsSound
  BY MarginsAreOfTokens, CalibrationAlwaysSeparates, RepliesAlwaysToldApart DEF VerdictIsSound
<1>2. JudgementIsSound
  BY <1>1 DEF JudgementIsSound
<1> QED BY <1>2, PTL
====
