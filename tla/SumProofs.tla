------------------------------ MODULE SumProofs ------------------------------
(* What the proofs of several components need of numbers, finite sets and   *)
(* sums: induction, stated for sets of cases, and the sum of a function over *)
(* a finite set, SumFunctionOnSet of Functions, for every function and set.  *)
EXTENDS Integers, FiniteSets, Functions, FiniteSetTheorems, NaturalsInduction,
        WellFoundedInduction, TLAPS

-----------------------------------------------------------------------------
(* Induction.  The cases are a set, so that it can be one of any property.  *)

\* A set of numbers that is not empty has a least one.
LEMMA Least ==
  ASSUME NEW T \in SUBSET Nat, T # {}
  PROVE  \E k \in T : \A j \in T : k <= j
<1> DEFINE Below == {ss \in Nat \X Nat : ss[1] < ss[2]}
<1>1. IsWellFoundedOn(Below, Nat)
  BY NatLessThanWellFounded DEF OpToRel
<1>2. PICK x \in T : \A y \in T : ~(<<y, x>> \in Below)
  BY <1>1, WFMin
<1>3. ASSUME NEW j \in T PROVE x <= j
  <2>1. j \in Nat /\ x \in Nat /\ ~(j < x)
    BY <1>2
  <2> QED
    BY <2>1
<1> QED
  BY <1>3

\* Zero and the successor of every number in a set: then every number is.
LEMMA EveryNumber ==
  ASSUME NEW C, 0 \in C, \A n \in Nat : n \in C => n + 1 \in C
  PROVE  \A n \in Nat : n \in C
<1> SUFFICES ASSUME NEW bad \in Nat, bad \notin C PROVE FALSE
  OBVIOUS
<1> DEFINE T == {n \in Nat : n \notin C}
<1>1. PICK k \in T : \A j \in T : k <= j
  <2>1. T \in SUBSET Nat /\ T # {}
    OBVIOUS
  <2> HIDE DEF T
  <2> QED
    BY <2>1, Least
<1>2. k \in Nat /\ k # 0
  OBVIOUS
<1>3. k - 1 \in Nat /\ k - 1 \notin T /\ (k - 1) + 1 = k
  <2>1. k - 1 \in Nat /\ (k - 1) + 1 = k /\ ~(k <= k - 1)
    BY <1>2
  <2> QED
    BY <2>1, <1>1
<1>4. k \in C
  BY <1>3
<1> QED
  BY <1>4

\* The empty set, and with every set one with an element more: then the whole set.
LEMMA EverySubset ==
  ASSUME NEW S, IsFiniteSet(S), NEW C, {} \in C,
         \A s \in SUBSET S : \A x \in S \ s : s \in C => s \cup {x} \in C
  PROVE  \A s \in SUBSET S : s \in C
<1> DEFINE N == {n \in Nat : \A s \in SUBSET S : Cardinality(s) = n => s \in C}
<1>1. \A s \in SUBSET S : IsFiniteSet(s) /\ Cardinality(s) \in Nat
  BY FS_Subset, FS_CardinalityType
<1>2. 0 \in N
  BY <1>1, FS_EmptySet
<1>3. ASSUME NEW n \in Nat, n \in N PROVE n + 1 \in N
  <2> SUFFICES ASSUME NEW s \in SUBSET S, Cardinality(s) = n + 1 PROVE s \in C
    OBVIOUS
  <2>1. PICK x \in s : TRUE
    <3>1. Cardinality(s) # 0
      OBVIOUS
    <3> QED
      BY <1>1, <3>1, FS_EmptySet
  <2>2. s \ {x} \in SUBSET S /\ Cardinality(s \ {x}) = n
    <3>1. Cardinality(s \ {x}) = Cardinality(s) - 1
      BY <1>1, FS_RemoveElement
    <3> QED
      BY <3>1
  <2>3. s \ {x} \in C
    BY <1>3, <2>2
  <2>4. x \in S \ (s \ {x}) /\ (s \ {x}) \cup {x} = s
    OBVIOUS
  <2> QED
    BY <2>2, <2>3, <2>4
<1>4. \A n \in Nat : n \in N
  <2> HIDE DEF N
  <2> QED
    BY <1>2, <1>3, EveryNumber
<1> QED
  BY <1>1, <1>4

-----------------------------------------------------------------------------
(* The sum, by the recursion that defines it.                               *)

\* The element that the sum of a set takes first.
First(s) == CHOOSE x \in s : TRUE

\* g holds the sum of each part of S.
Sums(g, f, S) ==
    g = [s \in SUBSET S |-> IF s = {} THEN 0 ELSE f[First(s)] + g[s \ {First(s)}]]

LEMMA FirstIs == ASSUME NEW s, s # {} PROVE First(s) \in s
  BY DEF First

\* There is such a function.
LEMMA SumsExist ==
  ASSUME NEW S, IsFiniteSet(S), NEW f
  PROVE  \E g : Sums(g, f, S)
<1> DEFINE Step(g, s) == IF s = {} THEN 0 ELSE f[First(s)] + g[s \ {First(s)}]
           Good(g, n) == \A s \in SUBSET S : Cardinality(s) <= n => g[s] = Step(g, s)
           C == {n \in Nat : \E g : g = [s \in SUBSET S |-> g[s]] /\ Good(g, n)}
<1>1. \A s \in SUBSET S : IsFiniteSet(s) /\ Cardinality(s) \in Nat
  BY FS_Subset, FS_CardinalityType
<1>2. 0 \in C
  <2> DEFINE z == [s \in SUBSET S |-> 0]
  <2>1. Good(z, 0)
    <3> SUFFICES ASSUME NEW s \in SUBSET S, Cardinality(s) <= 0 PROVE z[s] = Step(z, s)
      OBVIOUS
    <3>1. s = {}
      BY <1>1, FS_EmptySet
    <3> QED
      BY <3>1
  <2> QED
    BY <2>1
<1>3. ASSUME NEW n \in Nat, n \in C PROVE n + 1 \in C
  <2>1. PICK g : g = [s \in SUBSET S |-> g[s]] /\ Good(g, n)
    BY <1>3
  <2> DEFINE h == [s \in SUBSET S |-> IF Cardinality(s) <= n THEN g[s] ELSE Step(g, s)]
  <2>2. \A s \in SUBSET S : h[s] = Step(g, s)
    BY <2>1
  <2>3. ASSUME NEW s \in SUBSET S, Cardinality(s) <= n + 1, s # {}
        PROVE  h[s \ {First(s)}] = g[s \ {First(s)}]
    <3>1. First(s) \in s /\ s \ {First(s)} \in SUBSET S
      BY <2>3, FirstIs
    <3>2. Cardinality(s \ {First(s)}) = Cardinality(s) - 1
      BY <1>1, <3>1, FS_RemoveElement
    <3>3. Cardinality(s \ {First(s)}) <= n
      BY <1>1, <2>3, <3>2
    <3> QED
      BY <3>1, <3>3
  <2>4. ASSUME NEW s \in SUBSET S, Cardinality(s) <= n + 1 PROVE h[s] = Step(h, s)
    <3>1. CASE s = {}
      BY <2>2, <3>1
    <3>2. CASE s # {}
      <4>1. h[s] = Step(g, s)
        BY <2>2
      <4>2. h[s \ {First(s)}] = g[s \ {First(s)}]
        BY <2>3, <2>4, <3>2
      <4> HIDE DEF h
      <4> QED
        BY <3>2, <4>1, <4>2
    <3> QED
      BY <3>1, <3>2
  <2>5. h = [s \in SUBSET S |-> h[s]] /\ Good(h, n + 1)
    <3>1. h = [s \in SUBSET S |-> h[s]]
      OBVIOUS
    <3> HIDE DEF h
    <3> QED
      BY <2>4, <3>1
  <2> HIDE DEF Good, h
  <2> QED
    BY <2>5
<1>4. Cardinality(S) \in C
  <2> HIDE DEF C
  <2>1. \A n \in Nat : n \in C
    BY <1>2, <1>3, EveryNumber
  <2> QED
    BY <1>1, <2>1
<1>5. PICK g : g = [s \in SUBSET S |-> g[s]] /\ Good(g, Cardinality(S))
  BY <1>4
<1>6. \A s \in SUBSET S : Cardinality(s) <= Cardinality(S)
  BY FS_Subset
<1>7. \A s \in SUBSET S : g[s] = Step(g, s)
  BY <1>5, <1>6
<1> QED
  BY <1>5, <1>7 DEF Sums

\* The sum is what such a function says of the whole set.
LEMMA SumIs ==
  ASSUME NEW S, IsFiniteSet(S), NEW f
  PROVE  \E g : Sums(g, f, S) /\ SumFunctionOnSet(f, S) = g[S]
<1> DEFINE it == CHOOSE g : Sums(g, f, S)
<1>1. Sums(it, f, S)
  BY SumsExist
<1>2. SumFunctionOnSet(f, S) = it[S]
  BY DEF SumFunctionOnSet, FoldFunctionOnSet, MapThenFoldSet, Sums, First
<1> QED
  BY <1>1, <1>2

\* Two such functions agree on the parts that both know, where the summands do.
LEMMA SumsAgree ==
  ASSUME NEW S, IsFiniteSet(S), NEW T, NEW f, NEW g, NEW F, NEW G,
         Sums(F, f, S), Sums(G, g, T), \A x \in S \cap T : f[x] = g[x]
  PROVE  \A s \in SUBSET (S \cap T) : F[s] = G[s]
<1> DEFINE U == S \cap T
           N == {n \in Nat : \A s \in SUBSET U : Cardinality(s) = n => F[s] = G[s]}
<1>1. \A s \in SUBSET U : IsFiniteSet(s) /\ Cardinality(s) \in Nat
  <2>1. \A s \in SUBSET U : s \in SUBSET S
    OBVIOUS
  <2> QED
    BY <2>1, FS_Subset, FS_CardinalityType
<1>2. \A s \in SUBSET U :
         /\ F[s] = IF s = {} THEN 0 ELSE f[First(s)] + F[s \ {First(s)}]
         /\ G[s] = IF s = {} THEN 0 ELSE g[First(s)] + G[s \ {First(s)}]
  <2> SUFFICES ASSUME NEW s \in SUBSET U
               PROVE  /\ F[s] = IF s = {} THEN 0 ELSE f[First(s)] + F[s \ {First(s)}]
                      /\ G[s] = IF s = {} THEN 0 ELSE g[First(s)] + G[s \ {First(s)}]
    OBVIOUS
  <2>1. s \in SUBSET S /\ s \in SUBSET T
    OBVIOUS
  <2>2. F[s] = IF s = {} THEN 0 ELSE f[First(s)] + F[s \ {First(s)}]
    BY <2>1 DEF Sums
  <2>3. G[s] = IF s = {} THEN 0 ELSE g[First(s)] + G[s \ {First(s)}]
    BY <2>1 DEF Sums
  <2> QED
    BY <2>2, <2>3
<1>3. 0 \in N
  <2> SUFFICES ASSUME NEW s \in SUBSET U, Cardinality(s) = 0 PROVE F[s] = G[s]
    OBVIOUS
  <2>1. s = {}
    BY <1>1, FS_EmptySet
  <2> QED
    BY <1>2, <2>1
<1>4. ASSUME NEW n \in Nat, n \in N PROVE n + 1 \in N
  <2> SUFFICES ASSUME NEW s \in SUBSET U, Cardinality(s) = n + 1 PROVE F[s] = G[s]
    OBVIOUS
  <2>1. s # {}
    <3>1. Cardinality(s) # 0
      OBVIOUS
    <3> QED
      BY <1>1, <3>1, FS_EmptySet
  <2>2. First(s) \in s
    BY <2>1, FirstIs
  <2>3. s \ {First(s)} \in SUBSET U /\ Cardinality(s \ {First(s)}) = n
    <3>1. Cardinality(s \ {First(s)}) = Cardinality(s) - 1
      BY <1>1, <2>2, FS_RemoveElement
    <3> QED
      BY <3>1
  <2>4. F[s \ {First(s)}] = G[s \ {First(s)}]
    BY <1>4, <2>3
  <2>5. f[First(s)] = g[First(s)]
    BY <2>2
  <2> HIDE DEF N
  <2> QED
    BY <1>2, <2>1, <2>4, <2>5
<1>5. \A n \in Nat : n \in N
  <2> HIDE DEF N
  <2> QED
    BY <1>3, <1>4, EveryNumber
<1> QED
  BY <1>1, <1>5

-----------------------------------------------------------------------------
(* The laws of sums.                                                        *)

\* A sum depends on the summands of its set alone.
LEMMA SameSum ==
  ASSUME NEW S, IsFiniteSet(S), NEW f, NEW g, \A x \in S : f[x] = g[x]
  PROVE  SumFunctionOnSet(f, S) = SumFunctionOnSet(g, S)
<1>1. PICK F : Sums(F, f, S) /\ SumFunctionOnSet(f, S) = F[S]
  BY SumIs
<1>2. PICK G : Sums(G, g, S) /\ SumFunctionOnSet(g, S) = G[S]
  BY SumIs
<1>3. \A s \in SUBSET (S \cap S) : F[s] = G[s]
  BY <1>1, <1>2, SumsAgree
<1>4. S \in SUBSET (S \cap S)
  OBVIOUS
<1> QED
  BY <1>1, <1>2, <1>3, <1>4

\* Nothing adds up to zero.
LEMMA EmptySum == ASSUME NEW f PROVE SumFunctionOnSet(f, {}) = 0
<1>1. PICK F : Sums(F, f, {}) /\ SumFunctionOnSet(f, {}) = F[{}]
  BY SumIs, FS_EmptySet
<1> QED
  BY <1>1 DEF Sums

\* What is taken first is added to the sum of the rest.
LEMMA FirstAdds ==
  ASSUME NEW S, IsFiniteSet(S), S # {}, NEW f
  PROVE  SumFunctionOnSet(f, S) = f[First(S)] + SumFunctionOnSet(f, S \ {First(S)})
<1> DEFINE R == S \ {First(S)}
<1>1. PICK F : Sums(F, f, S) /\ SumFunctionOnSet(f, S) = F[S]
  BY SumIs
<1>2. IsFiniteSet(R)
  BY FS_RemoveElement
<1>3. PICK G : Sums(G, f, R) /\ SumFunctionOnSet(f, R) = G[R]
  BY <1>2, SumIs
<1>4. \A s \in SUBSET (S \cap R) : F[s] = G[s]
  <2> HIDE DEF R
  <2> QED
    BY <1>1, <1>3, SumsAgree
<1>5. R \in SUBSET (S \cap R) /\ S \in SUBSET S
  OBVIOUS
<1>6. F[S] = f[First(S)] + F[R]
  BY <1>1, <1>5 DEF Sums
<1> QED
  BY <1>1, <1>3, <1>4, <1>5, <1>6

\* In whatever order: any element of the set is added to the sum of the others.
LEMMA OneAdds ==
  ASSUME NEW S, IsFiniteSet(S), NEW f, \A y \in S : f[y] \in Int
  PROVE  /\ SumFunctionOnSet(f, S) \in Int
         /\ \A x \in S : SumFunctionOnSet(f, S) = f[x] + SumFunctionOnSet(f, S \ {x})
<1> DEFINE Sum(s) == SumFunctionOnSet(f, s)
           N == {n \in Nat : \A s \in SUBSET S : Cardinality(s) <= n =>
                    Sum(s) \in Int /\ \A x \in s : Sum(s) = f[x] + Sum(s \ {x})}
<1>1. \A s \in SUBSET S : IsFiniteSet(s) /\ Cardinality(s) \in Nat
  BY FS_Subset, FS_CardinalityType
<1>2. 0 \in N
  <2> SUFFICES ASSUME NEW s \in SUBSET S, Cardinality(s) <= 0
               PROVE  Sum(s) \in Int /\ \A x \in s : Sum(s) = f[x] + Sum(s \ {x})
    OBVIOUS
  <2>1. s = {}
    BY <1>1, FS_EmptySet
  <2> QED
    BY <2>1, EmptySum
<1>3. ASSUME NEW n \in Nat, n \in N PROVE n + 1 \in N
  <2> SUFFICES ASSUME NEW s \in SUBSET S, Cardinality(s) <= n + 1, s # {}
               PROVE  Sum(s) \in Int /\ \A x \in s : Sum(s) = f[x] + Sum(s \ {x})
    BY EmptySum
  <2> DEFINE c == First(s)
  <2>1. IsFiniteSet(s) /\ c \in s /\ c \in S
    BY <1>1, FirstIs
  <2>2. ASSUME NEW x \in s, NEW t \in SUBSET (s \ {x})
        PROVE  Sum(t) \in Int /\ \A y \in t : Sum(t) = f[y] + Sum(t \ {y})
    <3>1. IsFiniteSet(s \ {x}) /\ Cardinality(s \ {x}) = Cardinality(s) - 1
      BY <2>1, FS_RemoveElement
    <3>2. t \in SUBSET S /\ Cardinality(t) <= Cardinality(s \ {x})
      BY <3>1, FS_Subset
    <3>3. Cardinality(t) <= n
      BY <1>1, <3>1, <3>2
    <3> QED
      BY <1>3, <3>2, <3>3
  <2>3. Sum(s) = f[c] + Sum(s \ {c})
    BY <2>1, FirstAdds
  <2>4. f[c] \in Int /\ Sum(s \ {c}) \in Int
    BY <2>1, <2>2
  <2>5. ASSUME NEW x \in s, x # c PROVE Sum(s) = f[x] + Sum(s \ {x})
    <3>1. Sum(s \ {c}) = f[x] + Sum((s \ {c}) \ {x})
      <4>1. s \ {c} \in SUBSET (s \ {c}) /\ x \in s \ {c}
        BY <2>5
      <4> QED
        BY <2>1, <2>2, <4>1
    <3>2. Sum(s \ {x}) = f[c] + Sum((s \ {x}) \ {c})
      <4>1. s \ {x} \in SUBSET (s \ {x}) /\ c \in s \ {x}
        BY <2>1, <2>5
      <4> QED
        BY <2>2, <4>1
    <3>3. (s \ {c}) \ {x} = (s \ {x}) \ {c} /\ (s \ {c}) \ {x} \in SUBSET (s \ {x})
      OBVIOUS
    <3>4. f[x] \in Int /\ Sum((s \ {c}) \ {x}) \in Int
      BY <2>2, <3>3
    <3> DEFINE r == Sum((s \ {c}) \ {x})
    <3>5. Sum(s) = f[c] + (f[x] + r) /\ Sum(s \ {x}) = f[c] + r
      BY <2>3, <3>1, <3>2, <3>3
    <3>6. f[c] \in Int /\ f[x] \in Int /\ r \in Int
      BY <2>4, <3>4
    <3> HIDE DEF Sum, r, c
    <3> QED
      BY <3>5, <3>6
  <2>6. \A x \in s : Sum(s) = f[x] + Sum(s \ {x})
    BY <2>3, <2>5
  <2> HIDE DEF Sum
  <2> QED
    BY <2>3, <2>4, <2>6
<1>4. Cardinality(S) \in N
  <2> HIDE DEF N
  <2>1. \A n \in Nat : n \in N
    BY <1>2, <1>3, EveryNumber
  <2> QED
    BY <1>1, <2>1
<1>5. S \in SUBSET S /\ Cardinality(S) <= Cardinality(S)
  BY <1>1
<1> QED
  BY <1>4, <1>5

\* One element more, one summand more.
LEMMA AddedSum ==
  ASSUME NEW S, IsFiniteSet(S), NEW x, x \notin S, NEW f, \A y \in S \cup {x} : f[y] \in Int
  PROVE  SumFunctionOnSet(f, S \cup {x}) = f[x] + SumFunctionOnSet(f, S)
<1>1. IsFiniteSet(S \cup {x}) /\ x \in S \cup {x} /\ (S \cup {x}) \ {x} = S
  BY FS_AddElement
<1> QED
  BY <1>1, OneAdds

\* One summand that changes changes the sum by as much.
LEMMA ChangedSum ==
  ASSUME NEW S, IsFiniteSet(S), NEW x \in S, NEW f, NEW g,
         \A y \in S : f[y] \in Int /\ g[y] \in Int, \A y \in S \ {x} : g[y] = f[y]
  PROVE  SumFunctionOnSet(g, S) = SumFunctionOnSet(f, S) - f[x] + g[x]
<1> DEFINE F == SumFunctionOnSet(f, S \ {x})
           G == SumFunctionOnSet(g, S \ {x})
<1>1. SumFunctionOnSet(f, S) = f[x] + F /\ SumFunctionOnSet(g, S) = g[x] + G
  BY OneAdds
<1>2. IsFiniteSet(S \ {x})
  BY FS_RemoveElement
<1>3. F = G
  BY <1>2, SameSum
<1>4. F \in Int
  BY <1>2, OneAdds
<1>5. f[x] \in Int /\ g[x] \in Int
  OBVIOUS
<1> HIDE DEF F, G
<1> QED
  BY <1>1, <1>3, <1>4, <1>5

\* Two parts that share nothing.
LEMMA JoinedSum ==
  ASSUME NEW S, IsFiniteSet(S), NEW T, IsFiniteSet(T), S \cap T = {}, NEW f,
         \A x \in S \cup T : f[x] \in Int
  PROVE  SumFunctionOnSet(f, S \cup T) = SumFunctionOnSet(f, S) + SumFunctionOnSet(f, T)
<1> DEFINE Sum(s) == SumFunctionOnSet(f, s)
           C == {s \in SUBSET S : Sum(s \cup T) = Sum(s) + Sum(T)}
<1>1. \A s \in SUBSET S : IsFiniteSet(s) /\ IsFiniteSet(s \cup T) /\ Sum(s) \in Int
  <2> SUFFICES ASSUME NEW s \in SUBSET S
               PROVE  IsFiniteSet(s) /\ IsFiniteSet(s \cup T) /\ Sum(s) \in Int
    OBVIOUS
  <2>1. IsFiniteSet(s) /\ IsFiniteSet(s \cup T)
    BY FS_Subset, FS_Union
  <2> QED
    BY <2>1, OneAdds
<1>2. Sum(T) \in Int
  BY OneAdds
<1>3. {} \in C
  <2>1. {} \cup T = T /\ Sum({}) = 0
    BY EmptySum
  <2> QED
    BY <1>2, <2>1
<1>4. ASSUME NEW s \in SUBSET S, NEW x \in S \ s, s \in C PROVE s \cup {x} \in C
  <2>1. Sum(s \cup {x}) = f[x] + Sum(s)
    BY <1>1, AddedSum
  <2>2. Sum((s \cup T) \cup {x}) = f[x] + Sum(s \cup T)
    <3>1. IsFiniteSet(s \cup T) /\ x \notin s \cup T /\ \A y \in (s \cup T) \cup {x} : f[y] \in Int
      BY <1>1
    <3> QED
      BY <3>1, AddedSum
  <2>3. (s \cup {x}) \cup T = (s \cup T) \cup {x} /\ s \cup {x} \in SUBSET S
    OBVIOUS
  <2>4. Sum(s \cup T) = Sum(s) + Sum(T) /\ f[x] \in Int /\ Sum(s) \in Int
    BY <1>1, <1>4
  <2>5. Sum((s \cup {x}) \cup T) = Sum(s \cup {x}) + Sum(T)
    <3>1. Sum((s \cup {x}) \cup T) = f[x] + (Sum(s) + Sum(T))
      BY <2>2, <2>3, <2>4
    <3> HIDE DEF Sum
    <3> QED
      BY <1>2, <2>1, <2>4, <3>1
  <2> QED
    BY <2>3, <2>5
<1>5. S \in C
  <2> HIDE DEF C
  <2>1. \A s \in SUBSET S : s \in C
    BY <1>3, <1>4, EverySubset
  <2> QED
    BY <2>1
<1> QED
  BY <1>5

\* Greater summands have a greater sum.
LEMMA LessSum ==
  ASSUME NEW S, IsFiniteSet(S), NEW f, NEW g,
         \A x \in S : f[x] \in Int /\ g[x] \in Int /\ f[x] <= g[x]
  PROVE  SumFunctionOnSet(f, S) <= SumFunctionOnSet(g, S)
<1> DEFINE F(s) == SumFunctionOnSet(f, s)
           G(s) == SumFunctionOnSet(g, s)
           C == {s \in SUBSET S : F(s) <= G(s)}
<1>1. \A s \in SUBSET S : IsFiniteSet(s) /\ F(s) \in Int /\ G(s) \in Int
  <2> SUFFICES ASSUME NEW s \in SUBSET S PROVE IsFiniteSet(s) /\ F(s) \in Int /\ G(s) \in Int
    OBVIOUS
  <2>1. IsFiniteSet(s)
    BY FS_Subset
  <2> QED
    BY <2>1, OneAdds
<1>2. {} \in C
  BY EmptySum
<1>3. ASSUME NEW s \in SUBSET S, NEW x \in S \ s, s \in C PROVE s \cup {x} \in C
  <2>1. F(s \cup {x}) = f[x] + F(s) /\ G(s \cup {x}) = g[x] + G(s)
    BY <1>1, AddedSum
  <2>2. F(s) <= G(s) /\ F(s) \in Int /\ G(s) \in Int /\ f[x] \in Int /\ g[x] \in Int /\ f[x] <= g[x]
    BY <1>1, <1>3
  <2>3. s \cup {x} \in SUBSET S
    OBVIOUS
  <2>4. F(s \cup {x}) <= G(s \cup {x})
    <3> HIDE DEF F, G
    <3> QED
      BY <2>1, <2>2
  <2> QED
    BY <2>3, <2>4
<1>4. S \in C
  <2> HIDE DEF C
  <2>1. \A s \in SUBSET S : s \in C
    BY <1>2, <1>3, EverySubset
  <2> QED
    BY <2>1
<1> QED
  BY <1>4

\* A sum of zeros.
LEMMA ZeroSum ==
  ASSUME NEW S, IsFiniteSet(S), NEW f, \A x \in S : f[x] = 0
  PROVE  SumFunctionOnSet(f, S) = 0
<1> DEFINE C == {s \in SUBSET S : SumFunctionOnSet(f, s) = 0}
<1>1. {} \in C
  BY EmptySum
<1>2. ASSUME NEW s \in SUBSET S, NEW x \in S \ s, s \in C PROVE s \cup {x} \in C
  <2>1. IsFiniteSet(s)
    BY FS_Subset
  <2>2. SumFunctionOnSet(f, s \cup {x}) = f[x] + SumFunctionOnSet(f, s)
    <3>1. x \notin s /\ \A y \in s \cup {x} : f[y] \in Int
      OBVIOUS
    <3> QED
      BY <2>1, <3>1, AddedSum
  <2>3. s \cup {x} \in SUBSET S /\ f[x] = 0 /\ SumFunctionOnSet(f, s) = 0
    BY <1>2
  <2> QED
    BY <2>2, <2>3
<1>3. S \in C
  <2> HIDE DEF C
  <2>1. \A s \in SUBSET S : s \in C
    BY <1>1, <1>2, EverySubset
  <2> QED
    BY <2>1
<1> QED
  BY <1>3

\* Nothing owed makes a sum of debts no less than a part of them.
LEMMA PartSum ==
  ASSUME NEW S, IsFiniteSet(S), NEW T \in SUBSET S, NEW f, \A x \in S : f[x] \in Nat
  PROVE  /\ 0 <= SumFunctionOnSet(f, T)
         /\ SumFunctionOnSet(f, T) <= SumFunctionOnSet(f, S)
<1> DEFINE z == [x \in S |-> 0]
           R == S \ T
<1>1. IsFiniteSet(T) /\ IsFiniteSet(R) /\ T \cup R = S /\ T \cap R = {}
  BY FS_Subset
<1>2. SumFunctionOnSet(z, T) = 0 /\ SumFunctionOnSet(z, R) = 0
  BY <1>1, ZeroSum
<1>3. 0 <= SumFunctionOnSet(f, T) /\ SumFunctionOnSet(f, T) \in Int
  <2>1. \A x \in T : z[x] \in Int /\ f[x] \in Int /\ z[x] <= f[x]
    OBVIOUS
  <2> HIDE DEF z
  <2> QED
    BY <1>1, <1>2, <2>1, LessSum, OneAdds
<1>4. 0 <= SumFunctionOnSet(f, R) /\ SumFunctionOnSet(f, R) \in Int
  <2>1. \A x \in R : z[x] \in Int /\ f[x] \in Int /\ z[x] <= f[x]
    OBVIOUS
  <2> HIDE DEF z, R
  <2> QED
    BY <1>1, <1>2, <2>1, LessSum, OneAdds
<1>5. SumFunctionOnSet(f, S) = SumFunctionOnSet(f, T) + SumFunctionOnSet(f, R)
  <2> HIDE DEF R
  <2> QED
    BY <1>1, JoinedSum
<1> QED
  BY <1>3, <1>4, <1>5

\* The difference of two sums is the sum of the differences.
LEMMA DifferenceSum ==
  ASSUME NEW S, IsFiniteSet(S), NEW f, NEW g, NEW h,
         \A x \in S : f[x] \in Int /\ g[x] \in Int /\ h[x] = f[x] - g[x]
  PROVE  SumFunctionOnSet(h, S) = SumFunctionOnSet(f, S) - SumFunctionOnSet(g, S)
<1> DEFINE F(s) == SumFunctionOnSet(f, s)
           G(s) == SumFunctionOnSet(g, s)
           H(s) == SumFunctionOnSet(h, s)
           C == {s \in SUBSET S : H(s) = F(s) - G(s)}
<1>1. \A s \in SUBSET S : IsFiniteSet(s) /\ F(s) \in Int /\ G(s) \in Int
  <2> SUFFICES ASSUME NEW s \in SUBSET S PROVE IsFiniteSet(s) /\ F(s) \in Int /\ G(s) \in Int
    OBVIOUS
  <2>1. IsFiniteSet(s)
    BY FS_Subset
  <2> QED
    BY <2>1, OneAdds
<1>2. {} \in C
  <2>1. F({}) = 0 /\ G({}) = 0 /\ H({}) = 0
    BY EmptySum
  <2> QED
    BY <2>1
<1>3. ASSUME NEW s \in SUBSET S, NEW x \in S \ s, s \in C PROVE s \cup {x} \in C
  <2>1. F(s \cup {x}) = f[x] + F(s) /\ G(s \cup {x}) = g[x] + G(s)
    BY <1>1, AddedSum
  <2>2. H(s \cup {x}) = h[x] + H(s)
    <3>1. x \notin s /\ \A y \in s \cup {x} : h[y] \in Int
      OBVIOUS
    <3> QED
      BY <1>1, <3>1, AddedSum
  <2>3. /\ H(s) = F(s) - G(s) /\ F(s) \in Int /\ G(s) \in Int
        /\ f[x] \in Int /\ g[x] \in Int /\ h[x] = f[x] - g[x]
    BY <1>1, <1>3
  <2>4. s \cup {x} \in SUBSET S
    OBVIOUS
  <2>5. H(s \cup {x}) = F(s \cup {x}) - G(s \cup {x})
    <3> HIDE DEF F, G, H
    <3> QED
      BY <2>1, <2>2, <2>3
  <2> QED
    BY <2>4, <2>5
<1>4. S \in C
  <2> HIDE DEF C
  <2>1. \A s \in SUBSET S : s \in C
    BY <1>2, <1>3, EverySubset
  <2> QED
    BY <2>1
<1> QED
  BY <1>4

\* The sum of what is taken away is taken away.
LEMMA NegatedSum ==
  ASSUME NEW S, IsFiniteSet(S), NEW f, NEW g, \A x \in S : f[x] \in Int /\ g[x] = -f[x]
  PROVE  SumFunctionOnSet(g, S) = -SumFunctionOnSet(f, S)
<1> DEFINE z == [x \in S |-> 0]
<1>1. \A x \in S : z[x] = 0 /\ z[x] \in Int /\ g[x] = z[x] - f[x]
  OBVIOUS
<1> HIDE DEF z
<1>2. SumFunctionOnSet(z, S) = 0
  BY <1>1, ZeroSum
<1>3. SumFunctionOnSet(g, S) = SumFunctionOnSet(z, S) - SumFunctionOnSet(f, S)
  BY <1>1, DifferenceSum
<1>4. SumFunctionOnSet(f, S) \in Int
  BY OneAdds
<1> QED
  BY <1>2, <1>3, <1>4

\* A sum may be taken over other names of its elements.
LEMMA RenamedSum ==
  ASSUME NEW S, IsFiniteSet(S), NEW h, \A x, y \in S : h[x] = h[y] => x = y,
         NEW f, NEW g, \A x \in S : f[x] \in Int /\ g[h[x]] = f[x]
  PROVE  /\ IsFiniteSet({h[x] : x \in S})
         /\ SumFunctionOnSet(g, {h[x] : x \in S}) = SumFunctionOnSet(f, S)
<1> DEFINE T(s) == {h[x] : x \in s}
           C == {s \in SUBSET S : IsFiniteSet(T(s)) /\ SumFunctionOnSet(g, T(s)) = SumFunctionOnSet(f, s)}
<1>1. {} \in C
  <2>1. T({}) = {}
    OBVIOUS
  <2> QED
    BY <2>1, EmptySum, FS_EmptySet
<1>2. ASSUME NEW s \in SUBSET S, NEW x \in S \ s, s \in C PROVE s \cup {x} \in C
  <2>1. T(s \cup {x}) = T(s) \cup {h[x]} /\ h[x] \notin T(s)
    OBVIOUS
  <2>2. IsFiniteSet(s) /\ IsFiniteSet(T(s)) /\ SumFunctionOnSet(g, T(s)) = SumFunctionOnSet(f, s)
    BY <1>2, FS_Subset
  <2>3. SumFunctionOnSet(f, s \cup {x}) = f[x] + SumFunctionOnSet(f, s)
    BY <2>2, AddedSum
  <2>4. \A y \in T(s) \cup {h[x]} : g[y] \in Int
    OBVIOUS
  <2>5. /\ SumFunctionOnSet(g, T(s) \cup {h[x]}) = g[h[x]] + SumFunctionOnSet(g, T(s))
        /\ IsFiniteSet(T(s) \cup {h[x]})
    <3> HIDE DEF T
    <3> QED
      BY <2>1, <2>2, <2>4, AddedSum, FS_AddElement
  <2>6. s \cup {x} \in SUBSET S /\ g[h[x]] = f[x]
    OBVIOUS
  <2> HIDE DEF T
  <2> QED
    BY <2>1, <2>2, <2>3, <2>5, <2>6
<1>3. S \in C
  <2> HIDE DEF C
  <2>1. \A s \in SUBSET S : s \in C
    BY <1>1, <1>2, EverySubset
  <2> QED
    BY <2>1
<1> QED
  BY <1>3

\* What of S has a key in K, and what has which: all, and at[k] for every key.
Parted(S, key, K, at, all) ==
    /\ \A k \in K : at[k] \in SUBSET S /\ \A x \in S : x \in at[k] <=> key[x] = k
    /\ all \in SUBSET S /\ \A x \in S : x \in all <=> key[x] \in K

\* The sum of the sums of parts is the sum of the whole.
LEMMA PartitionSum ==
  ASSUME NEW S, IsFiniteSet(S), NEW K, IsFiniteSet(K), NEW f, \A x \in S : f[x] \in Int,
         NEW key, NEW at, NEW all, Parted(S, key, K, at, all),
         NEW part, \A k \in K : part[k] = SumFunctionOnSet(f, at[k])
  PROVE  SumFunctionOnSet(part, K) = SumFunctionOnSet(f, all)
<1> DEFINE In(ks) == {x \in S : key[x] \in ks}
           C == {ks \in SUBSET K : SumFunctionOnSet(part, ks) = SumFunctionOnSet(f, In(ks))}
<1> USE DEF Parted
<1>1. (\A ks : IsFiniteSet(In(ks))) /\ \A k \in K : IsFiniteSet(at[k])
  <2>1. \A ks : In(ks) \in SUBSET S
    OBVIOUS
  <2>2. \A k \in K : at[k] \in SUBSET S
    OBVIOUS
  <2> HIDE DEF In
  <2> QED
    BY <2>1, <2>2, FS_Subset
<1>2. \A k \in K : part[k] = SumFunctionOnSet(f, at[k]) /\ part[k] \in Int
  BY <1>1, OneAdds
<1>3. {} \in C
  <2>1. In({}) = {}
    OBVIOUS
  <2> QED
    BY <2>1, EmptySum
<1>4. ASSUME NEW ks \in SUBSET K, NEW k \in K \ ks, ks \in C PROVE ks \cup {k} \in C
  <2>1. IsFiniteSet(ks) /\ \A y \in ks \cup {k} : part[y] \in Int
    BY <1>2, FS_Subset
  <2>2. SumFunctionOnSet(part, ks \cup {k}) = part[k] + SumFunctionOnSet(part, ks)
    BY <2>1, AddedSum
  <2>3. In(ks \cup {k}) = at[k] \cup In(ks) /\ at[k] \cap In(ks) = {}
    OBVIOUS
  <2>4. SumFunctionOnSet(f, at[k] \cup In(ks)) = SumFunctionOnSet(f, at[k]) + SumFunctionOnSet(f, In(ks))
    <3>1. \A x \in at[k] \cup In(ks) : f[x] \in Int
      OBVIOUS
    <3> HIDE DEF In
    <3> QED
      BY <1>1, <2>3, <3>1, JoinedSum
  <2>5. ks \cup {k} \in SUBSET K /\ SumFunctionOnSet(part, ks) = SumFunctionOnSet(f, In(ks))
    BY <1>4
  <2>6. part[k] = SumFunctionOnSet(f, at[k])
    BY <1>2
  <2> HIDE DEF In
  <2> QED
    BY <2>2, <2>3, <2>4, <2>5, <2>6
<1>5. K \in C
  <2> HIDE DEF C
  <2>1. \A ks \in SUBSET K : ks \in C
    BY <1>3, <1>4, EverySubset
  <2> QED
    BY <2>1
<1>6. In(K) = all
  OBVIOUS
<1> QED
  BY <1>5, <1>6

\* As many times the same.
LEMMA ConstantSum ==
  ASSUME NEW S, IsFiniteSet(S), NEW c \in Int, NEW f, \A x \in S : f[x] = c
  PROVE  SumFunctionOnSet(f, S) = c * Cardinality(S)
<1> DEFINE C == {s \in SUBSET S : SumFunctionOnSet(f, s) = c * Cardinality(s)}
<1>1. {} \in C
  <2>1. c * 0 = 0
    OBVIOUS
  <2> QED
    BY <2>1, EmptySum, FS_EmptySet
<1>2. ASSUME NEW s \in SUBSET S, NEW x \in S \ s, s \in C PROVE s \cup {x} \in C
  <2>1. IsFiniteSet(s) /\ Cardinality(s) \in Nat
    BY FS_Subset, FS_CardinalityType
  <2>2. Cardinality(s \cup {x}) = Cardinality(s) + 1
    BY <2>1, FS_AddElement
  <2>3. SumFunctionOnSet(f, s \cup {x}) = f[x] + SumFunctionOnSet(f, s)
    BY <2>1, AddedSum
  <2>4. f[x] = c /\ SumFunctionOnSet(f, s) = c * Cardinality(s) /\ s \cup {x} \in SUBSET S
    BY <1>2
  <2>5. \A n \in Nat : c + c * n = c * (n + 1)
    OBVIOUS
  <2>6. c + c * Cardinality(s) = c * (Cardinality(s) + 1)
    BY <2>1, <2>5
  <2>7. SumFunctionOnSet(f, s \cup {x}) = c * Cardinality(s \cup {x})
    BY <2>2, <2>3, <2>4, <2>6
  <2> QED
    BY <2>4, <2>7
<1>3. S \in C
  <2> HIDE DEF C
  <2>1. \A s \in SUBSET S : s \in C
    BY <1>1, <1>2, EverySubset
  <2> QED
    BY <2>1
<1> QED
  BY <1>3

\* What is not in a part of the set counts nothing.
LEMMA RestrictedSum ==
  ASSUME NEW S, IsFiniteSet(S), NEW T \in SUBSET S, NEW f, NEW g,
         \A x \in T : f[x] \in Int /\ g[x] = f[x], \A x \in S \ T : g[x] = 0
  PROVE  SumFunctionOnSet(g, S) = SumFunctionOnSet(f, T)
<1>1. IsFiniteSet(T) /\ IsFiniteSet(S \ T) /\ T \cup (S \ T) = S /\ T \cap (S \ T) = {}
  BY FS_Subset
<1>2. \A x \in T \cup (S \ T) : g[x] \in Int
  OBVIOUS
<1>3. SumFunctionOnSet(g, S) = SumFunctionOnSet(g, T) + SumFunctionOnSet(g, S \ T)
  BY <1>1, <1>2, JoinedSum
<1>4. SumFunctionOnSet(g, S \ T) = 0
  BY <1>1, ZeroSum
<1>5. SumFunctionOnSet(g, T) = SumFunctionOnSet(f, T) /\ SumFunctionOnSet(g, T) \in Int
  BY <1>1, <1>2, SameSum, OneAdds
<1> QED
  BY <1>3, <1>4, <1>5

=============================================================================
