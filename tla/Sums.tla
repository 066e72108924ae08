-------------------------------- MODULE Sums --------------------------------
(***************************************************************************)
(* Finite sums, and what their proofs rest on.  The library's induction    *)
(* rules quantify over predicates, which the provers here cannot           *)
(* instantiate; stated over sets, and derived from the existence of        *)
(* minimal elements (WFMin), they can be used.                             *)
(***************************************************************************)
EXTENDS Integers, FiniteSets, Functions, TLAPS,
        WellFoundedInduction, FiniteSetTheorems

-----------------------------------------------------------------------------
(***************************************************************************)
(* Induction.                                                              *)
(***************************************************************************)

\* A set that holds 0 and every successor of its numbers holds them all.
LEMMA NatSetInduction ==
    ASSUME NEW S, 0 \in S, \A n \in Nat : n \in S => n + 1 \in S
    PROVE  Nat \subseteq S
<1> DEFINE T == Nat \ S
           R == {ss \in Nat \X Nat : ss[1] < ss[2]}
<1>1. SUFFICES ASSUME T # {} PROVE FALSE
  OBVIOUS
<1>2. IsWellFoundedOn(R, Nat)
  BY NatLessThanWellFounded DEF OpToRel
<1>3. PICK x \in T : \A y \in T : <<y, x>> \notin R
  <2>1. T \subseteq Nat
    OBVIOUS
  <2> HIDE DEF T, R
  <2> QED BY <1>1, <1>2, <2>1, WFMin
<1>4. x - 1 \in T /\ x - 1 < x
  OBVIOUS
<1> QED BY <1>3, <1>4

\* A set that holds every element of D all of whose predecessors, in the order
\* of a rank, it holds, holds D.
LEMMA RankInduction ==
    ASSUME NEW D, NEW rank \in [D -> Nat], NEW P,
           \A d \in D : (\A e \in D : rank[e] < rank[d] => e \in P) => d \in P
    PROVE  D \subseteq P
<1> DEFINE Below == {n \in Nat : \A d \in D : rank[d] < n => d \in P}
<1>1. 0 \in Below
  OBVIOUS
<1>2. \A n \in Nat : n \in Below => n + 1 \in Below
  OBVIOUS
<1>3. Nat \subseteq Below
  <2> HIDE DEF Below
  <2> QED BY <1>1, <1>2, NatSetInduction
<1>4. \A d \in D : rank[d] + 1 \in Nat /\ rank[d] < rank[d] + 1
  OBVIOUS
<1> QED BY <1>3, <1>4

\* The subsets of a finite set ranked by their size.
LEMMA SizeIsRank ==
    ASSUME NEW S, IsFiniteSet(S)
    PROVE  /\ [T \in SUBSET S |-> Cardinality(T)] \in [SUBSET S -> Nat]
           /\ \A T \in SUBSET S : \A x \in T : Cardinality(T \ {x}) < Cardinality(T)
<1>1. ASSUME NEW T \in SUBSET S
      PROVE  IsFiniteSet(T) /\ Cardinality(T) \in Nat
  BY FS_Subset, FS_CardinalityType
<1>2. ASSUME NEW T \in SUBSET S, NEW x \in T
      PROVE  Cardinality(T \ {x}) < Cardinality(T)
  BY <1>1, FS_RemoveElement
<1> QED BY <1>1, <1>2

\* A family of subsets that holds the empty set, and each of its members with
\* one more element, holds the whole of a finite set.
LEMMA FiniteSetInduction ==
    ASSUME NEW S, IsFiniteSet(S),
           NEW F, {} \in F, \A T \in F : \A x \in S \ T : T \cup {x} \in F
    PROVE  S \in F
<1> DEFINE rank == [T \in SUBSET S |-> Cardinality(T)]
<1>1. ASSUME NEW T \in SUBSET S, \A U \in SUBSET S : rank[U] < rank[T] => U \in F
      PROVE  T \in F
  <2>1. CASE T = {}
    BY <2>1
  <2>2. CASE T # {}
    <3>1. PICK x \in T : TRUE
      BY <2>2
    <3>2. T \ {x} \in F
      BY <1>1, <3>1, SizeIsRank
    <3> QED BY <3>1, <3>2, x \in S \ (T \ {x}), (T \ {x}) \cup {x} = T
  <2> QED BY <2>1, <2>2
<1>2. SUBSET S \subseteq F
  <2>1. rank \in [SUBSET S -> Nat]
    BY SizeIsRank
  <2> HIDE DEF rank
  <2> QED BY <1>1, <2>1, RankInduction
<1> QED BY <1>2

-----------------------------------------------------------------------------
(***************************************************************************)
(* Recursive functions.                                                    *)
(***************************************************************************)

\* f follows the recursion that is base on Z and steps to the value at next
\* elsewhere.
Solves(f, D, Z, base, step, next) ==
    \A d \in D : f[d] = IF d \in Z THEN base[d] ELSE step[<<d, f[next[d]]>>]

\* A recursion that calls itself only at arguments of smaller rank has a
\* solution.
LEMMA RecursionExists ==
    ASSUME NEW D, NEW Z, NEW V,
           NEW rank \in [D -> Nat], NEW next \in [D -> D],
           \A d \in D \ Z : rank[next[d]] < rank[d],
           NEW base \in [D -> V], NEW step \in [D \X V -> V]
    PROVE  \E f \in [D -> V] : Solves(f, D, Z, base, step, next)
<1> DEFINE Body(f, d) == IF d \in Z THEN base[d] ELSE step[<<d, f[next[d]]>>]
           Upto(n) == {f \in [D -> V] : \A d \in D : rank[d] < n => f[d] = Body(f, d)}
           Levels == {n \in Nat : Upto(n) # {}}
<1>1. Nat \subseteq Levels
  <2>1. 0 \in Levels
    <3>1. base \in Upto(0)
      OBVIOUS
    <3> QED BY <3>1
  <2>2. ASSUME NEW n \in Nat, n \in Levels
        PROVE  n + 1 \in Levels
    <3>1. PICK f \in [D -> V] : \A d \in D : rank[d] < n => f[d] = Body(f, d)
      BY <2>2
    <3> DEFINE g == [d \in D |-> Body(f, d)]
    <3>2. g \in [D -> V]
      OBVIOUS
    <3>3. ASSUME NEW d \in D, rank[d] < n + 1
          PROVE  g[d] = Body(g, d)
      <4>1. CASE d \in Z
        BY <4>1
      <4>2. CASE d \notin Z
        <5>1. rank[next[d]] < n
          BY <3>3, <4>2
        <5>2. g[next[d]] = f[next[d]]
          BY <3>1, <5>1
        <5> QED BY <4>2, <5>2
      <4> QED BY <4>1, <4>2
    <3> HIDE DEF g
    <3> QED BY <3>2, <3>3
  <2> HIDE DEF Levels
  <2> QED BY <2>1, <2>2, NatSetInduction
<1>2. ASSUME NEW n \in Nat, NEW f \in Upto(n), NEW g \in Upto(n)
      PROVE  \A d \in D : rank[d] < n => f[d] = g[d]
  <2> DEFINE P == {d \in D : rank[d] < n => f[d] = g[d]}
  <2>1. ASSUME NEW d \in D, \A e \in D : rank[e] < rank[d] => e \in P
        PROVE  d \in P
    <3>1. CASE d \in Z
      BY <3>1
    <3>2. CASE d \notin Z /\ rank[d] < n
      <4>1. rank[next[d]] < n /\ next[d] \in P
        BY <2>1, <3>2
      <4> QED BY <3>2, <4>1
    <3> QED BY <3>1, <3>2
  <2>2. D \subseteq P
    <3> HIDE DEF P
    <3> QED BY <2>1, RankInduction
  <2> QED BY <2>2
<1> DEFINE F == [n \in Nat |-> CHOOSE f \in [D -> V] : f \in Upto(n)]
           f0 == [d \in D |-> F[rank[d] + 1][d]]
<1>3. ASSUME NEW n \in Nat
      PROVE  F[n] \in Upto(n)
  <2>1. Upto(n) # {} /\ Upto(n) \subseteq [D -> V]
    BY <1>1
  <2> HIDE DEF Upto
  <2> QED BY <2>1
<1>4. ASSUME NEW n \in Nat, NEW m \in Nat, n <= m
      PROVE  F[m] \in Upto(n)
  <2> DEFINE g == F[m]
  <2>1. g \in Upto(m)
    BY <1>3
  <2> HIDE DEF F, g
  <2>2. g \in Upto(n)
    BY <2>1, <1>4
  <2> QED BY <2>2 DEF g
<1>5. ASSUME NEW n \in Nat
      PROVE  F[n] \in [D -> V]
  <2>1. Upto(n) \subseteq [D -> V]
    OBVIOUS
  <2> HIDE DEF F, Upto
  <2> QED BY <1>3, <2>1
<1> HIDE DEF F
<1>6. f0 \in [D -> V]
  BY <1>5
<1>7. ASSUME NEW d \in D
      PROVE  f0[d] = Body(f0, d)
  <2> DEFINE g == F[rank[d] + 1]
  <2>1. g \in Upto(rank[d] + 1)
    <3> HIDE DEF Upto
    <3> QED BY <1>3
  <2>2. g[d] = Body(g, d)
    <3> HIDE DEF g
    <3> QED BY <2>1
  <2>3. CASE d \in Z
    BY <2>2, <2>3
  <2>4. CASE d \notin Z
    <3> DEFINE e == next[d]
               h == F[rank[e] + 1]
    <3>1. rank[e] + 1 \in Nat /\ rank[d] + 1 \in Nat /\ rank[e] + 1 <= rank[d] + 1 /\ e \in D
      BY <2>4
    <3>2. h \in Upto(rank[e] + 1) /\ g \in Upto(rank[e] + 1)
      <4> HIDE DEF Upto, e
      <4> QED BY <1>3, <1>4, <3>1
    <3>3. h[e] = g[e]
      <4> HIDE DEF g, h, e, Upto
      <4> QED BY <1>2, <3>1, <3>2
    <3>4. f0[e] = g[e]
      BY <3>3, <3>1
    <3> QED BY <2>2, <2>4, <3>4
  <2> QED BY <2>3, <2>4
<1> HIDE DEF f0
<1> QED BY <1>6, <1>7 DEF Solves

-----------------------------------------------------------------------------
(***************************************************************************)
(* Sums.  SumFunctionOnSet(f, S) is the value at S of a table, built by    *)
(* recursion, of the sums over the subsets of S.                           *)
(***************************************************************************)
Pick(S) == CHOOSE x \in S : TRUE

IsTable(table, f, S) ==
    table = [T \in SUBSET S |-> IF T = {} THEN 0 ELSE f[Pick(T)] + table[T \ {Pick(T)}]]

\* Every function with integer values on a finite set has a table of its sums.
LEMMA TableExists ==
    ASSUME NEW S, IsFiniteSet(S), NEW f, \A x \in S : f[x] \in Int
    PROVE  \E table : IsTable(table, f, S)
<1> DEFINE D == SUBSET S
           Z == {{}}
           V == Int
           rank == [T \in SUBSET S |-> Cardinality(T)]
           next == [T \in D |-> T \ {Pick(T)}]
           base == [T \in D |-> 0]
           step == [x \in D \X Int |-> IF x[1] = {} THEN 0 ELSE f[Pick(x[1])] + x[2]]
<1>1. \A T \in D : T # {} => Pick(T) \in T
  BY DEF Pick
<1>2. step \in [D \X V -> V]
  BY <1>1
<1>3. rank \in [D -> Nat] /\ \A T \in D \ Z : rank[next[T]] < rank[T]
  BY <1>1, SizeIsRank
<1>4. next \in [D -> D] /\ base \in [D -> V]
  OBVIOUS
<1>5. PICK t \in [D -> V] : \A T \in D :
        t[T] = IF T \in Z THEN base[T] ELSE step[<<T, t[next[T]]>>]
  <2> HIDE DEF D, Z, V, rank, next, base, step
  <2> SUFFICES \E t \in [D -> V] : Solves(t, D, Z, base, step, next)
    BY DEF Solves
  <2> QED BY <1>2, <1>3, <1>4, RecursionExists
<1>6. ASSUME NEW T \in D
      PROVE  t[T] = IF T = {} THEN 0 ELSE f[Pick(T)] + t[T \ {Pick(T)}]
  BY <1>5
<1>7. t = [T \in D |-> IF T = {} THEN 0 ELSE f[Pick(T)] + t[T \ {Pick(T)}]]
  BY <1>5, <1>6
<1> QED BY <1>7 DEF IsTable

\* Tables of sums agree wherever both are defined, and so do those of
\* functions that agree there.
LEMMA TableUnique ==
    ASSUME NEW S, IsFiniteSet(S), NEW f, \A x \in S : f[x] \in Int,
           NEW A, S \subseteq A, NEW B, S \subseteq B,
           NEW g, \A x \in S : f[x] = g[x],
           NEW t, IsTable(t, f, A), NEW u, IsTable(u, g, B)
    PROVE  \A T \in SUBSET S : t[T] = u[T] /\ t[T] \in Int
<1> DEFINE D == SUBSET S
           rank == [T \in SUBSET S |-> Cardinality(T)]
           P == {T \in D : t[T] = u[T] /\ t[T] \in Int}
<1>1. ASSUME NEW T \in D
      PROVE  /\ t[T] = IF T = {} THEN 0 ELSE f[Pick(T)] + t[T \ {Pick(T)}]
             /\ u[T] = IF T = {} THEN 0 ELSE g[Pick(T)] + u[T \ {Pick(T)}]
  BY DEF IsTable
<1>2. ASSUME NEW T \in D, \A U \in D : rank[U] < rank[T] => U \in P
      PROVE  T \in P
  <2>1. CASE T = {}
    <3>1. t[T] = 0 /\ u[T] = 0
      BY <1>1, <2>1
    <3> QED BY <3>1
  <2>2. CASE T # {}
    <3>1. Pick(T) \in T
      BY <2>2 DEF Pick
    <3>2. T \ {Pick(T)} \in P
      BY <1>2, <3>1, SizeIsRank
    <3> QED BY <1>1, <2>2, <3>1, <3>2
  <2> QED BY <2>1, <2>2
<1>3. D \subseteq P
  <2>1. rank \in [D -> Nat]
    BY SizeIsRank
  <2> HIDE DEF rank, P, D
  <2> QED BY <1>2, <2>1, RankInduction
<1> QED BY <1>3

\* The value of a sum is that of any table.
LEMMA SumIsTable ==
    ASSUME NEW S, IsFiniteSet(S), NEW f, \A x \in S : f[x] \in Int
    PROVE  \E table : /\ IsTable(table, f, S)
                      /\ \A T \in SUBSET S : SumFunctionOnSet(f, T) = table[T]
<1> DEFINE Table(T) == CHOOSE table : IsTable(table, f, T)
<1>1. ASSUME NEW T
      PROVE  SumFunctionOnSet(f, T) = Table(T)[T]
  BY Zenon DEF SumFunctionOnSet, FoldFunctionOnSet, MapThenFoldSet, IsTable, Pick
<1>2. ASSUME NEW T \in SUBSET S
      PROVE  IsTable(Table(T), f, T)
  <2>1. IsFiniteSet(T)
    BY FS_Subset
  <2> QED BY <2>1, TableExists
<1>3. ASSUME NEW T \in SUBSET S
      PROVE  Table(T)[T] = Table(S)[T]
  <2>1. IsFiniteSet(T)
    BY FS_Subset
  <2>2. IsTable(Table(T), f, T) /\ IsTable(Table(S), f, S)
    BY <1>2
  <2> HIDE DEF Table
  <2> QED BY <2>1, <2>2, TableUnique
<1> QED BY <1>1, <1>2, <1>3

\* An empty sum is nought.
LEMMA SumOfNone ==
    ASSUME NEW f
    PROVE  SumFunctionOnSet(f, {}) = 0
<1>1. IsFiniteSet({})
  BY FS_EmptySet
<1>2. PICK table : /\ IsTable(table, f, {})
                   /\ \A T \in SUBSET {} : SumFunctionOnSet(f, T) = table[T]
  BY <1>1, SumIsTable
<1> QED BY <1>2 DEF IsTable

\* Any element may be taken out of a sum.
LEMMA SumRemove ==
    ASSUME NEW S, IsFiniteSet(S), NEW f, \A x \in S : f[x] \in Int
    PROVE  /\ SumFunctionOnSet(f, S) \in Int
           /\ \A x \in S : SumFunctionOnSet(f, S) = f[x] + SumFunctionOnSet(f, S \ {x})
<1> DEFINE Sum(T) == SumFunctionOnSet(f, T)
           D == SUBSET S
           rank == [T \in SUBSET S |-> Cardinality(T)]
           P == {T \in D : Sum(T) \in Int /\ \A x \in T : Sum(T) = f[x] + Sum(T \ {x})}
<1>1. PICK table : /\ IsTable(table, f, S)
                   /\ \A T \in SUBSET S : Sum(T) = table[T]
  BY SumIsTable
<1>2. ASSUME NEW T \in D, T # {}
      PROVE  Pick(T) \in T /\ Sum(T) = f[Pick(T)] + Sum(T \ {Pick(T)})
  <2>1. Pick(T) \in T
    BY <1>2 DEF Pick
  <2>2. table[T] = f[Pick(T)] + table[T \ {Pick(T)}]
    BY <1>1, <1>2 DEF IsTable
  <2> QED BY <1>1, <2>1, <2>2
<1>3. Sum({}) = 0
  BY SumOfNone
<1> HIDE DEF Sum
<1>4. ASSUME NEW T \in D, \A U \in D : rank[U] < rank[T] => U \in P
      PROVE  T \in P
  <2>1. CASE T = {}
    BY <1>3, <2>1
  <2>2. CASE T # {}
    <3> DEFINE c == Pick(T)
    <3>1. c \in T /\ Sum(T) = f[c] + Sum(T \ {c})
      BY <1>2, <2>2
    <3> HIDE DEF c
    <3>2. T \ {c} \in P
      BY <1>4, <3>1, SizeIsRank
    <3>3. ASSUME NEW x \in T, x # c
          PROVE  Sum(T) = f[x] + Sum(T \ {x})
      <4>1. T \ {x} \in P
        BY <1>4, SizeIsRank
      <4>2. Sum(T \ {c}) = f[x] + Sum((T \ {c}) \ {x})
        BY <3>2, <3>3
      <4>3. Sum(T \ {x}) = f[c] + Sum((T \ {x}) \ {c})
        BY <3>1, <3>3, <4>1
      <4>4. Sum((T \ {x}) \ {c}) = Sum((T \ {c}) \ {x})
        <5>1. (T \ {x}) \ {c} = (T \ {c}) \ {x}
          OBVIOUS
        <5> QED BY <5>1
      <4>5. (T \ {c}) \ {x} \in P
        <5>1. Cardinality((T \ {c}) \ {x}) < Cardinality(T \ {c})
          BY <3>3, SizeIsRank, T \ {c} \in SUBSET S
        <5>2. Cardinality(T \ {c}) < Cardinality(T)
          BY <3>1, SizeIsRank
        <5>3. Cardinality((T \ {c}) \ {x}) \in Nat /\ Cardinality(T \ {c}) \in Nat /\ Cardinality(T) \in Nat
          BY FS_Subset, FS_CardinalityType
        <5> DEFINE U == (T \ {c}) \ {x}
        <5>4. U \in D /\ rank[U] < rank[T]
          BY <5>1, <5>2, <5>3
        <5> HIDE DEF U, P, rank
        <5>5. U \in P
          BY <1>4, <5>4
        <5> QED BY <5>5 DEF U
      <4>6. f[x] \in Int /\ f[c] \in Int /\ Sum((T \ {c}) \ {x}) \in Int
        BY <3>1, <4>5
      <4> QED BY <3>1, <4>2, <4>3, <4>4, <4>6
    <3>4. Sum(T) \in Int
      BY <3>1, <3>2
    <3> QED BY <3>1, <3>3, <3>4
  <2> QED BY <2>1, <2>2
<1>5. D \subseteq P
  <2>1. rank \in [D -> Nat]
    BY SizeIsRank
  <2> HIDE DEF rank, P, D
  <2> QED BY <1>4, <2>1, RankInduction
<1> QED BY <1>5 DEF Sum

\* A new element is added to a sum.
LEMMA SumAdd ==
    ASSUME NEW S, IsFiniteSet(S), NEW a, a \notin S,
           NEW f, \A x \in S \cup {a} : f[x] \in Int
    PROVE  SumFunctionOnSet(f, S \cup {a}) = SumFunctionOnSet(f, S) + f[a]
<1>1. IsFiniteSet(S \cup {a}) /\ (S \cup {a}) \ {a} = S
  BY FS_AddElement
<1>2. SumFunctionOnSet(f, S \cup {a}) = f[a] + SumFunctionOnSet(f, S)
  <2> DEFINE T == S \cup {a}
  <2>1. SumFunctionOnSet(f, T) = f[a] + SumFunctionOnSet(f, T \ {a})
    <3>1. IsFiniteSet(T) /\ a \in T /\ \A x \in T : f[x] \in Int
      BY <1>1
    <3> HIDE DEF T
    <3> QED BY <3>1, SumRemove
  <2>2. T \ {a} = S
    BY <1>1
  <2> QED BY <2>1, <2>2, Zenon
<1>3. SumFunctionOnSet(f, S) \in Int /\ f[a] \in Int
  BY SumRemove
<1> QED BY <1>1, <1>2, <1>3

\* The sum of a pointwise sum.
LEMMA SumPlus ==
    ASSUME NEW S, IsFiniteSet(S),
           NEW f, \A x \in S : f[x] \in Int,
           NEW g, \A x \in S : g[x] \in Int,
           NEW h, \A x \in S : h[x] = f[x] + g[x]
    PROVE  SumFunctionOnSet(h, S) = SumFunctionOnSet(f, S) + SumFunctionOnSet(g, S)
<1> DEFINE Sf(T) == SumFunctionOnSet(f, T)
           Sg(T) == SumFunctionOnSet(g, T)
           Sh(T) == SumFunctionOnSet(h, T)
           F == {T \in SUBSET S : Sh(T) = Sf(T) + Sg(T)}
<1>1. {} \in F
  BY SumOfNone
<1>2. ASSUME NEW T \in F, NEW x \in S \ T
      PROVE  T \cup {x} \in F
  <2>1. IsFiniteSet(T) /\ \A y \in T \cup {x} : f[y] \in Int /\ g[y] \in Int /\ h[y] \in Int
    BY FS_Subset
  <2>2. /\ Sf(T \cup {x}) = Sf(T) + f[x]
        /\ Sg(T \cup {x}) = Sg(T) + g[x]
        /\ Sh(T \cup {x}) = Sh(T) + h[x]
    BY <2>1, SumAdd
  <2>3. Sf(T) \in Int /\ Sg(T) \in Int /\ f[x] \in Int /\ g[x] \in Int
    BY <2>1, SumRemove
  <2>4. Sh(T) = Sf(T) + Sg(T) /\ h[x] = f[x] + g[x]
    OBVIOUS
  <2> HIDE DEF Sf, Sg, Sh
  <2> QED BY <2>2, <2>3, <2>4
<1>3. S \in F
  <2> HIDE DEF F
  <2> QED BY <1>1, <1>2, FiniteSetInduction
<1> QED BY <1>3

\* The sum of a multiple.
LEMMA SumTimes ==
    ASSUME NEW S, IsFiniteSet(S), NEW c \in Int,
           NEW f, \A x \in S : f[x] \in Int,
           NEW h, \A x \in S : h[x] = c * f[x]
    PROVE  SumFunctionOnSet(h, S) = c * SumFunctionOnSet(f, S)
<1> DEFINE Sf(T) == SumFunctionOnSet(f, T)
           Sh(T) == SumFunctionOnSet(h, T)
           F == {T \in SUBSET S : Sh(T) = c * Sf(T)}
<1>1. {} \in F
  BY SumOfNone
<1>2. ASSUME NEW T \in F, NEW x \in S \ T
      PROVE  T \cup {x} \in F
  <2>1. IsFiniteSet(T) /\ \A y \in T \cup {x} : f[y] \in Int /\ h[y] \in Int
    BY FS_Subset
  <2>2. Sf(T \cup {x}) = Sf(T) + f[x] /\ Sh(T \cup {x}) = Sh(T) + h[x]
    BY <2>1, SumAdd
  <2>3. Sf(T) \in Int /\ f[x] \in Int
    BY <2>1, SumRemove
  <2>4. Sh(T) = c * Sf(T) /\ h[x] = c * f[x]
    OBVIOUS
  <2> HIDE DEF Sf, Sh
  <2>5. c * (Sf(T) + f[x]) = c * Sf(T) + c * f[x]
    BY <2>3
  <2> QED BY <2>2, <2>4, <2>5
<1>3. S \in F
  <2> HIDE DEF F
  <2> QED BY <1>1, <1>2, FiniteSetInduction
<1> QED BY <1>3

\* Sums of functions that agree.
LEMMA SumEqual ==
    ASSUME NEW S, IsFiniteSet(S), NEW f, \A x \in S : f[x] \in Int,
           NEW g, \A x \in S : g[x] = f[x]
    PROVE  SumFunctionOnSet(g, S) = SumFunctionOnSet(f, S)
<1>1. \A x \in S : g[x] = 1 * f[x]
  OBVIOUS
<1>2. SumFunctionOnSet(g, S) = 1 * SumFunctionOnSet(f, S)
  BY <1>1, SumTimes
<1> QED BY <1>2, SumRemove

\* Sums of functions one of which is nowhere larger.
LEMMA SumMonotone ==
    ASSUME NEW S, IsFiniteSet(S), NEW f, \A x \in S : f[x] \in Int,
           NEW g, \A x \in S : g[x] \in Int /\ f[x] <= g[x]
    PROVE  SumFunctionOnSet(f, S) <= SumFunctionOnSet(g, S)
<1> DEFINE F == {T \in SUBSET S : SumFunctionOnSet(f, T) <= SumFunctionOnSet(g, T)}
<1>1. {} \in F
  BY SumOfNone
<1>2. ASSUME NEW T \in F, NEW x \in S \ T
      PROVE  T \cup {x} \in F
  <2>1. IsFiniteSet(T) /\ \A y \in T \cup {x} : f[y] \in Int /\ g[y] \in Int
    BY FS_Subset
  <2>2. /\ SumFunctionOnSet(f, T \cup {x}) = SumFunctionOnSet(f, T) + f[x]
        /\ SumFunctionOnSet(g, T \cup {x}) = SumFunctionOnSet(g, T) + g[x]
    BY <2>1, SumAdd
  <2>3. SumFunctionOnSet(f, T) \in Int /\ SumFunctionOnSet(g, T) \in Int
    BY <2>1, SumRemove
  <2> QED BY <2>1, <2>2, <2>3
<1>3. S \in F
  <2> HIDE DEF F
  <2> QED BY <1>1, <1>2, FiniteSetInduction
<1> QED BY <1>3

\* Sums of natural numbers: they are natural, and no smaller for more elements.
LEMMA SumNat ==
    ASSUME NEW S, IsFiniteSet(S), NEW f, \A x \in S : f[x] \in Nat
    PROVE  /\ SumFunctionOnSet(f, S) \in Nat
           /\ \A x \in S : f[x] <= SumFunctionOnSet(f, S)
<1>1. ASSUME NEW T \in SUBSET S
      PROVE  SumFunctionOnSet(f, T) \in Nat
  <2> DEFINE zero == [x \in T |-> 0]
  <2>1. IsFiniteSet(T)
    BY FS_Subset
  <2>2. SumFunctionOnSet(zero, T) = 0 * SumFunctionOnSet(f, T)
    <3>1. \A x \in T : f[x] \in Int /\ zero[x] = 0 * f[x]
      OBVIOUS
    <3> HIDE DEF zero
    <3> QED BY <2>1, <3>1, SumTimes
  <2>3. SumFunctionOnSet(f, T) \in Int
    BY <2>1, SumRemove
  <2>4. SumFunctionOnSet(zero, T) <= SumFunctionOnSet(f, T)
    <3>1. \A x \in T : zero[x] \in Int /\ f[x] \in Int /\ zero[x] <= f[x]
      OBVIOUS
    <3> HIDE DEF zero
    <3> QED BY <2>1, <3>1, SumMonotone
  <2> QED BY <2>2, <2>3, <2>4
<1>2. ASSUME NEW x \in S
      PROVE  f[x] <= SumFunctionOnSet(f, S)
  <2>1. SumFunctionOnSet(f, S) = f[x] + SumFunctionOnSet(f, S \ {x})
    BY SumRemove
  <2>2. SumFunctionOnSet(f, S \ {x}) \in Nat
    BY <1>1
  <2> QED BY <2>1, <2>2
<1> QED BY <1>1, <1>2

\* Changing one term of a sum.
LEMMA SumUpdate ==
    ASSUME NEW S, IsFiniteSet(S), NEW f, \A x \in S : f[x] \in Int,
           NEW a \in S, NEW v \in Int,
           NEW g, \A x \in S : g[x] = IF x = a THEN v ELSE f[x]
    PROVE  SumFunctionOnSet(g, S) = SumFunctionOnSet(f, S) - f[a] + v
<1>1. IsFiniteSet(S \ {a}) /\ \A x \in S \ {a} : f[x] \in Int /\ g[x] = f[x]
  BY FS_Subset
<1>2. SumFunctionOnSet(g, S \ {a}) = SumFunctionOnSet(f, S \ {a})
  BY <1>1, SumEqual
<1>3. /\ SumFunctionOnSet(f, S) = f[a] + SumFunctionOnSet(f, S \ {a})
      /\ SumFunctionOnSet(g, S) = v + SumFunctionOnSet(g, S \ {a})
  BY SumRemove
<1>4. SumFunctionOnSet(f, S \ {a}) \in Int
  BY <1>1, SumRemove
<1> QED BY <1>2, <1>3, <1>4

\* A sum of noughts and ones counts the ones.
LEMMA SumCounts ==
    ASSUME NEW S, IsFiniteSet(S), NEW A \in SUBSET S,
           NEW f, \A x \in S : f[x] = IF x \in A THEN 1 ELSE 0
    PROVE  SumFunctionOnSet(f, S) = Cardinality(A)
<1> DEFINE F == {T \in SUBSET S : SumFunctionOnSet(f, T) = Cardinality(T \cap A)}
<1>1. {} \in F
  BY SumOfNone, FS_EmptySet
<1>2. ASSUME NEW T \in F, NEW x \in S \ T
      PROVE  T \cup {x} \in F
  <2>1. /\ IsFiniteSet(T) /\ IsFiniteSet(T \cap A) /\ x \notin T \cap A
        /\ \A y \in T \cup {x} : f[y] \in Int
    BY FS_Subset
  <2>2. SumFunctionOnSet(f, T \cup {x}) = SumFunctionOnSet(f, T) + f[x]
    BY <2>1, SumAdd
  <2>3. Cardinality(T \cap A) \in Nat
    BY <2>1, FS_CardinalityType
  <2>4. CASE x \in A
    <3>1. (T \cup {x}) \cap A = (T \cap A) \cup {x}
      BY <2>4
    <3>2. Cardinality((T \cap A) \cup {x}) = Cardinality(T \cap A) + 1
      BY <2>1, FS_AddElement
    <3> QED BY <2>2, <2>4, <3>1, <3>2
  <2>5. CASE x \notin A
    <3>1. (T \cup {x}) \cap A = T \cap A
      BY <2>5
    <3> QED BY <2>2, <2>3, <2>5, <3>1
  <2> QED BY <2>4, <2>5
<1>3. S \in F
  <2> HIDE DEF F
  <2> QED BY <1>1, <1>2, FiniteSetInduction
<1> QED BY <1>3, S \cap A = A
=============================================================================
