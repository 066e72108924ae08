-------------------------- MODULE PlanEngine_proofs --------------------------
(***************************************************************************)
(* Proofs about the calendar engine, for every horizon, every preferred    *)
(* length of a block, every set of percentages and every list of weights:  *)
(* first its pure functions, then the loops of build_plan.                 *)
(***************************************************************************)
EXTENDS PlanEngine, Sums

-----------------------------------------------------------------------------
(***************************************************************************)
(* Arithmetic.                                                             *)
(***************************************************************************)

\* Division with remainder.
LEMMA DivMod ==
    ASSUME NEW a \in Nat, NEW b \in Nat \ {0}
    PROVE  /\ a \div b \in Nat
           /\ a % b \in 0 .. (b - 1)
           /\ a = b * (a \div b) + (a % b)
  OBVIOUS

\* A positive factor can be cancelled.
LEMMA MulCancel ==
    ASSUME NEW c \in Nat \ {0}, NEW a \in Int, NEW b \in Int, c * a <= c * b
    PROVE  a <= b
  OBVIOUS

\* A quotient, and one more than it if there is a remainder, is less than one
\* unit away from the exact value.
LEMMA NearExact ==
    ASSUME NEW e \in Nat, NEW W \in Nat \ {0}, NEW b \in Nat, NEW r \in 0 .. (W - 1),
           e = W * b + r
    PROVE  /\ b * W > e - W /\ b * W < e + W
           /\ r > 0 => (b + 1) * W > e - W /\ (b + 1) * W < e + W
<1>1. b * W = W * b /\ (b + 1) * W = W * b + W /\ W * b \in Nat
  OBVIOUS
<1> QED BY <1>1

\* The larger of two values has no smaller a quotient.
LEMMA QuotientMonotone ==
    ASSUME NEW W \in Nat \ {0},
           NEW b1 \in Nat, NEW r1 \in 0 .. (W - 1),
           NEW b2 \in Nat, NEW r2 \in 0 .. (W - 1),
           W * b1 + r1 <= W * b2 + r2
    PROVE  b1 <= b2
<1> SUFFICES ASSUME b2 + 1 <= b1 PROVE FALSE
  OBVIOUS
<1>1. W * (b2 + 1) <= W * b1 /\ W * (b2 + 1) = W * b2 + W
  OBVIOUS
<1>2. W * b1 \in Nat /\ W * b2 \in Nat
  OBVIOUS
<1> QED BY <1>1, <1>2

-----------------------------------------------------------------------------
(***************************************************************************)
(* largest_remainder.                                                      *)
(***************************************************************************)

\* The total of natural numbers is natural and at least each of them.
LEMMA TotalOfDomain ==
    ASSUME NEW n \in Nat, NEW f, DOMAIN f = 1 .. n, \A i \in 1 .. n : f[i] \in Nat
    PROVE  /\ Total(f) = SumFunctionOnSet(f, 1 .. n)
           /\ Total(f) \in Nat
           /\ \A i \in 1 .. n : f[i] <= Total(f)
<1>1. IsFiniteSet(1 .. n)
  BY FS_Interval
<1>2. Total(f) = SumFunctionOnSet(f, 1 .. n)
  BY Zenon DEF Total, SumFunction
<1> QED BY <1>1, <1>2, SumNat

\* The order in which the missing units are handed out.
Before(rest, j, i) == rest[j] > rest[i] \/ (rest[j] = rest[i] /\ j < i)
Ahead(rest, n, i) == {j \in 1 .. n : Before(rest, j, i)}

\* Every place in that order is taken by exactly one share.
LEMMA RanksAreDistinct ==
    ASSUME NEW n \in Nat, NEW rest \in [1 .. n -> Nat]
    PROVE  /\ \A i \in 1 .. n : Cardinality(Ahead(rest, n, i)) \in 0 .. (n - 1)
           /\ \A i, j \in 1 .. n : Before(rest, j, i) =>
                Cardinality(Ahead(rest, n, j)) < Cardinality(Ahead(rest, n, i))
           /\ \A m \in 0 .. n :
                Cardinality({i \in 1 .. n : Cardinality(Ahead(rest, n, i)) < m}) = m
<1> DEFINE A(i) == Ahead(rest, n, i)
           rank == [i \in 1 .. n |-> Cardinality(A(i))]
<1>1. IsFiniteSet(1 .. n) /\ Cardinality(1 .. n) = n
  BY FS_Interval
<1>2. ASSUME NEW i \in 1 .. n
      PROVE  /\ A(i) \subseteq (1 .. n) \ {i}
             /\ IsFiniteSet(A(i)) /\ Cardinality(A(i)) \in 0 .. (n - 1)
  <2>1. A(i) \subseteq (1 .. n) \ {i}
    BY DEF Ahead, Before
  <2>2. IsFiniteSet((1 .. n) \ {i}) /\ Cardinality((1 .. n) \ {i}) = n - 1
    BY <1>1, FS_RemoveElement
  <2>3. IsFiniteSet(A(i)) /\ Cardinality(A(i)) <= n - 1
    BY <2>1, <2>2, FS_Subset
  <2>4. Cardinality(A(i)) \in Nat
    BY <2>3, FS_CardinalityType
  <2> QED BY <2>1, <2>3, <2>4
<1>3. ASSUME NEW i \in 1 .. n, NEW j \in 1 .. n, Before(rest, j, i)
      PROVE  Cardinality(A(j)) < Cardinality(A(i))
  <2>1. A(j) \subseteq A(i) /\ j \in A(i) /\ j \notin A(j)
    BY <1>3 DEF Ahead, Before
  <2>2. IsFiniteSet(A(i)) /\ Cardinality(A(i)) \in Nat /\ Cardinality(A(j)) \in Nat
    BY <1>2
  <2>3. Cardinality(A(j)) <= Cardinality(A(i))
        /\ (Cardinality(A(j)) = Cardinality(A(i)) => A(j) = A(i))
    BY <2>1, <2>2, FS_Subset
  <2> QED BY <2>1, <2>2, <2>3
<1>4. rank \in Injection(1 .. n, 0 .. (n - 1))
  <2>1. rank \in [1 .. n -> 0 .. (n - 1)]
    BY <1>2
  <2>2. ASSUME NEW i \in 1 .. n, NEW j \in 1 .. n, rank[i] = rank[j]
        PROVE  i = j
    <3>1. i = j \/ Before(rest, i, j) \/ Before(rest, j, i)
      BY DEF Before
    <3>2. rank[i] \in Nat /\ rank[j] \in Nat
      BY <2>1
    <3> QED BY <1>3, <2>2, <3>1, <3>2
  <2> HIDE DEF rank
  <2> QED BY <2>1, <2>2 DEF Injection, IsInjective
<1>5. rank \in Surjection(1 .. n, 0 .. (n - 1))
  <2>1. IsFiniteSet(0 .. (n - 1)) /\ Cardinality(0 .. (n - 1)) = n
    <3>1. /\ IsFiniteSet(0 .. (n - 1))
          /\ Cardinality(0 .. (n - 1)) = IF 0 > n - 1 THEN 0 ELSE (n - 1) - 0 + 1
      <4>1. 0 \in Int /\ n - 1 \in Int
        OBVIOUS
      <4> QED BY <4>1, FS_Interval
    <3> QED BY <3>1
  <2> HIDE DEF rank
  <2> QED BY <1>1, <1>4, <2>1, FS_Injection
<1>6. ASSUME NEW m \in 0 .. n
      PROVE  Cardinality({i \in 1 .. n : rank[i] < m}) = m
  <2> DEFINE E == {i \in 1 .. n : rank[i] < m}
             r == [i \in E |-> rank[i]]
  <2>1. r \in Bijection(E, 0 .. (m - 1))
    <3>1. r \in [E -> 0 .. (m - 1)]
      BY <1>2
    <3>2. \A i, j \in E : r[i] = r[j] => i = j
      <4> HIDE DEF rank
      <4> QED BY <1>4 DEF Injection, IsInjective
    <3>3. \A t \in 0 .. (m - 1) : \E i \in E : r[i] = t
      <4> SUFFICES ASSUME NEW t \in 0 .. (m - 1) PROVE \E i \in E : rank[i] = t
        OBVIOUS
      <4> HIDE DEF rank
      <4>1. PICK i \in 1 .. n : rank[i] = t
        BY <1>5 DEF Surjection
      <4> QED BY <4>1
    <3> HIDE DEF r
    <3> QED BY <3>1, <3>2, <3>3 DEF Bijection, Injection, Surjection, IsInjective
  <2>2. IsFiniteSet(E)
    BY <1>1, FS_Subset
  <2>3. Cardinality(0 .. (m - 1)) = m
    BY FS_Interval, 0 \in Int, m - 1 \in Int
  <2>4. ExistsBijection(E, 0 .. (m - 1))
    <3> HIDE DEF r, E
    <3> QED BY <2>1 DEF ExistsBijection
  <2> HIDE DEF E
  <2>5. Cardinality(0 .. (m - 1)) = Cardinality(E)
    BY <2>2, <2>4, FS_Bijection
  <2> QED BY <2>3, <2>5 DEF E
<1>7. \A i \in 1 .. n : rank[i] = Cardinality(Ahead(rest, n, i))
  OBVIOUS
<1> HIDE DEF rank
<1> QED BY <1>2, <1>3, <1>6, <1>7

\* Whatever the weights, as long as one of them is positive: nothing is lost,
\* no share is a whole unit away from the exact one, and no smaller weight is
\* favoured.
LEMMA LargestRemainderIsFair ==
    ASSUME NEW n \in Nat, NEW total \in Nat, NEW w \in [1 .. n -> Nat], Total(w) > 0
    PROVE  /\ LargestRemainder(total, w) \in [1 .. n -> Nat]
           /\ Fair(total, w, LargestRemainder(total, w))
<1> DEFINE N == 1 .. n
           W == Total(w)
           base == [i \in N |-> (total * w[i]) \div W]
           rest == [i \in N |-> (total * w[i]) % W]
           rank(i) == Cardinality(Ahead(rest, n, i))
           missing == total - Total(base)
           Extra == {i \in N : rank(i) < missing}
           one == [i \in N |-> IF i \in Extra THEN 1 ELSE 0]
           share == [i \in N |-> base[i] + one[i]]
<1>1. IsFiniteSet(N) /\ Cardinality(N) = n /\ W \in Nat \ {0}
  <2>1. W \in Nat \ {0}
    BY TotalOfDomain
  <2>2. IsFiniteSet(N) /\ Cardinality(N) = n
    BY FS_Interval
  <2> QED BY <2>1, <2>2
<1>2. LargestRemainder(total, w) = share
  <2>1. \A i \in N : Ahead(rest, n, i) =
          {j \in N : rest[j] > rest[i] \/ (rest[j] = rest[i] /\ j < i)}
    BY DEF Ahead, Before
  <2> QED BY <2>1 DEF LargestRemainder
<1>3. ASSUME NEW i \in N
      PROVE  /\ total * w[i] \in Nat
             /\ base[i] \in Nat
             /\ rest[i] \in 0 .. (W - 1)
             /\ total * w[i] = W * base[i] + rest[i]
  <2>1. total * w[i] \in Nat
    OBVIOUS
  <2> HIDE DEF W
  <2> QED BY <1>1, <2>1, DivMod
<1> HIDE DEF W, base, rest
<1>4. base \in [N -> Nat] /\ rest \in [N -> Nat]
  BY <1>3 DEF base, rest
<1>5. /\ Total(base) = SumFunctionOnSet(base, N) /\ Total(base) \in Nat
      /\ W = SumFunctionOnSet(w, N)
  BY <1>4, TotalOfDomain DEF W
<1>6. /\ W * missing = SumFunctionOnSet(rest, N)
      /\ missing \in Nat
  <2> DEFINE exact == [i \in N |-> total * w[i]]
             multiple == [i \in N |-> W * base[i]]
  <2>1. SumFunctionOnSet(exact, N) = total * W
    <3>1. \A i \in N : w[i] \in Int /\ exact[i] = total * w[i]
      BY <1>3
    <3> HIDE DEF exact, N
    <3> QED BY <1>1, <1>5, <3>1, SumTimes
  <2>2. SumFunctionOnSet(exact, N) = W * Total(base) + SumFunctionOnSet(rest, N)
    <3>1. \A i \in N : /\ base[i] \in Int /\ rest[i] \in Int
                       /\ multiple[i] \in Int /\ multiple[i] = W * base[i]
                       /\ exact[i] = multiple[i] + rest[i]
      BY <1>1, <1>3, <1>4
    <3> HIDE DEF exact, multiple, N
    <3>2. SumFunctionOnSet(multiple, N) = W * SumFunctionOnSet(base, N)
      <4>1. W \in Int
        BY <1>1
      <4> QED BY <1>1, <3>1, <4>1, SumTimes, Zenon
    <3>3. SumFunctionOnSet(exact, N) = SumFunctionOnSet(multiple, N) + SumFunctionOnSet(rest, N)
      BY <1>1, <3>1, SumPlus
    <3> QED BY <1>5, <3>2, <3>3
  <2>3. SumFunctionOnSet(rest, N) \in Nat
    BY <1>1, <1>4, SumNat
  <2>4. W * Total(base) + SumFunctionOnSet(rest, N) = total * W
    BY <1>1, <2>1, <2>2, <2>3, <1>5
  <2>5. W * Total(base) <= W * total
    BY <1>1, <1>5, <2>3, <2>4
  <2>6. Total(base) <= total
    <3>1. Total(base) \in Int /\ total \in Int
      BY <1>5
    <3> QED BY <1>1, <2>5, <3>1, MulCancel, Zenon
  <2>7. W * missing = W * total - W * Total(base)
    BY <1>1, <1>5
  <2>8. W * total = total * W /\ W * total \in Int /\ W * Total(base) \in Int
    BY <1>1, <1>5
  <2>9. missing \in Nat
    BY <1>5, <2>6
  <2> HIDE DEF missing
  <2> QED BY <2>3, <2>4, <2>7, <2>8, <2>9
<1> DEFINE Pos == {i \in N : rest[i] > 0}
<1>7. IsFiniteSet(Pos) /\ Cardinality(Pos) \in Nat /\ Cardinality(Pos) <= n
  <2>1. Pos \subseteq N
    OBVIOUS
  <2> HIDE DEF Pos, N
  <2> QED BY <1>1, <2>1, FS_Subset, FS_CardinalityType
<1>8. missing <= Cardinality(Pos)
  <2> DEFINE ind == [i \in N |-> IF i \in Pos THEN 1 ELSE 0]
             cap == [i \in N |-> W * ind[i]]
  <2>1. SumFunctionOnSet(ind, N) = Cardinality(Pos)
    <3>1. Pos \in SUBSET N /\ \A i \in N : ind[i] = IF i \in Pos THEN 1 ELSE 0
      OBVIOUS
    <3> HIDE DEF ind, Pos, N
    <3> QED BY <1>1, <3>1, SumCounts
  <2>2. SumFunctionOnSet(cap, N) = W * SumFunctionOnSet(ind, N)
    <3>1. \A i \in N : ind[i] \in Int /\ cap[i] = W * ind[i]
      BY <1>1
    <3> HIDE DEF cap, ind, N
    <3> QED BY <1>1, <3>1, SumTimes
  <2>3. SumFunctionOnSet(rest, N) <= SumFunctionOnSet(cap, N)
    <3>1. \A i \in N : rest[i] \in Int /\ cap[i] \in Int /\ rest[i] <= cap[i]
      BY <1>1, <1>3
    <3> HIDE DEF cap, N
    <3> QED BY <1>1, <3>1, SumMonotone
  <2>4. W * missing <= W * Cardinality(Pos)
    BY <1>1, <1>6, <1>7, <2>1, <2>2, <2>3
  <2> HIDE DEF missing, Pos
  <2>5. missing \in Int /\ Cardinality(Pos) \in Int
    BY <1>6, <1>7
  <2> QED BY <1>1, <2>4, <2>5, MulCancel, Zenon
<1> HIDE DEF missing
<1>9. /\ \A i \in N : rank(i) \in 0 .. (n - 1)
      /\ \A i, j \in N : Before(rest, j, i) => rank(j) < rank(i)
      /\ Cardinality(Extra) = missing
  <2>1. missing \in 0 .. n
    BY <1>6, <1>7, <1>8
  <2> QED BY <1>4, <2>1, RanksAreDistinct
<1>10. share \in [N -> Nat]
  BY <1>4
<1>11. Total(share) = total
  <2>1. SumFunctionOnSet(one, N) = Cardinality(Extra)
    <3>1. Extra \in SUBSET N /\ \A i \in N : one[i] = IF i \in Extra THEN 1 ELSE 0
      OBVIOUS
    <3> HIDE DEF one, Extra, N
    <3> QED BY <1>1, <3>1, SumCounts
  <2>2. SumFunctionOnSet(share, N) = SumFunctionOnSet(base, N) + SumFunctionOnSet(one, N)
    <3>1. \A i \in N : base[i] \in Int /\ one[i] \in Int /\ share[i] = base[i] + one[i]
      BY <1>4
    <3> HIDE DEF one, share, N
    <3> QED BY <1>1, <3>1, SumPlus
  <2>3. Total(share) = SumFunctionOnSet(share, N)
    <3> HIDE DEF share
    <3> QED BY <1>10, TotalOfDomain
  <2> QED BY <1>5, <1>6, <1>9, <2>1, <2>2, <2>3 DEF missing
<1>12. ASSUME NEW i \in N
       PROVE  /\ share[i] * W > (total * w[i]) - W
              /\ share[i] * W < (total * w[i]) + W
  <2>1. CASE i \notin Extra
    <3>1. share[i] = base[i]
      BY <1>4, <2>1
    <3> HIDE DEF share
    <3> QED BY <1>1, <1>3, <3>1, NearExact
  <2>2. CASE i \in Extra
    <3>1. share[i] = base[i] + 1
      BY <2>2
    <3>2. rest[i] > 0
      <4> SUFFICES ASSUME rest[i] = 0 PROVE FALSE
        BY <1>3
      <4>1. Pos \subseteq Ahead(rest, n, i)
        BY DEF Ahead, Before
      <4>2. IsFiniteSet(Ahead(rest, n, i))
        BY <1>1, FS_Subset DEF Ahead
      <4>3. Cardinality(Pos) <= rank(i)
        BY <4>1, <4>2, FS_Subset
      <4> QED BY <1>6, <1>7, <1>8, <1>9, <2>2, <4>3
    <3> HIDE DEF share
    <3> QED BY <1>1, <1>3, <3>1, <3>2, NearExact
  <2> QED BY <2>1, <2>2
<1>13. ASSUME NEW i \in N, NEW j \in N, w[i] > w[j]
       PROVE  share[i] >= share[j]
  <2>1. total * w[i] >= total * w[j] /\ (total > 0 => total * w[i] > total * w[j])
    BY <1>13
  <2>2. base[j] <= base[i]
    <3>1. W * base[j] + rest[j] <= W * base[i] + rest[i]
      BY <1>3, <2>1
    <3>2. /\ base[i] \in Nat /\ base[j] \in Nat
          /\ rest[i] \in 0 .. (W - 1) /\ rest[j] \in 0 .. (W - 1)
      BY <1>3
    <3> QED BY <1>1, <3>1, <3>2, QuotientMonotone, Zenon
  <2>4. CASE base[j] < base[i]
    BY <1>4, <2>4
  <2>5. CASE base[j] = base[i] /\ total > 0
    <3>1. rest[i] > rest[j]
      <4>1. W * base[j] + rest[j] < W * base[i] + rest[i]
        BY <1>3, <2>1, <2>5
      <4>2. W * base[j] = W * base[i] /\ W * base[i] \in Int
        <5>1. base[j] = base[i] /\ base[i] \in Int /\ W \in Int
          BY <1>1, <1>4, <2>5
        <5> QED BY <5>1
      <4>3. rest[i] \in Int /\ rest[j] \in Int
        BY <1>3
      <4> QED BY <4>1, <4>2, <4>3
    <3>2. rank(i) < rank(j)
      BY <1>9, <3>1 DEF Before
    <3>3. j \in Extra => i \in Extra
      BY <1>6, <1>9, <3>2
    <3> QED BY <1>4, <2>5, <3>3
  <2>6. CASE base[j] = base[i] /\ total = 0
    <3>1. missing = 0
      BY <1>5, <1>6, <2>6 DEF missing
    <3>2. j \notin Extra
      BY <1>9, <3>1
    <3> QED BY <1>4, <2>6, <3>2
  <2> QED BY <2>2, <2>4, <2>5, <2>6, <1>4
<1> HIDE DEF share
<1> QED BY <1>2, <1>10, <1>11, <1>12, <1>13 DEF Fair, W

-----------------------------------------------------------------------------
(***************************************************************************)
(* The days that have any time.                                            *)
(***************************************************************************)

\* A sequence of natural numbers with one more at its end.
LEMMA AppendIsSeq ==
    ASSUME NEW T, NEW s \in Seq(T), NEW e \in T
    PROVE  Append(s, e) \in Seq(T) /\ Append(s, e) # <<>>
<1>1. Append(s, e) \in Seq(T) /\ Len(Append(s, e)) = Len(s) + 1 /\ Len(s) \in Nat
  OBVIOUS
<1>2. Len(<<>>) = 0
  OBVIOUS
<1> DEFINE t == Append(s, e)
<1>3. t \in Seq(T) /\ Len(t) # 0
  BY <1>1
<1> HIDE DEF t
<1>4. t # <<>>
  BY <1>2, <1>3
<1> QED BY <1>3, <1>4 DEF t

IsUntil(f, capacity) ==
    f = [n \in 0 .. Len(capacity) |->
            IF n = 0 THEN <<>>
            ELSE IF capacity[n] > 0 THEN Append(f[n - 1], capacity[n])
            ELSE f[n - 1]]

\* The days with time can be collected one by one.
LEMMA UntilExists ==
    ASSUME NEW capacity \in Seq(Nat)
    PROVE  \E f : IsUntil(f, capacity)
<1> DEFINE D == 0 .. Len(capacity)
           Z == {0}
           V == Seq(Nat)
           rank == [n \in D |-> n]
           next == [n \in D |-> IF n = 0 THEN 0 ELSE n - 1]
           base == [n \in D |-> <<>>]
           step == [x \in D \X V |-> IF x[1] # 0 /\ capacity[x[1]] > 0
                                     THEN Append(x[2], capacity[x[1]]) ELSE x[2]]
<1>1. base \in [D -> V]
  OBVIOUS
<1>2. step \in [D \X V -> V]
  <2> SUFFICES ASSUME NEW x \in D \X V
               PROVE  (IF x[1] # 0 /\ capacity[x[1]] > 0
                       THEN Append(x[2], capacity[x[1]]) ELSE x[2]) \in V
    OBVIOUS
  <2>1. x[1] \in D /\ x[2] \in Seq(Nat) /\ (x[1] # 0 => capacity[x[1]] \in Nat)
    OBVIOUS
  <2> QED BY <2>1
<1>3. rank \in [D -> Nat] /\ next \in [D -> D] /\ \A n \in D \ Z : rank[next[n]] < rank[n]
  OBVIOUS
<1>4. PICK f \in [D -> V] : Solves(f, D, Z, base, step, next)
  <2> HIDE DEF D, Z, V, rank, next, base, step
  <2> QED BY <1>1, <1>2, <1>3, RecursionExists
<1>5. ASSUME NEW n \in D
      PROVE  f[n] = IF n = 0 THEN <<>>
                    ELSE IF capacity[n] > 0 THEN Append(f[n - 1], capacity[n])
                    ELSE f[n - 1]
  <2>1. CASE n = 0
    BY <1>4, <2>1 DEF Solves
  <2>2. CASE n # 0
    <3>1. n \notin Z /\ next[n] = n - 1 /\ n - 1 \in D
      BY <2>2
    <3>2. f[n] = step[<<n, f[n - 1]>>]
      BY <1>4, <3>1 DEF Solves
    <3> QED BY <2>2, <3>1, <3>2
  <2> QED BY <2>1, <2>2
<1>6. f = [n \in D |-> f[n]]
  OBVIOUS
<1> QED BY <1>5, <1>6 DEF IsUntil

\* The days of the calendar are days of the horizon that have time, and there
\* is one of them if the horizon has one.
LEMMA AvailableDays ==
    ASSUME NEW capacity \in Seq(Nat)
    PROVE  /\ Available(capacity) \in Seq(Nat)
           /\ \A i \in DOMAIN Available(capacity) : \E k \in DOMAIN capacity :
                capacity[k] > 0 /\ Available(capacity)[i] = capacity[k]
           /\ (\E k \in DOMAIN capacity : capacity[k] > 0) => Available(capacity) # <<>>
<1> DEFINE Until == CHOOSE f : IsUntil(f, capacity)
           L == Len(capacity)
           Good(n) == /\ Until[n] \in Seq(Nat)
                      /\ \A i \in DOMAIN Until[n] : \E k \in 1 .. n :
                           capacity[k] > 0 /\ Until[n][i] = capacity[k]
                      /\ (\E k \in 1 .. n : capacity[k] > 0) => Until[n] # <<>>
           P == {n \in Nat : n <= L => Good(n)}
<1>1. Available(capacity) = Until[L]
  BY Zenon DEF Available, IsUntil
<1>2. IsUntil(Until, capacity)
  BY UntilExists
<1>3. ASSUME NEW n \in 0 .. L
      PROVE  Until[n] = IF n = 0 THEN <<>>
                        ELSE IF capacity[n] > 0 THEN Append(Until[n - 1], capacity[n])
                        ELSE Until[n - 1]
  <2> HIDE DEF Until
  <2> QED BY <1>2 DEF IsUntil
<1> HIDE DEF Until
<1>4. 0 \in P
  <2>1. Until[0] = <<>>
    BY <1>3, 0 \in 0 .. L
  <2>2. <<>> \in Seq(Nat) /\ DOMAIN <<>> = {}
    OBVIOUS
  <2>3. Good(0)
    BY <2>1, <2>2
  <2> HIDE DEF Good
  <2> QED BY <2>3
<1>5. ASSUME NEW n \in Nat, n \in P
      PROVE  n + 1 \in P
  <2> SUFFICES ASSUME n + 1 <= L PROVE Good(n + 1)
    OBVIOUS
  <2>1. Good(n) /\ n + 1 \in 0 .. L /\ (n + 1) - 1 = n /\ capacity[n + 1] \in Nat
    BY <1>5
  <2>2. CASE capacity[n + 1] > 0
    <3>1. Until[n + 1] = Append(Until[n], capacity[n + 1])
      <4> DEFINE m == n + 1
      <4>1. m \in 0 .. L /\ m # 0 /\ m - 1 = n /\ capacity[m] > 0
        BY <2>1, <2>2
      <4> HIDE DEF m, Good
      <4>2. Until[m] = Append(Until[n], capacity[m])
        BY <1>3, <4>1
      <4> QED BY <4>2 DEF m
    <3>2. Until[n + 1] \in Seq(Nat) /\ Until[n + 1] # <<>>
      <4>1. Until[n] \in Seq(Nat) /\ capacity[n + 1] \in Nat
        BY <2>1
      <4> QED BY <3>1, <4>1, AppendIsSeq
    <3>3. ASSUME NEW i \in DOMAIN Until[n + 1]
          PROVE  \E k \in 1 .. n + 1 : capacity[k] > 0 /\ Until[n + 1][i] = capacity[k]
      <4>1. CASE i \in DOMAIN Until[n]
        <5>1. Until[n + 1][i] = Until[n][i]
          BY <2>1, <3>1, <4>1
        <5> QED BY <2>1, <4>1, <5>1
      <4>2. CASE i \notin DOMAIN Until[n]
        <5>1. Until[n + 1][i] = capacity[n + 1]
          BY <2>1, <3>1, <4>2
        <5> QED BY <2>2, <5>1
      <4> QED BY <4>1, <4>2
    <3> QED BY <3>2, <3>3
  <2>3. CASE ~(capacity[n + 1] > 0)
    <3>1. Until[n + 1] = Until[n]
      BY <1>3, <2>1, <2>3
    <3>2. \A k \in 1 .. n + 1 : capacity[k] > 0 => k \in 1 .. n
      BY <2>3
    <3>3. \A k \in 1 .. n : k \in 1 .. n + 1
      OBVIOUS
    <3> QED BY <2>1, <3>1, <3>2, <3>3
  <2> QED BY <2>2, <2>3
<1>6. Nat \subseteq P
  <2> HIDE DEF P
  <2> QED BY <1>4, <1>5, NatSetInduction
<1>7. L \in Nat /\ DOMAIN capacity = 1 .. L
  OBVIOUS
<1>8. Good(L)
  BY <1>6, <1>7
<1> QED BY <1>1, <1>7, <1>8

-----------------------------------------------------------------------------
(***************************************************************************)
(* _blocks.                                                                *)
(***************************************************************************)

\* A sum does not depend on where the numbering of its terms begins.
LEMMA SumShift ==
    ASSUME NEW n \in Nat, NEW g, \A i \in 1 .. n : g[i] \in Nat,
           NEW f, \A i \in 1 .. n : f[i + 1] = g[i]
    PROVE  SumFunctionOnSet(f, 2 .. (n + 1)) = SumFunctionOnSet(g, 1 .. n)
<1> DEFINE P == {m \in Nat : m <= n =>
                    SumFunctionOnSet(f, 2 .. (m + 1)) = SumFunctionOnSet(g, 1 .. m)}
<1>1. 0 \in P
  <2>1. 2 .. (0 + 1) = {} /\ 1 .. 0 = {}
    OBVIOUS
  <2> QED BY <2>1, SumOfNone
<1>2. ASSUME NEW m \in Nat, m \in P
      PROVE  m + 1 \in P
  <2> SUFFICES ASSUME m + 1 <= n
               PROVE  SumFunctionOnSet(f, 2 .. ((m + 1) + 1)) = SumFunctionOnSet(g, 1 .. (m + 1))
    OBVIOUS
  <2> DEFINE A == 2 .. (m + 1)
             B == 1 .. m
             a == m + 2
             b == m + 1
  <2>1. /\ 2 .. ((m + 1) + 1) = A \cup {a} /\ a \notin A
        /\ 1 .. (m + 1) = B \cup {b} /\ b \notin B
    OBVIOUS
  <2>2. IsFiniteSet(A) /\ IsFiniteSet(B)
    BY FS_Interval
  <2>3. /\ \A x \in A \cup {a} : f[x] \in Int
        /\ \A x \in B \cup {b} : g[x] \in Int
    <3>1. ASSUME NEW x \in A \cup {a}
          PROVE  f[x] \in Int
      <4>1. x - 1 \in 1 .. n /\ (x - 1) + 1 = x
        OBVIOUS
      <4>2. f[(x - 1) + 1] = g[x - 1] /\ g[x - 1] \in Nat
        BY <4>1
      <4> QED BY <4>1, <4>2
    <3> QED BY <3>1
  <2>4. SumFunctionOnSet(f, A) = SumFunctionOnSet(g, B)
    BY <1>2
  <2>5. f[a] = g[b]
    <3>1. m + 1 \in 1 .. n /\ (m + 1) + 1 = m + 2
      OBVIOUS
    <3>2. f[(m + 1) + 1] = g[m + 1]
      BY <3>1
    <3> QED BY <3>1, <3>2
  <2> HIDE DEF A, B, a, b
  <2>6. SumFunctionOnSet(f, A \cup {a}) = SumFunctionOnSet(f, A) + f[a]
    BY <2>1, <2>2, <2>3, SumAdd
  <2>7. SumFunctionOnSet(g, B \cup {b}) = SumFunctionOnSet(g, B) + g[b]
    BY <2>1, <2>2, <2>3, SumAdd
  <2> QED BY <2>1, <2>4, <2>5, <2>6, <2>7
<1>3. Nat \subseteq P
  <2> HIDE DEF P
  <2> QED BY <1>1, <1>2, NatSetInduction
<1> QED BY <1>3

\* The total of a sequence is the sum over its places.
LEMMA SeqTotal ==
    ASSUME NEW s \in Seq(Nat)
    PROVE  /\ Total(s) \in Nat
           /\ Total(s) = SumFunctionOnSet(s, 1 .. Len(s))
           /\ \A i \in DOMAIN s : s[i] <= Total(s)
<1>1. Len(s) \in Nat /\ DOMAIN s = 1 .. Len(s) /\ \A i \in 1 .. Len(s) : s[i] \in Nat
  OBVIOUS
<1> QED BY <1>1, TotalOfDomain

\* The total of a sequence is its first element and the total of the others.
LEMMA TotalOfRest ==
    ASSUME NEW s \in Seq(Nat), NEW r \in Seq(Nat), Len(s) = Len(r) + 1,
           \A i \in 1 .. Len(r) : s[i + 1] = r[i]
    PROVE  Total(s) = s[1] + Total(r)
<1> DEFINE n == Len(r)
           N == 1 .. (n + 1)
<1>1. n \in Nat /\ DOMAIN s = N /\ \A i \in N : s[i] \in Nat
  OBVIOUS
<1>2. \A i \in 1 .. n : r[i] \in Nat
  OBVIOUS
<1>3. SumFunctionOnSet(s, 2 .. (n + 1)) = SumFunctionOnSet(r, 1 .. n)
  BY <1>1, <1>2, SumShift
<1>4. N \ {1} = 2 .. (n + 1) /\ 1 \in N
  BY <1>1
<1>5. IsFiniteSet(N)
  BY <1>1, FS_Interval
<1>6. SumFunctionOnSet(s, N) = s[1] + SumFunctionOnSet(s, N \ {1})
  <2>1. \A i \in N : s[i] \in Int
    BY <1>1
  <2> HIDE DEF N
  <2> QED BY <1>4, <1>5, <2>1, SumRemove
<1> QED BY <1>3, <1>4, <1>6, SeqTotal

\* The total of a single number.
LEMMA TotalOfOne ==
    ASSUME NEW x \in Nat
    PROVE  Total(<<x>>) = x
<1>1. <<x>> \in Seq(Nat) /\ <<>> \in Seq(Nat) /\ Len(<<x>>) = 1 /\ Len(<<>>) = 0 /\ <<x>>[1] = x
  OBVIOUS
<1>2. Total(<<>>) = 0
  <2>1. 1 .. 0 = {}
    OBVIOUS
  <2> QED BY <1>1, <2>1, SeqTotal, SumOfNone
<1>3. Total(<<x>>) = x + Total(<<>>)
  <2>1. \A i \in 1 .. Len(<<>>) : <<x>>[i + 1] = <<>>[i]
    BY <1>1
  <2>2. Len(<<x>>) = Len(<<>>) + 1
    BY <1>1
  <2> QED BY <1>1, <2>1, <2>2, TotalOfRest
<1> QED BY <1>2, <1>3

\* The next block and what it leaves behind.
LEMMA CutFacts ==
    ASSUME NEW minutes \in Nat, NEW preferred \in Nat, preferred >= MinBlock
    PROVE  LET cut == Cut(minutes, preferred) IN
           /\ cut \in Nat /\ cut <= minutes /\ cut <= preferred
           /\ minutes - cut = 0 \/ minutes - cut >= MinBlock
           /\ minutes >= MinBlock /\ cut < MinBlock => minutes < 2 * MinBlock
           /\ minutes >= MinBlock /\ preferred >= 2 * MinBlock => cut >= MinBlock
  BY DEF Cut, Least, MinBlock

\* A sequence of one more element in front.
LEMMA Prepend ==
    ASSUME NEW x \in Nat, NEW s \in Seq(Nat)
    PROVE  LET t == <<x>> \o s IN
           /\ t \in Seq(Nat) /\ t # <<>>
           /\ Total(t) = x + Total(s)
           /\ \A i \in DOMAIN t : t[i] = x \/ \E j \in DOMAIN s : t[i] = s[j]
<1> DEFINE t == <<x>> \o s
<1>1. /\ t \in Seq(Nat) /\ Len(t) = Len(s) + 1 /\ Len(s) \in Nat
      /\ t[1] = x /\ \A i \in 1 .. Len(s) : t[i + 1] = s[i]
      /\ DOMAIN t = 1 .. Len(t) /\ DOMAIN s = 1 .. Len(s)
  OBVIOUS
<1>2. Len(<<>>) = 0
  OBVIOUS
<1> HIDE DEF t
<1>3. t # <<>>
  BY <1>1, <1>2
<1>4. Total(t) = x + Total(s)
  BY <1>1, TotalOfRest
<1>5. ASSUME NEW i \in DOMAIN t
      PROVE  t[i] = x \/ \E j \in DOMAIN s : t[i] = s[j]
  <2>1. CASE i = 1
    BY <1>1, <2>1
  <2>2. CASE i # 1
    <3>1. i - 1 \in 1 .. Len(s) /\ (i - 1) + 1 = i
      BY <1>1, <2>2
    <3>2. t[(i - 1) + 1] = s[i - 1]
      BY <1>1, <3>1
    <3> QED BY <1>1, <3>1, <3>2
  <2> QED BY <2>1, <2>2
<1> QED BY <1>1, <1>3, <1>4, <1>5 DEF t

\* The recursion of Blocks.
IsWhole(f, preferred) ==
    f = [left \in Nat |->
            IF Cut(left, preferred) < MinBlock THEN <<>>
            ELSE <<Cut(left, preferred)>> \o f[left - Cut(left, preferred)]]

\* The recursion that cuts a time into whole blocks ends.
LEMMA WholeExists ==
    ASSUME NEW preferred \in Nat, preferred >= MinBlock
    PROVE  \E f : IsWhole(f, preferred)
<1> DEFINE D == Nat
           V == Seq(Nat)
           cut(d) == Cut(d, preferred)
           Z == {d \in D : cut(d) < MinBlock}
           rank == [d \in D |-> d]
           next == [d \in D |-> d - cut(d)]
           base == [d \in D |-> <<>>]
           step == [x \in D \X V |-> <<cut(x[1])>> \o x[2]]
<1>1. ASSUME NEW d \in D
      PROVE  cut(d) \in Nat /\ cut(d) <= d
  BY CutFacts
<1> HIDE DEF cut
<1>2. base \in [D -> V]
  OBVIOUS
<1>3. step \in [D \X V -> V]
  <2> SUFFICES ASSUME NEW x \in D \X V
               PROVE  <<cut(x[1])>> \o x[2] \in V
    OBVIOUS
  <2>1. cut(x[1]) \in Nat /\ x[2] \in Seq(Nat)
    BY <1>1
  <2> QED BY <2>1, Prepend
<1>4. rank \in [D -> Nat] /\ next \in [D -> D]
  BY <1>1
<1>5. ASSUME NEW d \in D \ Z
      PROVE  rank[next[d]] < rank[d]
  <2>1. next[d] = d - cut(d) /\ next[d] \in D /\ ~(cut(d) < MinBlock)
    BY <1>1
  <2> QED BY <1>1, <2>1 DEF MinBlock
<1>6. PICK f \in [D -> V] : Solves(f, D, Z, base, step, next)
  <2> HIDE DEF D, Z, V, rank, next, base, step
  <2> QED BY <1>2, <1>3, <1>4, <1>5, RecursionExists
<1>7. ASSUME NEW left \in Nat
      PROVE  f[left] = IF cut(left) < MinBlock THEN <<>> ELSE <<cut(left)>> \o f[left - cut(left)]
  <2>1. CASE left \in Z
    BY <1>6, <2>1 DEF Solves
  <2>2. CASE left \notin Z
    <3>1. f[left] = step[<<left, f[next[left]]>>]
      BY <1>6, <2>2 DEF Solves
    <3>2. next[left] = left - cut(left) /\ next[left] \in D
      BY <1>4
    <3> QED BY <2>2, <3>1, <3>2
  <2> QED BY <2>1, <2>2
<1>8. f = [left \in Nat |-> f[left]]
  OBVIOUS
<1> QED BY <1>7, <1>8 DEF IsWhole, cut

\* The whole blocks of a time, and what they leave.
LEMMA WholeFacts ==
    ASSUME NEW preferred \in Nat, preferred >= MinBlock,
           NEW f, IsWhole(f, preferred), NEW minutes \in Nat
    PROVE  /\ f[minutes] \in Seq(Nat)
           /\ \A i \in DOMAIN f[minutes] : MinBlock <= f[minutes][i] /\ f[minutes][i] <= preferred
           /\ Total(f[minutes]) <= minutes
           /\ f[minutes] = <<>> => Cut(minutes, preferred) < MinBlock
           /\ preferred >= 2 * MinBlock /\ (minutes = 0 \/ minutes >= MinBlock) =>
                Total(f[minutes]) = minutes
<1> DEFINE cut(d) == Cut(d, preferred)
           Good(d) ==
             /\ f[d] \in Seq(Nat)
             /\ \A i \in DOMAIN f[d] : MinBlock <= f[d][i] /\ f[d][i] <= preferred
             /\ Total(f[d]) <= d
             /\ f[d] = <<>> => cut(d) < MinBlock
             /\ preferred >= 2 * MinBlock /\ (d = 0 \/ d >= MinBlock) => Total(f[d]) = d
           rank == [d \in Nat |-> d]
           P == {d \in Nat : Good(d)}
<1>1. ASSUME NEW d \in Nat
      PROVE  /\ f[d] = IF cut(d) < MinBlock THEN <<>> ELSE <<cut(d)>> \o f[d - cut(d)]
             /\ cut(d) \in Nat /\ cut(d) <= d /\ cut(d) <= preferred
             /\ d - cut(d) = 0 \/ d - cut(d) >= MinBlock
             /\ d >= MinBlock /\ preferred >= 2 * MinBlock => cut(d) >= MinBlock
  BY CutFacts DEF IsWhole
<1> HIDE DEF cut
<1>2. Total(<<>>) = 0 /\ <<>> \in Seq(Nat) /\ DOMAIN <<>> = {}
  <2>1. <<>> \in Seq(Nat) /\ DOMAIN <<>> = {} /\ Len(<<>>) = 0 /\ 1 .. 0 = {}
    OBVIOUS
  <2> QED BY <2>1, SeqTotal, SumOfNone
<1>3. ASSUME NEW d \in Nat, \A e \in Nat : rank[e] < rank[d] => e \in P
      PROVE  d \in P
  <2> DEFINE c == cut(d)
             e == d - c
             t == <<c>> \o f[e]
  <2>1. /\ f[d] = IF c < MinBlock THEN <<>> ELSE t
        /\ c \in Nat /\ c <= d /\ c <= preferred
        /\ e = 0 \/ e >= MinBlock
        /\ d >= MinBlock /\ preferred >= 2 * MinBlock => c >= MinBlock
    BY <1>1, Zenon
  <2>2. cut(d) = c /\ e = d - c /\ t = <<c>> \o f[e]
    OBVIOUS
  <2> HIDE DEF c, e, t
  <2>3. CASE c < MinBlock
    <3>1. f[d] = <<>>
      BY <2>1, <2>3
    <3>2. preferred >= 2 * MinBlock /\ (d = 0 \/ d >= MinBlock) => d = 0
      BY <2>1, <2>3 DEF MinBlock
    <3>3. Total(f[d]) = 0 /\ f[d] \in Seq(Nat) /\ DOMAIN f[d] = {}
      BY <1>2, <3>1
    <3> QED BY <2>2, <2>3, <3>2, <3>3
  <2>4. CASE ~(c < MinBlock)
    <3>1. f[d] = t /\ e \in Nat /\ e < d /\ c >= MinBlock
      BY <2>1, <2>2, <2>4 DEF MinBlock
    <3>2. Good(e)
      BY <1>3, <3>1
    <3>3. f[e] \in Seq(Nat) /\ Total(f[e]) <= e
      BY <3>2
    <3>4. /\ t \in Seq(Nat) /\ t # <<>> /\ Total(t) = c + Total(f[e])
          /\ \A i \in DOMAIN t : t[i] = c \/ \E j \in DOMAIN f[e] : t[i] = f[e][j]
      <4> DEFINE s == f[e]
      <4>1. c \in Nat /\ s \in Seq(Nat) /\ t = <<c>> \o s
        BY <2>1, <2>2, <3>3
      <4> HIDE DEF s
      <4>2. /\ t \in Seq(Nat) /\ t # <<>> /\ Total(t) = c + Total(s)
            /\ \A i \in DOMAIN t : t[i] = c \/ \E j \in DOMAIN s : t[i] = s[j]
        BY <4>1, Prepend
      <4> QED BY <4>2 DEF s
    <3>5. Total(f[e]) \in Nat
      BY <3>3, SeqTotal
    <3>6. Total(t) <= d /\ (Total(f[e]) = e => Total(t) = d)
      BY <2>1, <2>2, <3>3, <3>4, <3>5
    <3>7. \A i \in DOMAIN t : MinBlock <= t[i] /\ t[i] <= preferred
      <4>1. \A j \in DOMAIN f[e] : MinBlock <= f[e][j] /\ f[e][j] <= preferred
        BY <3>2
      <4> QED BY <2>1, <3>1, <3>4, <4>1
    <3>8. preferred >= 2 * MinBlock => Total(f[e]) = e
      BY <2>1, <3>2
    <3> QED BY <3>1, <3>4, <3>6, <3>7, <3>8
  <2> QED BY <2>3, <2>4
<1>4. Nat \subseteq P
  <2>1. rank \in [Nat -> Nat]
    OBVIOUS
  <2> HIDE DEF rank, P
  <2> QED BY <1>3, <2>1, RankInduction
<1>5. Good(minutes)
  BY <1>4
<1> QED BY <1>5 DEF cut

\* A day of 15 minutes or more is cut into blocks of at least 15 minutes that
\* cover it, if into any.
LEMMA BlocksFacts ==
    ASSUME NEW minutes \in Nat, minutes >= MinBlock,
           NEW preferred \in Nat, preferred >= MinBlock
    PROVE  LET cut == Blocks(minutes, preferred) IN
           /\ cut \in Seq(Nat)
           /\ \A i \in DOMAIN cut : cut[i] >= MinBlock
           /\ cut # <<>> => Total(cut) = minutes
           /\ preferred >= 2 * MinBlock =>
                cut # <<>> /\ \A i \in DOMAIN cut : cut[i] <= preferred
           /\ cut = <<>> => minutes < 2 * MinBlock
<1> DEFINE Whole == CHOOSE f : IsWhole(f, preferred)
           whole == Whole[minutes]
           rest == minutes - Total(whole)
           last == Len(whole)
           merged == [whole EXCEPT ![last] = @ + rest]
<1>1. Blocks(minutes, preferred) = IF whole = <<>> THEN <<>> ELSE merged
  BY Zenon DEF Blocks, IsWhole
<1>2. IsWhole(Whole, preferred)
  BY WholeExists
<1> HIDE DEF Whole
<1>3. /\ whole \in Seq(Nat)
      /\ \A i \in DOMAIN whole : MinBlock <= whole[i] /\ whole[i] <= preferred
      /\ Total(whole) <= minutes
      /\ whole = <<>> => Cut(minutes, preferred) < MinBlock
      /\ preferred >= 2 * MinBlock => Total(whole) = minutes
  BY <1>2, WholeFacts
<1> HIDE DEF whole
<1>4. Total(whole) \in Nat /\ rest \in Nat
  BY <1>3, SeqTotal
<1>5. CASE whole = <<>>
  <2>1. Cut(minutes, preferred) < MinBlock
    BY <1>3, <1>5
  <2>2. minutes < 2 * MinBlock /\ ~(preferred >= 2 * MinBlock)
    <3> DEFINE c == Cut(minutes, preferred)
    <3>1. /\ c \in Nat
          /\ minutes >= MinBlock /\ c < MinBlock => minutes < 2 * MinBlock
          /\ minutes >= MinBlock /\ preferred >= 2 * MinBlock => c >= MinBlock
      BY CutFacts
    <3>2. c < MinBlock
      BY <2>1
    <3> HIDE DEF c
    <3> QED BY <3>1, <3>2 DEF MinBlock
  <2>3. <<>> \in Seq(Nat) /\ DOMAIN <<>> = {}
    OBVIOUS
  <2> QED BY <1>1, <1>5, <2>2, <2>3
<1>6. CASE whole # <<>>
  <2>1. last \in DOMAIN whole /\ DOMAIN whole = 1 .. last /\ last \in Nat
    BY <1>3, <1>6
  <2>2. /\ merged \in Seq(Nat) /\ DOMAIN merged = 1 .. last /\ merged # <<>>
        /\ \A i \in 1 .. last :
             merged[i] = IF i = last THEN whole[last] + rest ELSE whole[i]
    BY <1>3, <1>4, <1>6, <2>1
  <2>3. Len(merged) = last
    BY <2>1, <2>2
  <2> HIDE DEF merged, rest, last
  <2>4. SumFunctionOnSet(merged, 1 .. last) =
          SumFunctionOnSet(whole, 1 .. last) - whole[last] + (whole[last] + rest)
    <3> DEFINE N == 1 .. last
               v == whole[last] + rest
    <3>1. IsFiniteSet(N)
      BY <2>1, FS_Interval
    <3>2. whole[last] \in Int /\ rest \in Int
      BY <1>3, <1>4, <2>1 DEF rest
    <3>3. last \in N /\ v \in Int
      BY <2>1, <3>2
    <3>4. \A i \in N : whole[i] \in Int
      BY <1>3, <2>1
    <3>5. \A i \in N : merged[i] = IF i = last THEN v ELSE whole[i]
      BY <2>2
    <3> HIDE DEF N, v
    <3>6. SumFunctionOnSet(merged, N) = SumFunctionOnSet(whole, N) - whole[last] + v
      BY <3>1, <3>3, <3>4, <3>5, SumUpdate
    <3> QED BY <3>6 DEF N, v
  <2>5. Total(merged) = minutes
    <3>1. /\ Total(merged) = SumFunctionOnSet(merged, 1 .. last)
          /\ Total(whole) = SumFunctionOnSet(whole, 1 .. last)
      BY <1>3, <2>2, <2>3, SeqTotal DEF last
    <3>2. whole[last] \in Nat
      BY <1>3, <2>1
    <3> QED BY <1>4, <2>4, <3>1, <3>2 DEF rest
  <2>6. ASSUME NEW i \in DOMAIN merged
        PROVE  merged[i] >= MinBlock /\ (preferred >= 2 * MinBlock => merged[i] <= preferred)
    <3>1. i \in DOMAIN whole /\ whole[i] \in Nat /\ whole[i] >= MinBlock /\ whole[i] <= preferred
      BY <1>3, <2>1, <2>2
    <3>2. merged[i] = whole[i] \/ merged[i] = whole[i] + rest
      BY <2>1, <2>2
    <3>3. preferred >= 2 * MinBlock => rest = 0
      BY <1>3, <1>4 DEF rest
    <3> QED BY <1>4, <3>1, <3>2, <3>3 DEF MinBlock
  <2> QED BY <1>1, <1>6, <2>2, <2>5, <2>6
<1> QED BY <1>5, <1>6

-----------------------------------------------------------------------------
(***************************************************************************)
(* The arguments of a call and what is shared out from them.               *)
(***************************************************************************)

\* The values an accepted call can have.
LEMMA CallFacts ==
    ASSUME NEW p \in Plans, Accepted(p)
    PROVE  /\ p.capacity \in Seq(Nat) /\ p.weights \in Seq(Nat \ {0})
           /\ p.shares \in [1 .. 4 -> Nat] /\ p.preferred \in Nat
           /\ p.preferred >= MinBlock
           /\ Total(p.shares) = 100
           /\ \A i \in DOMAIN p.capacity : p.capacity[i] = 0 \/ p.capacity[i] >= MinBlock
           /\ \E i \in DOMAIN p.capacity : p.capacity[i] > 0
           /\ p.weights # <<>>
<1>1. /\ p.capacity \in Capacities /\ p.weights \in Weights
      /\ p.shares \in Shares /\ p.preferred \in Preferred
  BY DEF Plans
<1>2. /\ p.capacity \in Seq(Nat) /\ p.weights \in Seq(Nat \ {0})
      /\ p.shares \in [1 .. 4 -> Nat] /\ p.preferred \in Nat
  BY <1>1, EngineAssumption
<1>3. p.preferred >= MinBlock
  <2> DEFINE x == p.preferred
  <2>1. x \in MinBlock .. 240
    BY DEF Accepted
  <2> HIDE DEF x
  <2>2. x >= MinBlock
    BY <2>1 DEF MinBlock
  <2> QED BY <2>2 DEF x
<1>4. \A i \in DOMAIN p.capacity : p.capacity[i] = 0 \/ p.capacity[i] >= MinBlock
  <2> DEFINE c == p.capacity
  <2>1. \A i \in DOMAIN c : c[i] = 0 \/ c[i] \in MinBlock .. 960
    BY DEF Accepted
  <2> HIDE DEF c
  <2>2. \A i \in DOMAIN c : c[i] = 0 \/ c[i] >= MinBlock
    BY <2>1 DEF MinBlock
  <2> QED BY <2>2 DEF c
<1> QED BY <1>2, <1>3, <1>4 DEF Accepted

\* Every day of the calendar has at least the time of one block.
LEMMA DaysAreLong ==
    ASSUME NEW p \in Plans, Accepted(p)
    PROVE  /\ Available(p.capacity) \in Seq(Nat)
           /\ Available(p.capacity) # <<>>
           /\ \A d \in DOMAIN Available(p.capacity) : Available(p.capacity)[d] >= MinBlock
<1> DEFINE c == p.capacity
           days == Available(c)
<1>1. /\ c \in Seq(Nat)
      /\ \A i \in DOMAIN c : c[i] = 0 \/ c[i] >= MinBlock
      /\ \E i \in DOMAIN c : c[i] > 0
  BY CallFacts
<1> HIDE DEF c
<1>2. /\ days \in Seq(Nat)
      /\ \A i \in DOMAIN days : \E k \in DOMAIN c : c[k] > 0 /\ days[i] = c[k]
      /\ days # <<>>
  BY <1>1, AvailableDays
<1> HIDE DEF days
<1>3. ASSUME NEW d \in DOMAIN days
      PROVE  days[d] >= MinBlock
  <2>1. PICK k \in DOMAIN c : c[k] > 0 /\ days[d] = c[k]
    BY <1>2
  <2> QED BY <1>1, <2>1
<1> QED BY <1>2, <1>3 DEF days, c

\* The capacity is shared out by the four percentages; what the margin of
\* recovery leaves is shared out by the weights of the subjects.
LEMMA Allotments ==
    ASSUME NEW p \in Plans, Accepted(p)
    PROVE  /\ Fair(Total(p.capacity), p.shares, LargestRemainder(Total(p.capacity), p.shares))
           /\ Fair(Schedulable(p), p.weights, SubjectBudget(p))
           /\ Schedulable(p) \in Nat
           /\ ActivityBudget(p) \in [Activities -> Nat]
           /\ SubjectBudget(p) \in [DOMAIN p.weights -> Nat]
           /\ Total(SubjectBudget(p)) = Schedulable(p)
<1> DEFINE total == Total(p.capacity)
           shares == p.shares
           share == LargestRemainder(total, shares)
           rest == Schedulable(p)
           w == p.weights
           n == Len(w)
           budget == LargestRemainder(rest, w)
<1>1. /\ p.capacity \in Seq(Nat) /\ w \in Seq(Nat \ {0}) /\ w # <<>>
      /\ shares \in [1 .. 4 -> Nat] /\ Total(shares) = 100
  BY CallFacts
<1>2. total \in Nat
  BY <1>1, SeqTotal
<1>3. n \in Nat /\ w \in [1 .. n -> Nat] /\ DOMAIN w = 1 .. n /\ 1 \in 1 .. n /\ w[1] > 0
  BY <1>1
<1>4. Total(w) > 0
  <2> HIDE DEF w, n
  <2>1. Total(w) \in Nat /\ w[1] <= Total(w)
    BY <1>3, TotalOfDomain
  <2> QED BY <1>3, <2>1
<1>5. Schedulable(p) = total - share[4]
  BY DEF Schedulable
<1>6. ActivityBudget(p) = [a \in Activities |-> share[Position[a]]]
  BY DEF ActivityBudget
<1>7. SubjectBudget(p) = budget
  BY DEF SubjectBudget
<1> HIDE DEF total, shares, rest, w, n
<1>8. share \in [1 .. 4 -> Nat] /\ Fair(total, shares, share)
  <2> DEFINE m == 4
  <2>1. m \in Nat /\ shares \in [1 .. m -> Nat] /\ Total(shares) > 0
    BY <1>1
  <2> HIDE DEF m
  <2>2. share \in [1 .. m -> Nat] /\ Fair(total, shares, share)
    BY <1>2, <2>1, LargestRemainderIsFair
  <2> QED BY <2>2 DEF m
<1> HIDE DEF share
<1>9. rest \in Nat
  <2>1. Total(share) = total
    BY <1>8 DEF Fair
  <2>2. share[4] \in Nat /\ share[4] <= Total(share)
    <3> DEFINE m == 4
    <3>1. /\ m \in Nat /\ m \in 1 .. m /\ DOMAIN share = 1 .. m
          /\ \A i \in 1 .. m : share[i] \in Nat
      BY <1>8
    <3> HIDE DEF m
    <3>2. share[m] \in Nat /\ share[m] <= Total(share)
      BY <3>1, TotalOfDomain
    <3> QED BY <3>2 DEF m
  <2> QED BY <1>2, <1>5, <2>1, <2>2 DEF rest
<1>10. budget \in [1 .. n -> Nat] /\ Fair(rest, w, budget)
  BY <1>3, <1>4, <1>9, LargestRemainderIsFair
<1> HIDE DEF budget
<1>11. Total(budget) = rest
  BY <1>10 DEF Fair
<1>12. \A a \in Activities : Position[a] \in 1 .. 4
  BY DEF Activities, Position
<1>13. ActivityBudget(p) \in [Activities -> Nat]
  BY <1>6, <1>8, <1>12
<1>14. SubjectBudget(p) \in [DOMAIN w -> Nat]
  BY <1>3, <1>7, <1>10
<1>15. Fair(Schedulable(p), w, SubjectBudget(p)) /\ Total(SubjectBudget(p)) = Schedulable(p)
  BY <1>7, <1>10, <1>11 DEF rest
<1> QED BY <1>8, <1>9, <1>13, <1>14, <1>15 DEF total, shares, share, w, rest

-----------------------------------------------------------------------------
(***************************************************************************)
(* The inductive invariant.                                                *)
(***************************************************************************)

\* The minutes of some of the items, and the items of a day, of an activity
\* and of a subject.
Spent(placed, ks) == SumFunctionOnSet([k \in DOMAIN placed |-> placed[k].minutes], ks)
OnDay(placed, d) == {k \in DOMAIN placed : placed[k].day = d}
OfActivity(placed, a) == {k \in DOMAIN placed : placed[k].activity = a}
OfSubject(placed, s) == {k \in DOMAIN placed : placed[k].subject = s}

\* Where the loops can stand, and what is left of the day then.
Loops ==
    /\ \A i \in DOMAIN blocks : blocks[i] >= MinBlock
    /\ phase # "block" => blocks = <<>>
    /\ phase = "block" => day >= 1
    /\ phase = "day" => day < Len(Calendar)

\* No item is placed ahead of the day being filled.
NoneAhead ==
    \A k \in DOMAIN items : items[k].minutes >= MinBlock /\ items[k].day <= day

\* What a day holds and what it may still get never exceed it.
RoomForBlocks ==
    \A d \in 1 .. Len(Calendar) :
        Spent(items, OnDay(items, d)) + (IF d = day THEN Total(blocks) ELSE 0) <= Calendar[d]

ActivitiesBounded ==
    \A a \in Activities :
        Spent(items, OfActivity(items, a)) + activity[a] <= ActivityBudget(plan)[a]

SubjectsConserved ==
    \A s \in DOMAIN plan.weights :
        Spent(items, OfSubject(items, s)) + subject[s] = SubjectBudget(plan)[s]

MinutesConserved == Spent(items, DOMAIN items) + Total(subject) = Schedulable(plan)

IInv ==
    /\ TypeOK
    /\ Accepted(plan)
    /\ Loops
    /\ NoneAhead
    /\ RoomForBlocks
    /\ ActivitiesBounded
    /\ SubjectsConserved
    /\ MinutesConserved

-----------------------------------------------------------------------------
(***************************************************************************)
(* The minutes of the items placed.                                        *)
(***************************************************************************)

\* Every item placed has its minutes.
LEMMA MinutesAreNat ==
    ASSUME NEW s \in Seq(Item)
    PROVE  \A k \in DOMAIN s : s[k].minutes \in Nat
<1>1. \A k \in DOMAIN s : s[k] \in Item
  OBVIOUS
<1>2. \A it \in Item : it.minutes \in Nat
  BY DEF Item
<1> QED BY <1>1, <1>2

\* So have any of the items together.
LEMMA SpentIsNat ==
    ASSUME NEW s \in Seq(Item), NEW ks \in SUBSET DOMAIN s
    PROVE  Spent(s, ks) \in Nat
<1> DEFINE f == [k \in DOMAIN s |-> s[k].minutes]
           N == 1 .. Len(s)
<1>1. Len(s) \in Nat /\ DOMAIN s = N
  OBVIOUS
<1>2. IsFiniteSet(N)
  BY <1>1, FS_Interval
<1>3. \A k \in DOMAIN s : f[k] \in Nat
  BY MinutesAreNat
<1>4. Spent(s, ks) = SumFunctionOnSet(f, ks)
  BY DEF Spent
<1> HIDE DEF f, N
<1>5. IsFiniteSet(ks)
  BY <1>1, <1>2, FS_Subset
<1> QED BY <1>3, <1>4, <1>5, SumNat

\* One more item adds its minutes to a sum exactly if it is counted there.
LEMMA SpentAfter ==
    ASSUME NEW s \in Seq(Item), NEW it \in Item,
           NEW ks \in SUBSET DOMAIN s,
           NEW js \in SUBSET DOMAIN Append(s, it), js \ {Len(s) + 1} = ks
    PROVE  Spent(Append(s, it), js) =
             Spent(s, ks) + (IF Len(s) + 1 \in js THEN it.minutes ELSE 0)
<1> DEFINE t == Append(s, it)
           f == [k \in DOMAIN s |-> s[k].minutes]
           g == [k \in DOMAIN t |-> t[k].minutes]
           N == 1 .. Len(s)
           a == Len(s) + 1
<1>1. /\ Len(s) \in Nat /\ DOMAIN s = N /\ a \in DOMAIN t /\ a \notin N
      /\ N \subseteq DOMAIN t
      /\ \A k \in N : t[k] = s[k]
      /\ t[a] = it
  OBVIOUS
<1>2. IsFiniteSet(N)
  BY <1>1, FS_Interval
<1>3. \A k \in ks : f[k] \in Int /\ g[k] = f[k]
  <2>1. \A k \in ks : k \in N /\ s[k].minutes \in Int
    BY <1>1, MinutesAreNat
  <2>2. \A k \in ks : f[k] = s[k].minutes /\ g[k] = t[k].minutes
    BY <1>1
  <2> QED BY <1>1, <2>1, <2>2
<1>4. g[a] = it.minutes /\ it.minutes \in Int
  BY <1>1 DEF Item
<1>5. Spent(s, ks) = SumFunctionOnSet(f, ks) /\ Spent(t, js) = SumFunctionOnSet(g, js)
  BY DEF Spent
<1>6. a \notin ks /\ ks \subseteq N /\ (a \in js => js = ks \cup {a}) /\ (a \notin js => js = ks)
  BY <1>1
<1> HIDE DEF t, f, g, N, a
<1>7. IsFiniteSet(ks)
  BY <1>2, <1>6, FS_Subset
<1>8. SumFunctionOnSet(g, ks) = SumFunctionOnSet(f, ks)
  BY <1>3, <1>7, SumEqual
<1>9. SumFunctionOnSet(g, ks \cup {a}) = SumFunctionOnSet(g, ks) + g[a]
  <2>1. \A k \in ks \cup {a} : g[k] \in Int
    BY <1>3, <1>4
  <2> QED BY <1>6, <1>7, <2>1, SumAdd
<1>10. SumFunctionOnSet(g, ks) \in Int
  BY <1>3, <1>7, SumRemove
<1>11. Spent(t, js) = Spent(s, ks) + (IF a \in js THEN it.minutes ELSE 0)
  <2>1. CASE a \in js
    BY <1>4, <1>5, <1>6, <1>8, <1>9, <2>1
  <2>2. CASE a \notin js
    BY <1>5, <1>6, <1>8, <1>10, <2>2
  <2> QED BY <2>1, <2>2
<1> QED BY <1>11 DEF t, a

\* What one more item changes in the sums of a day, an activity, a subject and all.
LEMMA SpentAppend ==
    ASSUME NEW s \in Seq(Item), NEW it \in Item
    PROVE  LET t == Append(s, it) IN
           /\ \A d : Spent(t, OnDay(t, d)) =
                Spent(s, OnDay(s, d)) + (IF it.day = d THEN it.minutes ELSE 0)
           /\ \A a : Spent(t, OfActivity(t, a)) =
                Spent(s, OfActivity(s, a)) + (IF it.activity = a THEN it.minutes ELSE 0)
           /\ \A x : Spent(t, OfSubject(t, x)) =
                Spent(s, OfSubject(s, x)) + (IF it.subject = x THEN it.minutes ELSE 0)
           /\ Spent(t, DOMAIN t) = Spent(s, DOMAIN s) + it.minutes
<1> DEFINE t == Append(s, it)
           m == Len(s) + 1
<1>1. /\ DOMAIN t = DOMAIN s \cup {m} /\ m \notin DOMAIN s
      /\ \A k \in DOMAIN s : t[k] = s[k]
      /\ t[m] = it
  OBVIOUS
<1>2. ASSUME NEW ks \in SUBSET DOMAIN s, NEW js \in SUBSET DOMAIN t, js \ {m} = ks
      PROVE  Spent(t, js) = Spent(s, ks) + (IF m \in js THEN it.minutes ELSE 0)
  BY <1>2, SpentAfter
<1> HIDE DEF t, m
<1>3. ASSUME NEW d
      PROVE  Spent(t, OnDay(t, d)) =
               Spent(s, OnDay(s, d)) + (IF it.day = d THEN it.minutes ELSE 0)
  <2> DEFINE ks == OnDay(s, d)
             js == OnDay(t, d)
  <2>1. /\ ks \in SUBSET DOMAIN s /\ js \in SUBSET DOMAIN t /\ js \ {m} = ks
        /\ m \in js <=> it.day = d
    BY <1>1 DEF OnDay
  <2> HIDE DEF ks, js
  <2>2. Spent(t, js) = Spent(s, ks) + (IF m \in js THEN it.minutes ELSE 0)
    BY <1>2, <2>1
  <2> QED BY <2>1, <2>2 DEF ks, js
<1>4. ASSUME NEW a
      PROVE  Spent(t, OfActivity(t, a)) =
               Spent(s, OfActivity(s, a)) + (IF it.activity = a THEN it.minutes ELSE 0)
  <2> DEFINE ks == OfActivity(s, a)
             js == OfActivity(t, a)
  <2>1. /\ ks \in SUBSET DOMAIN s /\ js \in SUBSET DOMAIN t /\ js \ {m} = ks
        /\ m \in js <=> it.activity = a
    BY <1>1 DEF OfActivity
  <2> HIDE DEF ks, js
  <2>2. Spent(t, js) = Spent(s, ks) + (IF m \in js THEN it.minutes ELSE 0)
    BY <1>2, <2>1
  <2> QED BY <2>1, <2>2 DEF ks, js
<1>5. ASSUME NEW x
      PROVE  Spent(t, OfSubject(t, x)) =
               Spent(s, OfSubject(s, x)) + (IF it.subject = x THEN it.minutes ELSE 0)
  <2> DEFINE ks == OfSubject(s, x)
             js == OfSubject(t, x)
  <2>1. /\ ks \in SUBSET DOMAIN s /\ js \in SUBSET DOMAIN t /\ js \ {m} = ks
        /\ m \in js <=> it.subject = x
    BY <1>1 DEF OfSubject
  <2> HIDE DEF ks, js
  <2>2. Spent(t, js) = Spent(s, ks) + (IF m \in js THEN it.minutes ELSE 0)
    BY <1>2, <2>1
  <2> QED BY <2>1, <2>2 DEF ks, js
<1>6. Spent(t, DOMAIN t) = Spent(s, DOMAIN s) + it.minutes
  <2> DEFINE ks == DOMAIN s
             js == DOMAIN t
  <2>1. ks \in SUBSET DOMAIN s /\ js \in SUBSET DOMAIN t /\ js \ {m} = ks /\ m \in js
    BY <1>1
  <2> HIDE DEF ks, js
  <2>2. Spent(t, js) = Spent(s, ks) + (IF m \in js THEN it.minutes ELSE 0)
    BY <1>2, <2>1
  <2> QED BY <2>1, <2>2 DEF ks, js
<1> QED BY <1>3, <1>4, <1>5, <1>6 DEF t

-----------------------------------------------------------------------------
(***************************************************************************)
(* The choices of the inner loop.                                          *)
(***************************************************************************)

\* Among finitely many values there is a first one of the largest.
LEMMA LargestExists ==
    ASSUME NEW n \in Nat \ {0}, NEW f \in [1 .. n -> Nat]
    PROVE  \E s \in 1 .. n : \A t \in 1 .. n : f[s] > f[t] \/ (f[s] = f[t] /\ s <= t)
<1> DEFINE Largest(s, m) == \A t \in 1 .. m : f[s] > f[t] \/ (f[s] = f[t] /\ s <= t)
           S == {m \in Nat : m + 1 <= n => \E s \in 1 .. (m + 1) : Largest(s, m + 1)}
<1>1. 0 \in S
  <2>1. 1 \in 1 .. (0 + 1) /\ Largest(1, 0 + 1)
    OBVIOUS
  <2> QED BY <2>1
<1>2. ASSUME NEW m \in Nat, m \in S
      PROVE  m + 1 \in S
  <2>1. SUFFICES ASSUME m + 2 <= n
                 PROVE  \E s \in 1 .. (m + 2) : Largest(s, m + 2)
    OBVIOUS
  <2>2. PICK s \in 1 .. (m + 1) : Largest(s, m + 1)
    BY <1>2, <2>1
  <2>3. /\ 1 .. (m + 2) = (1 .. (m + 1)) \cup {m + 2}
        /\ f[s] \in Nat /\ f[m + 2] \in Nat /\ \A t \in 1 .. (m + 1) : f[t] \in Nat
    BY <2>1, <2>2
  <2>4. CASE f[s] >= f[m + 2]
    <3>1. ASSUME NEW t \in 1 .. (m + 2)
          PROVE  f[s] > f[t] \/ (f[s] = f[t] /\ s <= t)
      <4>1. CASE t \in 1 .. (m + 1)
        BY <2>2, <4>1
      <4>2. CASE t = m + 2
        BY <2>3, <2>4, <4>2
      <4> QED BY <2>3, <4>1, <4>2
    <3> QED BY <2>3, <3>1
  <2>5. CASE f[m + 2] > f[s]
    <3>1. Largest(m + 2, m + 2)
      BY <2>2, <2>3, <2>5
    <3> QED BY <2>3, <3>1
  <2> QED BY <2>3, <2>4, <2>5
<1>3. Nat \subseteq S
  <2> HIDE DEF S
  <2> QED BY <1>1, <1>2, NatSetInduction
<1>4. n - 1 \in Nat /\ (n - 1) + 1 = n
  OBVIOUS
<1>5. n - 1 \in S
  <2> HIDE DEF S
  <2> QED BY <1>3, <1>4
<1> QED BY <1>4, <1>5

\* No activity has more time left than the one chosen.
LEMMA NextActivityIsLargest ==
    ASSUME activity \in [Activities -> Nat]
    PROVE  /\ NextActivity \in Activities
           /\ \A b \in Activities : activity[b] <= activity[NextActivity]
<1> DEFINE Largest(a) == \A b \in Activities :
               activity[a] > activity[b] \/ (activity[a] = activity[b] /\ Order[a] <= Order[b])
<1>1. \E a \in Activities : Largest(a)
  <2>1. /\ activity["study"] \in Nat /\ activity["review"] \in Nat /\ activity["exercise"] \in Nat
        /\ Order["study"] = 1 /\ Order["review"] = 2 /\ Order["exercise"] = 3
    BY DEF Activities, Order
  <2>2. Largest("study") \/ Largest("review") \/ Largest("exercise")
    BY <2>1 DEF Activities
  <2> QED BY <2>2 DEF Activities
<1>2. NextActivity \in Activities /\ Largest(NextActivity)
  <2>1. NextActivity = CHOOSE a \in Activities : Largest(a)
    BY DEF NextActivity
  <2> HIDE DEF Largest
  <2> QED BY <1>1, <2>1
<1> QED BY <1>2

\* No subject has more time left than the one chosen.
LEMMA NextSubjectIsLargest ==
    ASSUME NEW n \in Nat \ {0}, subject \in [1 .. n -> Nat]
    PROVE  /\ NextSubject \in 1 .. n
           /\ \A t \in 1 .. n : subject[t] <= subject[NextSubject]
<1> DEFINE Largest(s) == \A t \in 1 .. n :
               subject[s] > subject[t] \/ (subject[s] = subject[t] /\ s <= t)
<1>1. \E s \in 1 .. n : Largest(s)
  BY LargestExists
<1>2. NextSubject \in 1 .. n /\ Largest(NextSubject)
  <2>1. NextSubject = CHOOSE s \in 1 .. n : Largest(s)
    BY DEF NextSubject
  <2> HIDE DEF Largest
  <2> QED BY <1>1, <2>1
<1> QED BY <1>2

-----------------------------------------------------------------------------
(***************************************************************************)
(* The invariant holds.                                                    *)
(***************************************************************************)

\* What the blocks of a day add up to without the first.
LEMMA TotalOfTail ==
    ASSUME NEW s \in Seq(Nat), s # <<>>
    PROVE  /\ Tail(s) \in Seq(Nat) /\ Head(s) \in Nat /\ Total(Tail(s)) \in Nat
           /\ Total(s) = Head(s) + Total(Tail(s))
           /\ Head(s) = s[1] /\ 1 \in DOMAIN s
           /\ \A i \in DOMAIN Tail(s) : i + 1 \in DOMAIN s /\ Tail(s)[i] = s[i + 1]
<1> DEFINE r == Tail(s)
<1>1. /\ r \in Seq(Nat) /\ Len(s) = Len(r) + 1 /\ Head(s) = s[1] /\ 1 \in DOMAIN s
      /\ \A i \in 1 .. Len(r) : s[i + 1] = r[i]
      /\ \A i \in DOMAIN r : i + 1 \in DOMAIN s /\ r[i] = s[i + 1]
  OBVIOUS
<1>2. Head(s) \in Nat
  BY <1>1
<1> HIDE DEF r
<1>3. Total(s) = s[1] + Total(r)
  BY <1>1, TotalOfRest
<1>4. Total(r) \in Nat
  BY <1>1, SeqTotal
<1> QED BY <1>1, <1>2, <1>3, <1>4 DEF r

\* A day without blocks.
LEMMA TotalOfNothing == Total(<<>>) = 0
<1>1. <<>> \in Seq(Nat) /\ Len(<<>>) = 0 /\ 1 .. 0 = {}
  OBVIOUS
<1>2. Total(<<>>) = SumFunctionOnSet(<<>>, 1 .. Len(<<>>))
  BY <1>1, SeqTotal
<1> QED BY <1>1, <1>2, SumOfNone

\* The shape of a state, as the steps below use it.
LEMMA StateFacts ==
    ASSUME TypeOK, Accepted(plan)
    PROVE  /\ plan \in Plans
           /\ \E n \in Nat \ {0} : DOMAIN plan.weights = 1 .. n /\ subject \in [1 .. n -> Nat]
           /\ activity \in [Activities -> Nat]
           /\ blocks \in Seq(Nat) /\ items \in Seq(Item)
           /\ Calendar \in Seq(Nat) /\ Calendar # <<>>
           /\ \A d \in 1 .. Len(Calendar) : Calendar[d] \in Nat /\ Calendar[d] >= MinBlock
           /\ Len(Calendar) \in Nat \ {0}
           /\ day \in 0 .. Len(Calendar)
<1>1. plan \in Plans
  BY DEF TypeOK
<1>2. /\ Calendar \in Seq(Nat) /\ Calendar # <<>>
      /\ \A d \in DOMAIN Calendar : Calendar[d] >= MinBlock
  BY <1>1, DaysAreLong DEF Calendar
<1>3. Len(Calendar) \in Nat \ {0} /\ DOMAIN Calendar = 1 .. Len(Calendar)
  BY <1>2
<1>4. \A d \in 1 .. Len(Calendar) : Calendar[d] \in Nat /\ Calendar[d] >= MinBlock
  BY <1>2, <1>3
<1>5. \E n \in Nat \ {0} : DOMAIN plan.weights = 1 .. n /\ subject \in [1 .. n -> Nat]
  <2> DEFINE w == plan.weights
  <2>1. w \in Seq(Nat \ {0}) /\ w # <<>>
    BY <1>1, CallFacts
  <2>2. Len(w) \in Nat \ {0} /\ DOMAIN w = 1 .. Len(w)
    BY <2>1
  <2>3. subject \in [DOMAIN w -> Nat]
    BY DEF TypeOK
  <2> QED BY <2>2, <2>3
<1> QED BY <1>1, <1>2, <1>3, <1>4, <1>5 DEF TypeOK

\* The call begins with all the budgets and no items.
LEMMA InitInv ==
    ASSUME Init
    PROVE  IInv
<1>1. plan \in Plans /\ Accepted(plan)
  BY DEF Init
<1>2. /\ ActivityBudget(plan) \in [Activities -> Nat]
      /\ SubjectBudget(plan) \in [DOMAIN plan.weights -> Nat]
      /\ Total(SubjectBudget(plan)) = Schedulable(plan)
      /\ Schedulable(plan) \in Nat
  BY <1>1, Allotments
<1>3. Calendar \in Seq(Nat) /\ Calendar # <<>>
  BY <1>1, DaysAreLong DEF Calendar
<1>4. Len(Calendar) \in Nat /\ 0 < Len(Calendar)
  BY <1>3
<1>5. /\ items = <<>> /\ DOMAIN items = {} /\ items \in Seq(Item)
      /\ blocks = <<>> /\ DOMAIN blocks = {} /\ blocks \in Seq(Nat)
  BY DEF Init
<1>6. TypeOK
  BY <1>1, <1>2, <1>4, <1>5 DEF Init, TypeOK
<1>7. Spent(items, {}) = 0
  BY SumOfNone DEF Spent
<1>8. Loops /\ NoneAhead
  BY <1>4, <1>5 DEF Init, Loops, NoneAhead
<1>9. RoomForBlocks
  <2>1. \A d \in 1 .. Len(Calendar) : Calendar[d] \in Nat /\ OnDay(items, d) = {}
    BY <1>3, <1>5 DEF OnDay
  <2>2. \A d \in 1 .. Len(Calendar) : Spent(items, OnDay(items, d)) = 0
    BY <1>7, <2>1
  <2>3. \A d : (IF d = day THEN Total(blocks) ELSE 0) = 0
    BY <1>5, TotalOfNothing
  <2> QED BY <2>1, <2>2, <2>3 DEF RoomForBlocks
<1>10. ActivitiesBounded
  <2>1. \A a \in Activities : OfActivity(items, a) = {} /\ activity[a] = ActivityBudget(plan)[a]
                              /\ activity[a] \in Nat
    BY <1>2, <1>5 DEF OfActivity, Init
  <2> QED BY <1>7, <2>1 DEF ActivitiesBounded
<1>11. SubjectsConserved
  <2>1. \A s \in DOMAIN plan.weights :
          OfSubject(items, s) = {} /\ subject[s] = SubjectBudget(plan)[s] /\ subject[s] \in Nat
    BY <1>2, <1>5 DEF OfSubject, Init
  <2> QED BY <1>7, <2>1 DEF SubjectsConserved
<1>12. MinutesConserved
  BY <1>2, <1>5, <1>7 DEF MinutesConserved, Init
<1> QED BY <1>1, <1>6, <1>8, <1>9, <1>10, <1>11, <1>12 DEF IInv

\* A new day is cut into blocks of at least 15 minutes that fit into it, and
\* nothing has been placed there yet.
LEMMA StartDayInv ==
    ASSUME IInv, StartDay
    PROVE  IInv'
<1>1. TypeOK /\ Accepted(plan) /\ Loops /\ NoneAhead /\ RoomForBlocks
  BY DEF IInv
<1> DEFINE d1 == day + 1
           minutes == Calendar[d1]
           cut == Blocks(minutes, plan.preferred)
<1>2. /\ phase = "day" /\ phase' = "block" /\ day' = d1 /\ blocks' = cut
      /\ plan' = plan /\ activity' = activity /\ subject' = subject /\ items' = items
      /\ Calendar' = Calendar
  BY DEF StartDay, Calendar
<1>3. /\ day \in Nat /\ d1 \in 1 .. Len(Calendar) /\ d1 \in Nat \ {0}
      /\ minutes \in Nat /\ minutes >= MinBlock /\ blocks = <<>>
  BY <1>1, <1>2, StateFacts DEF Loops
<1>4. /\ cut \in Seq(Nat)
      /\ \A i \in DOMAIN cut : cut[i] >= MinBlock
      /\ cut # <<>> => Total(cut) = minutes
  <2>1. plan.preferred \in Nat /\ plan.preferred >= MinBlock
    BY <1>1, CallFacts DEF TypeOK
  <2> HIDE DEF minutes
  <2> QED BY <1>3, <2>1, BlocksFacts
<1> HIDE DEF cut, minutes
<1>5. Total(cut) <= minutes
  BY <1>3, <1>4, TotalOfNothing
<1>6. TypeOK'
  BY <1>1, <1>2, <1>3, <1>4 DEF TypeOK
<1>7. Loops'
  BY <1>2, <1>3, <1>4 DEF Loops
<1>8. NoneAhead'
  <2>1. \A k \in DOMAIN items : items[k].day \in Nat
    <3>1. \A k \in DOMAIN items : items[k] \in Item
      BY <1>1, StateFacts
    <3> QED BY <3>1 DEF Item
  <2> HIDE DEF d1
  <2>2. day <= d1
    BY <1>3 DEF d1
  <2> QED BY <1>1, <1>2, <1>3, <2>1, <2>2 DEF NoneAhead
<1>9. RoomForBlocks'
  <2>1. OnDay(items, d1) = {}
    <3>1. \A k \in DOMAIN items : items[k].day <= day /\ items[k].day \in Nat
      <4>1. \A k \in DOMAIN items : items[k] \in Item
        BY <1>1, StateFacts
      <4> QED BY <1>1, <4>1 DEF NoneAhead, Item
    <3> QED BY <1>3, <3>1 DEF OnDay
  <2>2. Spent(items, OnDay(items, d1)) = 0
    BY <2>1, SumOfNone DEF Spent
  <2>3. \A d \in 1 .. Len(Calendar) :
          Spent(items, OnDay(items, d)) + (IF d = d1 THEN Total(cut) ELSE 0) <= Calendar[d]
    <3>1. Total(cut) \in Nat
      BY <1>4, SeqTotal
    <3>2. \A d \in 1 .. Len(Calendar) :
            Spent(items, OnDay(items, d)) + (IF d = day THEN 0 ELSE 0) <= Calendar[d]
      BY <1>1, <1>3, TotalOfNothing DEF RoomForBlocks
    <3> QED BY <1>3, <1>5, <2>2, <3>1, <3>2 DEF minutes
  <2> QED BY <1>2, <2>3 DEF RoomForBlocks
<1>10. ActivitiesBounded' /\ SubjectsConserved' /\ MinutesConserved'
  BY <1>2 DEF IInv, ActivitiesBounded, SubjectsConserved, MinutesConserved
<1> QED BY <1>1, <1>2, <1>6, <1>7, <1>8, <1>9, <1>10 DEF IInv

\* What the inner loop chooses, and how long the item it plans is.
LEMMA PlannedFacts ==
    ASSUME TypeOK, Accepted(plan), blocks # <<>>
    PROVE  /\ NextActivity \in Activities
           /\ \A b \in Activities : activity[b] <= activity[NextActivity]
           /\ NextSubject \in DOMAIN plan.weights
           /\ \A s \in DOMAIN plan.weights : subject[s] <= subject[NextSubject]
           /\ Head(blocks) \in Nat
           /\ Planned \in Nat
           /\ Planned <= Head(blocks)
           /\ Planned <= activity[NextActivity] /\ activity[NextActivity] \in Nat
           /\ Planned <= subject[NextSubject] /\ subject[NextSubject] \in Nat
           /\ \/ Planned = Head(blocks)
              \/ Planned = activity[NextActivity]
              \/ Planned = subject[NextSubject]
<1>1. PICK n \in Nat \ {0} : DOMAIN plan.weights = 1 .. n /\ subject \in [1 .. n -> Nat]
  BY StateFacts
<1>2. NextSubject \in 1 .. n /\ \A s \in 1 .. n : subject[s] <= subject[NextSubject]
  BY <1>1, NextSubjectIsLargest
<1>3. activity \in [Activities -> Nat] /\ blocks \in Seq(Nat)
  BY StateFacts
<1>4. /\ NextActivity \in Activities
      /\ \A b \in Activities : activity[b] <= activity[NextActivity]
  BY <1>3, NextActivityIsLargest
<1> DEFINE x == Head(blocks)
           y == activity[NextActivity]
           z == subject[NextSubject]
<1>5. x \in Nat /\ y \in Nat /\ z \in Nat
  BY <1>1, <1>2, <1>3, <1>4, TotalOfTail
<1>6. Planned = Least(x, Least(y, z))
  BY DEF Planned
<1> HIDE DEF x, y, z
<1>7. /\ Planned \in Nat /\ Planned <= x /\ Planned <= y /\ Planned <= z
      /\ Planned = x \/ Planned = y \/ Planned = z
  BY <1>5, <1>6 DEF Least
<1> QED BY <1>1, <1>2, <1>4, <1>5, <1>7 DEF x, y, z

\* The minutes of an item are taken from its block, its activity and its
\* subject at once.
LEMMA PlaceItemInv ==
    ASSUME IInv, PlaceItem
    PROVE  IInv'
<1> DEFINE a == NextActivity
           s == NextSubject
           m == Planned
           it == [day |-> day, activity |-> a, subject |-> s, minutes |-> m]
           rest == Tail(blocks)
<1>1. /\ TypeOK /\ Accepted(plan) /\ Loops /\ NoneAhead /\ RoomForBlocks
      /\ ActivitiesBounded /\ SubjectsConserved /\ MinutesConserved
  BY DEF IInv
<1>2. /\ phase = "block" /\ blocks # <<>> /\ m >= MinBlock
      /\ items' = Append(items, it)
      /\ activity' = [activity EXCEPT ![a] = @ - m]
      /\ subject' = [subject EXCEPT ![s] = @ - m]
      /\ blocks' = rest
      /\ plan' = plan /\ phase' = phase /\ day' = day
      /\ Calendar' = Calendar
  BY DEF PlaceItem, Calendar
<1>3. /\ a \in Activities /\ s \in DOMAIN plan.weights
      /\ m \in Nat /\ Head(blocks) \in Nat /\ m <= Head(blocks)
      /\ m <= activity[a] /\ activity[a] \in Nat /\ m <= subject[s] /\ subject[s] \in Nat
  BY <1>1, <1>2, PlannedFacts
<1> HIDE DEF a, s, m
<1>4. PICK n \in Nat \ {0} : DOMAIN plan.weights = 1 .. n /\ subject \in [1 .. n -> Nat]
  BY <1>1, StateFacts
<1>5. /\ activity \in [Activities -> Nat] /\ blocks \in Seq(Nat) /\ items \in Seq(Item)
      /\ day \in Nat \ {0}
      /\ \A d \in 1 .. Len(Calendar) : Calendar[d] \in Nat
  BY <1>1, <1>2, StateFacts DEF Loops
<1>6. it \in Item
  <2>1. s \in Nat \ {0}
    BY <1>3, <1>4
  <2> QED BY <1>3, <1>5, <2>1 DEF Item
<1>7. /\ rest \in Seq(Nat) /\ Total(rest) \in Nat /\ Total(blocks) = Head(blocks) + Total(rest)
      /\ \A i \in DOMAIN rest : i + 1 \in DOMAIN blocks /\ rest[i] = blocks[i + 1]
  BY <1>2, <1>5, TotalOfTail
<1>8. it.day = day /\ it.activity = a /\ it.subject = s /\ it.minutes = m
  OBVIOUS
<1> HIDE DEF it, rest
<1>9. /\ \A d : Spent(items', OnDay(items', d)) =
           Spent(items, OnDay(items, d)) + (IF day = d THEN m ELSE 0)
      /\ \A b : Spent(items', OfActivity(items', b)) =
           Spent(items, OfActivity(items, b)) + (IF a = b THEN m ELSE 0)
      /\ \A x : Spent(items', OfSubject(items', x)) =
           Spent(items, OfSubject(items, x)) + (IF s = x THEN m ELSE 0)
      /\ Spent(items', DOMAIN items') = Spent(items, DOMAIN items) + m
  BY <1>2, <1>5, <1>6, <1>8, SpentAppend
<1>10. TypeOK'
  <2>1. items' \in Seq(Item)
    BY <1>2, <1>5, <1>6, AppendIsSeq
  <2>2. activity' \in [Activities -> Nat]
    BY <1>2, <1>3, <1>5
  <2>3. subject' \in [DOMAIN plan.weights -> Nat]
    BY <1>2, <1>3, <1>4
  <2> QED BY <1>1, <1>2, <1>7, <2>1, <2>2, <2>3 DEF TypeOK
<1>11. Loops'
  BY <1>1, <1>2, <1>7 DEF Loops
<1>12. NoneAhead'
  <2>1. /\ DOMAIN items' = DOMAIN items \cup {Len(items) + 1}
        /\ \A k \in DOMAIN items : items'[k] = items[k]
        /\ items'[Len(items) + 1] = it
    BY <1>2, <1>5
  <2>2. m >= MinBlock /\ day <= day
    BY <1>2, <1>5
  <2> QED BY <1>1, <1>2, <1>8, <2>1, <2>2 DEF NoneAhead
<1>13. RoomForBlocks'
  <2>1. ASSUME NEW d \in 1 .. Len(Calendar)
        PROVE  Spent(items', OnDay(items', d)) + (IF d = day THEN Total(rest) ELSE 0)
                 <= Calendar[d]
    <3> DEFINE x == Spent(items, OnDay(items, d))
    <3>1. x \in Nat
      BY <1>5, SpentIsNat DEF OnDay
    <3>2. x + (IF d = day THEN Total(blocks) ELSE 0) <= Calendar[d]
      BY <1>1 DEF RoomForBlocks
    <3>3. Spent(items', OnDay(items', d)) = x + (IF day = d THEN m ELSE 0)
      BY <1>9
    <3> DEFINE c == Calendar[d]
    <3>4. c \in Nat /\ x + (IF d = day THEN Total(blocks) ELSE 0) <= c
      BY <1>5, <3>2
    <3> HIDE DEF x, c
    <3>5. CASE d = day
      BY <1>3, <1>7, <3>1, <3>3, <3>4, <3>5 DEF c
    <3>6. CASE d # day
      BY <3>1, <3>3, <3>4, <3>6 DEF c
    <3> QED BY <3>5, <3>6
  <2> QED BY <1>2, <2>1 DEF RoomForBlocks
<1>14. ActivitiesBounded'
  <2>1. ActivityBudget(plan)' = ActivityBudget(plan)
    BY <1>2 DEF ActivityBudget
  <2>2. ASSUME NEW b \in Activities
        PROVE  Spent(items', OfActivity(items', b)) + activity'[b] <= ActivityBudget(plan)[b]
    <3> DEFINE x == Spent(items, OfActivity(items, b))
    <3>1. x \in Nat
      BY <1>5, SpentIsNat DEF OfActivity
    <3>2. x + activity[b] <= ActivityBudget(plan)[b]
      BY <1>1 DEF ActivitiesBounded
    <3>3. Spent(items', OfActivity(items', b)) = x + (IF a = b THEN m ELSE 0)
      BY <1>9
    <3>4. activity'[b] = (IF a = b THEN activity[b] - m ELSE activity[b]) /\ activity[b] \in Nat
      BY <1>2, <1>5
    <3> HIDE DEF x
    <3>5. x + (IF a = b THEN m ELSE 0) + activity'[b] = x + activity[b]
      BY <1>3, <3>1, <3>4
    <3> QED BY <3>2, <3>3, <3>5
  <2> QED BY <2>1, <2>2 DEF ActivitiesBounded
<1>15. SubjectsConserved'
  <2>1. SubjectBudget(plan)' = SubjectBudget(plan)
    BY <1>2 DEF SubjectBudget
  <2>2. ASSUME NEW t \in DOMAIN plan.weights
        PROVE  Spent(items', OfSubject(items', t)) + subject'[t] = SubjectBudget(plan)[t]
    <3> DEFINE x == Spent(items, OfSubject(items, t))
    <3>1. x \in Nat
      BY <1>5, SpentIsNat DEF OfSubject
    <3>2. x + subject[t] = SubjectBudget(plan)[t]
      BY <1>1 DEF SubjectsConserved
    <3>3. Spent(items', OfSubject(items', t)) = x + (IF s = t THEN m ELSE 0)
      BY <1>9
    <3>4. subject'[t] = (IF s = t THEN subject[t] - m ELSE subject[t]) /\ subject[t] \in Nat
      BY <1>2, <1>4
    <3> HIDE DEF x
    <3>5. x + (IF s = t THEN m ELSE 0) + subject'[t] = x + subject[t]
      BY <1>3, <3>1, <3>4
    <3> QED BY <3>2, <3>3, <3>5
  <2> QED BY <1>2, <2>1, <2>2 DEF SubjectsConserved
<1>16. MinutesConserved'
  <2>1. Schedulable(plan)' = Schedulable(plan)
    BY <1>2 DEF Schedulable
  <2> DEFINE v == subject[s] - m
  <2>2. v \in Nat /\ subject' = [subject EXCEPT ![s] = v] /\ s \in 1 .. n /\ n \in Nat
    BY <1>2, <1>3, <1>4
  <2> HIDE DEF v
  <2>3. Total(subject') = Total(subject) - subject[s] + v
    <3> DEFINE N == 1 .. n
    <3>1. s \in N /\ v \in Int /\ \A i \in N : subject[i] \in Int
      BY <1>4, <2>2
    <3>2. \A i \in N : subject'[i] = IF i = s THEN v ELSE subject[i]
      BY <1>4, <2>2
    <3>3. Total(subject) = SumFunctionOnSet(subject, N)
      BY <1>4, TotalOfDomain
    <3>4. Total(subject') = SumFunctionOnSet(subject', N)
      <4>1. n \in Nat /\ DOMAIN subject' = 1 .. n /\ \A i \in 1 .. n : subject'[i] \in Nat
        BY <1>4, <2>2
      <4> QED BY ONLY <4>1, TotalOfDomain
    <3>5. IsFiniteSet(N)
      BY FS_Interval
    <3> HIDE DEF N
    <3>6. SumFunctionOnSet(subject', N) = SumFunctionOnSet(subject, N) - subject[s] + v
      BY ONLY <3>1, <3>2, <3>5, SumUpdate
    <3> QED BY <3>3, <3>4, <3>6
  <2>4. Total(subject) \in Nat /\ Spent(items, DOMAIN items) \in Nat
    BY <1>4, <1>5, TotalOfDomain, SpentIsNat
  <2>5. Spent(items', DOMAIN items') + Total(subject') = Schedulable(plan)
    BY <1>1, <1>3, <1>9, <2>3, <2>4 DEF MinutesConserved, v
  <2> QED BY <2>1, <2>5 DEF MinutesConserved
<1>17. Accepted(plan)'
  BY <1>1, <1>2
<1> QED BY <1>10, <1>11, <1>12, <1>13, <1>14, <1>15, <1>16, <1>17 DEF IInv

\* Giving up the rest of an activity and a block takes nothing from anyone.
LEMMA DropActivityInv ==
    ASSUME IInv, DropActivity
    PROVE  IInv'
<1> DEFINE rest == Tail(blocks)
<1>1. /\ TypeOK /\ Accepted(plan) /\ Loops /\ NoneAhead /\ RoomForBlocks /\ ActivitiesBounded
  BY DEF IInv
<1>2. /\ blocks # <<>> /\ activity' = [activity EXCEPT ![NextActivity] = 0] /\ blocks' = rest
      /\ plan' = plan /\ phase' = phase /\ day' = day /\ subject' = subject /\ items' = items
      /\ phase = "block" /\ Calendar' = Calendar
  BY DEF DropActivity, Calendar
<1>3. /\ activity \in [Activities -> Nat] /\ blocks \in Seq(Nat) /\ items \in Seq(Item)
      /\ \A d \in 1 .. Len(Calendar) : Calendar[d] \in Nat
  BY <1>1, StateFacts
<1>4. /\ rest \in Seq(Nat) /\ Total(rest) \in Nat /\ Head(blocks) \in Nat
      /\ Total(blocks) = Head(blocks) + Total(rest)
      /\ \A i \in DOMAIN rest : i + 1 \in DOMAIN blocks /\ rest[i] = blocks[i + 1]
  BY <1>2, <1>3, TotalOfTail
<1> HIDE DEF rest
<1>5. TypeOK'
  BY <1>1, <1>2, <1>3, <1>4 DEF TypeOK
<1>6. Loops' /\ NoneAhead'
  BY <1>1, <1>2, <1>4 DEF Loops, NoneAhead
<1>7. RoomForBlocks'
  <2>1. ASSUME NEW d \in 1 .. Len(Calendar)
        PROVE  Spent(items, OnDay(items, d)) + (IF d = day THEN Total(rest) ELSE 0) <= Calendar[d]
    <3> DEFINE x == Spent(items, OnDay(items, d))
               c == Calendar[d]
    <3>1. x \in Nat
      BY <1>3, SpentIsNat DEF OnDay
    <3>2. c \in Nat /\ x + (IF d = day THEN Total(blocks) ELSE 0) <= c
      BY <1>1, <1>3 DEF RoomForBlocks
    <3> HIDE DEF x, c
    <3>3. CASE d = day
      BY <1>4, <3>1, <3>2, <3>3 DEF x, c
    <3>4. CASE d # day
      BY <3>1, <3>2, <3>4 DEF x, c
    <3> QED BY <3>3, <3>4
  <2> QED BY <1>2, <2>1 DEF RoomForBlocks
<1>8. ActivitiesBounded'
  <2>1. ActivityBudget(plan)' = ActivityBudget(plan)
    BY <1>2 DEF ActivityBudget
  <2>2. ASSUME NEW b \in Activities
        PROVE  Spent(items, OfActivity(items, b)) + activity'[b] <= ActivityBudget(plan)[b]
    <3>1. Spent(items, OfActivity(items, b)) \in Nat
      BY <1>3, SpentIsNat DEF OfActivity
    <3>2. Spent(items, OfActivity(items, b)) + activity[b] <= ActivityBudget(plan)[b]
      BY <1>1 DEF ActivitiesBounded
    <3>3. activity[b] \in Nat /\ (activity'[b] = activity[b] \/ activity'[b] = 0)
      BY <1>2, <1>3
    <3>4. ActivityBudget(plan)[b] \in Nat
      BY <1>1, Allotments DEF TypeOK
    <3> QED BY <3>1, <3>2, <3>3, <3>4
  <2> QED BY <1>2, <2>1, <2>2 DEF ActivitiesBounded
<1>9. SubjectsConserved' /\ MinutesConserved'
  BY <1>2 DEF IInv, SubjectsConserved, MinutesConserved
<1> QED BY <1>1, <1>2, <1>5, <1>6, <1>7, <1>8, <1>9 DEF IInv

\* A day ends with its blocks used up or with nothing left to schedule.
LEMMA EndDayInv ==
    ASSUME IInv, EndDay
    PROVE  IInv'
<1>1. /\ TypeOK /\ Accepted(plan) /\ Loops /\ NoneAhead /\ RoomForBlocks
  BY DEF IInv
<1>2. /\ phase = "block" /\ phase' = (IF day = Len(Calendar) THEN "done" ELSE "day")
      /\ blocks' = <<>> /\ DOMAIN blocks' = {} /\ blocks' \in Seq(Nat)
      /\ plan' = plan /\ day' = day /\ activity' = activity /\ subject' = subject
      /\ items' = items /\ Calendar' = Calendar
  BY DEF EndDay, Calendar
<1>3. /\ blocks \in Seq(Nat) /\ items \in Seq(Item)
      /\ \A d \in 1 .. Len(Calendar) : Calendar[d] \in Nat
      /\ Len(Calendar) \in Nat /\ day \in 0 .. Len(Calendar)
  BY <1>1, StateFacts
<1>4. TypeOK'
  BY <1>1, <1>2 DEF TypeOK
<1>5. Loops' /\ NoneAhead'
  BY <1>1, <1>2, <1>3 DEF Loops, NoneAhead
<1>6. RoomForBlocks'
  <2>1. ASSUME NEW d \in 1 .. Len(Calendar)
        PROVE  Spent(items, OnDay(items, d)) + (IF d = day THEN Total(<<>>) ELSE 0) <= Calendar[d]
    <3>1. Spent(items, OnDay(items, d)) \in Nat /\ Total(blocks) \in Nat
      BY <1>3, SpentIsNat, SeqTotal DEF OnDay
    <3>2. Spent(items, OnDay(items, d)) + (IF d = day THEN Total(blocks) ELSE 0) <= Calendar[d]
      BY <1>1 DEF RoomForBlocks
    <3> QED BY <1>3, <3>1, <3>2, TotalOfNothing
  <2> QED BY <1>2, <2>1 DEF RoomForBlocks
<1>7. ActivitiesBounded' /\ SubjectsConserved' /\ MinutesConserved'
  BY <1>2 DEF IInv, ActivitiesBounded, SubjectsConserved, MinutesConserved
<1> QED BY <1>1, <1>2, <1>4, <1>5, <1>6, <1>7 DEF IInv

\* One pass of the loops of build_plan keeps the inductive invariant.
LEMMA NextInv ==
    ASSUME IInv, [Next]_vars
    PROVE  IInv'
<1>1. CASE StartDay
  BY <1>1, StartDayInv
<1>2. CASE PlaceItem
  BY <1>2, PlaceItemInv
<1>3. CASE DropActivity
  BY <1>3, DropActivityInv
<1>4. CASE EndDay
  BY <1>4, EndDayInv
<1>5. CASE UNCHANGED vars
  <2>1. Calendar' = Calendar
    BY <1>5 DEF vars, Calendar
  <2>2. TypeOK' /\ Accepted(plan)' /\ Loops' /\ NoneAhead' /\ RoomForBlocks'
    BY <1>5, <2>1 DEF IInv, vars, TypeOK, Loops, NoneAhead, RoomForBlocks
  <2>3. ActivitiesBounded' /\ SubjectsConserved' /\ MinutesConserved'
    BY <1>5 DEF IInv, vars, ActivitiesBounded, SubjectsConserved, MinutesConserved
  <2> QED BY <2>2, <2>3 DEF IInv
<1> QED BY <1>1, <1>2, <1>3, <1>4, <1>5 DEF Next

\* Wherever the loops of build_plan stand, the budgets, the items and the blocks
\* that are left account for each other.
THEOREM Invariant == Spec => []IInv
<1> QED BY InitInv, NextInv, PTL DEF Spec

-----------------------------------------------------------------------------
(***************************************************************************)
(* What the engine promises.                                               *)
(***************************************************************************)

\* No day is asked for more time than it has, and no item is shorter than 15
\* minutes, in every state of build_plan's loops.
THEOREM DaysFit == Spec => []DayWithinCapacity
<1>1. ASSUME IInv
      PROVE  DayWithinCapacity
  <2>1. TypeOK /\ Accepted(plan) /\ NoneAhead /\ RoomForBlocks
    BY <1>1 DEF IInv
  <2>2. ASSUME NEW d \in 1 .. Len(Calendar)
        PROVE  Minutes({k \in DOMAIN items : items[k].day = d}) <= Calendar[d]
    <3> DEFINE x == Spent(items, OnDay(items, d))
               left == IF d = day THEN Total(blocks) ELSE 0
    <3>1. Minutes({k \in DOMAIN items : items[k].day = d}) = x
      BY DEF Minutes, Spent, OnDay
    <3>2. x \in Nat
      BY <2>1, StateFacts, SpentIsNat DEF OnDay
    <3>3. left \in Nat
      BY <2>1, StateFacts, SeqTotal
    <3>4. Calendar[d] \in Nat
      BY <2>1, StateFacts
    <3>5. x + left <= Calendar[d]
      BY <2>1 DEF RoomForBlocks
    <3> HIDE DEF x, left
    <3> QED BY <3>1, <3>2, <3>3, <3>4, <3>5
  <2> QED BY <2>1, <2>2 DEF DayWithinCapacity, NoneAhead
<1> QED BY <1>1, Invariant, PTL

\* No activity gets more than its share of the capacity, the items of a
\* subject and what is left of it make up its budget, and the margin of
\* recovery stays free.
THEOREM BudgetsAreConserved == Spec => []BudgetsConserved
<1>1. ASSUME IInv
      PROVE  BudgetsConserved
  <2>1. /\ TypeOK /\ Accepted(plan)
        /\ ActivitiesBounded /\ SubjectsConserved /\ MinutesConserved
    BY <1>1 DEF IInv
  <2>2. \A a \in Activities :
          Minutes({k \in DOMAIN items : items[k].activity = a}) + activity[a]
             <= ActivityBudget(plan)[a]
    BY <2>1 DEF ActivitiesBounded, Minutes, Spent, OfActivity
  <2>3. PICK n \in Nat \ {0} : DOMAIN plan.weights = 1 .. n /\ subject \in [1 .. n -> Nat]
    BY <2>1, StateFacts
  <2>4. \A s \in DOMAIN subject :
          Minutes({k \in DOMAIN items : items[k].subject = s}) + subject[s]
             = SubjectBudget(plan)[s]
    BY <2>1, <2>3 DEF SubjectsConserved, Minutes, Spent, OfSubject
  <2>5. Minutes(DOMAIN items) <= Schedulable(plan)
    <3> DEFINE x == Spent(items, DOMAIN items)
    <3>1. x \in Nat /\ Minutes(DOMAIN items) = x
      BY <2>1, StateFacts, SpentIsNat DEF Minutes, Spent
    <3>2. Total(subject) \in Nat
      BY <2>3, TotalOfDomain
    <3>3. x + Total(subject) = Schedulable(plan)
      BY <2>1 DEF MinutesConserved
    <3> HIDE DEF x
    <3> QED BY <3>1, <3>2, <3>3
  <2> QED BY <2>1, <2>2, <2>4, <2>5 DEF BudgetsConserved
<1> QED BY <1>1, Invariant, PTL

\* Both roundings of a call, of its capacity by the percentages and of the
\* rest by the weights, lose nothing and favour no smaller weight.
THEOREM RoundingIsFair == Spec => []AllotmentIsFair
<1>1. ASSUME IInv
      PROVE  AllotmentIsFair
  <2>1. plan \in Plans /\ Accepted(plan)
    BY <1>1 DEF IInv, TypeOK
  <2> QED BY <2>1, Allotments DEF AllotmentIsFair
<1> QED BY <1>1, Invariant, PTL

\* Each day of the calendar is cut without a gap into blocks of 15 minutes or
\* more, or, only when it is shorter than two of them, lost.
THEOREM DaysAreCovered == Spec => []BlocksCoverDay
<1>1. ASSUME IInv
      PROVE  BlocksCoverDay
  <2>1. TypeOK /\ Accepted(plan) /\ plan \in Plans
    BY <1>1 DEF IInv, TypeOK
  <2>2. plan.preferred \in Nat /\ plan.preferred >= MinBlock
    BY <2>1, CallFacts
  <2>3. ASSUME NEW d \in 1 .. Len(Calendar)
        PROVE  LET cut == Blocks(Calendar[d], plan.preferred) IN
               /\ \A i \in DOMAIN cut : cut[i] >= MinBlock
               /\ cut # <<>> => Total(cut) = Calendar[d]
               /\ plan.preferred >= 2 * MinBlock =>
                    cut # <<>> /\ \A i \in DOMAIN cut : cut[i] <= plan.preferred
               /\ cut = <<>> => Calendar[d] < 2 * MinBlock
    <3> DEFINE minutes == Calendar[d]
               preferred == plan.preferred
    <3>1. minutes \in Nat /\ minutes >= MinBlock /\ preferred \in Nat /\ preferred >= MinBlock
      BY <2>1, <2>2, StateFacts
    <3> HIDE DEF minutes, preferred
    <3>2. LET cut == Blocks(minutes, preferred) IN
          /\ \A i \in DOMAIN cut : cut[i] >= MinBlock
          /\ cut # <<>> => Total(cut) = minutes
          /\ preferred >= 2 * MinBlock =>
               cut # <<>> /\ \A i \in DOMAIN cut : cut[i] <= preferred
          /\ cut = <<>> => minutes < 2 * MinBlock
      BY <3>1, BlocksFacts
    <3> QED BY <3>2 DEF minutes, preferred
  <2> QED BY <2>3 DEF BlocksCoverDay
<1> QED BY <1>1, Invariant, PTL

\* An activity is given up only when no choice of another activity or another
\* subject could have filled the block.
THEOREM NothingLost == Spec => NothingSchedulableLost
<1> DEFINE Lost(a) == activity[a] > 0 /\ activity'[a] = 0 /\ items' = items
           NoChoice == \/ \A b \in Activities : activity[b] < MinBlock
                       \/ \A s \in DOMAIN subject : subject[s] < MinBlock
<1>1. ASSUME IInv, [Next]_vars
      PROVE  [\A a \in Activities : Lost(a) => NoChoice]_vars
  <2>1. TypeOK /\ Accepted(plan) /\ Loops
    BY <1>1 DEF IInv
  <2>2. CASE DropActivity
    <3>1. /\ blocks # <<>> /\ Planned < MinBlock
      BY <2>2 DEF DropActivity
    <3>2. /\ \A b \in Activities : activity[b] <= activity[NextActivity]
          /\ \A s \in DOMAIN plan.weights : subject[s] <= subject[NextSubject]
          /\ activity[NextActivity] \in Nat /\ subject[NextSubject] \in Nat
          /\ \/ Planned = Head(blocks)
             \/ Planned = activity[NextActivity]
             \/ Planned = subject[NextSubject]
      BY <2>1, <3>1, PlannedFacts
    <3>3. Head(blocks) \in Nat /\ Head(blocks) >= MinBlock
      BY <2>1, <3>1, StateFacts, TotalOfTail DEF Loops
    <3>4. /\ \A b \in Activities : activity[b] \in Nat
          /\ DOMAIN subject = DOMAIN plan.weights
          /\ \A s \in DOMAIN subject : subject[s] \in Nat
      BY <2>1 DEF TypeOK
    <3> DEFINE y == activity[NextActivity]
               z == subject[NextSubject]
    <3>5. y < MinBlock \/ z < MinBlock
      BY <3>1, <3>2, <3>3 DEF MinBlock
    <3>6. CASE y < MinBlock
      BY <3>2, <3>4, <3>6 DEF MinBlock
    <3>7. CASE z < MinBlock
      BY <3>2, <3>4, <3>7 DEF MinBlock
    <3> QED BY <3>5, <3>6, <3>7
  <2>3. CASE PlaceItem
    <3>1. items \in Seq(Item) /\ \E it : items' = Append(items, it)
      BY <2>1, <2>3, StateFacts DEF PlaceItem
    <3>2. items' # items
      <4>1. PICK it : items' = Append(items, it)
        BY <3>1
      <4>2. Len(items') = Len(items) + 1 /\ Len(items) \in Nat
        BY <3>1, <4>1
      <4> QED BY <4>2
    <3> QED BY <3>2
  <2>4. CASE StartDay \/ EndDay
    <3>1. activity' = activity
      BY <2>4 DEF StartDay, EndDay
    <3> QED BY <3>1
  <2>5. CASE UNCHANGED vars
    BY <2>5
  <2> QED BY <1>1, <2>2, <2>3, <2>4, <2>5 DEF Next
<1> QED BY <1>1, Invariant, PTL DEF Spec, NothingSchedulableLost

\* What the loops of build_plan still have before them: the days to begin, the
\* day to end and the blocks to fill.
DaysAhead == Len(Calendar) - day
DayOpen == IF phase = "block" THEN 1 ELSE 0

\* Every pass of the loops has less before it, in this order, than the one
\* before, and none has less than nothing: no sequence of items placed,
\* activities given up and days ended can go on for ever.
THEOREM LoopsAdvance ==
    Spec => /\ [](DaysAhead \in Nat /\ DayOpen \in Nat /\ Len(blocks) \in Nat)
            /\ [][\/ DaysAhead' < DaysAhead
                  \/ DaysAhead' = DaysAhead /\ DayOpen' < DayOpen
                  \/ /\ DaysAhead' = DaysAhead /\ DayOpen' = DayOpen
                     /\ Len(blocks') < Len(blocks)]_vars
<1> DEFINE Counted == DaysAhead \in Nat /\ DayOpen \in Nat /\ Len(blocks) \in Nat
           Less == \/ DaysAhead' < DaysAhead
                   \/ DaysAhead' = DaysAhead /\ DayOpen' < DayOpen
                   \/ /\ DaysAhead' = DaysAhead /\ DayOpen' = DayOpen
                      /\ Len(blocks') < Len(blocks)
<1>1. ASSUME IInv
      PROVE  Counted
  <2>1. Len(Calendar) \in Nat /\ day \in 0 .. Len(Calendar) /\ blocks \in Seq(Nat)
    BY <1>1, StateFacts DEF IInv
  <2> QED BY <2>1 DEF DaysAhead, DayOpen
<1>2. ASSUME IInv, [Next]_vars
      PROVE  [Less]_vars
  <2>1. /\ Len(Calendar) \in Nat /\ day \in 0 .. Len(Calendar) /\ blocks \in Seq(Nat)
        /\ TypeOK /\ Accepted(plan)
    BY <1>2, StateFacts DEF IInv
  <2>2. CASE StartDay
    <3>1. DaysAhead' = Len(Calendar) - (day + 1)
      BY <2>2 DEF StartDay, DaysAhead, Calendar
    <3> QED BY <2>1, <3>1 DEF DaysAhead
  <2>3. CASE PlaceItem \/ DropActivity
    <3>1. /\ phase' = phase /\ day' = day /\ plan' = plan
          /\ blocks # <<>> /\ blocks' = Tail(blocks)
      BY <2>3 DEF PlaceItem, DropActivity
    <3>2. DaysAhead' = DaysAhead /\ DayOpen' = DayOpen
      BY <3>1 DEF DaysAhead, DayOpen, Calendar
    <3>3. Len(blocks') < Len(blocks)
      BY <2>1, <3>1
    <3> QED BY <3>2, <3>3
  <2>4. CASE EndDay
    <3>1. DaysAhead' = DaysAhead
      BY <2>4 DEF EndDay, DaysAhead, Calendar
    <3>2. DayOpen' = 0 /\ DayOpen = 1
      BY <2>4 DEF EndDay, DayOpen
    <3> QED BY <3>1, <3>2
  <2>5. CASE UNCHANGED vars
    BY <2>5
  <2> QED BY <1>2, <2>2, <2>3, <2>4, <2>5 DEF Next
<1> QED BY <1>1, <1>2, Invariant, PTL DEF Spec
=============================================================================
