-------------------------- MODULE StatisticsProofs --------------------------
(***************************************************************************)
(* Theorems about Statistics, for every set of clubs, meetups and members, *)
(* every calendar and every list of categories.                            *)
(***************************************************************************)
EXTENDS Statistics, FiniteSetTheorems, TLAPS

-----------------------------------------------------------------------------
(* Induction over finite sets: among sets of subsets, a smallest one. *)

LEMMA SmallestSet ==
  ASSUME NEW S, IsFiniteSet(S), NEW B \in SUBSET (SUBSET S), B # {}
  PROVE  \E T \in B : \A U \in SUBSET T : U # T => U \notin B
<1>1. PICK T \in B : \A U \in B : <<U, T>> \notin StrictSubsetOrdering(S)
  BY FS_StrictSubsetOrderingWellFounded, FS_FiniteSubsetsOfFinite, WFMin
<1>2. ASSUME NEW U \in SUBSET T, U # T, U \in B
      PROVE  FALSE
  BY <1>1, <1>2 DEF StrictSubsetOrdering
<1> QED BY <1>2

LEMMA SmallestNumber ==
  ASSUME NEW A \in SUBSET Nat, A # {}
  PROVE  \E m \in A : \A k \in A : m <= k
<1>1. PICK m \in A : \A k \in A : <<k, m>> \notin OpToRel(<, Nat)
  BY NatLessThanWellFounded, WFMin
<1>2. \A k \in A : k \in Nat /\ m \in Nat
  OBVIOUS
<1>3. \A k \in A : ~ (k < m)
  BY <1>1, <1>2 DEF OpToRel
<1> QED BY <1>2, <1>3

-----------------------------------------------------------------------------
(* Sums of a function over a finite set. *)

Pick(S) == CHOOSE x \in S : TRUE

\* g sums f over every subset of S.
Sums(g, f, S) ==
  g = [T \in SUBSET S |-> IF T = {} THEN 0 ELSE f[Pick(T)] + g[T \ {Pick(T)}]]

LEMMA SumIsFold ==
  ASSUME NEW f, NEW S
  PROVE  SumFunctionOnSet(f, S) = (CHOOSE g : Sums(g, f, S))[S]
BY DEF SumFunctionOnSet, FoldFunctionOnSet, MapThenFoldSet, Sums, Pick

LEMMA SumsAgree ==
  ASSUME NEW f, NEW S, NEW T, IsFiniteSet(S), IsFiniteSet(T),
         NEW g, Sums(g, f, S), NEW h, Sums(h, f, T),
         NEW R \in SUBSET S, R \in SUBSET T
  PROVE  g[R] = h[R]
<1> DEFINE B == {U \in SUBSET R : g[U] # h[U]}
<1>1. CASE B = {}
  BY <1>1
<1>2. CASE B # {}
  <2>1. IsFiniteSet(R)
    BY FS_Subset
  <2>2. PICK U \in B : \A V \in SUBSET U : V # U => V \notin B
    <3>1. B \in SUBSET (SUBSET R)
      OBVIOUS
    <3> HIDE DEF B
    <3> QED BY <1>2, <2>1, <3>1, SmallestSet
  <2>3. U \in SUBSET S /\ U \in SUBSET T
    OBVIOUS
  <2>4. /\ g[U] = IF U = {} THEN 0 ELSE f[Pick(U)] + g[U \ {Pick(U)}]
        /\ h[U] = IF U = {} THEN 0 ELSE f[Pick(U)] + h[U \ {Pick(U)}]
    BY <2>3 DEF Sums
  <2>5. CASE U = {}
    BY <2>4, <2>5
  <2>6. CASE U # {}
    <3>1. Pick(U) \in U
      BY <2>6 DEF Pick
    <3>2. g[U \ {Pick(U)}] = h[U \ {Pick(U)}]
      BY <2>2, <3>1
    <3> QED BY <2>4, <2>6, <3>2
  <2> QED BY <2>5, <2>6
<1> QED BY <1>1, <1>2

LEMMA SumsExist ==
  ASSUME NEW f, NEW S, IsFiniteSet(S)
  PROVE  \E g : Sums(g, f, S)
<1> DEFINE B == {T \in SUBSET S : ~ \E g : Sums(g, f, T)}
<1>1. CASE B = {}
  BY <1>1
<1>2. CASE B # {}
  <2>1. PICK T \in B : \A U \in SUBSET T : U # T => U \notin B
    <3>1. B \in SUBSET (SUBSET S)
      OBVIOUS
    <3> HIDE DEF B
    <3> QED BY <1>2, <3>1, SmallestSet
  <2>2. T \in SUBSET S /\ IsFiniteSet(T)
    BY FS_Subset
  <2> DEFINE part(U) == CHOOSE g : Sums(g, f, U)
             value(U) == IF U = T /\ T # {}
                           THEN f[Pick(T)] + part(T \ {Pick(T)})[T \ {Pick(T)}]
                           ELSE IF U = {} THEN 0 ELSE part(U)[U]
             whole == [U \in SUBSET T |-> value(U)]
  <2>3. \A U \in SUBSET T : U # T => Sums(part(U), f, U)
    BY <2>1, <2>2
  <2>4. ASSUME NEW U \in SUBSET T, U # {}
        PROVE  whole[U] = f[Pick(U)] + whole[U \ {Pick(U)}]
    <3>1. /\ Pick(U) \in U /\ U \ {Pick(U)} \in SUBSET T
          /\ U \ {Pick(U)} # U /\ U \ {Pick(U)} # T
      BY <2>4 DEF Pick
    <3> DEFINE V == U \ {Pick(U)}
    <3>2. Sums(part(V), f, V)
      BY <2>3, <3>1
    <3>3. V = {} => part(V)[V] = 0
      <4> HIDE DEF part, V
      <4> QED BY <3>2 DEF Sums
    <3>4. whole[V] = part(V)[V]
      <4> HIDE DEF part
      <4> QED BY <3>1, <3>3
    <3>5. CASE U = T
      <4> HIDE DEF part
      <4> QED BY <2>4, <3>4, <3>5
    <3>6. CASE U # T
      <4>1. Sums(part(U), f, U)
        BY <2>3, <3>6
      <4>2. part(U)[V] = part(V)[V]
        <5>1. IsFiniteSet(U) /\ IsFiniteSet(V)
          BY <2>2, FS_Subset
        <5> HIDE DEF part
        <5> QED BY <5>1, <4>1, <3>2, SumsAgree
      <4>3. part(U)[U] = f[Pick(U)] + part(U)[V]
        <5> HIDE DEF part
        <5> QED BY <4>1, <2>4 DEF Sums
      <4>4. whole[U] = part(U)[U]
        <5> HIDE DEF part
        <5> QED BY <2>4, <3>6
      <4> HIDE DEF part, whole
      <4> QED BY <4>2, <4>3, <4>4, <3>4
    <3> QED BY <3>5, <3>6
  <2>5. whole[{}] = 0
    BY SMT
  <2>6. Sums(whole, f, T)
    <3>1. \A U \in SUBSET T : whole[U] = IF U = {} THEN 0 ELSE f[Pick(U)] + whole[U \ {Pick(U)}]
      <4> HIDE DEF whole
      <4> QED BY <2>4, <2>5
    <3>2. whole = [U \in SUBSET T |-> whole[U]]
      <4> HIDE DEF value
      <4> QED OBVIOUS
    <3> HIDE DEF whole
    <3> QED BY <3>1, <3>2 DEF Sums
  <2> QED BY <2>1, <2>6
<1> QED BY <1>1, <1>2

LEMMA SumOfEmpty ==
  ASSUME NEW f
  PROVE  SumFunctionOnSet(f, {}) = 0
<1>1. PICK g : Sums(g, f, {})
  BY SumsExist, FS_EmptySet
<1>2. Sums(CHOOSE h : Sums(h, f, {}), f, {})
  BY <1>1
<1> DEFINE h == CHOOSE h : Sums(h, f, {})
<1>3. h[{}] = 0
  <2> HIDE DEF h
  <2>1. Sums(h, f, {})
    BY <1>2 DEF h
  <2> QED BY <2>1 DEF Sums
<1> QED BY <1>3, SumIsFold

LEMMA SumStep ==
  ASSUME NEW f, NEW S, IsFiniteSet(S), S # {}
  PROVE  /\ Pick(S) \in S
         /\ SumFunctionOnSet(f, S) = f[Pick(S)] + SumFunctionOnSet(f, S \ {Pick(S)})
<1> DEFINE R == S \ {Pick(S)}
           g == CHOOSE g : Sums(g, f, S)
           h == CHOOSE h : Sums(h, f, R)
<1>1. Pick(S) \in S
  BY DEF Pick
<1>2. IsFiniteSet(R)
  BY FS_Subset
<1>3. Sums(g, f, S)
  BY SumsExist
<1>4. Sums(h, f, R)
  BY <1>2, SumsExist
<1>5. SumFunctionOnSet(f, S) = g[S] /\ SumFunctionOnSet(f, R) = h[R]
  BY SumIsFold
<1> HIDE DEF g, h
<1>6. g[R] = h[R]
  BY <1>2, <1>3, <1>4, SumsAgree
<1>7. g[S] = f[Pick(S)] + g[R]
  BY <1>3 DEF Sums
<1> QED BY <1>1, <1>5, <1>6, <1>7

\* A set of natural numbers has a sum.
LEMMA SumInNat ==
  ASSUME NEW f, NEW S, IsFiniteSet(S), \A x \in S : f[x] \in Nat
  PROVE  SumFunctionOnSet(f, S) \in Nat
<1> DEFINE B == {T \in SUBSET S : SumFunctionOnSet(f, T) \notin Nat}
<1>1. ASSUME B # {}
      PROVE  FALSE
  <2>1. PICK T \in B : \A U \in SUBSET T : U # T => U \notin B
    <3>1. B \in SUBSET (SUBSET S)
      OBVIOUS
    <3> HIDE DEF B
    <3> QED BY <1>1, <3>1, SmallestSet
  <2>2. IsFiniteSet(T)
    BY FS_Subset
  <2>3. T # {}
    BY SumOfEmpty
  <2>4. Pick(T) \in T /\ SumFunctionOnSet(f, T) = f[Pick(T)] + SumFunctionOnSet(f, T \ {Pick(T)})
    BY <2>2, <2>3, SumStep
  <2>5. SumFunctionOnSet(f, T \ {Pick(T)}) \in Nat
    BY <2>1, <2>4
  <2> QED BY <2>4, <2>5
<1> QED BY <1>1

\* Any element may be taken out first.
LEMMA SumRemove ==
  ASSUME NEW f, NEW S, IsFiniteSet(S), \A x \in S : f[x] \in Nat, NEW x \in S
  PROVE  SumFunctionOnSet(f, S) = f[x] + SumFunctionOnSet(f, S \ {x})
<1> DEFINE B == {T \in SUBSET S : \E y \in T :
                   SumFunctionOnSet(f, T) # f[y] + SumFunctionOnSet(f, T \ {y})}
<1>1. ASSUME B # {}
      PROVE  FALSE
  <2>1. PICK T \in B : \A U \in SUBSET T : U # T => U \notin B
    <3>1. B \in SUBSET (SUBSET S)
      OBVIOUS
    <3> HIDE DEF B
    <3> QED BY <1>1, <3>1, SmallestSet
  <2>2. PICK y \in T : SumFunctionOnSet(f, T) # f[y] + SumFunctionOnSet(f, T \ {y})
    OBVIOUS
  <2>3. \A U \in SUBSET T : IsFiniteSet(U)
    BY FS_Subset
  <2> DEFINE p == Pick(T)
  <2>4. p \in T /\ SumFunctionOnSet(f, T) = f[p] + SumFunctionOnSet(f, T \ {p})
    BY <2>2, <2>3, SumStep
  <2> HIDE DEF p
  <2>5. p # y
    BY <2>2, <2>4
  <2>6. SumFunctionOnSet(f, T \ {p}) = f[y] + SumFunctionOnSet(f, (T \ {p}) \ {y})
    BY <2>1, <2>4, <2>5
  <2>7. SumFunctionOnSet(f, T \ {y}) = f[p] + SumFunctionOnSet(f, (T \ {y}) \ {p})
    BY <2>1, <2>4, <2>5
  <2>8. (T \ {p}) \ {y} = (T \ {y}) \ {p}
    OBVIOUS
  <2>9. /\ f[p] \in Nat /\ f[y] \in Nat
        /\ SumFunctionOnSet(f, (T \ {y}) \ {p}) \in Nat
    <3>1. (T \ {y}) \ {p} \in SUBSET T /\ \A z \in T : f[z] \in Nat
      OBVIOUS
    <3> QED BY <2>3, <2>4, <3>1, SumInNat
  <2>10. \A i, j, k \in Nat : i + (j + k) = j + (i + k)
    OBVIOUS
  <2>11. f[p] + (f[y] + SumFunctionOnSet(f, (T \ {y}) \ {p}))
           = f[y] + (f[p] + SumFunctionOnSet(f, (T \ {y}) \ {p}))
    BY <2>9, <2>10
  <2> QED BY <2>2, <2>4, <2>6, <2>7, <2>8, <2>11, Zenon
<1> QED BY <1>1

LEMMA SumSame ==
  ASSUME NEW f, NEW h, NEW S, IsFiniteSet(S), \A x \in S : f[x] = h[x]
  PROVE  SumFunctionOnSet(f, S) = SumFunctionOnSet(h, S)
<1> DEFINE B == {T \in SUBSET S : SumFunctionOnSet(f, T) # SumFunctionOnSet(h, T)}
<1>1. ASSUME B # {}
      PROVE  FALSE
  <2>1. PICK T \in B : \A U \in SUBSET T : U # T => U \notin B
    <3>1. B \in SUBSET (SUBSET S)
      OBVIOUS
    <3> HIDE DEF B
    <3> QED BY <1>1, <3>1, SmallestSet
  <2>2. IsFiniteSet(T)
    BY FS_Subset
  <2>3. T # {}
    BY SumOfEmpty
  <2>4. /\ Pick(T) \in T
        /\ SumFunctionOnSet(f, T) = f[Pick(T)] + SumFunctionOnSet(f, T \ {Pick(T)})
        /\ SumFunctionOnSet(h, T) = h[Pick(T)] + SumFunctionOnSet(h, T \ {Pick(T)})
    BY <2>2, <2>3, SumStep
  <2>5. SumFunctionOnSet(f, T \ {Pick(T)}) = SumFunctionOnSet(h, T \ {Pick(T)})
    BY <2>1, <2>4
  <2> QED BY <2>4, <2>5
<1> QED BY <1>1

\* Zeros may be left out.
LEMMA SumWithoutZeros ==
  ASSUME NEW f, NEW S, IsFiniteSet(S), \A x \in S : f[x] \in Nat,
         NEW R \in SUBSET S, \A x \in S \ R : f[x] = 0
  PROVE  SumFunctionOnSet(f, S) = SumFunctionOnSet(f, R)
<1> DEFINE B == {T \in SUBSET S : R \subseteq T /\ SumFunctionOnSet(f, T) # SumFunctionOnSet(f, R)}
<1>1. ASSUME B # {}
      PROVE  FALSE
  <2>1. PICK T \in B : \A U \in SUBSET T : U # T => U \notin B
    <3>1. B \in SUBSET (SUBSET S)
      OBVIOUS
    <3> HIDE DEF B
    <3> QED BY <1>1, <3>1, SmallestSet
  <2>2. \A U \in SUBSET T : IsFiniteSet(U)
    BY FS_Subset
  <2>3. PICK x \in T : x \notin R
    OBVIOUS
  <2>4. SumFunctionOnSet(f, T) = f[x] + SumFunctionOnSet(f, T \ {x})
    BY <2>2, SumRemove
  <2>5. SumFunctionOnSet(f, T \ {x}) = SumFunctionOnSet(f, R)
    BY <2>1, <2>3
  <2>6. SumFunctionOnSet(f, R) \in Nat
    BY <2>2, SumInNat
  <2> QED BY <2>3, <2>4, <2>5, <2>6
<1> QED BY <1>1

\* One more at x is one more in the sum.
LEMMA SumRaised ==
  ASSUME NEW f, NEW h, NEW S, IsFiniteSet(S), NEW x \in S, NEW n \in Nat,
         \A y \in S : f[y] \in Nat /\ h[y] = IF y = x THEN f[y] + n ELSE f[y]
  PROVE  SumFunctionOnSet(h, S) = n + SumFunctionOnSet(f, S)
<1>1. IsFiniteSet(S \ {x})
  BY FS_Subset
<1>2. SumFunctionOnSet(h, S \ {x}) = SumFunctionOnSet(f, S \ {x})
  BY <1>1, SumSame
<1>3. SumFunctionOnSet(f, S) = f[x] + SumFunctionOnSet(f, S \ {x})
  BY SumRemove
<1>4. \A y \in S : h[y] \in Nat
  OBVIOUS
<1>5. SumFunctionOnSet(h, S) = h[x] + SumFunctionOnSet(h, S \ {x})
  BY <1>4, SumRemove
<1>6. SumFunctionOnSet(f, S \ {x}) \in Nat
  BY <1>1, SumInNat
<1> QED BY <1>2, <1>3, <1>5, <1>6

\* The sum of a set is that of its parts.
LEMMA SumByParts ==
  ASSUME NEW f, NEW S, IsFiniteSet(S), \A x \in S : f[x] \in Nat,
         NEW P, IsFiniteSet(P), NEW part, \A x \in S : part[x] \in P
  PROVE  SumFunctionOnSet(f, S)
           = SumFunctionOnSet([c \in P |-> SumFunctionOnSet(f, {x \in S : part[x] = c})], P)
<1> DEFINE In(T, c) == {x \in T : part[x] = c}
           ByPart(T) == [c \in P |-> SumFunctionOnSet(f, In(T, c))]
           B == {T \in SUBSET S : SumFunctionOnSet(f, T) # SumFunctionOnSet(ByPart(T), P)}
<1>1. ASSUME B # {}
      PROVE  FALSE
  <2>1. PICK T \in B : \A U \in SUBSET T : U # T => U \notin B
    <3>1. B \in SUBSET (SUBSET S)
      OBVIOUS
    <3> HIDE DEF B
    <3> QED BY <1>1, <3>1, SmallestSet
  <2>2. \A U \in SUBSET T : IsFiniteSet(U)
    BY FS_Subset
  <2>3. CASE T = {}
    <3>1. \A c \in P : ByPart(T)[c] = 0
      <4>1. \A c : In(T, c) = {}
        BY <2>3
      <4> HIDE DEF In
      <4> QED BY <4>1, SumOfEmpty
    <3>2. SumFunctionOnSet(ByPart(T), P) = SumFunctionOnSet(ByPart(T), {})
      <4> HIDE DEF ByPart
      <4> QED BY <3>1, SumWithoutZeros
    <3>3. SumFunctionOnSet(f, T) = SumFunctionOnSet(ByPart(T), P)
      <4> HIDE DEF ByPart
      <4> QED BY <3>2, <2>3, SumOfEmpty
    <3> QED BY <3>3
  <2>4. CASE T # {}
    <3>1. PICK x \in T : TRUE
      BY <2>4
    <3> DEFINE R == T \ {x}
    <3>2. SumFunctionOnSet(f, R) = SumFunctionOnSet(ByPart(R), P)
      <4>1. R \in SUBSET T /\ R # T /\ R \in SUBSET S
        OBVIOUS
      <4> HIDE DEF R, ByPart
      <4> QED BY <2>1, <4>1
    <3>3. SumFunctionOnSet(f, T) = f[x] + SumFunctionOnSet(f, R)
      BY <2>2, SumRemove
    <3>4. f[x] \in Nat /\ part[x] \in P
      OBVIOUS
    <3>5. ASSUME NEW c \in P
          PROVE  /\ ByPart(R)[c] \in Nat
                 /\ ByPart(T)[c] = IF c = part[x] THEN ByPart(R)[c] + f[x] ELSE ByPart(R)[c]
      <4>1. In(R, c) \in SUBSET T /\ In(T, c) \in SUBSET T /\ \A y \in T : f[y] \in Nat
        OBVIOUS
      <4>2. IsFiniteSet(In(R, c)) /\ IsFiniteSet(In(T, c))
        BY <2>2, <4>1
      <4>3. SumFunctionOnSet(f, In(R, c)) \in Nat
        <5> HIDE DEF In
        <5> QED BY <4>1, <4>2, SumInNat
      <4>4. CASE c = part[x]
        <5>1. x \in In(T, c) /\ In(T, c) \ {x} = In(R, c)
          BY <4>4
        <5>2. SumFunctionOnSet(f, In(T, c)) = f[x] + SumFunctionOnSet(f, In(R, c))
          <6> DEFINE I == In(T, c)
          <6>1. /\ IsFiniteSet(I) /\ x \in I /\ I \ {x} = In(R, c)
                /\ \A y \in I : f[y] \in Nat
            BY <4>1, <4>2, <5>1
          <6> HIDE DEF I
          <6>2. SumFunctionOnSet(f, I) = f[x] + SumFunctionOnSet(f, I \ {x})
            BY <6>1, SumRemove
          <6> HIDE DEF In
          <6> QED BY <6>1, <6>2 DEF I
        <5> HIDE DEF In
        <5> QED BY <3>4, <4>3, <4>4, <5>2
      <4>5. CASE c # part[x]
        <5>1. In(T, c) = In(R, c)
          BY <4>5
        <5> HIDE DEF In
        <5> QED BY <4>3, <4>5, <5>1
      <4> QED BY <4>4, <4>5
    <3>6. SumFunctionOnSet(ByPart(T), P) = f[x] + SumFunctionOnSet(ByPart(R), P)
      <4> DEFINE before == ByPart(R)
                 after == ByPart(T)
                 k == part[x]
                 n == f[x]
      <4>1. /\ k \in P /\ n \in Nat
            /\ \A c \in P : before[c] \in Nat
                            /\ after[c] = IF c = k THEN before[c] + n ELSE before[c]
        <5> HIDE DEF ByPart
        <5> QED BY <3>4, <3>5
      <4> HIDE DEF before, after, k, n
      <4>2. SumFunctionOnSet(after, P) = n + SumFunctionOnSet(before, P)
        BY <4>1, SumRaised
      <4> HIDE DEF ByPart
      <4> QED BY <4>2 DEF before, after, n
    <3>7. SumFunctionOnSet(f, T) = SumFunctionOnSet(ByPart(T), P)
      <4> HIDE DEF ByPart
      <4> QED BY <3>2, <3>3, <3>6
    <3> QED BY <3>7
  <2> QED BY <2>3, <2>4
<1> QED BY <1>1

-----------------------------------------------------------------------------
(* Months: the calendar is ordered, and every day of it is in a month. *)

LEMMA FirstsAreOrdered ==
  /\ \A i \in 1..7 : Firsts[i] \in Int
  /\ \A i, j \in 1..7 : i <= j => Firsts[i] <= Firsts[j]
<1>1. \A i \in 1..7 : Firsts[i] \in Int
  BY StatisticsAssumption
<1>2. \A i \in 1..6 : Firsts[i] < Firsts[i + 1]
  BY StatisticsAssumption DEF Months
<1>3. /\ Firsts[1] < Firsts[1 + 1] /\ Firsts[2] < Firsts[2 + 1] /\ Firsts[3] < Firsts[3 + 1]
      /\ Firsts[4] < Firsts[4 + 1] /\ Firsts[5] < Firsts[5 + 1] /\ Firsts[6] < Firsts[6 + 1]
  BY <1>2
<1>4. /\ Firsts[1] < Firsts[2] /\ Firsts[2] < Firsts[3] /\ Firsts[3] < Firsts[4]
      /\ Firsts[4] < Firsts[5] /\ Firsts[5] < Firsts[6] /\ Firsts[6] < Firsts[7]
  BY <1>3
<1>5. \A i \in 1..7 : i = 1 \/ i = 2 \/ i = 3 \/ i = 4 \/ i = 5 \/ i = 6 \/ i = 7
  OBVIOUS
<1>6. \A i, j \in 1..7 : i <= j => Firsts[i] <= Firsts[j]
  BY <1>1, <1>4, <1>5
<1> QED BY <1>1, <1>6

LEMMA MonthOfDay ==
  ASSUME NEW d \in Todays
  PROVE  /\ MonthOf(d) \in 1..6
         /\ Firsts[MonthOf(d)] <= d
         /\ d \in Int /\ Firsts[1] <= d
<1>1. d \in Int /\ Firsts[1] <= d /\ d < Firsts[7]
  BY StatisticsAssumption
<1>2. \E i \in 1..6 : Firsts[i] <= d /\ d < Firsts[i + 1]
  <2>1. ASSUME \A i \in 1..6 : ~ (Firsts[i] <= d /\ d < Firsts[i + 1])
        PROVE  FALSE
    <3>1. \A i \in 1..7 : Firsts[i] \in Int
      BY FirstsAreOrdered
    <3>2. Firsts[2] <= d
      BY <1>1, <2>1, <3>1
    <3>3. Firsts[3] <= d
      BY <1>1, <2>1, <3>1, <3>2
    <3>4. Firsts[4] <= d
      BY <1>1, <2>1, <3>1, <3>3
    <3>5. Firsts[5] <= d
      BY <1>1, <2>1, <3>1, <3>4
    <3>6. Firsts[6] <= d
      BY <1>1, <2>1, <3>1, <3>5
    <3> QED BY <1>1, <2>1, <3>1, <3>6
  <2> QED BY <2>1
<1>3. MonthOf(d) \in 1..6 /\ Firsts[MonthOf(d)] <= d
  BY <1>2 DEF MonthOf, Months
<1> QED BY <1>1, <1>3

-----------------------------------------------------------------------------
(* What is never wrong of the tables and of a request. *)

Days == [from : Int, to : Int]

Requests ==
  [range : Days, quarter : Quarters \cup {Unset}, creator : Creators \cup {Unset},
   ca : BOOLEAN, month : Int, selected : SUBSET Clubs]

Typed ==
  /\ clubs \subseteq Clubs
  /\ rsvps \in [Events -> [Members -> Statuses]]
  /\ today \in Todays
  /\ request \in Requests

LEMMA NoRequestTyped == NoRequest \in Requests
BY DEF NoRequest, Requests, Days

LEMMA ClubRequestTyped ==
  ASSUME NEW r, r \in Requests, NEW d \in Days, NEW q \in Quarters \cup {Unset},
         NEW c \in Creators \cup {Unset}, NEW b \in BOOLEAN
  PROVE  [r EXCEPT !.range = d, !.quarter = q, !.creator = c, !.ca = b] \in Requests
BY DEF Requests

LEMMA EventRequestTyped ==
  ASSUME NEW r, r \in Requests, NEW S \in SUBSET Clubs
  PROVE  [r EXCEPT !.selected = S] \in Requests
BY DEF Requests

LEMMA QuarterBegins ==
  ASSUME Typed, NEW q \in GetQuarters \cup {Unset}
  PROVE  /\ QuarterStart(q) \in {1, 4}
         /\ GetRangeFromQuarter(q) \in Days
         /\ GetRangeFromQuarter(q).from <= today
<1>1. QuarterStart(q) \in {1, 4}
  BY DEF QuarterStart
<1>2. Firsts[QuarterStart(q)] \in Int /\ Firsts[QuarterStart(q) + 3] \in Int
  <2>1. Firsts[1] \in Int /\ Firsts[4] \in Int /\ Firsts[7] \in Int
    BY FirstsAreOrdered
  <2>2. CASE QuarterStart(q) = 1
    BY <2>1, <2>2
  <2>3. CASE QuarterStart(q) = 4
    BY <2>1, <2>3
  <2> QED BY <1>1, <2>2, <2>3
<1>3. Firsts[QuarterStart(q)] <= today
  <2>1. CASE q \in GetQuarters
    BY <2>1 DEF GetQuarters
  <2>2. CASE q = Unset
    <3>1. QuarterStart(q) = IF MonthOf(today) < 4 THEN 1 ELSE 4
      BY <2>2 DEF QuarterStart, Unset
    <3>2. MonthOf(today) \in 1..6 /\ Firsts[MonthOf(today)] <= today /\ today \in Int
      BY MonthOfDay DEF Typed
    <3>3. Firsts[QuarterStart(q)] <= Firsts[MonthOf(today)]
      <4>1. QuarterStart(q) \in 1..7 /\ MonthOf(today) \in 1..7
            /\ QuarterStart(q) <= MonthOf(today)
        BY <3>1, <3>2
      <4> QED BY <4>1, FirstsAreOrdered
    <3>4. Firsts[MonthOf(today)] \in Int
      BY <3>2, FirstsAreOrdered
    <3> QED BY <1>2, <3>2, <3>3, <3>4
  <2> QED BY <2>1, <2>2
<1> QED BY <1>1, <1>2, <1>3 DEF GetRangeFromQuarter, MonthsFrom, Days

LEMMA TypedInit == Init => Typed
<1> SUFFICES ASSUME Init PROVE Typed
  OBVIOUS
<1>1. NoRequest \in Requests
  BY NoRequestTyped
<1>2. rsvps \in [Events -> [Members -> Statuses]]
  BY StatisticsAssumption DEF Init
<1> QED BY <1>1, <1>2 DEF Init, Typed

LEMMA TypedStep ==
  ASSUME Typed, [Next]_vars
  PROVE  Typed'
<1> USE DEF Typed
<1>1. ASSUME NEW c \in Clubs, InsertClub(c)
      PROVE  Typed'
  BY <1>1 DEF InsertClub, results
<1>2. ASSUME NEW e \in Events, NEW m \in Members, NEW s \in Statuses, UpsertRSVP(e, m, s)
      PROVE  Typed'
  BY <1>2 DEF UpsertRSVP, results
<1>3. CASE NextDay
  BY <1>3 DEF NextDay, results, tables
<1>4. ASSUME NEW p \in Pages, p.quarter \in GetQuarters \cup {Unset},
             TrackerClubStats(p.quarter, p.creator, p.ca)
      PROVE  Typed'
  <2>1. p \in [quarter : Quarters \cup {Unset}, creator : Creators \cup {Unset}, ca : BOOLEAN]
    BY StatisticsAssumption
  <2>2. GetRangeFromQuarter(p.quarter) \in Days
    BY <1>4, QuarterBegins
  <2>3. request' \in Requests
    BY <1>4, <2>1, <2>2, NoRequestTyped, ClubRequestTyped DEF TrackerClubStats
  <2> QED BY <1>4, <2>3 DEF TrackerClubStats, results, tables
<1>5. CASE ReadTotals
  BY <1>5 DEF ReadTotals, tables
<1>6. CASE ReadCounts
  <2>1. MonthOf(today) + 1 \in Int
    BY MonthOfDay
  <2>2. request' \in Requests
    BY <1>6, <2>1 DEF ReadCounts, Requests
  <2> QED BY <1>6, <2>2 DEF ReadCounts, tables
<1>7. CASE ReadMonth
  BY <1>7 DEF ReadMonth, tables
<1>8. CASE ReadLeague
  BY <1>8 DEF ReadLeague, tables
<1>9. ASSUME NEW S \in SUBSET Clubs, TrackerEventStats(S)
      PROVE  Typed'
  <2>1. request' \in Requests
    BY <1>9, NoRequestTyped, EventRequestTyped DEF TrackerEventStats
  <2> QED BY <1>9, <2>1 DEF TrackerEventStats, results, tables
<1>10. CASE ReadClubOptions
  BY <1>10 DEF ReadClubOptions, tables
<1>11. CASE ReadRSVPs
  BY <1>11 DEF ReadRSVPs, tables
<1>12. CASE Render
  BY <1>12, NoRequestTyped DEF Render, tables
<1>13. CASE UNCHANGED vars
  BY <1>13 DEF vars, tables
<1> QED BY <1>1, <1>2, <1>3, <1>4, <1>5, <1>6, <1>7, <1>8, <1>9, <1>10, <1>11, <1>12, <1>13 DEF Next

LEMMA TypedInvariant == Spec => []Typed
BY TypedInit, TypedStep, PTL DEF Spec

-----------------------------------------------------------------------------
(* The page of an event. *)

LEMMA BestOfRanks ==
  ASSUME NEW R \in SUBSET (0..2), R # {}
  PROVE  /\ Max(R) \in R
         /\ Max(R) >= 2 <=> 2 \in R
<1>1. \E x \in R : \A y \in R : x >= y
  <2>1. CASE 2 \in R
    BY <2>1
  <2>2. CASE 2 \notin R /\ 1 \in R
    <3>1. \A y \in R : 1 >= y
      BY <2>2
    <3> QED BY <2>2, <3>1
  <2>3. CASE 2 \notin R /\ 1 \notin R
    <3>1. \A y \in R : y = 0
      BY <2>3
    <3>2. PICK y \in R : TRUE
      OBVIOUS
    <3>3. 0 \in R
      BY <3>1, <3>2
    <3>4. \A x \in R : 0 >= x
      BY <3>1
    <3> QED BY <3>3, <3>4
  <2> QED BY <2>1, <2>2, <2>3
<1>2. Max(R) \in R /\ \A y \in R : Max(R) >= y
  BY <1>1 DEF Max
<1>3. Max(R) \in 0..2
  BY <1>2
<1>4. Max(R) >= 2 => Max(R) = 2
  BY <1>3
<1>5. 2 \in R => Max(R) >= 2
  BY <1>2
<1> QED BY <1>2, <1>4, <1>5

Rows(C) == [club : C, live : LiveEvents, member : Members, rank : 0..2]

\* The best rank is that of a check-in as soon as one row is.
LEMMA RankOfCheckIn ==
  ASSUME NEW R, \A w \in R : w.rank \in 0..2, NEW l, NEW m
  PROVE  RankAt(R, l, m) >= 2 <=> \E w \in R : w.live = l /\ w.member = m /\ w.rank >= 2
<1> DEFINE Q == {0} \cup {w.rank : w \in {w \in R : w.live = l /\ w.member = m}}
<1>2. Q \in SUBSET (0..2) /\ Q # {}
  OBVIOUS
<1>3. 2 \in Q <=> \E w \in R : w.live = l /\ w.member = m /\ w.rank = 2
  OBVIOUS
<1>4. RankAt(R, l, m) = Max(Q)
  BY DEF RankAt
<1> HIDE DEF Q
<1>5. RankAt(R, l, m) >= 2 <=> 2 \in Q
  BY <1>2, <1>4, BestOfRanks
<1>6. \A w \in R : w.rank >= 2 <=> w.rank = 2
  OBVIOUS
<1> QED BY <1>3, <1>5, <1>6

\* The rows of a query are typed, and the rank of a row is that of a check-in
\* just when there is one at a meetup of its club.
LEMMA RowsRead ==
  ASSUME Typed, NEW C \in SUBSET Clubs
  PROVE  /\ GetLiveEventRSVPs(C) \in SUBSET Rows(C)
         /\ \A l \in LiveEvents, m \in Members :
              (\E w \in GetLiveEventRSVPs(C) : w.live = l /\ w.member = m /\ w.rank >= 2)
                <=> \E e \in Events : /\ e.club \in C /\ e.live = l
                                    /\ rsvps[e][m] = "CHECKED_IN"
         /\ \A w \in GetLiveEventRSVPs(C) :
              \E e \in Events : e.club = w.club /\ rsvps[e][w.member] # "NONE"
<1> DEFINE Ranks(c, l, m) ==
             {StatusRank(rsvps[e][m]) :
                e \in {f \in Events : f.club = c /\ f.live = l /\ rsvps[f][m] # "NONE"}}
           Keys == {k \in C \X LiveEvents \X Members : Ranks(k[1], k[2], k[3]) # {}}
           Row(k) == [club |-> k[1], live |-> k[2], member |-> k[3],
                      rank |-> BestRank(Ranks(k[1], k[2], k[3]))]
<1>1. GetLiveEventRSVPs(C) = {Row(k) : k \in Keys}
  BY DEF GetLiveEventRSVPs
<1>2. \A c, l, m : Ranks(c, l, m) \in SUBSET (0..2)
  BY DEF StatusRank
<1>3. ASSUME NEW c, NEW l, NEW m \in Members
      PROVE  2 \in Ranks(c, l, m)
               <=> \E e \in Events : e.club = c /\ e.live = l /\ rsvps[e][m] = "CHECKED_IN"
  <2>1. \A e \in Events : StatusRank(rsvps[e][m]) = 2 <=> rsvps[e][m] = "CHECKED_IN"
    BY DEF StatusRank
  <2> QED BY <2>1
<1>4. ASSUME NEW k \in Keys
      PROVE  /\ k[1] \in C /\ k[2] \in LiveEvents /\ k[3] \in Members
             /\ Row(k).rank \in 0..2
             /\ Row(k).rank >= 2 <=> 2 \in Ranks(k[1], k[2], k[3])
  <2>1. Ranks(k[1], k[2], k[3]) # {} /\ k[1] \in C /\ k[2] \in LiveEvents /\ k[3] \in Members
    OBVIOUS
  <2>2. Row(k).rank = Max(Ranks(k[1], k[2], k[3]))
    BY DEF BestRank
  <2> HIDE DEF Ranks, Row, Keys
  <2> DEFINE R == Ranks(k[1], k[2], k[3])
  <2>3. R \in SUBSET (0..2) /\ R # {}
    BY <1>2, <2>1
  <2> HIDE DEF R
  <2>4. Max(R) \in R /\ (Max(R) >= 2 <=> 2 \in R)
    BY <2>3, BestOfRanks
  <2> QED BY <2>1, <2>2, <2>3, <2>4 DEF R
<1>5. GetLiveEventRSVPs(C) \in SUBSET Rows(C)
  <2>1. \A k : Row(k) = [club |-> k[1], live |-> k[2], member |-> k[3], rank |-> Row(k).rank]
    OBVIOUS
  <2> HIDE DEF Ranks, Row, Keys
  <2> QED BY <1>1, <1>4, <2>1 DEF Rows
<1>6. ASSUME NEW l \in LiveEvents, NEW m \in Members
      PROVE  (\E w \in GetLiveEventRSVPs(C) : w.live = l /\ w.member = m /\ w.rank >= 2)
               <=> \E e \in Events : /\ e.club \in C /\ e.live = l
                                   /\ rsvps[e][m] = "CHECKED_IN"
  <2>1. \A k : Row(k).live = k[2] /\ Row(k).member = k[3]
    OBVIOUS
  <2>2. ASSUME NEW c \in C, 2 \in Ranks(c, l, m)
        PROVE  \E k \in Keys : k[1] = c /\ k[2] = l /\ k[3] = m
    <3>1. <<c, l, m>> \in Keys
      BY <2>2
    <3> QED BY <3>1
  <2> HIDE DEF Ranks, Row, Keys
  <2>3. ASSUME NEW k \in Keys, Row(k).live = l, Row(k).member = m, Row(k).rank >= 2
        PROVE  \E e \in Events : e.club \in C /\ e.live = l /\ rsvps[e][m] = "CHECKED_IN"
    BY <1>3, <1>4, <2>1, <2>3
  <2>4. ASSUME NEW e \in Events, e.club \in C, e.live = l, rsvps[e][m] = "CHECKED_IN"
        PROVE  \E k \in Keys : Row(k).live = l /\ Row(k).member = m /\ Row(k).rank >= 2
    <3>1. 2 \in Ranks(e.club, l, m)
      BY <1>3, <2>4
    <3>2. PICK k \in Keys : k[1] = e.club /\ k[2] = l /\ k[3] = m
      BY <2>2, <2>4, <3>1
    <3> QED BY <1>4, <2>1, <3>1, <3>2
  <2> QED BY <1>1, <2>3, <2>4
<1>7. ASSUME NEW w \in GetLiveEventRSVPs(C)
      PROVE  \E e \in Events : e.club = w.club /\ rsvps[e][w.member] # "NONE"
  <2>1. PICK k \in Keys : w = Row(k)
    BY <1>1, <1>7
  <2>2. Ranks(k[1], k[2], k[3]) # {}
    OBVIOUS
  <2>3. PICK e \in Events : e.club = k[1] /\ rsvps[e][k[3]] # "NONE"
    BY <2>2
  <2>4. w.club = k[1] /\ w.member = k[3]
    BY <2>1
  <2> HIDE DEF Ranks, Row, Keys
  <2> QED BY <2>3, <2>4
<1> QED BY <1>5, <1>6, <1>7

\* Nobody answered at a club without a row.  The list of clubs is that of the
\* table, and the rows read are those of the tables, as long as no import has
\* written; the rows are always of clubs that were asked for and have a row.
EventPage ==
  /\ \A e \in Events, m \in Members : e.club \notin clubs => rsvps[e][m] = "NONE"
  /\ pc \in {"rsvps", "event_page"} /\ clean => refs = clubs
  /\ rows \subseteq Rows(Clubs)
  /\ pc \in {"options", "event_page"} =>
       /\ rows \subseteq Rows(request.selected \cap clubs)
       /\ clean => rows = GetLiveEventRSVPs(request.selected)

LEMMA RowsGrow ==
  ASSUME NEW C, NEW D, C \subseteq D
  PROVE  Rows(C) \subseteq Rows(D)
BY DEF Rows

LEMMA RowsUnchanged ==
  ASSUME rsvps' = rsvps, request' = request
  PROVE  GetLiveEventRSVPs(request.selected)' = GetLiveEventRSVPs(request.selected)
BY DEF GetLiveEventRSVPs

LEMMA EventPageInit == Init => EventPage
BY DEF Init, EventPage, NoRequest

LEMMA EventPageStep ==
  ASSUME Typed, EventPage, [Next]_vars
  PROVE  EventPage'
<1> USE DEF EventPage
<1>1. ASSUME NEW c \in Clubs, InsertClub(c)
      PROVE  EventPage'
  <2>1. Rows(request.selected \cap clubs) \subseteq Rows(request.selected \cap clubs')
    BY <1>1, RowsGrow DEF InsertClub
  <2> QED BY <1>1, <2>1 DEF InsertClub, results
<1>2. ASSUME NEW e \in Events, NEW m \in Members, NEW s \in Statuses, UpsertRSVP(e, m, s)
      PROVE  EventPage'
  <2>1. \A f \in Events, n \in Members : f.club \notin clubs => rsvps'[f][n] = rsvps[f][n]
    BY <1>2 DEF UpsertRSVP, Typed
  <2> QED BY <1>2, <2>1 DEF UpsertRSVP, results
<1>3. CASE NextDay
  BY <1>3, RowsUnchanged DEF NextDay, results, tables
<1>4. ASSUME NEW p \in Pages, TrackerClubStats(p.quarter, p.creator, p.ca)
      PROVE  EventPage'
  BY <1>4 DEF TrackerClubStats, NoRequest, results, tables
<1>5. CASE ReadTotals
  BY <1>5 DEF ReadTotals, tables
<1>6. CASE ReadCounts
  <2>1. request'.selected = request.selected
    BY <1>6 DEF ReadCounts, Typed, Requests
  <2> QED BY <1>6, <2>1 DEF ReadCounts, tables
<1>7. CASE ReadMonth
  BY <1>7 DEF ReadMonth, tables
<1>8. CASE ReadLeague
  BY <1>8 DEF ReadLeague, tables
<1>9. ASSUME NEW S \in SUBSET Clubs, TrackerEventStats(S)
      PROVE  EventPage'
  <2>1. request'.selected = S
    BY <1>9 DEF TrackerEventStats, NoRequest
  <2> QED BY <1>9, <2>1 DEF TrackerEventStats, results, tables
<1>10. CASE ReadClubOptions
  BY <1>10, RowsUnchanged DEF ReadClubOptions, tables
<1>11. CASE ReadRSVPs
  <2>1. request.selected \in SUBSET Clubs
    BY DEF Typed, Requests
  <2> DEFINE C == request.selected
             G == GetLiveEventRSVPs(C)
  <2>2. /\ G \in SUBSET Rows(C)
        /\ \A w \in G : \E e \in Events : e.club = w.club /\ rsvps[e][w.member] # "NONE"
    <3> HIDE DEF C
    <3>1. C \in SUBSET Clubs
      BY <2>1 DEF C
    <3> QED BY <3>1, RowsRead
  <2>3. rows' = G
    BY <1>11 DEF ReadRSVPs
  <2> HIDE DEF G
  <2>4. \A w \in G : w.club \in C /\ w.member \in Members
    BY <2>2 DEF Rows
  <2>5. \A w \in G : w.club \in clubs
    BY <2>2, <2>4
  <2>6. G \subseteq Rows(C \cap clubs)
    BY <2>2, <2>4, <2>5 DEF Rows
  <2>7. Rows(C \cap clubs) \subseteq Rows(Clubs)
    BY <2>1, RowsGrow
  <2> QED BY <1>11, <2>3, <2>6, <2>7, RowsUnchanged DEF ReadRSVPs, tables, G
<1>12. CASE Render
  BY <1>12 DEF Render, NoRequest, tables
<1>13. CASE UNCHANGED vars
  BY <1>13, RowsUnchanged DEF vars, tables, results
<1> QED BY <1>1, <1>2, <1>3, <1>4, <1>5, <1>6, <1>7, <1>8, <1>9, <1>10, <1>11, <1>12, <1>13 DEF Next

LEMMA EventPageInvariant == Spec => []EventPage
BY TypedInvariant, EventPageInit, EventPageStep, PTL DEF Spec

LEMMA WhereHolds ==
  ASSUME EventPage, pc = "event_page"
  PROVE  WhereMatchesCombined
<1>1. clean => refs = clubs
  BY DEF EventPage
<1>2. rows \in SUBSET Rows(request.selected \cap clubs)
  BY DEF EventPage
<1>3. ASSUME NEW m \in Members
      PROVE  /\ m \in Combined.checkIns <=> \E w \in rows : w.member = m /\ w.rank >= 2
             /\ \A c : m \in PerClub(c).checkIns
                       <=> \E w \in rows : w.club = c /\ w.member = m /\ w.rank >= 2
  <2>1. ASSUME NEW R, R \in SUBSET rows
        PROVE  m \in BuildClubStats(R).checkIns <=> \E w \in R : w.member = m /\ w.rank >= 2
    <3>1. \A w \in R : w.live \in LiveEvents
      BY <1>2, <2>1 DEF Rows
    <3>2. \A l : RankAt(R, l, m) >= 2 <=> \E w \in R : w.live = l /\ w.member = m /\ w.rank >= 2
      <4>1. R \in SUBSET Rows(request.selected \cap clubs)
        BY <1>2, <2>1
      <4>2. \A w \in R : w.rank \in 0..2
        BY <4>1 DEF Rows
      <4> QED BY <4>2, RankOfCheckIn
    <3>3. m \in BuildClubStats(R).checkIns <=> \E l \in LiveEvents : RankAt(R, l, m) >= 2
      BY DEF BuildClubStats, CheckedInDays
    <3> QED BY <3>1, <3>2, <3>3
  <2>2. m \in Combined.checkIns <=> \E w \in rows : w.member = m /\ w.rank >= 2
    BY <2>1 DEF Combined
  <2>3. ASSUME NEW c
        PROVE  m \in PerClub(c).checkIns
                 <=> \E w \in rows : w.club = c /\ w.member = m /\ w.rank >= 2
    <3> DEFINE R == {w \in rows : w.club = c}
    <3>1. R \in SUBSET rows /\ PerClub(c) = BuildClubStats(R)
      BY DEF PerClub
    <3>2. \A w : w \in R <=> w \in rows /\ w.club = c
      OBVIOUS
    <3> HIDE DEF R
    <3>3. m \in BuildClubStats(R).checkIns <=> \E w \in R : w.member = m /\ w.rank >= 2
      BY <2>1, <3>1
    <3> QED BY <3>1, <3>2, <3>3
  <2> QED BY <2>2, <2>3
<1>4. \A w \in rows : w.club \in request.selected \cap clubs
  BY <1>2 DEF Rows
<1>5. ASSUME NEW m \in Members
      PROVE  /\ BuildWhere(m) = {c \in Selected : m \in PerClub(c).checkIns}
             /\ BuildWhere(m) # {} => m \in Combined.checkIns
  BY <1>3 DEF BuildWhere
<1>6. ASSUME NEW m \in Members, m \in Combined.checkIns, BuildWhere(m) = {}
      PROVE  ~clean /\ \E c \in clubs \ refs : m \in PerClub(c).checkIns
  <2>1. PICK w \in rows : w.member = m /\ w.rank >= 2
    BY <1>3, <1>6
  <2>2. w.club \in request.selected \cap clubs
    BY <1>4
  <2>3. w.club \notin refs
    BY <1>6, <2>1, <2>2 DEF BuildWhere, Selected
  <2>4. m \in PerClub(w.club).checkIns
    BY <1>3, <2>1
  <2> QED BY <1>1, <2>2, <2>3, <2>4
<1> QED BY <1>5, <1>6 DEF WhereMatchesCombined

\* The rows of the page of an event mark just the clubs whose own statistics
\* count the member, and a member counted for all clubs without a row checked
\* in at a club an import has stored since the list of clubs was read.
THEOREM WhereIsRight == Spec => []WhereMatchesCombined
<1>1. EventPage => WhereMatchesCombined
  BY WhereHolds DEF WhereMatchesCombined
<1> QED BY <1>1, EventPageInvariant, PTL

LEMMA AttendedAllHolds ==
  ASSUME Typed, EventPage, pc = "event_page", clean
  PROVE  AttendedAllIsEveryDay
<1>0. rows \in SUBSET Rows(request.selected \cap clubs)
  BY DEF EventPage
<1>1. rows = GetLiveEventRSVPs(request.selected)
  BY DEF EventPage
<1>2. request.selected \in SUBSET Clubs
  BY DEF Typed, Requests
<1>3. ASSUME NEW m \in Members, NEW l \in LiveEvents
      PROVE  RankAt(rows, l, m) >= 2
               <=> \E e \in Events : /\ e.club \in request.selected /\ e.live = l
                                   /\ rsvps[e][m] = "CHECKED_IN"
  <2>1. RankAt(rows, l, m) >= 2 <=> \E w \in rows : w.live = l /\ w.member = m /\ w.rank >= 2
    <3>1. \A w \in rows : w.rank \in 0..2
      BY <1>0 DEF Rows
    <3> QED BY <3>1, RankOfCheckIn
  <2>2. (\E w \in GetLiveEventRSVPs(request.selected) : w.live = l /\ w.member = m /\ w.rank >= 2)
          <=> \E e \in Events : /\ e.club \in request.selected /\ e.live = l
                              /\ rsvps[e][m] = "CHECKED_IN"
    <3> DEFINE C == request.selected
    <3>1. C \in SUBSET Clubs
      BY <1>2
    <3> HIDE DEF C
    <3>2. (\E w \in GetLiveEventRSVPs(C) : w.live = l /\ w.member = m /\ w.rank >= 2)
            <=> \E e \in Events : e.club \in C /\ e.live = l /\ rsvps[e][m] = "CHECKED_IN"
      BY <3>1, RowsRead
    <3> QED BY <3>2 DEF C
  <2> QED BY <1>1, <2>1, <2>2
<1>4. Combined.attendedAll = {m \in Members : \A l \in LiveEvents : RankAt(rows, l, m) >= 2}
  BY DEF Combined, BuildClubStats, CheckedInDays
<1>5. Combined.attendedAll =
        {m \in Members : \A l \in LiveEvents :
           \E e \in Events : /\ e.club \in request.selected /\ e.live = l
                             /\ rsvps[e][m] = "CHECKED_IN"}
  BY <1>3, <1>4
<1> QED BY <1>5 DEF AttendedAllIsEveryDay

\* Whoever checked in on every day, at whatever meetups of the clubs, and
\* nobody else attended all days of the page.
THEOREM AttendedAllIsRight == Spec => []AttendedAllIsEveryDay
<1>1. Typed /\ EventPage => AttendedAllIsEveryDay
  BY AttendedAllHolds DEF AttendedAllIsEveryDay
<1> QED BY <1>1, TypedInvariant, EventPageInvariant, PTL

-----------------------------------------------------------------------------
(* Projections. *)

LEMMA MaxWithZero ==
  ASSUME NEW k \in Int
  PROVE  Max({k, 0}) = IF k > 0 THEN k ELSE 0
<1> DEFINE best == IF k > 0 THEN k ELSE 0
<1>1. best \in {k, 0} /\ \A y \in {k, 0} : best >= y
  OBVIOUS
<1>2. \A x \in {k, 0} : (\A y \in {k, 0} : x >= y) => x = best
  OBVIOUS
<1> QED BY <1>1, <1>2 DEF Max

LEMMA RoundedGrowth ==
  ASSUME NEW n \in Nat, NEW N \in Int, NEW k \in Int, 0 < k, k <= N
  PROVE  Round(n * N, k) \in Int /\ Round(n * N, k) >= n
<1>1. n * k <= n * N /\ n * k \in Int /\ n * N \in Int
  OBVIOUS
<1>2. 2 * k \in Int /\ 2 * k > 0
  OBVIOUS
<1>3. 2 * (n * N) + k \in Int /\ 2 * (n * N) + k >= (2 * k) * n
  BY <1>1
<1>4. \A i, m \in Int : m > 0 /\ i >= m * n => i \div m \in Int /\ i \div m >= n
  OBVIOUS
<1> QED BY <1>2, <1>3, <1>4 DEF Round

LEMMA ProjectionIsCover ==
  ASSUME Typed, NEW r \in Days, r.from <= today, NEW n \in Nat,
         NEW p \in CalcCAProjectedCheckIns(r, n)
  PROVE  /\ p \in Int
         /\ r.to <= today => p = n
         /\ today # r.from => p >= n
<1>1. today \in Int /\ r.from \in Int /\ r.to \in Int
  BY MonthOfDay DEF Typed, Days
<1> DEFINE N == r.to - r.from
           k == today - r.from
<1>2. /\ NumDays(r) = N /\ DaysElapsed(r) = k
      /\ DaysRemaining(r) = IF N - k > 0 THEN N - k ELSE 0
  BY <1>1, MaxWithZero DEF NumDays, DaysElapsed, DaysRemaining
<1>3. N \in Int /\ k \in Int /\ k >= 0 /\ (k = 0 <=> today = r.from)
      /\ (N - k > 0 <=> ~ (r.to <= today))
  BY <1>1
<1> HIDE DEF N, k
<1>4. CASE N = 0 \/ ~ (N - k > 0)
  <2>1. p = n
    BY <1>2, <1>4 DEF CalcCAProjectedCheckIns
  <2> QED BY <2>1
<1>5. CASE N # 0 /\ N - k > 0 /\ k = 0
  <2>1. p \in Int
    BY <1>2, <1>3, <1>5, StatisticsAssumption DEF CalcCAProjectedCheckIns
  <2> QED BY <2>1, <1>3, <1>5
<1>6. CASE N # 0 /\ N - k > 0 /\ k # 0
  <2>1. p = Round(n * N, k)
    BY <1>2, <1>3, <1>6 DEF CalcCAProjectedCheckIns
  <2>2. 0 < k /\ k <= N
    BY <1>3, <1>6
  <2> QED BY <1>3, <1>6, <2>1, <2>2, RoundedGrowth
<1> QED BY <1>4, <1>5, <1>6

-----------------------------------------------------------------------------
(* The queries of the page of a club count. *)

LEMMA CountsOfEvent ==
  ASSUME NEW e
  PROVE  Accepted(e) \in Nat /\ CheckIns(e) \in Nat
<1>1. IsFiniteSet(Members)
  BY StatisticsAssumption
<1>2. \A M \in SUBSET Members : Cardinality(M) \in Nat
  BY <1>1, FS_Subset, FS_CardinalityType
<1> QED BY <1>2 DEF Accepted, CheckIns

LEMMA TotalsAreTotals ==
  ASSUME NEW r, NEW ca, NEW c
  PROVE  GetClubTotalCheckInsAccepted(r, ca, c) \in Totals
<1> DEFINE E == {e \in Events : Matches(e, r, ca, c)}
<1>1. IsFiniteSet(E)
  BY StatisticsAssumption, FS_Subset
<1> HIDE DEF E
<1>2. /\ SumFunction([e \in E |-> Accepted(e)]) \in Nat
      /\ SumFunction([e \in E |-> CheckIns(e)]) \in Nat
  BY <1>1, CountsOfEvent, SumInNat DEF SumFunction
<1> QED BY <1>2 DEF GetClubTotalCheckInsAccepted, Totals, E

LEMMA ExcludingIsNat ==
  ASSUME NEW r
  PROVE  GetClubTotalExcluding(r) \in Nat
<1> DEFINE E == {e \in Events : Matches(e, r, TRUE, Unset) /\ e.patterns \cap Excluded = {}}
<1>1. IsFiniteSet(E)
  BY StatisticsAssumption, FS_Subset
<1> HIDE DEF E
<1>2. SumFunction([e \in E |-> CheckIns(e)]) \in Nat
  BY <1>1, CountsOfEvent, SumInNat DEF SumFunction
<1> QED BY <1>2 DEF GetClubTotalExcluding, E

LEMMA CountsAreTotals ==
  ASSUME NEW ca, NEW c, NEW e \in DOMAIN GetEventCheckInAcceptedCounts(ca, c)
  PROVE  GetEventCheckInAcceptedCounts(ca, c)[e] \in Totals
BY CountsOfEvent DEF GetEventCheckInAcceptedCounts, Totals

-----------------------------------------------------------------------------
(* The page of a club. *)

\* A month whose projection covers what is counted.
MonthRows ==
  {w \in [month : Int, day : Int, predicted : Int, checkIns : Nat] :
     /\ CodesRange(w.month).to <= w.day => w.predicted = w.checkIns
     /\ w.day # CodesRange(w.month).from => w.predicted >= w.checkIns}

ClubPcs == {"totals", "counts", "months", "league", "club_page"}

\* A page is computed for a quarter and for months that have begun.
ClubPage ==
  /\ totals \in Totals
  /\ \A e \in DOMAIN counts : counts[e] \in Totals
  /\ months \in Seq(MonthRows)
  /\ league \in [total : Nat, projected : Int, remaining : Nat, day : Int]
  /\ pc # "club_page" => league = NoLeague
  /\ league.day # request.range.from => league.projected >= league.total
  /\ pc \in ClubPcs => request.range.from <= today
  /\ pc = "months" => request.month - 1 \in 1..6 /\ Firsts[request.month - 1] <= today

\* A month of codes projects from a range that has begun.
LEMMA CodesRangeBegins ==
  ASSUME Typed, ClubPage, pc = "months", NEW i, i = request.month - Len(months), i >= FirstCodes
  PROVE  i \in Int /\ CodesRange(i) \in Days /\ CodesRange(i).from <= today
<1>1. request.month \in Int /\ request.month - 1 \in 1..6 /\ Firsts[request.month - 1] <= today
  BY DEF ClubPage, Typed, Requests
<1>2. Len(months) \in Nat
  BY DEF ClubPage
<1>3. FirstCodes \in Int /\ FirstCodes > 3
  BY StatisticsAssumption
<1>4. i \in Int /\ i > 3 /\ i <= 7 /\ i - 1 <= request.month - 1
  BY <1>1, <1>2, <1>3
<1> DEFINE j == IF i > OneMonth THEN i - 1 ELSE i - 3
<1>5. j \in Int /\ j >= 1 /\ j <= i - 1
  BY <1>4
<1> HIDE DEF j
<1>6. j \in 1..7 /\ i \in 1..7 /\ request.month - 1 \in 1..7 /\ j <= request.month - 1
  BY <1>1, <1>4, <1>5
<1>7. Firsts[j] \in Int /\ Firsts[i] \in Int /\ Firsts[j] <= Firsts[request.month - 1]
      /\ Firsts[request.month - 1] \in Int
  BY <1>6, FirstsAreOrdered
<1>8. today \in Int
  BY MonthOfDay DEF Typed
<1>9. Firsts[j] <= today
  BY <1>1, <1>7, <1>8
<1>10. CodesRange(i) = [from |-> Firsts[j], to |-> Firsts[i] - 1]
  BY DEF CodesRange, MonthsFrom, j
<1> QED BY <1>4, <1>7, <1>9, <1>10 DEF Days

LEMMA ClubPageInit == Init => ClubPage
<1> SUFFICES ASSUME Init PROVE ClubPage
  OBVIOUS
<1>1. totals \in Totals /\ counts = <<>> /\ months \in Seq(MonthRows)
  BY DEF Init, None, Totals
<1>2. league = NoLeague /\ league \in [total : Nat, projected : Int, remaining : Nat, day : Int]
      /\ league.projected >= league.total
  BY DEF Init, NoLeague
<1>3. pc = "idle"
  BY DEF Init
<1> QED BY <1>1, <1>2, <1>3 DEF ClubPage, ClubPcs

LEMMA ClubPageStep ==
  ASSUME Typed, ClubPage, [Next]_vars
  PROVE  ClubPage'
<1>0. today \in Int /\ MonthOf(today) \in 1..6 /\ Firsts[MonthOf(today)] <= today
  BY MonthOfDay DEF Typed
<1>1. ASSUME NEW c \in Clubs, InsertClub(c)
      PROVE  ClubPage'
  BY <1>1 DEF InsertClub, results, ClubPage
<1>2. ASSUME NEW e \in Events, NEW m \in Members, NEW s \in Statuses, UpsertRSVP(e, m, s)
      PROVE  ClubPage'
  BY <1>2 DEF UpsertRSVP, results, ClubPage
<1>3. CASE NextDay
  <2>1. today' = today + 1 /\ UNCHANGED <<pc, request, totals, counts, months, league>>
    BY <1>3 DEF NextDay, results
  <2>2. request.range.from \in Int /\ \A i \in 1..7 : Firsts[i] \in Int
    BY FirstsAreOrdered DEF Typed, Requests, Days
  <2>3. \A k \in Int : k <= today => k <= today'
    BY <1>0, <2>1
  <2>4. pc \in ClubPcs => request.range.from <= today'
    BY <2>2, <2>3 DEF ClubPage
  <2>5. ASSUME pc = "months"
        PROVE  Firsts[request.month - 1] <= today'
    <3>1. request.month - 1 \in 1..6 /\ Firsts[request.month - 1] <= today
      BY <2>5 DEF ClubPage
    <3>2. Firsts[request.month - 1] \in Int
      BY <2>2, <3>1
    <3> QED BY <2>3, <3>1, <3>2
  <2> QED BY <2>1, <2>4, <2>5 DEF ClubPage
<1>4. ASSUME NEW p \in Pages, p.quarter \in GetQuarters \cup {Unset},
             TrackerClubStats(p.quarter, p.creator, p.ca)
      PROVE  ClubPage'
  <2>1. GetRangeFromQuarter(p.quarter).from <= today
    BY <1>4, QuarterBegins
  <2>2. request'.range = GetRangeFromQuarter(p.quarter)
    BY <1>4 DEF TrackerClubStats, NoRequest
  <2>3. /\ pc = "idle" /\ pc' = "totals"
        /\ UNCHANGED <<today, totals, counts, months, league>>
    BY <1>4 DEF TrackerClubStats, results
  <2>4. league = NoLeague
    BY <2>3 DEF ClubPage
  <2>5. league.projected >= league.total
    BY <2>4 DEF NoLeague
  <2> QED BY <2>1, <2>2, <2>3, <2>4, <2>5 DEF ClubPage
<1>5. CASE ReadTotals
  BY <1>5, TotalsAreTotals DEF ReadTotals, ClubPage, ClubPcs
<1>6. CASE ReadCounts
  <2>1. /\ request'.range = request.range
        /\ request'.month = MonthOf(today) + 1
    BY <1>6 DEF ReadCounts, Typed, Requests
  <2>2. \A e \in DOMAIN counts' : counts'[e] \in Totals
    BY <1>6, CountsAreTotals DEF ReadCounts
  <2>3. MonthOf(today) + 1 - 1 = MonthOf(today)
    BY <1>0
  <2>4. pc = "counts" /\ pc' = "months" /\ UNCHANGED <<today, totals, months, league>>
    BY <1>6 DEF ReadCounts
  <2> QED BY <1>0, <2>1, <2>2, <2>3, <2>4 DEF ClubPage, ClubPcs
<1>7. CASE ReadMonth
  <2> DEFINE i == request.month - Len(months)
             n == GetClubTotalExcluding(CodesRange(i))
  <2>1. CASE i >= FirstCodes
    <3>1. PICK p \in CalcCAProjectedCheckIns(CodesRange(i), n) :
            months' = Append(months, [month |-> i, day |-> today, predicted |-> p, checkIns |-> n])
      BY <1>7, <2>1 DEF ReadMonth
    <3>2. pc = "months" /\ pc' = pc /\ UNCHANGED <<today, request, totals, counts, league>>
      BY <1>7, <2>1 DEF ReadMonth
    <3>3. i \in Int /\ CodesRange(i) \in Days /\ CodesRange(i).from <= today
      BY <2>1, <3>2, CodesRangeBegins
    <3>4. n \in Nat
      BY ExcludingIsNat
    <3> HIDE DEF i, n
    <3> DEFINE w == [month |-> i, day |-> today, predicted |-> p, checkIns |-> n]
    <3>5. /\ p \in Int
          /\ CodesRange(i).to <= today => p = n
          /\ today # CodesRange(i).from => p >= n
      BY <3>3, <3>4, ProjectionIsCover
    <3>6. w \in MonthRows
      BY <1>0, <3>3, <3>4, <3>5 DEF MonthRows
    <3> HIDE DEF w
    <3>7. months' \in Seq(MonthRows)
      <4>1. months \in Seq(MonthRows) /\ months' = Append(months, w)
        BY <3>1 DEF ClubPage, w
      <4> QED BY <3>6, <4>1
    <3> QED BY <3>2, <3>7 DEF ClubPage
  <2>2. CASE ~ (i >= FirstCodes)
    <3>1. pc = "months" /\ pc' = "league"
          /\ UNCHANGED <<today, request, totals, counts, months, league>>
      BY <1>7, <2>2 DEF ReadMonth
    <3> QED BY <3>1 DEF ClubPage, ClubPcs
  <2> QED BY <2>1, <2>2
<1>8. CASE ReadLeague
  <2> DEFINE r == request.range
             n == GetClubTotalCheckInsAccepted(r, TRUE, request.quarter).checkIns
  <2>1. PICK p \in CalcCAProjectedCheckIns(r, n) :
          league' = [total |-> n, projected |-> p, remaining |-> DaysRemaining(r), day |-> today]
    BY <1>8 DEF ReadLeague
  <2>2. pc = "league" /\ pc' = "club_page" /\ UNCHANGED <<today, request, totals, counts, months>>
    BY <1>8 DEF ReadLeague
  <2>3. r \in Days /\ r.from <= today
    BY <2>2 DEF Typed, Requests, ClubPage, ClubPcs
  <2>4. n \in Nat
    BY TotalsAreTotals DEF Totals
  <2>5. DaysRemaining(r) \in Nat
    BY <1>0, <2>3, MaxWithZero DEF DaysRemaining, NumDays, DaysElapsed, Days
  <2> HIDE DEF r, n
  <2>6. p \in Int /\ (today # r.from => p >= n)
    BY <2>3, <2>4, ProjectionIsCover
  <2>7. /\ league' \in [total : Nat, projected : Int, remaining : Nat, day : Int]
        /\ league'.day # r.from => league'.projected >= league'.total
    BY <1>0, <2>1, <2>4, <2>5, <2>6
  <2> QED BY <2>2, <2>7 DEF ClubPage, ClubPcs, r
<1>9. ASSUME NEW S \in SUBSET Clubs, TrackerEventStats(S)
      PROVE  ClubPage'
  <2>1. pc = "idle" /\ pc' = "both" /\ UNCHANGED <<today, totals, counts, months, league>>
    BY <1>9 DEF TrackerEventStats, results
  <2>2. league = NoLeague
    BY <2>1 DEF ClubPage
  <2>3. league.projected >= league.total
    BY <2>2 DEF NoLeague
  <2> QED BY <2>1, <2>2, <2>3 DEF ClubPage, ClubPcs
<1>10. CASE ReadClubOptions
  BY <1>10 DEF ReadClubOptions, ClubPage, ClubPcs
<1>11. CASE ReadRSVPs
  BY <1>11 DEF ReadRSVPs, ClubPage, ClubPcs
<1>12. CASE Render
  <2>1. totals' \in Totals /\ counts' = <<>> /\ months' \in Seq(MonthRows)
    BY <1>12 DEF Render, None, Totals
  <2>2. league' = NoLeague /\ league' \in [total : Nat, projected : Int, remaining : Nat, day : Int]
        /\ league'.projected >= league'.total
    BY <1>12 DEF Render, NoLeague
  <2>3. pc' = "idle"
    BY <1>12 DEF Render
  <2> QED BY <2>1, <2>2, <2>3 DEF ClubPage, ClubPcs
<1>13. CASE UNCHANGED vars
  BY <1>13 DEF vars, tables, results, ClubPage
<1> QED BY <1>1, <1>2, <1>3, <1>4, <1>5, <1>6, <1>7, <1>8, <1>9, <1>10, <1>11, <1>12, <1>13 DEF Next

LEMMA ClubPageInvariant == Spec => []ClubPage
BY TypedInvariant, ClubPageInit, ClubPageStep, PTL DEF Spec

\* Once the last day of a month or of a quarter has come its projection is what
\* was counted, and after the first day no projection falls behind the count:
\* a league that is reached is projected.
THEOREM ProjectionsCover == Spec => []ProjectionCovers
<1>1. ClubPage => ProjectionCovers
  <2> SUFFICES ASSUME ClubPage PROVE ProjectionCovers
    OBVIOUS
  <2>1. \A i \in DOMAIN months : months[i] \in MonthRows
    BY DEF ClubPage
  <2>2. ASSUME NEW g \in Goals, league.day # request.range.from, g <= league.total
        PROVE  g <= league.projected
    <3>1. league.projected >= league.total /\ league.total \in Int /\ league.projected \in Int
      BY <2>2 DEF ClubPage
    <3>2. g \in Int
      BY StatisticsAssumption
    <3> QED BY <2>2, <3>1, <3>2
  <2> QED BY <2>1, <2>2 DEF ProjectionCovers, MonthRows
<1> QED BY <1>1, ClubPageInvariant, PTL

-----------------------------------------------------------------------------
(* The categories share the events of a page out. *)

LEMMA CategoriesAreFinite == IsFiniteSet(Categories)
<1> DEFINE C == {Ordered[i] : i \in DOMAIN Ordered}
<1>1. Ordered \in Seq(STRING)
  BY StatisticsAssumption
<1>2. Len(Ordered) \in Nat /\ DOMAIN Ordered = 1..Len(Ordered)
      /\ Ordered = [i \in 1..Len(Ordered) |-> Ordered[i]]
  BY <1>1
<1>3. IsFiniteSet(1..Len(Ordered))
  <2>1. \A n \in Nat : IsFiniteSet(1..n)
    BY FS_Interval
  <2> QED BY <1>2, <2>1
<1>4. Ordered \in Surjection(1..Len(Ordered), C)
  BY <1>2 DEF Surjection
<1>5. IsFiniteSet(C)
  BY <1>3, <1>4, FS_Surjection
<1> HIDE DEF C
<1>6. IsFiniteSet(C \cup {"Other"})
  BY <1>5, FS_AddElement
<1> QED BY <1>6 DEF Categories, C

LEMMA CategoryOfEvent ==
  ASSUME NEW e
  PROVE  eventCategoryFromName(e) \in Categories
<1> DEFINE fits == {i \in DOMAIN Ordered : Ordered[i] \in e.patterns}
<1>1. CASE fits = {}
  BY <1>1 DEF eventCategoryFromName, Categories
<1>2. CASE fits # {}
  <2>1. DOMAIN Ordered \subseteq Nat
    BY StatisticsAssumption
  <2>2. \E m \in fits : \A k \in fits : m <= k
    BY <1>2, <2>1, SmallestNumber
  <2>3. Min(fits) \in fits
    BY <2>2 DEF Min
  <2>4. eventCategoryFromName(e) = Ordered[Min(fits)]
    BY <1>2 DEF eventCategoryFromName
  <2> QED BY <2>3, <2>4 DEF Categories
<1> QED BY <1>1, <1>2

ByCategory(h, D) ==
  SumFunction([c \in Categories |->
                 SumFunction([e \in {e \in D : eventCategoryFromName(e) = c} |-> h[e]])])

LEMMA SumOfCategories ==
  ASSUME NEW D, IsFiniteSet(D), NEW h, \A e \in D : h[e] \in Nat
  PROVE  SumFunctionOnSet(h, D) = ByCategory(h, D)
<1> DEFINE part == [e \in D |-> eventCategoryFromName(e)]
           In(c) == {e \in D : eventCategoryFromName(e) = c}
           byPart == [c \in Categories |-> SumFunctionOnSet(h, {e \in D : part[e] = c})]
           byName == [c \in Categories |-> SumFunction([e \in In(c) |-> h[e]])]
<1>1. IsFiniteSet(Categories)
  BY CategoriesAreFinite
<1>2. \A e \in D : part[e] \in Categories
  BY CategoryOfEvent
<1>3. SumFunctionOnSet(h, D) = SumFunctionOnSet(byPart, Categories)
  <2> HIDE DEF part
  <2> QED BY <1>1, <1>2, SumByParts
<1>4. ASSUME NEW c \in Categories
      PROVE  byPart[c] = byName[c]
  <2>1. {e \in D : part[e] = c} = In(c)
    OBVIOUS
  <2>2. byPart[c] = SumFunctionOnSet(h, In(c))
    BY <2>1
  <2>3. IsFiniteSet(In(c))
    BY FS_Subset
  <2> HIDE DEF In
  <2> DEFINE g == [e \in In(c) |-> h[e]]
  <2>4. \A e \in In(c) : g[e] = h[e]
    OBVIOUS
  <2>5. DOMAIN g = In(c)
    OBVIOUS
  <2>6. byName[c] = SumFunctionOnSet(g, DOMAIN g)
    BY DEF SumFunction
  <2> HIDE DEF g
  <2>7. SumFunctionOnSet(g, In(c)) = SumFunctionOnSet(h, In(c))
    BY <2>3, <2>4, SumSame
  <2> QED BY <2>2, <2>5, <2>6, <2>7
<1>5. DOMAIN byName = Categories
  OBVIOUS
<1> HIDE DEF byPart, byName
<1>6. SumFunctionOnSet(byPart, Categories) = SumFunctionOnSet(byName, Categories)
  BY <1>1, <1>4, SumSame
<1>7. SumFunctionOnSet(h, D) = SumFunction(byName)
  BY <1>3, <1>5, <1>6 DEF SumFunction
<1> QED BY <1>7 DEF byName, ByCategory

\* What a sum over all events of the page counts, the events with answers count.
LEMMA SumOfAnswered ==
  ASSUME NEW E, IsFiniteSet(E), NEW D \in SUBSET E, NEW f, NEW h,
         \A e \in E : f[e] \in Nat, \A e \in E \ D : f[e] = 0, \A e \in D : h[e] = f[e]
  PROVE  SumFunctionOnSet(f, E) = ByCategory(h, D)
<1>1. IsFiniteSet(D)
  BY FS_Subset
<1>2. SumFunctionOnSet(f, E) = SumFunctionOnSet(f, D)
  BY SumWithoutZeros
<1>3. SumFunctionOnSet(f, D) = SumFunctionOnSet(h, D)
  BY <1>1, SumSame
<1>4. \A e \in D : h[e] \in Nat
  OBVIOUS
<1>5. SumFunctionOnSet(h, D) = ByCategory(h, D)
  BY <1>1, <1>4, SumOfCategories
<1> QED BY <1>2, <1>3, <1>5

LEMMA NobodyCounts ==
  ASSUME NEW e, \A m \in Members : rsvps[e][m] = "NONE"
  PROVE  Accepted(e) = 0 /\ CheckIns(e) = 0
<1>1. /\ {m \in Members : rsvps[e][m] \in {"ACCEPTED", "CHECKED_IN"}} = {}
      /\ {m \in Members : rsvps[e][m] = "CHECKED_IN"} = {}
  OBVIOUS
<1> QED BY <1>1, FS_EmptySet DEF Accepted, CheckIns

LEMMA SharesOfTotals ==
  ASSUME NEW ca, NEW creator,
         totals = GetClubTotalCheckInsAccepted(AllTime, ca, creator),
         counts = GetEventCheckInAcceptedCounts(ca, creator)
  PROVE  /\ totals.accepted = SumFunction([c \in Categories |-> EventCategory(c).accepted])
         /\ totals.checkIns = SumFunction([c \in Categories |-> EventCategory(c).checkIns])
<1> DEFINE E == {e \in Events : Matches(e, AllTime, ca, creator)}
           D == {e \in E : \E m \in Members : rsvps[e][m] # "NONE"}
           Of(c) == {e \in DOMAIN counts : eventCategoryFromName(e) = c}
           accepted == [e \in E |-> Accepted(e)]
           checkIns == [e \in E |-> CheckIns(e)]
           countsA == [e \in D |-> counts[e].accepted]
           countsC == [e \in D |-> counts[e].checkIns]
<1>1. IsFiniteSet(E) /\ D \in SUBSET E
  BY StatisticsAssumption, FS_Subset
<1>2. DOMAIN counts = D
      /\ \A e \in D : counts[e].accepted = Accepted(e) /\ counts[e].checkIns = CheckIns(e)
  BY DEF GetEventCheckInAcceptedCounts
<1>3. totals.accepted = SumFunction(accepted) /\ totals.checkIns = SumFunction(checkIns)
  BY DEF GetClubTotalCheckInsAccepted
<1>4. \A e \in E \ D : Accepted(e) = 0 /\ CheckIns(e) = 0
  BY NobodyCounts
<1>5. \A e \in E : Accepted(e) \in Nat /\ CheckIns(e) \in Nat
  BY CountsOfEvent
<1>6. /\ DOMAIN accepted = E /\ DOMAIN checkIns = E
      /\ \A e \in E : accepted[e] = Accepted(e) /\ checkIns[e] = CheckIns(e)
      /\ \A e \in D : countsA[e] = counts[e].accepted /\ countsC[e] = counts[e].checkIns
  OBVIOUS
<1>7. \A c : {e \in D : eventCategoryFromName(e) = c} = Of(c)
  BY <1>2
<1>8. \A c : /\ EventCategory(c).accepted = SumFunction([e \in Of(c) |-> counts[e].accepted])
             /\ EventCategory(c).checkIns = SumFunction([e \in Of(c) |-> counts[e].checkIns])
  BY DEF EventCategory
<1>9. \A c : /\ [e \in Of(c) |-> counts[e].accepted] = [e \in Of(c) |-> countsA[e]]
             /\ [e \in Of(c) |-> counts[e].checkIns] = [e \in Of(c) |-> countsC[e]]
  <2>1. \A c : \A e \in Of(c) : e \in D
    BY <1>2
  <2> HIDE DEF D, Of, countsA, countsC
  <2> QED BY <1>6, <2>1
<1> HIDE DEF E, D, Of, accepted, checkIns, countsA, countsC
<1>10. /\ \A e \in E : accepted[e] \in Nat /\ checkIns[e] \in Nat
       /\ \A e \in E \ D : accepted[e] = 0 /\ checkIns[e] = 0
       /\ \A e \in D : countsA[e] = accepted[e] /\ countsC[e] = checkIns[e]
  BY <1>1, <1>2, <1>4, <1>5, <1>6
<1>11. SumFunctionOnSet(accepted, E) = ByCategory(countsA, D)
  BY <1>1, <1>10, SumOfAnswered
<1>12. SumFunctionOnSet(checkIns, E) = ByCategory(countsC, D)
  BY <1>1, <1>10, SumOfAnswered
<1>13. ASSUME NEW c
       PROVE  /\ SumFunction([e \in {e \in D : eventCategoryFromName(e) = c} |-> countsA[e]])
                    = EventCategory(c).accepted
              /\ SumFunction([e \in {e \in D : eventCategoryFromName(e) = c} |-> countsC[e]])
                    = EventCategory(c).checkIns
  <2>1. {e \in D : eventCategoryFromName(e) = c} = Of(c)
    BY <1>7
  <2>2. /\ [e \in {e \in D : eventCategoryFromName(e) = c} |-> countsA[e]]
              = [e \in Of(c) |-> counts[e].accepted]
        /\ [e \in {e \in D : eventCategoryFromName(e) = c} |-> countsC[e]]
              = [e \in Of(c) |-> counts[e].checkIns]
    BY <2>1, <1>9
  <2> QED BY <2>2, <1>8
<1>14. /\ [c \in Categories |->
             SumFunction([e \in {e \in D : eventCategoryFromName(e) = c} |-> countsA[e]])]
             = [c \in Categories |-> EventCategory(c).accepted]
       /\ [c \in Categories |->
             SumFunction([e \in {e \in D : eventCategoryFromName(e) = c} |-> countsC[e]])]
             = [c \in Categories |-> EventCategory(c).checkIns]
  BY <1>13
<1> QED BY <1>3, <1>6, <1>11, <1>12, <1>14 DEF SumFunction, ByCategory

-----------------------------------------------------------------------------
(* As long as no import writes, a page holds what its queries find now. *)

PageRead ==
  clean =>
    /\ pc \in {"counts", "months", "league", "club_page"} =>
         totals = GetClubTotalCheckInsAccepted(AllTime, request.ca, request.creator)
    /\ pc \in {"months", "league", "club_page"} =>
         counts = GetEventCheckInAcceptedCounts(request.ca, request.creator)

LEMMA QueriesUnchanged ==
  ASSUME rsvps' = rsvps, request'.ca = request.ca, request'.creator = request.creator
  PROVE  /\ GetClubTotalCheckInsAccepted(AllTime, request.ca, request.creator)'
               = GetClubTotalCheckInsAccepted(AllTime, request.ca, request.creator)
         /\ GetEventCheckInAcceptedCounts(request.ca, request.creator)'
               = GetEventCheckInAcceptedCounts(request.ca, request.creator)
BY DEF GetClubTotalCheckInsAccepted, GetEventCheckInAcceptedCounts, Accepted, CheckIns

LEMMA PageReadInit == Init => PageRead
BY DEF Init, PageRead

LEMMA PageReadStep ==
  ASSUME Typed, PageRead, [Next]_vars
  PROVE  PageRead'
<1>1. ASSUME NEW c \in Clubs, InsertClub(c)
      PROVE  PageRead'
  BY <1>1 DEF InsertClub, PageRead
<1>2. ASSUME NEW e \in Events, NEW m \in Members, NEW s \in Statuses, UpsertRSVP(e, m, s)
      PROVE  PageRead'
  BY <1>2 DEF UpsertRSVP, PageRead
<1>3. CASE NextDay
  BY <1>3, QueriesUnchanged DEF NextDay, results, tables, PageRead
<1>4. ASSUME NEW p \in Pages, TrackerClubStats(p.quarter, p.creator, p.ca)
      PROVE  PageRead'
  BY <1>4 DEF TrackerClubStats, PageRead
<1>5. CASE ReadTotals
  BY <1>5, QueriesUnchanged DEF ReadTotals, tables, PageRead
<1>6. CASE ReadCounts
  <2>1. request'.ca = request.ca /\ request'.creator = request.creator
    BY <1>6 DEF ReadCounts, Typed, Requests
  <2> QED BY <1>6, <2>1, QueriesUnchanged DEF ReadCounts, tables, PageRead
<1>7. CASE ReadMonth
  <2>1. /\ pc = "months" /\ pc' \in {"months", "league"}
        /\ UNCHANGED <<rsvps, request, totals, counts, clean>>
    BY <1>7 DEF ReadMonth, tables
  <2> QED BY <2>1, QueriesUnchanged DEF PageRead
<1>8. CASE ReadLeague
  <2>1. /\ pc = "league" /\ pc' = "club_page"
        /\ UNCHANGED <<rsvps, request, totals, counts, clean>>
    BY <1>8 DEF ReadLeague, tables
  <2> QED BY <2>1, QueriesUnchanged DEF PageRead
<1>9. ASSUME NEW S \in SUBSET Clubs, TrackerEventStats(S)
      PROVE  PageRead'
  BY <1>9 DEF TrackerEventStats, PageRead
<1>10. CASE ReadClubOptions
  BY <1>10 DEF ReadClubOptions, PageRead
<1>11. CASE ReadRSVPs
  BY <1>11 DEF ReadRSVPs, PageRead
<1>12. CASE Render
  BY <1>12 DEF Render, PageRead
<1>13. CASE UNCHANGED vars
  <2>1. UNCHANGED <<rsvps, request, pc, totals, counts, clean>>
    BY <1>13 DEF vars, tables, results
  <2> QED BY <2>1, QueriesUnchanged DEF PageRead
<1> QED BY <1>1, <1>2, <1>3, <1>4, <1>5, <1>6, <1>7, <1>8, <1>9, <1>10, <1>11, <1>12, <1>13 DEF Next

LEMMA PageReadInvariant == Spec => []PageRead
BY TypedInvariant, PageReadInit, PageReadStep, PTL DEF Spec

\* Whatever the meetups, their categories and the answers, the tables and the
\* results are well typed, and the totals of a page that no import interrupted
\* are the sums over its categories: every meetup counts once and in just one.
THEOREM CountsAreRight == Spec => []CountsInv
<1>1. ASSUME Typed, EventPage, ClubPage, PageRead
      PROVE  CountsInv
  <2>1. TypeOK
    <3>1. \A i \in DOMAIN months : months[i].checkIns \in Nat
      BY <1>1 DEF ClubPage, MonthRows
    <3>2. \A w \in rows : w.rank \in 0..2
      BY <1>1 DEF EventPage, Rows
    <3> QED BY <1>1, <3>1, <3>2 DEF TypeOK, Typed, ClubPage
  <2>2. CategoriesSumToTotal
    <3> SUFFICES ASSUME pc = "club_page", clean
                 PROVE  /\ totals.accepted = SumFunction([c \in Categories |-> EventCategory(c).accepted])
                        /\ totals.checkIns = SumFunction([c \in Categories |-> EventCategory(c).checkIns])
      BY DEF CategoriesSumToTotal
    <3>1. /\ totals = GetClubTotalCheckInsAccepted(AllTime, request.ca, request.creator)
          /\ counts = GetEventCheckInAcceptedCounts(request.ca, request.creator)
      BY <1>1 DEF PageRead
    <3> QED BY <3>1, SharesOfTotals
  <2> QED BY <2>1, <2>2 DEF CountsInv
<1> QED BY <1>1, TypedInvariant, EventPageInvariant, ClubPageInvariant, PageReadInvariant, PTL
=============================================================================
