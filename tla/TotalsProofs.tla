---------------------------- MODULE TotalsProofs ----------------------------
(***************************************************************************)
(* How a column's sum changes when rows enter or leave the set or change   *)
(* their value; and the least and the greatest of a set of numbers.        *)
(***************************************************************************)
EXTENDS Totals, Integers, FiniteSetTheorems, Functions, WellFoundedInduction, TLAPS

(* The tokens of one row are as many as its value.                         *)
LEMMA RowTokens ==
  ASSUME NEW r, NEW n \in Nat
  PROVE  /\ IsFiniteSet({r} \X (1 .. n))
         /\ Cardinality({r} \X (1 .. n)) = n
<1>1. IsFiniteSet({r}) /\ Cardinality({r}) = 1
  BY FS_Singleton
<1>2. IsFiniteSet(1 .. n) /\ Cardinality(1 .. n) = n
  BY FS_Interval
<1>3. /\ IsFiniteSet({r} \X (1 .. n))
      /\ Cardinality({r} \X (1 .. n)) = Cardinality({r}) * Cardinality(1 .. n)
  BY <1>1, <1>2, FS_Product
<1>4. 1 * n = n
  OBVIOUS
<1> QED
  BY <1>1, <1>2, <1>3, <1>4

(* A sum over finitely many rows is a natural number.                      *)
LEMMA TotalType ==
  ASSUME NEW S, IsFiniteSet(S), NEW f, \A r \in S : f[r] \in Nat
  PROVE  IsFiniteSet(Tokens(S, f)) /\ Total(S, f) \in Nat
<1> DEFINE row[r \in S] == {r} \X (1 .. f[r])
           rows == {row[r] : r \in S}
<1>1. row \in Surjection(S, rows)
  BY DEF Surjection
<1>2. IsFiniteSet(rows)
  BY <1>1, FS_Surjection
<1>3. \A T \in rows : IsFiniteSet(T)
  <2> SUFFICES ASSUME NEW r \in S PROVE IsFiniteSet({r} \X (1 .. f[r]))
    OBVIOUS
  <2> DEFINE n == f[r]
  <2>1. n \in Nat
    OBVIOUS
  <2> HIDE DEF n
  <2>2. IsFiniteSet({r} \X (1 .. n))
    BY <2>1, RowTokens
  <2> QED
    BY <2>2 DEF n
<1>4. UNION rows = Tokens(S, f)
  BY DEF Tokens
<1> HIDE DEF rows
<1> QED
  BY <1>2, <1>3, <1>4, FS_UNION, FS_CardinalityType DEF Total

(* Only the values of the rows summed matter.                              *)
LEMMA TotalSame ==
  ASSUME NEW S, NEW f, NEW g, \A r \in S : f[r] = g[r]
  PROVE  Total(S, f) = Total(S, g)
  BY DEF Total, Tokens

(* No rows sum to nothing.                                                 *)
LEMMA TotalEmpty ==
  ASSUME NEW f
  PROVE  Total({}, f) = 0
  BY FS_EmptySet DEF Total, Tokens

(* A row that enters adds its value.                                       *)
LEMMA TotalAdd ==
  ASSUME NEW S, IsFiniteSet(S), NEW f, \A q \in S : f[q] \in Nat,
         NEW r, r \notin S, f[r] \in Nat
  PROVE  Total(S \cup {r}, f) = Total(S, f) + f[r]
<1>1. Tokens(S \cup {r}, f) = Tokens(S, f) \cup ({r} \X (1 .. f[r]))
  BY DEF Tokens
<1>2. Tokens(S, f) \cap ({r} \X (1 .. f[r])) = {}
  BY DEF Tokens
<1>3. IsFiniteSet(Tokens(S, f)) /\ Total(S, f) \in Nat
  BY TotalType
<1>4. IsFiniteSet({r} \X (1 .. f[r])) /\ Cardinality({r} \X (1 .. f[r])) = f[r]
  BY RowTokens
<1>5. Cardinality({}) = 0
  BY FS_EmptySet
<1>6. Cardinality(Tokens(S, f) \cup ({r} \X (1 .. f[r])))
        = Cardinality(Tokens(S, f)) + Cardinality({r} \X (1 .. f[r]))
            - Cardinality(Tokens(S, f) \cap ({r} \X (1 .. f[r])))
  BY <1>3, <1>4, FS_Union
<1>7. Total(S \cup {r}, f) = Cardinality(Tokens(S, f) \cup ({r} \X (1 .. f[r])))
  BY <1>1 DEF Total
<1>8. Total(S, f) = Cardinality(Tokens(S, f))
  BY DEF Total
<1>9. Cardinality(Tokens(S, f) \cap ({r} \X (1 .. f[r]))) = 0
  BY <1>2, <1>5
<1> DEFINE a == Total(S, f)
           b == f[r]
<1>10. Total(S \cup {r}, f) = a + b - 0
  BY <1>4, <1>6, <1>7, <1>8, <1>9
<1>11. a \in Nat /\ b \in Nat
  BY <1>3
<1> HIDE DEF a, b
<1>12. a + b - 0 = a + b
  BY <1>11
<1> QED
  BY <1>10, <1>12 DEF a, b

(* A row that leaves takes its value with it.                              *)
LEMMA TotalRemove ==
  ASSUME NEW S, IsFiniteSet(S), NEW f, \A q \in S : f[q] \in Nat,
         NEW r \in S
  PROVE  Total(S \ {r}, f) = Total(S, f) - f[r]
<1>1. IsFiniteSet(S \ {r})
  BY FS_Subset
<1>2. (S \ {r}) \cup {r} = S
  OBVIOUS
<1>3. Total((S \ {r}) \cup {r}, f) = Total(S \ {r}, f) + f[r]
  BY <1>1, TotalAdd
<1> DEFINE a == Total(S \ {r}, f)
           b == f[r]
<1>4. a \in Nat /\ b \in Nat
  BY <1>1, TotalType
<1>5. Total(S, f) = a + b
  BY <1>2, <1>3
<1> HIDE DEF a, b
<1>6. (a + b) - b = a
  BY <1>4
<1> QED
  BY <1>5, <1>6 DEF a, b

(* One row's share is no more than the sum.                                *)
LEMMA TotalCovers ==
  ASSUME NEW S, IsFiniteSet(S), NEW f, \A q \in S : f[q] \in Nat,
         NEW r \in S
  PROVE  f[r] <= Total(S, f)
<1>1. IsFiniteSet(S \ {r})
  BY FS_Subset
<1> DEFINE a == Total(S \ {r}, f)
           b == f[r]
           c == Total(S, f)
<1>2. a \in Nat /\ b \in Nat /\ c \in Nat
  BY <1>1, TotalType
<1>3. a = c - b
  BY TotalRemove
<1> HIDE DEF a, b, c
<1>4. b <= c
  BY <1>2, <1>3
<1> QED
  BY <1>4 DEF b, c

(* Of a column that agrees with another on some of its rows the sum is no  *)
(* more than the other's.                                                  *)
LEMMA TotalWithin ==
  ASSUME NEW T, IsFiniteSet(T), NEW S \in SUBSET T, NEW f, \A r \in T : f[r] \in Nat,
         NEW g, \A r \in S : g[r] = f[r]
  PROVE  Total(S, g) \in Nat /\ Total(S, g) <= Total(T, f)
<1>1. Tokens(S, g) \in SUBSET Tokens(T, f) BY DEF Tokens
<1>2. IsFiniteSet(Tokens(T, f)) BY TotalType
<1>3. IsFiniteSet(Tokens(S, g)) /\ Cardinality(Tokens(S, g)) <= Cardinality(Tokens(T, f))
  BY <1>1, <1>2, FS_Subset
<1> QED BY <1>3, FS_CardinalityType DEF Total

(* A set of numbers has a least one.                                       *)
LEMMA LeastOf ==
  ASSUME NEW S \in SUBSET Nat, S # {}
  PROVE  \E m \in S : \A n \in S : m <= n
<1>1. PICK m \in S : \A n \in S : ~ (<<n, m>> \in OpToRel(<, Nat))
  BY NatLessThanWellFounded, WFMin
<1>2. \A n \in S : ~ (n < m)
  BY <1>1 DEF OpToRel
<1> QED BY <1>2

(* A finite set of numbers has a greatest one.                             *)
LEMMA GreatestOf ==
  ASSUME NEW S \in SUBSET Nat, IsFiniteSet(S), S # {}
  PROVE  \E m \in S : \A n \in S : n <= m
<1>1. PICK N \in Nat : ExistsBijection(1 .. N, S) BY FS_CardinalityType
<1>2. PICK f \in Bijection(1 .. N, S) : TRUE BY <1>1 DEF ExistsBijection
<1>3. f \in [1 .. N -> S] /\ \A s \in S : \E i \in 1 .. N : f[i] = s
  BY <1>2 DEF Bijection, Surjection
<1> DEFINE Bounded(k) == \E b \in Nat : \A i \in 1 .. k : f[i] <= b
           Bad == {k \in 0 .. N : ~ Bounded(k)}
<1>4. Bad = {}
  <2> SUFFICES ASSUME Bad # {} PROVE FALSE OBVIOUS
  <2>1. PICK k \in Bad : \A n \in Bad : k <= n
    <3>1. Bad \in SUBSET Nat OBVIOUS
    <3> HIDE DEF Bad
    <3> QED BY <3>1, LeastOf
  <2>2. k \in 0 .. N /\ ~ Bounded(k) BY <2>1
  <2>3. k # 0
    <3>1. \A i \in 1 .. 0 : f[i] <= 0 OBVIOUS
    <3> QED BY <3>1, <2>2
  <2>4. k - 1 \in 0 .. N /\ k \in 1 .. N /\ ~(k <= k - 1) BY <2>2, <2>3
  <2>5. k - 1 \notin Bad BY <2>1, <2>4 DEF Bad
  <2>6. Bounded(k - 1) BY <2>4, <2>5
  <2>7. PICK b \in Nat : \A i \in 1 .. k - 1 : f[i] <= b BY <2>6
  <2>8. f[k] \in Nat BY <1>3, <2>4
  <2>9. \E c \in Nat : b <= c /\ f[k] <= c
    <3>1. \A x, y \in Nat : \E c \in Nat : x <= c /\ y <= c
      <4> TAKE x, y \in Nat
      <4>1. x <= x + y /\ y <= x + y /\ x + y \in Nat OBVIOUS
      <4> QED BY <4>1
    <3> HIDE DEF Bad, Bounded
    <3> QED BY <3>1, <2>7, <2>8
  <2>10. PICK c \in Nat : b <= c /\ f[k] <= c BY <2>9
  <2>11. \A i \in 1 .. k : f[i] <= c
    <3> SUFFICES ASSUME NEW i \in 1 .. k PROVE f[i] <= c OBVIOUS
    <3>1. CASE i = k BY <3>1, <2>10
    <3>2. CASE i # k
      <4>1. i \in 1 .. k - 1 /\ i \in 1 .. N BY <3>2, <2>4
      <4>2. f[i] \in Nat BY <4>1, <1>3
      <4>3. f[i] <= b BY <4>1, <2>7
      <4>4. \A x, y, z \in Nat : x <= y /\ y <= z => x <= z OBVIOUS
      <4> HIDE DEF Bad, Bounded
      <4> QED BY <4>2, <4>3, <4>4, <2>7, <2>10
    <3> QED BY <3>1, <3>2
  <2> QED BY <2>2, <2>11
<1>5. Bounded(N)
  <2>1. N \in 0 .. N OBVIOUS
  <2> HIDE DEF Bounded
  <2> QED BY <2>1, <1>4 DEF Bad
<1>6. PICK b \in Nat : \A i \in 1 .. N : f[i] <= b BY <1>5
<1> DEFINE Uppers == {u \in Nat : \A n \in S : n <= u}
<1>7. b \in Uppers BY <1>3, <1>6
<1>8. PICK u \in Uppers : \A v \in Uppers : u <= v
  <2>1. Uppers \in SUBSET Nat /\ Uppers # {} BY <1>7
  <2> HIDE DEF Uppers
  <2> QED BY <2>1, LeastOf
<1>9. u \in Nat /\ \A n \in S : n <= u BY <1>8
<1>10. u \in S
  <2> SUFFICES ASSUME u \notin S PROVE FALSE OBVIOUS
  <2>1. PICK n \in S : TRUE OBVIOUS
  <2>2. \A m \in S : m \in Nat /\ m <= u /\ m # u BY <1>9
  <2>3. u - 1 \in Uppers BY <2>1, <2>2, <1>9
  <2>4. u <= u - 1 BY <2>3, <1>8
  <2> QED BY <2>4, <1>9
<1> QED BY <1>9, <1>10
=============================================================================
