------------------------------ MODULE RolesProofs ------------------------------
(* Proofs about module Roles, for any number of participants, requests and ways of    *)
(* listing their addresses.                                                       *)
EXTENDS Roles, FiniteSetTheorems, FunctionTheorems, SequenceTheorems, TLAPS

------------------------------------------------------------------------------
(* Sorting and selecting.                                                       *)

(* The place of x in S.                                                         *)
Rank(S, x) == Cardinality({y \in S : y <= x})

\* Numbers of a finite set have different ranks, from 1 on.
LEMMA RankFacts ==
    ASSUME NEW S \in SUBSET Nat, IsFiniteSet(S)
    PROVE  /\ Cardinality(S) \in Nat
           /\ \A x \in S : Rank(S, x) \in 1..Cardinality(S)
           /\ \A x, z \in S : Rank(S, x) = Rank(S, z) => x = z
           /\ \A n \in 1..Cardinality(S) : \E x \in S : Rank(S, x) = n
<1> DEFINE Upto(x) == {y \in S : y <= x}
           N == Cardinality(S)
           rank == [x \in S |-> Rank(S, x)]
<1>1. N \in Nat
  BY FS_CardinalityType
<1>2. ASSUME NEW x \in S PROVE IsFiniteSet(Upto(x)) /\ Rank(S, x) \in 1..N
  <2>1. PICK U : U = Upto(x)
    OBVIOUS
  <2>2. U \in SUBSET S /\ x \in U
    BY <2>1
  <2>3. IsFiniteSet(U) /\ Cardinality(U) <= N /\ Cardinality(U) \in Nat
    BY <2>2, FS_Subset, FS_CardinalityType
  <2>4. Cardinality(U) # 0
    BY <2>2, <2>3, FS_EmptySet
  <2> QED
    BY <1>1, <2>1, <2>3, <2>4 DEF Rank
<1>3. ASSUME NEW x \in S, NEW z \in S, Rank(S, x) = Rank(S, z), x < z PROVE FALSE
  <2>1. x \in Nat /\ z \in Nat /\ \A y \in S : y \in Nat
    OBVIOUS
  <2>2. Upto(x) \in SUBSET Upto(z) /\ z \in Upto(z) /\ z \notin Upto(x)
    <3>1. ~(z <= x) /\ z <= z /\ \A y \in S : y <= x => y <= z
      BY <1>3, <2>1
    <3>2. QED
      BY <3>1
  <2>3. IsFiniteSet(Upto(z)) /\ Cardinality(Upto(z)) = Cardinality(Upto(x))
    BY <1>2, <1>3 DEF Rank
  <2> HIDE DEF Upto
  <2>4. Upto(x) = Upto(z)
    BY <2>2, <2>3, FS_Subset
  <2> QED
    BY <2>2, <2>4
<1>4. \A x, z \in S : Rank(S, x) = Rank(S, z) => x = z
  <2>1. \A x, z \in S : x \in Nat /\ z \in Nat
    OBVIOUS
  <2> QED
    BY <1>3, <2>1
<1>5. rank \in Injection(S, 1..N)
  <2>1. rank \in [S -> 1..N]
    BY <1>2
  <2> QED
    BY <1>4, <2>1, Fun_IsInj
<1>6. IsFiniteSet(1..N) /\ Cardinality(1..N) = N
  BY <1>1, FS_Interval
<1>7. rank \in Surjection(S, 1..N)
  BY <1>5, <1>6, FS_Injection
<1>8. \A n \in 1..N : \E x \in S : rank[x] = n
  BY <1>7 DEF Surjection
<1> QED
  BY <1>1, <1>2, <1>4, <1>8

\* Ascending puts every number of a finite set in its place, and in ascending order.
LEMMA AscendingFacts ==
    ASSUME NEW S \in SUBSET Nat, IsFiniteSet(S)
    PROVE  /\ Cardinality(S) \in Nat /\ DOMAIN Ascending(S) = 1..Cardinality(S)
           /\ \A n \in 1..Cardinality(S) : Ascending(S)[n] \in S
           /\ \A x \in S : \E n \in 1..Cardinality(S) : Ascending(S)[n] = x
           /\ \A m, n \in 1..Cardinality(S) : m < n => Ascending(S)[m] < Ascending(S)[n]
<1> DEFINE N == Cardinality(S)
           s == Ascending(S)
<1>1. /\ N \in Nat /\ DOMAIN s = 1..N
      /\ \A n \in 1..N : s[n] = CHOOSE x \in S : Rank(S, x) = n
  BY RankFacts DEF Ascending, Rank
<1> HIDE DEF s
<1>2. \A n \in 1..N : s[n] \in S /\ Rank(S, s[n]) = n
  <2> SUFFICES ASSUME NEW n \in 1..N PROVE s[n] \in S /\ Rank(S, s[n]) = n
    OBVIOUS
  <2>1. \E x \in S : Rank(S, x) = n
    BY RankFacts
  <2> QED
    BY <1>1, <2>1
<1>3. \A x \in S : Rank(S, x) \in 1..N /\ s[Rank(S, x)] = x
  <2> SUFFICES ASSUME NEW x \in S PROVE Rank(S, x) \in 1..N /\ s[Rank(S, x)] = x
    OBVIOUS
  <2>1. Rank(S, x) \in 1..N /\ \A z \in S : Rank(S, z) = Rank(S, x) => z = x
    BY RankFacts
  <2> QED
    BY <1>2, <2>1
<1> HIDE DEF N
<1>4. ASSUME NEW m \in 1..N, NEW n \in 1..N, m < n, ~(s[m] < s[n]) PROVE FALSE
  <2>1. PICK x, z : x = s[m] /\ z = s[n]
    OBVIOUS
  <2>2. x \in S /\ z \in S /\ Rank(S, x) = m /\ Rank(S, z) = n
    BY <1>2, <2>1
  <2>3. z <= x /\ \A y \in S : y \in Nat
    BY <1>4, <2>1, <2>2
  <2>4. PICK U, V : U = {y \in S : y <= x} /\ V = {y \in S : y <= z}
    OBVIOUS
  <2>5. V \in SUBSET U /\ U \in SUBSET S
    <3>1. \A y \in S : y <= z => y <= x
      BY <2>2, <2>3
    <3>2. QED
      BY <2>4, <3>1
  <2>6. Cardinality(V) <= Cardinality(U)
    <3>1. IsFiniteSet(U)
      BY <2>5, FS_Subset
    <3>2. QED
      BY <2>5, <3>1, FS_Subset
  <2>7. m \in Nat /\ n \in Nat /\ n <= m
    BY <1>1, <2>2, <2>4, <2>6 DEF Rank
  <2> QED
    BY <1>4, <2>7
<1> QED
  BY <1>1, <1>2, <1>3, <1>4 DEF s, N

\* At selects the elements at the indices it is given.
LEMMA AtFacts ==
    ASSUME NEW T, NEW s \in Seq(T), NEW I \in SUBSET (1..Len(s))
    PROVE  /\ IsFiniteSet(I) /\ Cardinality(I) \in Nat
           /\ At(s, I) \in Seq(T) /\ Len(At(s, I)) = Cardinality(I)
           /\ \A n \in 1..Cardinality(I) : \E i \in I : At(s, I)[n] = s[i]
           /\ \A i \in I : \E n \in 1..Cardinality(I) : At(s, I)[n] = s[i]
<1>1. Len(s) \in Nat
  BY LenProperties
<1>2. I \in SUBSET Nat /\ IsFiniteSet(I)
  <2>1. PICK R : R = 1..Len(s)
    OBVIOUS
  <2>2. IsFiniteSet(R) /\ I \in SUBSET R /\ R \subseteq Nat
    BY <1>1, <2>1, FS_Interval
  <2> QED
    BY <2>2, FS_Subset
<1>3. PICK a, N : a = Ascending(I) /\ N = Cardinality(I)
  OBVIOUS
<1>4. /\ N \in Nat /\ \A n \in 1..N : a[n] \in I
      /\ \A i \in I : \E n \in 1..N : a[n] = i
  BY <1>2, <1>3, AscendingFacts
<1>5. At(s, I) = [n \in 1..N |-> s[a[n]]]
  BY <1>3 DEF At
<1>6. \A n \in 1..N : s[a[n]] \in T
  BY <1>4, ElementOfSeq
<1>7. At(s, I) \in Seq(T) /\ Len(At(s, I)) = N
  BY <1>4, <1>5, <1>6
<1>8. \A n \in 1..N : At(s, I)[n] = s[a[n]]
  BY <1>5
<1>9. \A i \in I : \E n \in 1..N : At(s, I)[n] = s[i]
  BY <1>4, <1>8
<1> QED
  BY <1>2, <1>3, <1>4, <1>7, <1>8, <1>9

\* A set of numbers that is not empty has a least element.
LEMMA MinFacts ==
    ASSUME NEW S \in SUBSET Nat, IsFiniteSet(S), S # {}
    PROVE  Min(S) \in S /\ \A y \in S : Min(S) <= y
<1>1. Cardinality(S) \in Nat /\ Cardinality(S) # 0
  BY FS_EmptySet, FS_CardinalityType
<1>2. PICK x \in S : Rank(S, x) = 1
  BY <1>1, RankFacts
<1>3. ASSUME NEW y \in S, y < x PROVE FALSE
  <2>1. IsFiniteSet({z \in S : z <= x}) /\ Cardinality({z \in S : z <= x}) = 1
    BY <1>2, FS_Subset DEF Rank
  <2>2. PICK z : {w \in S : w <= x} = {z}
    BY <2>1, FS_Singleton
  <2> QED
    BY <1>3, <2>2
<1>4. \A y \in S : x <= y
  BY <1>3
<1> QED
  BY <1>4 DEF Min

\* Distinct has the elements at the indices it is given.
LEMMA DistinctFacts ==
    ASSUME NEW T, NEW s \in Seq(T), NEW I \in SUBSET (1..Len(s))
    PROVE  /\ Distinct(s, I) \in Seq(T)
           /\ \A n \in 1..Len(Distinct(s, I)) : \E i \in I : Distinct(s, I)[n] = s[i]
           /\ \A i \in I : \E n \in 1..Len(Distinct(s, I)) : Distinct(s, I)[n] = s[i]
<1> DEFINE J == {i \in I : \A j \in I : s[j] = s[i] => i <= j}
<1>1. Distinct(s, I) = At(s, J) /\ J \in SUBSET (1..Len(s))
  BY DEF Distinct
<1>2. ASSUME NEW i \in I PROVE \E j \in J : s[j] = s[i]
  <2> DEFINE K == {j \in I : s[j] = s[i]}
  <2>1. IsFiniteSet(I) /\ I \subseteq Nat
    BY AtFacts, LenProperties
  <2>2. K \in SUBSET Nat /\ IsFiniteSet(K) /\ K # {}
    BY <2>1, FS_Subset
  <2>3. Min(K) \in K /\ \A j \in K : Min(K) <= j
    BY <2>2, MinFacts
  <2> QED
    BY <2>3
<1> HIDE DEF J
<1>3. J \subseteq I
  BY DEF J
<1> QED
  BY <1>1, <1>2, <1>3, AtFacts

------------------------------------------------------------------------------
(* The authorization message.                                                   *)

MetaType == [key : Address, signer : BOOLEAN, writable : BOOLEAN]
MetaKeys(metas) == {metas[i].key : i \in 1..Len(metas)}

\* The metas' keys are addresses, and Written is some of them.
LEMMA MetaFacts ==
    ASSUME NEW metas \in Seq(MetaType)
    PROVE  /\ Len(metas) \in Nat /\ Keys(metas) \in Seq(Address)
           /\ Len(Keys(metas)) = Len(metas)
           /\ \A i \in 1..Len(metas) : Keys(metas)[i] = metas[i].key
           /\ Written(metas) \subseteq MetaKeys(metas) /\ MetaKeys(metas) \subseteq Address
<1>1. Len(metas) \in Nat /\ \A i \in 1..Len(metas) : metas[i] \in MetaType
  BY ElementOfSeq, LenProperties
<1>2. \A i \in 1..Len(metas) : metas[i].key \in Address
  BY <1>1 DEF MetaType
<1>3. /\ Keys(metas) \in Seq(Address) /\ Len(Keys(metas)) = Len(metas)
      /\ \A i \in 1..Len(metas) : Keys(metas)[i] = metas[i].key
  BY <1>1, <1>2 DEF Keys
<1> QED
  BY <1>1, <1>2, <1>3 DEF Written, MetaKeys

\* The signing keys are the authorities, those that the executor writes to first.
LEMMA SigningFacts ==
    ASSUME NEW metas \in Seq(MetaType), NEW A \in Seq(Address)
    PROVE  LET s == Layout(metas, A).signing
               w == Cardinality(WrittenAt(metas, A))
           IN  /\ s \in Seq(Address) /\ Len(s) = Len(A) /\ Len(A) \in Nat
               /\ w \in Nat /\ w <= Len(A)
               /\ \A n \in 1..Len(A) : /\ s[n] \in ToSet(A)
                                       /\ s[n] \in Written(metas) <=> n <= w
               /\ \A k \in ToSet(A) : \E n \in 1..Len(A) : s[n] = k
<1> DEFINE s == Layout(metas, A).signing
<1>1. PICK W, N, R : /\ W = WrittenAt(metas, A) /\ N = 1..Len(A) /\ R = N \ W
  OBVIOUS
<1>2. Len(A) \in Nat /\ DOMAIN A = N
  BY <1>1, LenProperties
<1>3. /\ IsFiniteSet(N) /\ Cardinality(N) = Len(A)
      /\ W \in SUBSET N /\ R \in SUBSET N /\ N \cap W = W
  <2>1. IsFiniteSet(N) /\ Cardinality(N) = Len(A)
    <3>1. PICK n \in Nat : n = Len(A)
      BY <1>2
    <3>2. IsFiniteSet(1..n) /\ Cardinality(1..n) = n
      BY FS_Interval
    <3>3. QED
      BY <1>1, <3>1, <3>2
  <2>2. W \in SUBSET N
    BY <1>1 DEF WrittenAt
  <2>3. R \in SUBSET N /\ N \cap W = W
    BY <1>1, <2>2
  <2> QED
    BY <2>1, <2>2, <2>3
<1>4. IsFiniteSet(W) /\ Cardinality(W) \in Nat /\ Cardinality(W) <= Len(A)
  BY <1>3, FS_Subset, FS_CardinalityType
<1>5. Cardinality(R) = Len(A) - Cardinality(W)
  <2>1. Cardinality(N \ W) = Cardinality(N) - Cardinality(N \cap W)
    BY <1>3, FS_Difference
  <2> QED
    BY <1>1, <1>3, <2>1
<1>6. PICK u, v : u = At(A, W) /\ v = At(A, R)
  OBVIOUS
<1>7. s = u \o v
  BY <1>1, <1>6 DEF Layout
<1>8. /\ u \in Seq(Address) /\ Len(u) = Cardinality(W)
      /\ \A n \in 1..Cardinality(W) : \E i \in W : u[n] = A[i]
      /\ \A i \in W : \E n \in 1..Cardinality(W) : u[n] = A[i]
  <2>1. W \in SUBSET (1..Len(A))
    BY <1>1, <1>3
  <2> QED
    BY <1>6, <2>1, AtFacts
<1>9. /\ v \in Seq(Address) /\ Len(v) = Cardinality(R)
      /\ \A n \in 1..Cardinality(R) : \E i \in R : v[n] = A[i]
      /\ \A i \in R : \E n \in 1..Cardinality(R) : v[n] = A[i]
  <2>1. R \in SUBSET (1..Len(A))
    BY <1>1
  <2> QED
    BY <1>6, <2>1, AtFacts
<1>10. \A i \in N : i \in W <=> A[i] \in Written(metas)
  BY <1>1 DEF WrittenAt
<1> HIDE DEF s
<1>11. /\ s \in Seq(Address) /\ Len(s) = Len(A)
       /\ \A n \in 1..Len(A) : s[n] = IF n <= Cardinality(W) THEN u[n] ELSE v[n - Cardinality(W)]
  BY <1>2, <1>4, <1>5, <1>7, <1>8, <1>9, ConcatProperties
<1>12. ASSUME NEW n \in 1..Len(A)
       PROVE  s[n] \in ToSet(A) /\ (s[n] \in Written(metas) <=> n <= Cardinality(W))
  <2>1. CASE n <= Cardinality(W)
    <3>1. n \in 1..Cardinality(W)
      BY <1>2, <1>4, <2>1
    <3>2. PICK i \in W : s[n] = A[i]
      BY <1>8, <1>11, <2>1, <3>1
    <3>3. QED
      BY <1>2, <1>3, <1>10, <2>1, <3>2 DEF ToSet
  <2>2. CASE ~(n <= Cardinality(W))
    <3>1. n - Cardinality(W) \in 1..Cardinality(R)
      <4>1. PICK x \in Nat, y \in Nat, z \in Int : /\ x = Len(A) /\ y = Cardinality(W)
                                                 /\ z = Cardinality(R) /\ z = x - y
        BY <1>2, <1>4, <1>5
      <4>2. n \in 1..x /\ ~(n <= y)
        BY <2>2, <4>1
      <4>3. n - y \in 1..(x - y)
        BY <4>2
      <4>4. QED
        BY <4>1, <4>3
    <3>2. PICK i \in R : s[n] = A[i]
      <4>1. s[n] = v[n - Cardinality(W)]
        BY <1>11, <2>2
      <4>2. QED
        BY <1>9, <3>1, <4>1
    <3>3. i \in N /\ i \notin W
      BY <1>1, <3>2
    <3>4. QED
      BY <1>2, <1>10, <2>2, <3>2, <3>3 DEF ToSet
  <2> QED
    BY <2>1, <2>2
<1>13. ASSUME NEW k \in ToSet(A) PROVE \E n \in 1..Len(A) : s[n] = k
  <2>1. PICK i \in N : A[i] = k
    BY <1>2 DEF ToSet
  <2>2. CASE i \in W
    <3>1. PICK n \in 1..Cardinality(W) : u[n] = A[i]
      BY <1>8, <2>2
    <3>2. n \in 1..Len(A) /\ n <= Cardinality(W)
      BY <1>2, <1>4
    <3>3. QED
      BY <1>11, <2>1, <3>1, <3>2
  <2>3. CASE i \notin W
    <3>1. PICK n \in 1..Cardinality(R) : v[n] = A[i]
      BY <1>1, <1>9, <2>3
    <3>2. PICK m : m = n + Cardinality(W)
      OBVIOUS
    <3>3. m \in 1..Len(A) /\ ~(m <= Cardinality(W)) /\ m - Cardinality(W) = n
      BY <1>2, <1>4, <1>5, <3>2
    <3>4. QED
      BY <1>11, <2>1, <3>1, <3>3
  <2> QED
    BY <2>2, <2>3
<1> QED
  BY <1>1, <1>2, <1>4, <1>11, <1>12, <1>13 DEF s

\* The other keys: those that the executor writes to, and those that it only reads.
LEMMA UnsignedFacts ==
    ASSUME NEW metas \in Seq(MetaType), NEW A \in Seq(Address)
    PROVE  LET w == Layout(metas, A).writable
               r == Layout(metas, A).readonly
               rest == MetaKeys(metas) \ (ToSet(A) \cup {ExecutorProgram})
           IN  /\ w \in Seq(Address) /\ r \in Seq(Address)
               /\ \A n \in 1..Len(w) : w[n] \in rest \cap Written(metas)
               /\ \A k \in rest \cap Written(metas) : \E n \in 1..Len(w) : w[n] = k
               /\ \A n \in 1..Len(r) : r[n] \in rest \ Written(metas)
               /\ \A k \in rest \ Written(metas) : \E n \in 1..Len(r) : r[n] = k
<1> DEFINE rest == MetaKeys(metas) \ (ToSet(A) \cup {ExecutorProgram})
           U == {i \in 1..Len(metas) : metas[i].key \notin ToSet(A) \cup {ExecutorProgram}}
           W == {i \in U : metas[i].writable}
           R == {i \in U \ W : \A j \in W : metas[j].key # metas[i].key}
<1>1. PICK w, r, keys : /\ keys = Keys(metas)
                        /\ w = Distinct(keys, W) /\ r = Distinct(keys, R)
  OBVIOUS
<1>2. Layout(metas, A).writable = w /\ Layout(metas, A).readonly = r
  BY <1>1 DEF Layout
<1>3. /\ keys \in Seq(Address) /\ Len(keys) = Len(metas) /\ Len(metas) \in Nat
      /\ \A i \in 1..Len(metas) : keys[i] = metas[i].key
  BY <1>1, MetaFacts
<1>4. W \in SUBSET (1..Len(keys)) /\ R \in SUBSET (1..Len(keys))
  BY <1>3
<1>5. \A i \in 1..Len(metas) : i \in W <=> keys[i] \in rest /\ metas[i].writable
  BY <1>3 DEF MetaKeys
<1>6. \A i \in 1..Len(metas) : i \in U <=> keys[i] \in rest
  BY <1>3 DEF MetaKeys
<1>7. \A k \in rest : k \in Written(metas) <=> \E i \in W : keys[i] = k
  <2>1. Written(metas) = {metas[i].key : i \in {j \in 1..Len(metas) : metas[j].writable}}
    BY DEF Written
  <2> QED
    BY <1>3, <1>5, <2>1
<1>8. \A i \in 1..Len(metas) : i \in R <=> keys[i] \in rest \ Written(metas)
  <2> SUFFICES ASSUME NEW i \in 1..Len(metas)
               PROVE  i \in R <=> keys[i] \in rest \ Written(metas)
    OBVIOUS
  <2>1. i \in R <=> i \in U /\ i \notin W /\ \A j \in W : keys[j] # keys[i]
    BY <1>3
  <2> HIDE DEF R, W, U, rest
  <2> QED
    BY <1>6, <1>7, <2>1
<1>9. \A k \in rest : \E i \in 1..Len(metas) : keys[i] = k
  BY <1>3 DEF MetaKeys
<1> HIDE DEF U, W, R, rest
<1>10. /\ w \in Seq(Address)
       /\ \A n \in 1..Len(w) : \E i \in W : w[n] = keys[i]
       /\ \A i \in W : \E n \in 1..Len(w) : w[n] = keys[i]
  <2>1. /\ Distinct(keys, W) \in Seq(Address)
        /\ \A n \in 1..Len(Distinct(keys, W)) : \E i \in W : Distinct(keys, W)[n] = keys[i]
        /\ \A i \in W : \E n \in 1..Len(Distinct(keys, W)) : Distinct(keys, W)[n] = keys[i]
    BY <1>3, <1>4, DistinctFacts
  <2> QED
    BY <1>1, <2>1
<1>11. /\ r \in Seq(Address)
       /\ \A n \in 1..Len(r) : \E i \in R : r[n] = keys[i]
       /\ \A i \in R : \E n \in 1..Len(r) : r[n] = keys[i]
  <2>1. /\ Distinct(keys, R) \in Seq(Address)
        /\ \A n \in 1..Len(Distinct(keys, R)) : \E i \in R : Distinct(keys, R)[n] = keys[i]
        /\ \A i \in R : \E n \in 1..Len(Distinct(keys, R)) : Distinct(keys, R)[n] = keys[i]
    BY <1>3, <1>4, DistinctFacts
  <2> QED
    BY <1>1, <2>1
<1>12. \A n \in 1..Len(w) : w[n] \in rest \cap Written(metas)
  BY <1>3, <1>4, <1>5, <1>7, <1>10
<1>13. \A k \in rest \cap Written(metas) : \E n \in 1..Len(w) : w[n] = k
  BY <1>7, <1>10
<1>14. \A n \in 1..Len(r) : r[n] \in rest \ Written(metas)
  BY <1>3, <1>4, <1>8, <1>11
<1>15. \A k \in rest \ Written(metas) : \E n \in 1..Len(r) : r[n] = k
  BY <1>8, <1>9, <1>11
<1> QED
  BY <1>2, <1>10, <1>11, <1>12, <1>13, <1>14, <1>15 DEF rest

(* A sequence is one followed by another.                                       *)
Joined(z, s, t) ==
    /\ z \in Seq(Address) /\ Len(z) = Len(s) + Len(t)
    /\ \A i \in 1..Len(s) : z[i] = s[i]
    /\ \A i \in 1..Len(t) : z[Len(s) + i] = t[i]

\* That is what a concatenation is.
LEMMA ConcatJoins ==
    ASSUME NEW s \in Seq(Address), NEW t \in Seq(Address)
    PROVE  Joined(s \o t, s, t)
<1>1. PICK m \in Nat, n \in Nat : m = Len(s) /\ n = Len(t)
  BY LenProperties
<1>2. /\ s \o t \in Seq(Address) /\ Len(s \o t) = m + n
      /\ \A i \in 1..(m + n) : (s \o t)[i] = IF i <= m THEN s[i] ELSE t[i - m]
  BY <1>1, ConcatProperties
<1>3. \A i \in 1..m : i \in 1..(m + n) /\ i <= m
  OBVIOUS
<1>4. \A i \in 1..n : m + i \in 1..(m + n) /\ ~(m + i <= m) /\ m + i - m = i
  OBVIOUS
<1> QED
  BY <1>1, <1>2, <1>3, <1>4 DEF Joined

(* The keys of an authorization message: signing ones, writable ones, the program's,  *)
(* readonly ones.                                                                *)
LaidOut(keys, a, b, c, layout) ==
    /\ a = Len(layout.signing) /\ b = Len(layout.writable) /\ c = Len(layout.readonly)
    /\ keys \in Seq(Address) /\ Len(keys) = a + b + 1 + c
    /\ \A i \in 1..a : keys[i] = layout.signing[i]
    /\ \A i \in 1..b : keys[a + i] = layout.writable[i]
    /\ keys[a + b + 1] = ExecutorProgram
    /\ \A i \in 1..c : keys[a + b + 1 + i] = layout.readonly[i]

\* That is what an authorization message's keys are.
LEMMA MessageKeys ==
    ASSUME NEW metas \in Seq(MetaType), NEW A \in Seq(Address), NEW carried
    PROVE  \E a \in Nat, b \in Nat, c \in Nat :
              LaidOut(AuthorizationMessage(metas, A, carried).keys, a, b, c, Layout(metas, A))
<1>1. PICK layout, s, w, r : /\ layout = Layout(metas, A)
                             /\ s = layout.signing /\ w = layout.writable /\ r = layout.readonly
  OBVIOUS
<1>2. s \in Seq(Address) /\ w \in Seq(Address) /\ r \in Seq(Address)
  BY <1>1, SigningFacts, UnsignedFacts
<1>3. PICK a \in Nat, b \in Nat, c \in Nat : a = Len(s) /\ b = Len(w) /\ c = Len(r)
  BY <1>2, LenProperties
<1>4. PICK x, y, z, keys :
         x = s \o w /\ y = <<ExecutorProgram>> /\ z = x \o y /\ keys = z \o r
  OBVIOUS
<1>5. AuthorizationMessage(metas, A, carried).keys = keys
  BY <1>1, <1>4 DEF AuthorizationMessage
<1>6. Joined(x, s, w)
  BY <1>2, <1>4, ConcatJoins
<1>7. y \in Seq(Address) /\ Len(y) = 1 /\ y[1] = ExecutorProgram
  BY <1>4, EnvelopeAssumption DEF EnvelopeAssumption
<1>8. x \in Seq(Address)
  BY <1>6 DEF Joined
<1>9. Joined(z, x, y)
  BY <1>4, <1>7, <1>8, ConcatJoins
<1>10. z \in Seq(Address)
  BY <1>9 DEF Joined
<1>11. Joined(keys, z, r)
  BY <1>2, <1>4, <1>10, ConcatJoins
<1>12. Len(x) = a + b /\ Len(z) = a + b + 1
  BY <1>3, <1>6, <1>7, <1>9 DEF Joined
<1>13. /\ \A i \in 1..a : x[i] = s[i]
       /\ \A i \in 1..b : x[a + i] = w[i]
  BY <1>3, <1>6 DEF Joined
<1>14. /\ \A i \in 1..(a + b) : z[i] = x[i]
       /\ z[a + b + 1] = ExecutorProgram
  <2>1. 1 \in 1..1
    OBVIOUS
  <2> QED
    BY <1>7, <1>9, <1>12, <2>1 DEF Joined
<1>15. /\ keys \in Seq(Address) /\ Len(keys) = a + b + 1 + c
       /\ \A i \in 1..(a + b + 1) : keys[i] = z[i]
       /\ \A i \in 1..c : keys[a + b + 1 + i] = r[i]
  BY <1>3, <1>11, <1>12 DEF Joined
<1>16. \A i \in 1..a : keys[i] = s[i]
  <2>1. \A i \in 1..a : i \in 1..(a + b) /\ i \in 1..(a + b + 1)
    OBVIOUS
  <2> QED
    BY <1>13, <1>14, <1>15, <2>1
<1>17. \A i \in 1..b : keys[a + i] = w[i]
  <2>1. \A i \in 1..b : a + i \in 1..(a + b) /\ a + i \in 1..(a + b + 1)
    OBVIOUS
  <2> QED
    BY <1>13, <1>14, <1>15, <2>1
<1>18. keys[a + b + 1] = ExecutorProgram
  <2>1. a + b + 1 \in 1..(a + b + 1)
    OBVIOUS
  <2> QED
    BY <1>14, <1>15, <2>1
<1>19. LaidOut(keys, a, b, c, layout)
  BY <1>1, <1>3, <1>15, <1>16, <1>17, <1>18 DEF LaidOut
<1> QED
  BY <1>1, <1>5, <1>19

\* Every account of the instruction, and the program, has a key.
LEMMA MessageHasKeys ==
    ASSUME NEW metas \in Seq(MetaType), NEW A \in Seq(Address), NEW carried,
           NEW k \in MetaKeys(metas) \cup {ExecutorProgram}
    PROVE  LET keys == AuthorizationMessage(metas, A, carried).keys
           IN  \E i \in 1..Len(keys) : keys[i] = k
<1>1. PICK layout, keys : /\ layout = Layout(metas, A)
                          /\ keys = AuthorizationMessage(metas, A, carried).keys
  OBVIOUS
<1>2. PICK a \in Nat, b \in Nat, c \in Nat : LaidOut(keys, a, b, c, layout)
  BY <1>1, MessageKeys
<1>3. /\ Len(keys) = a + b + 1 + c
      /\ a = Len(layout.signing) /\ b = Len(layout.writable) /\ c = Len(layout.readonly)
      /\ \A i \in 1..a : keys[i] = layout.signing[i]
      /\ \A i \in 1..b : keys[a + i] = layout.writable[i]
      /\ keys[a + b + 1] = ExecutorProgram
      /\ \A i \in 1..c : keys[a + b + 1 + i] = layout.readonly[i]
  BY <1>2 DEF LaidOut
<1>4. /\ \A i \in 1..a : i \in 1..(a + b + 1 + c)
      /\ \A i \in 1..b : a + i \in 1..(a + b + 1 + c)
      /\ a + b + 1 \in 1..(a + b + 1 + c)
      /\ \A i \in 1..c : a + b + 1 + i \in 1..(a + b + 1 + c)
  OBVIOUS
<1>5. CASE k \in ToSet(A)
  <2>1. PICK n \in 1..a : layout.signing[n] = k
    BY <1>1, <1>3, <1>5, SigningFacts
  <2> QED
    BY <1>1, <1>3, <1>4, <2>1
<1>6. CASE k = ExecutorProgram
  BY <1>1, <1>3, <1>4, <1>6
<1>7. CASE k \in MetaKeys(metas) \ (ToSet(A) \cup {ExecutorProgram}) /\ k \in Written(metas)
  <2>1. PICK n \in 1..Len(Layout(metas, A).writable) : Layout(metas, A).writable[n] = k
    BY <1>7, UnsignedFacts
  <2>2. n \in 1..b /\ layout.writable[n] = k
    BY <1>1, <1>3, <2>1
  <2> QED
    BY <1>1, <1>3, <1>4, <2>2
<1>8. CASE k \in MetaKeys(metas) \ (ToSet(A) \cup {ExecutorProgram}) /\ k \notin Written(metas)
  <2>1. PICK n \in 1..Len(Layout(metas, A).readonly) : Layout(metas, A).readonly[n] = k
    BY <1>8, UnsignedFacts
  <2>2. n \in 1..c /\ layout.readonly[n] = k
    BY <1>1, <1>3, <2>1
  <2> QED
    BY <1>1, <1>3, <1>4, <2>2
<1> QED
  BY <1>5, <1>6, <1>7, <1>8

(* Writable although the executor does not write to it: the fee payer's stand-in.     *)
StandIn(e, metas, A) == IF ToSet(A) \cap Written(metas) = {} THEN {e.keys[1]} ELSE {}

\* An index of an authorization message is in one of its four parts.
LEMMA FourParts ==
    ASSUME NEW a \in Nat, NEW b \in Nat, NEW c \in Nat, NEW i \in 1..(a + b + 1 + c)
    PROVE  \/ i \in 1..a
           \/ \E j \in 1..b : i = a + j
           \/ i = a + b + 1
           \/ \E j \in 1..c : i = a + b + 1 + j
<1>1. CASE i <= a
  BY <1>1
<1>2. CASE a < i /\ i <= a + b
  <2>1. i - a \in 1..b /\ i = a + (i - a)
    BY <1>2
  <2> QED
    BY <2>1
<1>3. CASE a + b + 1 < i
  <2>1. i - (a + b + 1) \in 1..c /\ i = a + b + 1 + (i - (a + b + 1))
    BY <1>3
  <2> QED
    BY <2>1
<1> QED
  BY <1>1, <1>2, <1>3

\* In an authorization message that is valid, the signers are the authorities, and what
\* is writable is what the executor writes to and, if need be, a stand-in.
LEMMA MessageRoles ==
    ASSUME NEW metas \in Seq(MetaType), NEW A \in Seq(Address), NEW carried, NEW e,
           e = AuthorizationMessage(metas, A, carried), ValidMessage(e)
    PROVE  /\ Len(e.keys) \in Nat /\ e.required \in 1..Len(e.keys)
           /\ SigningKeys(e) = ToSet(A) /\ ExecutorProgram \notin ToSet(A)
           /\ \A i \in 1..Len(e.keys) :
                 /\ IsSigner(e, i) <=> e.keys[i] \in ToSet(A)
                 /\ IsWritable(e, i) <=>
                       e.keys[i] \in (Written(metas) \cup StandIn(e, metas, A)) \ {ExecutorProgram}
<1>1. PICK layout, keys, w : /\ layout = Layout(metas, A) /\ keys = e.keys
                             /\ w = Cardinality(WrittenAt(metas, A))
  OBVIOUS
<1>2. keys = AuthorizationMessage(metas, A, carried).keys
  BY <1>1
<1>3. PICK a \in Nat, b \in Nat, c \in Nat : LaidOut(keys, a, b, c, layout)
  BY <1>1, <1>2, MessageKeys
<1>4. /\ Len(keys) = a + b + 1 + c
      /\ a = Len(layout.signing) /\ b = Len(layout.writable) /\ c = Len(layout.readonly)
      /\ \A i \in 1..a : keys[i] = layout.signing[i]
      /\ \A i \in 1..b : keys[a + i] = layout.writable[i]
      /\ keys[a + b + 1] = ExecutorProgram
      /\ \A i \in 1..c : keys[a + b + 1 + i] = layout.readonly[i]
  BY <1>3 DEF LaidOut
<1>5. /\ a = Len(A) /\ w \in Nat /\ w <= a
      /\ \A n \in 1..a : /\ layout.signing[n] \in ToSet(A)
                         /\ layout.signing[n] \in Written(metas) <=> n <= w
      /\ \A k \in ToSet(A) : \E n \in 1..a : layout.signing[n] = k
  BY <1>1, <1>4, SigningFacts
<1>6. /\ \A n \in 1..b : layout.writable[n] \in Written(metas) \ (ToSet(A) \cup {ExecutorProgram})
      /\ \A n \in 1..c : layout.readonly[n] \notin Written(metas) \cup ToSet(A) \cup {ExecutorProgram}
  <2>1. /\ \A n \in 1..Len(Layout(metas, A).writable) :
              Layout(metas, A).writable[n] \in Written(metas) \ (ToSet(A) \cup {ExecutorProgram})
        /\ \A n \in 1..Len(Layout(metas, A).readonly) :
              Layout(metas, A).readonly[n] \notin Written(metas) \cup ToSet(A) \cup {ExecutorProgram}
    BY UnsignedFacts
  <2> QED
    BY <1>1, <1>4, <2>1
<1>7. /\ e.required = a /\ e.readonlySigned = SaturatingSub(a, AtLeast(w, 1))
      /\ e.readonlyUnsigned = c + 1
  BY <1>1, <1>4, <1>5 DEF AuthorizationMessage, Header
<1>8. 1 <= a
  <2>1. e.required \in 1..MaxSignatures
    BY DEF ValidMessage
  <2>2. a \in 1..MaxSignatures
    BY <1>7, <2>1
  <2> QED
    BY <2>2
<1>9. \A i, j \in 1..(a + b + 1 + c) : keys[i] = keys[j] => i = j
  <2>1. \A i, j \in 1..Len(e.keys) : e.keys[i] = e.keys[j] => i = j
    BY DEF ValidMessage
  <2> QED
    BY <1>1, <1>4, <2>1
<1>10. /\ \A i \in 1..a : i \in 1..(a + b + 1 + c) /\ i # a + b + 1
       /\ \A i \in 1..b : a + i \in 1..(a + b + 1 + c) /\ a + i # 1
       /\ a + b + 1 \in 1..(a + b + 1 + c) /\ a + b + 1 # 1
       /\ \A i \in 1..c : a + b + 1 + i \in 1..(a + b + 1 + c) /\ a + b + 1 + i # 1
       /\ 1 \in 1..(a + b + 1 + c) /\ 1 \in 1..a
  BY <1>8
<1>11. ExecutorProgram \notin ToSet(A)
  <2> SUFFICES ASSUME ExecutorProgram \in ToSet(A) PROVE FALSE
    OBVIOUS
  <2>1. PICK n \in 1..a : layout.signing[n] = ExecutorProgram
    BY <1>5
  <2>2. keys[n] = keys[a + b + 1]
    BY <1>4, <2>1
  <2> QED
    BY <1>9, <1>10, <2>2
<1>12. SigningKeys(e) = ToSet(A)
  <2>1. SigningKeys(e) = {keys[i] : i \in 1..a}
    BY <1>1, <1>7 DEF SigningKeys
  <2>2. ASSUME NEW i \in 1..a PROVE keys[i] \in ToSet(A)
    BY <1>4, <1>5
  <2>3. ASSUME NEW k \in ToSet(A) PROVE k \in {keys[i] : i \in 1..a}
    <3>1. PICK n \in 1..a : layout.signing[n] = k
      BY <1>5
    <3>2. QED
      BY <1>4, <3>1
  <2> QED
    BY <2>1, <2>2, <2>3
<1>13. AtLeast(w, 1) \in 1..a /\ a - SaturatingSub(a, AtLeast(w, 1)) = AtLeast(w, 1)
  <2>1. PICK x : x = AtLeast(w, 1) /\ x \in 1..a
    <3>1. CASE w < 1
      BY <1>5, <1>8, <3>1 DEF AtLeast
    <3>2. CASE ~(w < 1)
      BY <1>5, <1>8, <3>2 DEF AtLeast
    <3>3. QED
      BY <3>1, <3>2
  <2>2. SaturatingSub(a, x) = a - x
    BY <2>1 DEF SaturatingSub
  <2>3. a - (a - x) = x
    BY <2>1
  <2> QED
    BY <2>1, <2>2, <2>3
<1>14. /\ \A i : IsSigner(e, i) <=> i <= a
       /\ \A i : IsWritable(e, i) <=> IF i <= a THEN i <= AtLeast(w, 1) ELSE i <= a + b + 1 + c - (c + 1)
  BY <1>1, <1>4, <1>7, <1>13 DEF IsSigner, IsWritable
<1> DEFINE standIn == StandIn(e, metas, A)
<1>15. standIn = IF w = 0 THEN {keys[1]} ELSE {}
  <2>1. CASE w = 0
    <3>1. \A n \in 1..a : ~(n <= w)
      BY <2>1
    <3>2. ToSet(A) \cap Written(metas) = {}
      BY <1>5, <3>1
    <3>3. QED
      BY <1>1, <2>1, <3>2 DEF StandIn
  <2>2. CASE w # 0
    <3>1. 1 <= w
      BY <1>5, <2>2
    <3>2. layout.signing[1] \in ToSet(A) \cap Written(metas)
      BY <1>5, <1>10, <3>1
    <3>3. QED
      BY <2>2, <3>2 DEF StandIn
  <2> QED
    BY <2>1, <2>2
<1> HIDE DEF standIn
<1> DEFINE Right(i) ==
       /\ IsSigner(e, i) <=> keys[i] \in ToSet(A)
       /\ IsWritable(e, i) <=> keys[i] \in (Written(metas) \cup standIn) \ {ExecutorProgram}
<1>16. ASSUME NEW i \in 1..a PROVE Right(i)
  <2>1. keys[i] \in ToSet(A) /\ keys[i] # ExecutorProgram
    BY <1>4, <1>5, <1>11
  <2>2. keys[i] \in Written(metas) <=> i <= w
    BY <1>4, <1>5
  <2>3. keys[i] \in standIn <=> (w = 0 /\ i = 1)
    BY <1>9, <1>10, <1>15
  <2>4. i <= AtLeast(w, 1) <=> i <= w \/ (w = 0 /\ i = 1)
    <3>1. w \in Nat /\ i \in Nat /\ 1 <= i
      BY <1>5
    <3>2. CASE w = 0
      <4>1. AtLeast(w, 1) = 1 /\ ~(i <= w)
        BY <3>1, <3>2 DEF AtLeast
      <4>2. i <= 1 <=> i = 1
        BY <3>1
      <4>3. QED
        BY <3>2, <4>1, <4>2
    <3>3. CASE w # 0
      <4>1. AtLeast(w, 1) = w
        BY <3>1, <3>3 DEF AtLeast
      <4>2. i <= w <=> i <= w \/ (w = 0 /\ i = 1)
        BY <3>3
      <4>3. QED
        BY <4>1, <4>2, Zenon
    <3>4. QED
      BY <3>2, <3>3
  <2>5. i <= a
    OBVIOUS
  <2>6. IsSigner(e, i) <=> keys[i] \in ToSet(A)
    BY <1>14, <2>1, <2>5
  <2>7. IsWritable(e, i) <=> keys[i] \in Written(metas) \/ keys[i] \in standIn
    <3>1. IsWritable(e, i) <=> i <= AtLeast(w, 1)
      BY <1>14, <2>5
    <3>2. (i <= w) \/ (w = 0 /\ i = 1) <=> keys[i] \in Written(metas) \/ keys[i] \in standIn
      BY <2>2, <2>3, Zenon
    <3>3. QED
      BY <2>4, <3>1, <3>2, Zenon
  <2> QED
    BY <2>1, <2>6, <2>7
<1>17. ASSUME NEW j \in 1..b PROVE Right(a + j)
  <2>1. keys[a + j] \in Written(metas) \ (ToSet(A) \cup {ExecutorProgram})
    BY <1>4, <1>6
  <2>2. ~(a + j <= a) /\ a + j <= a + b + 1 + c - (c + 1)
    OBVIOUS
  <2> QED
    BY <1>14, <2>1, <2>2
<1>18. Right(a + b + 1)
  <2>1. ~(a + b + 1 <= a) /\ ~(a + b + 1 <= a + b + 1 + c - (c + 1))
    OBVIOUS
  <2> QED
    BY <1>4, <1>11, <1>14, <2>1
<1>19. ASSUME NEW j \in 1..c PROVE Right(a + b + 1 + j)
  <2>1. keys[a + b + 1 + j] \notin Written(metas) \cup ToSet(A) \cup {ExecutorProgram}
    BY <1>4, <1>6
  <2>2. ~(a + b + 1 + j <= a) /\ ~(a + b + 1 + j <= a + b + 1 + c - (c + 1))
    OBVIOUS
  <2>3. keys[a + b + 1 + j] \notin standIn
    BY <1>9, <1>10, <1>15
  <2> QED
    BY <1>14, <2>1, <2>2, <2>3
<1>20. ASSUME NEW i \in 1..Len(keys) PROVE Right(i)
  <2>1. i \in 1..(a + b + 1 + c)
    BY <1>4
  <2>2. \/ i \in 1..a
        \/ \E j \in 1..b : i = a + j
        \/ i = a + b + 1
        \/ \E j \in 1..c : i = a + b + 1 + j
    BY <2>1, FourParts
  <2> HIDE DEF Right
  <2> QED
    BY <1>16, <1>17, <1>18, <1>19, <2>2
<1>21. Len(e.keys) \in Nat /\ e.required \in 1..Len(e.keys)
  <2>1. a + b + 1 + c \in Nat /\ a \in 1..(a + b + 1 + c)
    BY <1>8
  <2> QED
    BY <1>1, <1>4, <1>7, <2>1
<1> QED
  BY <1>1, <1>11, <1>12, <1>20, <1>21 DEF standIn

(* The index of the first element of s that is k.                                 *)
Place(s, k) ==
    LET I == {i \in 1..Len(s) : s[i] = k} IN IF I # {} THEN Min(I) ELSE 0

\* A key that is in a sequence is in its place.
LEMMA PlaceFacts ==
    ASSUME NEW s \in Seq(Address), NEW k, \E i \in 1..Len(s) : s[i] = k
    PROVE  Place(s, k) \in 1..Len(s) /\ s[Place(s, k)] = k
<1> DEFINE I == {i \in 1..Len(s) : s[i] = k}
<1>1. IsFiniteSet(I) /\ I \in SUBSET Nat /\ I # {}
  <2>1. I \in SUBSET (1..Len(s)) /\ I # {}
    OBVIOUS
  <2>2. I \in SUBSET Nat
    BY <2>1, LenProperties
  <2> QED
    BY <2>1, <2>2, AtFacts
<1>2. Min(I) \in I
  BY <1>1, MinFacts
<1> QED
  BY <1>1, <1>2 DEF Place

\* The instruction of an authorization message names the executor and its accounts in
\* their order.
LEMMA MessageInstruction ==
    ASSUME NEW metas \in Seq(MetaType), NEW A \in Seq(Address), NEW carried, NEW e,
           e = AuthorizationMessage(metas, A, carried)
    PROVE  /\ e.keys[e.program] = ExecutorProgram
           /\ Len(e.accounts) = Len(metas) /\ Len(metas) \in Nat
           /\ \A i \in 1..Len(metas) : ExecutorAccount(e, i) = metas[i].key
           /\ e.keys \in Seq(Address) /\ e.carried = carried
<1>1. PICK keys : keys = e.keys /\ keys = AuthorizationMessage(metas, A, carried).keys
  OBVIOUS
<1>2. keys \in Seq(Address)
  BY <1>1, MessageKeys DEF LaidOut
<1>3. /\ e.program = Place(keys, ExecutorProgram)
      /\ e.accounts = [i \in 1..Len(metas) |-> Place(keys, metas[i].key)]
      /\ e.carried = carried
  BY <1>1 DEF AuthorizationMessage, SelectInSeq, Place
<1>4. Len(metas) \in Nat
  BY LenProperties
<1>5. \A k \in MetaKeys(metas) \cup {ExecutorProgram} : keys[Place(keys, k)] = k
  <2> SUFFICES ASSUME NEW k \in MetaKeys(metas) \cup {ExecutorProgram}
               PROVE  keys[Place(keys, k)] = k
    OBVIOUS
  <2>1. \E i \in 1..Len(AuthorizationMessage(metas, A, carried).keys) :
            AuthorizationMessage(metas, A, carried).keys[i] = k
    BY MessageHasKeys
  <2>2. \E i \in 1..Len(keys) : keys[i] = k
    BY <1>1, <2>1
  <2> QED
    BY <1>2, <2>2, PlaceFacts
<1>6. \A i \in 1..Len(metas) : ExecutorAccount(e, i) = metas[i].key
  BY <1>1, <1>3, <1>5 DEF ExecutorAccount, MetaKeys
<1> QED
  BY <1>1, <1>2, <1>3, <1>4, <1>5, <1>6

------------------------------------------------------------------------------
(* Requests.                                                                    *)

\* An execution message has the keys and the header of the message it is made of.
LEMMA MessageOfRequest ==
    ASSUME NEW r \in Requests
    PROVE  LET m == ExecutionMessage(r)
           IN  /\ m.keys = r.message.keys /\ m.required = r.message.required
               /\ m.readonlySigned = r.message.readonlySigned
               /\ m.readonlyUnsigned = r.message.readonlyUnsigned
               /\ \A i : IsSigner(m, i) = IsSigner(r.message, i)
               /\ \A i : IsWritable(m, i) = IsWritable(r.message, i)
               /\ SigningKeys(m) = SigningKeys(r.message)
               /\ ValidMessage(m) <=> ValidMessage(r.message)
<1>1. PICK m, o : m = ExecutionMessage(r) /\ o = r.message
  OBVIOUS
<1>2. o = [keys |-> o.keys, required |-> o.required, readonlySigned |-> o.readonlySigned,
           readonlyUnsigned |-> o.readonlyUnsigned, config |-> o.config, lifetime |-> o.lifetime]
  BY <1>1, RequestsAssumption
<1>3. m = [o EXCEPT !.config = FALSE, !.lifetime = r.nonceHash]
  BY <1>1 DEF ExecutionMessage
<1>4. /\ m.keys = o.keys /\ m.required = o.required
      /\ m.readonlySigned = o.readonlySigned /\ m.readonlyUnsigned = o.readonlyUnsigned
  BY <1>2, <1>3
<1>5. \A i : IsSigner(m, i) = IsSigner(o, i) /\ IsWritable(m, i) = IsWritable(o, i)
  BY <1>4 DEF IsSigner, IsWritable
<1>6. SigningKeys(m) = SigningKeys(o)
  BY <1>4 DEF SigningKeys
<1>7. ValidMessage(m) <=> ValidMessage(o)
  BY <1>4 DEF ValidMessage
<1> QED
  BY <1>1, <1>4, <1>5, <1>6, <1>7

\* The accounts of a request's Execute instruction: three for the nonce, then those of
\* the message with the flags of its header.
LEMMA MetasOfRequest ==
    ASSUME NEW r \in Requests
    PROVE  \E n \in Nat :
              LET metas == ExecuteMetas(r)
              IN  /\ n = Len(r.message.keys) /\ metas \in Seq(MetaType) /\ Len(metas) = 3 + n
                  /\ metas[1] = Meta(r.nonceAuthority, TRUE, FALSE)
                  /\ metas[2] = Meta(r.nonceAccount, FALSE, TRUE)
                  /\ metas[3] = Meta(NonceProgram, FALSE, FALSE)
                  /\ \A i \in 1..n :
                        metas[3 + i] = Meta(r.message.keys[i], IsSigner(r.message, i),
                                            IsWritable(r.message, i))
<1>1. PICK m, o, keys : m = ExecutionMessage(r) /\ o = r.message /\ keys = o.keys
  OBVIOUS
<1>2. /\ keys \in Seq(Address) /\ {o.required, o.readonlySigned, o.readonlyUnsigned} \subseteq Nat
      /\ {r.nonceAccount, r.nonceAuthority} \subseteq Address
  BY <1>1, RequestsAssumption
<1>3. PICK n \in Nat : n = Len(keys) /\ \A i \in 1..n : keys[i] \in Address
  BY <1>2, LenProperties, ElementOfSeq
<1>4. /\ m.keys = keys
      /\ \A i : IsSigner(m, i) = IsSigner(o, i) /\ IsWritable(m, i) = IsWritable(o, i)
  BY <1>1, MessageOfRequest
<1>5. \A i \in 1..n : IsSigner(o, i) \in BOOLEAN /\ IsWritable(o, i) \in BOOLEAN
  <2> SUFFICES ASSUME NEW i \in 1..n
               PROVE  IsSigner(o, i) \in BOOLEAN /\ IsWritable(o, i) \in BOOLEAN
    OBVIOUS
  <2>1. \A j, k : (j <= k) \in BOOLEAN
    OBVIOUS
  <2>2. IsSigner(o, i) \in BOOLEAN
    BY <2>1 DEF IsSigner
  <2>3. IsWritable(o, i) \in BOOLEAN
    BY <2>1 DEF IsWritable
  <2> QED
    BY <2>2, <2>3
<1> DEFINE t == [i \in 1..n |-> Meta(keys[i], IsSigner(o, i), IsWritable(o, i))]
<1>6. \A i \in 1..n : Meta(keys[i], IsSigner(o, i), IsWritable(o, i)) \in MetaType
  BY <1>3, <1>5 DEF Meta, MetaType
<1>7. t \in Seq(MetaType) /\ Len(t) = n
  BY <1>6
<1>8. \A i \in 1..n : t[i] = Meta(keys[i], IsSigner(o, i), IsWritable(o, i))
  OBVIOUS
<1>9. /\ Meta(r.nonceAuthority, TRUE, FALSE) \in MetaType
      /\ Meta(r.nonceAccount, FALSE, TRUE) \in MetaType
      /\ Meta(NonceProgram, FALSE, FALSE) \in MetaType
  BY <1>2, EnvelopeAssumption DEF Meta, MetaType, EnvelopeAssumption
<1>10. PICK s : /\ s = <<Meta(r.nonceAuthority, TRUE, FALSE), Meta(r.nonceAccount, FALSE, TRUE),
                          Meta(NonceProgram, FALSE, FALSE)>>
                /\ s \in Seq(MetaType) /\ Len(s) = 3
                /\ s[1] = Meta(r.nonceAuthority, TRUE, FALSE)
                /\ s[2] = Meta(r.nonceAccount, FALSE, TRUE)
                /\ s[3] = Meta(NonceProgram, FALSE, FALSE)
  <2>1. PICK x, y, z : /\ x = Meta(r.nonceAuthority, TRUE, FALSE)
                       /\ y = Meta(r.nonceAccount, FALSE, TRUE)
                       /\ z = Meta(NonceProgram, FALSE, FALSE)
    OBVIOUS
  <2>2. x \in MetaType /\ y \in MetaType /\ z \in MetaType
    BY <1>9, <2>1
  <2> HIDE DEF MetaType
  <2>3. /\ <<x, y, z>> \in Seq(MetaType) /\ Len(<<x, y, z>>) = 3
        /\ <<x, y, z>>[1] = x /\ <<x, y, z>>[2] = y /\ <<x, y, z>>[3] = z
    BY <2>2
  <2> QED
    BY <2>1, <2>3
<1>11. ExecuteMetas(r) = s \o t
  <2>1. \A i \in 1..n : Meta(m.keys[i], IsSigner(m, i), IsWritable(m, i)) = t[i]
    BY <1>4
  <2>2. [i \in 1..Len(m.keys) |-> Meta(m.keys[i], IsSigner(m, i), IsWritable(m, i))] = t
    BY <1>3, <1>4, <2>1
  <2> QED
    BY <1>1, <1>10, <2>2 DEF ExecuteMetas, ExecuteAccounts
<1> HIDE DEF t
<1>12. PICK z : /\ z = ExecuteMetas(r) /\ z \in Seq(MetaType) /\ Len(z) = 3 + n
                /\ \A i \in 1..(3 + n) : z[i] = IF i <= 3 THEN s[i] ELSE t[i - 3]
  <2>1. PICK T, z : T = MetaType /\ z = s \o t
    OBVIOUS
  <2>2. s \in Seq(T) /\ t \in Seq(T) /\ Len(s) = 3 /\ Len(t) = n
    BY <1>7, <1>10, <2>1
  <2>3. /\ z \in Seq(T) /\ Len(z) = Len(s) + Len(t)
        /\ \A i \in 1..(Len(s) + Len(t)) : z[i] = IF i <= Len(s) THEN s[i] ELSE t[i - Len(s)]
    BY <2>1, <2>2, ConcatProperties
  <2> QED
    BY <1>11, <2>1, <2>2, <2>3
<1>13. /\ \A i \in 1..n : 3 + i \in 1..(3 + n) /\ ~(3 + i <= 3) /\ 3 + i - 3 = i
       /\ 1 \in 1..(3 + n) /\ 2 \in 1..(3 + n) /\ 3 \in 1..(3 + n)
  OBVIOUS
<1>14. z[1] = s[1] /\ z[2] = s[2] /\ z[3] = s[3] /\ \A i \in 1..n : z[3 + i] = t[i]
  <2>1. z[1] = s[1] /\ z[2] = s[2] /\ z[3] = s[3]
    BY <1>12, <1>13
  <2>2. \A i \in 1..n : z[3 + i] = t[i]
    BY <1>12, <1>13
  <2> QED
    BY <2>1, <2>2
<1>15. \A i \in 1..n : z[3 + i] = Meta(keys[i], IsSigner(o, i), IsWritable(o, i))
  BY <1>8, <1>14
<1> QED
  BY <1>1, <1>3, <1>10, <1>12, <1>14, <1>15

\* An ascending sequence of addresses has each of them.
LEMMA AscendingAddresses ==
    ASSUME NEW S \in SUBSET Address, IsFiniteSet(S)
    PROVE  Ascending(S) \in Seq(Address) /\ ToSet(Ascending(S)) = S
<1>1. S \in SUBSET Nat
  BY EnvelopeAssumption DEF EnvelopeAssumption
<1>2. PICK a, n : a = Ascending(S) /\ n = Cardinality(S)
  OBVIOUS
<1>3. /\ n \in Nat /\ DOMAIN a = 1..n
      /\ \A i \in 1..n : a[i] \in S
      /\ \A x \in S : \E i \in 1..n : a[i] = x
  BY <1>1, <1>2, AscendingFacts
<1>4. a = [i \in 1..n |-> a[i]]
  BY <1>2, <1>3 DEF Ascending
<1>5. a \in Seq(Address)
  <2>1. \A i \in 1..n : a[i] \in Address
    BY <1>3
  <2>2. [i \in 1..n |-> a[i]] \in Seq(Address)
    BY <1>3, <2>1
  <2> QED
    BY <1>4, <2>2
<1>6. ToSet(a) = S
  BY <1>3 DEF ToSet
<1> QED
  BY <1>2, <1>5, <1>6

\* The elements of a sequence are finitely many.
LEMMA ElementsFinite ==
    ASSUME NEW s \in Seq(Address)
    PROVE  IsFiniteSet(ToSet(s)) /\ ToSet(s) \in SUBSET Address
<1>1. PICK n \in Nat : n = Len(s) /\ DOMAIN s = 1..n
  BY LenProperties
<1>2. ToSet(s) = {s[i] : i \in 1..n} /\ \A i \in 1..n : s[i] \in Address
  BY <1>1, ElementOfSeq DEF ToSet
<1>3. IsFiniteSet(1..n)
  BY FS_Interval
<1>4. IsFiniteSet({s[i] : i \in 1..n})
  <2> DEFINE f == [i \in 1..n |-> s[i]]
             T == {s[i] : i \in 1..n}
  <2>1. f \in Surjection(1..n, T)
    BY DEF Surjection
  <2> QED
    BY <1>3, <2>1, FS_Surjection
<1> QED
  BY <1>2, <1>4

(* Who signs an envelope, as sign works it out from the request.                      *)
Signing(r) == Authorities(r) \cup Forwarded(r) \cup RelaySigners(r)

\* The signers that sign lists are those.
LEMMA SignersOfRequest ==
    ASSUME NEW r \in Requests, ValidMessage(r.message)
    PROVE  /\ Uses(r) \in SUBSET Address /\ IsFiniteSet(Uses(r))
           /\ Signing(r) \in SUBSET Address
           /\ IsFiniteSet(Forwarded(r))
           /\ AuthorizationSigners(r) \in Seq(Address)
           /\ ToSet(AuthorizationSigners(r)) = Signing(r)
<1>1. PICK o, keys, n : o = r.message /\ keys = o.keys /\ n = o.required
  OBVIOUS
<1>2. /\ keys \in Seq(Address) /\ n \in Nat /\ o.readonlyUnsigned \in Nat
      /\ r.nonceAuthority \in Address
      /\ r.authorities \in Seq(Address) /\ r.relaySigners \in Seq(Address)
  BY <1>1, RequestsAssumption
<1>3. n <= Len(keys) /\ Len(keys) \in Nat
  <2>1. n + o.readonlyUnsigned <= Len(keys)
    BY <1>1 DEF ValidMessage
  <2> QED
    BY <1>2, <2>1, LenProperties
<1>4. \A i \in 1..n : keys[i] \in Address
  <2>1. \A i \in 1..n : i \in 1..Len(keys)
    BY <1>2, <1>3
  <2> QED
    BY <1>2, <2>1, ElementOfSeq
<1>5. SigningKeys(o) = {keys[i] : i \in 1..n}
  BY <1>1 DEF SigningKeys
<1>6. IsFiniteSet({keys[i] : i \in 1..n}) /\ {keys[i] : i \in 1..n} \in SUBSET Address
  <2> DEFINE T == {keys[i] : i \in 1..n}
             f == [i \in 1..n |-> keys[i]]
  <2>1. f \in Surjection(1..n, T)
    BY DEF Surjection
  <2>2. IsFiniteSet(1..n)
    BY <1>2, FS_Interval
  <2> QED
    BY <1>4, <2>1, <2>2, FS_Surjection
<1>7. Uses(r) = SigningKeys(o) \cup {r.nonceAuthority}
  BY <1>1 DEF Uses, UsedAsSigner
<1>8. IsFiniteSet(Uses(r)) /\ Uses(r) \in SUBSET Address
  <2>1. PICK T, x : T = {keys[i] : i \in 1..n} /\ x = r.nonceAuthority
    OBVIOUS
  <2>2. IsFiniteSet(T) /\ T \in SUBSET Address /\ x \in Address /\ Uses(r) = T \cup {x}
    BY <1>2, <1>5, <1>6, <1>7, <2>1
  <2> QED
    BY <2>2, FS_AddElement
<1>9. IsFiniteSet(Forwarded(r)) /\ Forwarded(r) \in SUBSET Uses(r)
  BY <1>8, FS_Subset DEF Forwarded
<1>10. /\ IsFiniteSet(Authorities(r)) /\ Authorities(r) \in SUBSET Address
       /\ IsFiniteSet(RelaySigners(r)) /\ RelaySigners(r) \in SUBSET Address
  BY <1>2, ElementsFinite DEF Authorities, RelaySigners
<1>11. IsFiniteSet(Signing(r)) /\ Signing(r) \in SUBSET Address
  <2>1. IsFiniteSet(Authorities(r) \cup Forwarded(r))
    BY <1>9, <1>10, FS_Union
  <2>2. IsFiniteSet((Authorities(r) \cup Forwarded(r)) \cup RelaySigners(r))
    BY <1>10, <2>1, FS_Union
  <2> QED
    BY <1>8, <1>9, <1>10, <2>2 DEF Signing
<1>12. AuthorizationSigners(r) = Ascending(Signing(r))
  BY DEF AuthorizationSigners, Signing
<1> QED
  BY <1>8, <1>9, <1>11, <1>12, AscendingAddresses

\* What can be read back from an envelope that could be built for a request: the signers
\* it was given, its accounts in their roles, the execution message and the nonce.
LEMMA EnvelopeReadsBack ==
    ASSUME NEW r \in Requests, ValidMessage(r.message), NEW A \in Seq(Address),
           Buildable(ExecuteMetas(r), A, ExecutionMessage(r)), NEW e,
           e = AuthorizationMessage(ExecuteMetas(r), A, ExecutionMessage(r))
    PROVE  /\ e.keys \in Seq(Address) /\ e.required \in 1..Len(e.keys)
           /\ Required(e) = ToSet(A) /\ ExecutorProgram \notin ToSet(A)
           /\ \A i \in 1..Len(e.keys) :
                 /\ IsSigner(e, i) <=> e.keys[i] \in ToSet(A)
                 /\ IsWritable(e, i) <=>
                       e.keys[i] \in (Written(ExecuteMetas(r)) \cup StandIn(e, ExecuteMetas(r), A))
                                         \ {ExecutorProgram}
           /\ e.keys[e.program] = ExecutorProgram
           /\ Len(e.accounts) = Len(ExecuteMetas(r))
           /\ \A i \in 1..Len(ExecuteMetas(r)) : ExecutorAccount(e, i) = ExecuteMetas(r)[i].key
           /\ e.carried = ExecutionMessage(r)
           /\ NonceAuthorityOf(e) = r.nonceAuthority /\ NonceAccountOf(e) = r.nonceAccount
           /\ Needs(e) = Uses(r) /\ WellFormed(e)
<1>1. PICK metas, m : metas = ExecuteMetas(r) /\ m = ExecutionMessage(r)
  OBVIOUS
<1>2. PICK n \in Nat : /\ metas \in Seq(MetaType) /\ Len(metas) = 3 + n
                       /\ metas[1] = Meta(r.nonceAuthority, TRUE, FALSE)
                       /\ metas[2] = Meta(r.nonceAccount, FALSE, TRUE)
  BY <1>1, MetasOfRequest
<1>3. ValidMessage(e) /\ e = AuthorizationMessage(metas, A, m)
  BY <1>1 DEF Buildable
<1>4. /\ e.required \in 1..Len(e.keys)
      /\ SigningKeys(e) = ToSet(A) /\ ExecutorProgram \notin ToSet(A)
      /\ \A i \in 1..Len(e.keys) :
            /\ IsSigner(e, i) <=> e.keys[i] \in ToSet(A)
            /\ IsWritable(e, i) <=>
                  e.keys[i] \in (Written(metas) \cup StandIn(e, metas, A)) \ {ExecutorProgram}
  BY <1>2, <1>3, MessageRoles
<1>5. /\ e.keys[e.program] = ExecutorProgram
      /\ Len(e.accounts) = Len(metas)
      /\ \A i \in 1..Len(metas) : ExecutorAccount(e, i) = metas[i].key
      /\ e.keys \in Seq(Address) /\ e.carried = m
  BY <1>2, <1>3, MessageInstruction
<1>6. 1 \in 1..Len(metas) /\ 2 \in 1..Len(metas) /\ Len(metas) >= 3
  BY <1>2
<1>7. NonceAuthorityOf(e) = r.nonceAuthority /\ NonceAccountOf(e) = r.nonceAccount
  BY <1>2, <1>5, <1>6 DEF NonceAuthorityOf, NonceAccountOf, Meta
<1>8. SigningKeys(m) = SigningKeys(r.message) /\ ValidMessage(m)
  BY <1>1, MessageOfRequest
<1>9. Needs(e) = Uses(r)
  BY <1>5, <1>7, <1>8 DEF Needs, Uses, UsedAsSigner
<1>10. WellFormed(e)
  BY <1>3, <1>5, <1>6, <1>8 DEF WellFormed
<1> QED
  BY <1>1, <1>4, <1>5, <1>7, <1>9, <1>10 DEF Required

\* So it is for the envelope of a request that sign accepts.
LEMMA EnvelopeOfAccepted ==
    ASSUME NEW r \in Requests, ~SignRefused(r)
    PROVE  /\ ValidMessage(r.message)
           /\ AuthorizationSigners(r) \in Seq(Address)
           /\ ToSet(AuthorizationSigners(r)) = Signing(r)
           /\ Buildable(ExecuteMetas(r), AuthorizationSigners(r), ExecutionMessage(r))
           /\ EnvelopeOf(r) = AuthorizationMessage(ExecuteMetas(r), AuthorizationSigners(r),
                                                   ExecutionMessage(r))
<1>1. ValidMessage(r.message)
  BY DEF SignRefused, Readable
<1> QED
  BY <1>1, SignersOfRequest DEF SignRefused, EnvelopeOf

------------------------------------------------------------------------------
(* One envelope.                                                                *)

(* Every participant has made the envelope of the request as it is, or none yet.       *)
EnvelopesOfRequest ==
    /\ request \in Requests
    /\ envelopes = [p \in Participant |-> envelopes[p]]
    /\ \A p \in Participant :
          envelopes[p] # NotYet =>
             envelopes[p] = EnvelopeOf(request) /\ ~SignRefused(request) /\ Submittable(request)

\* sign makes of a listing what it makes of the request: the addresses are sorted, and a
\* repeated one counts once, before anything is laid out.
LEMMA ListingMakesNoDifference ==
    ASSUME NEW r \in Requests, NEW l \in Listings(r)
    PROVE  /\ EnvelopeOf(l) = EnvelopeOf(r)
           /\ SignRefused(r) => SignRefused(l)
           /\ Submittable(l) => Submittable(r)
<1>1. /\ Authorities(l) = Authorities(r) /\ RelaySigners(l) = RelaySigners(r)
      /\ l.message = r.message /\ l.strip = r.strip /\ l.nonceHash = r.nonceHash
      /\ l.nonceAccount = r.nonceAccount /\ l.nonceAuthority = r.nonceAuthority
  BY ListingsAssumption
<1>2. Uses(l) = Uses(r) /\ Forwarded(l) = Forwarded(r)
  BY <1>1 DEF Forwarded, Uses
<1>3. AuthorizationSigners(l) = AuthorizationSigners(r)
  BY <1>1, <1>2 DEF AuthorizationSigners
<1>4. ExecutionMessage(l) = ExecutionMessage(r)
  BY <1>1 DEF ExecutionMessage
<1>5. ExecuteMetas(l) = ExecuteMetas(r)
  BY <1>1, <1>4 DEF ExecuteMetas
<1>6. EnvelopeOf(l) = EnvelopeOf(r)
  BY <1>3, <1>4, <1>5 DEF EnvelopeOf
<1>7. SignRefused(r) => SignRefused(l)
  BY <1>1, <1>2, <1>3, <1>4, <1>5 DEF SignRefused
<1>8. SmallestRelay(l, EnvelopeOf(l)) = SmallestRelay(r, EnvelopeOf(r))
  BY <1>1, <1>2, <1>6 DEF SmallestRelay
<1> QED
  BY <1>6, <1>7, <1>8 DEF Submittable

\* No participant has made an envelope yet.
LEMMA InitEnvelopes == Init => EnvelopesOfRequest
BY DEF Init, EnvelopesOfRequest

\* Each participant's run of sign adds the request's envelope; submit adds none.
LEMMA StepEnvelopes == EnvelopesOfRequest /\ [Next]_vars => EnvelopesOfRequest'
<1> SUFFICES ASSUME EnvelopesOfRequest, [Next]_vars PROVE EnvelopesOfRequest'
  OBVIOUS
<1>1. ASSUME NEW p \in Participant, NEW l \in Listings(request), Sign(p, l)
      PROVE  EnvelopesOfRequest'
  <2>1. PICK e, r : e = EnvelopeOf(request) /\ r = request
    OBVIOUS
  <2>2. /\ r \in Requests /\ EnvelopeOf(l) = e
        /\ SignRefused(r) => SignRefused(l)
        /\ Submittable(l) => Submittable(r)
    BY <2>1, ListingMakesNoDifference DEF EnvelopesOfRequest
  <2>3. /\ envelopes' = [envelopes EXCEPT ![p] = e] /\ request' = r
        /\ ~SignRefused(r) /\ Submittable(r)
    BY <1>1, <2>1, <2>2 DEF Sign
  <2>4. \A q \in Participant \ {p} : envelopes'[q] = envelopes[q]
    BY <2>3 DEF EnvelopesOfRequest
  <2>5. envelopes' = [q \in Participant |-> envelopes'[q]] /\ envelopes'[p] = e
    BY <2>3 DEF EnvelopesOfRequest
  <2> HIDE DEF EnvelopesOfRequest
  <2>6. \A q \in Participant :
            envelopes'[q] # NotYet => envelopes'[q] = e /\ ~SignRefused(r) /\ Submittable(r)
    BY <2>1, <2>3, <2>4, <2>5 DEF EnvelopesOfRequest
  <2> QED
    BY <2>1, <2>2, <2>3, <2>5, <2>6 DEF EnvelopesOfRequest
<1>2. ASSUME request' = request, envelopes' = envelopes PROVE EnvelopesOfRequest'
  BY <1>2 DEF EnvelopesOfRequest
<1>3. ASSUME NEW p, NEW approvals, NEW relaySigners, NEW feePayer, NEW durable,
             Submit(p, approvals, relaySigners, feePayer, durable)
      PROVE  EnvelopesOfRequest'
  BY <1>2, <1>3 DEF Submit
<1>4. CASE UNCHANGED vars
  BY <1>2, <1>4 DEF vars
<1> QED
  BY <1>1, <1>3, <1>4 DEF Next

\* Every envelope is always the one of the request, and sign accepted it.
LEMMA EnvelopesHold == Spec => []EnvelopesOfRequest
BY InitEnvelopes, StepEnvelopes, PTL DEF Spec

\* However the participants list the addresses, they make the same envelope, so that
\* their signatures can be put together.
THEOREM ParticipantsAgree == Spec => []OneEnvelope
<1>1. EnvelopesOfRequest => OneEnvelope
  <2> SUFFICES ASSUME EnvelopesOfRequest PROVE Cardinality(Envelopes) <= 1
    BY DEF OneEnvelope
  <2>1. Envelopes \subseteq {EnvelopeOf(request)}
    BY DEF Envelopes, EnvelopesOfRequest
  <2>2. CASE Envelopes = {}
    BY <2>2, FS_EmptySet
  <2>3. CASE Envelopes = {EnvelopeOf(request)}
    BY <2>3, FS_Singleton
  <2> QED
    BY <2>1, <2>2, <2>3
<1> QED
  BY <1>1, EnvelopesHold, PTL
------------------------------------------------------------------------------
(* What an envelope lets the executor do.                                        *)

\* An index of a concatenation's second part.
LEMMA AfterThree ==
    ASSUME NEW n \in Nat, NEW i \in 1..(3 + n)
    PROVE  i = 1 \/ i = 2 \/ i = 3 \/ \E j \in 1..n : i = 3 + j
<1>1. CASE i <= 3
  BY <1>1
<1>2. CASE 3 < i
  <2>1. i - 3 \in 1..n /\ i = 3 + (i - 3)
    BY <1>2
  <2> QED
    BY <2>1
<1> QED
  BY <1>1, <1>2

(* The keys that a valid message has at its indices up to its count of signers, and at  *)
(* the writable ones.                                                            *)
WritableKeys(m) == {m.keys[i] : i \in {j \in 1..Len(m.keys) : IsWritable(m, j)}}

\* The accounts of an Execute instruction are those the execution uses: its signers are
\* marked as signers, and no others, and what it writes to as writable.
LEMMA MetasCoverUses ==
    ASSUME NEW r \in Requests, ValidMessage(r.message)
    PROVE  LET metas == ExecuteMetas(r)
           IN  /\ Uses(r) = {metas[i].key : i \in {j \in 1..Len(metas) : metas[j].signer}}
               /\ Uses(r) \subseteq MetaKeys(metas)
               /\ WritableKeys(r.message) \cup {r.nonceAccount} \subseteq Written(metas)
<1>1. PICK metas, o, keys, a, b :
         /\ metas = ExecuteMetas(r) /\ o = r.message /\ keys = o.keys
         /\ a = r.nonceAuthority /\ b = r.nonceAccount
  OBVIOUS
<1>2. PICK n \in Nat : /\ n = Len(keys) /\ Len(metas) = 3 + n
                       /\ metas[1] = Meta(a, TRUE, FALSE)
                       /\ metas[2] = Meta(b, FALSE, TRUE)
                       /\ metas[3] = Meta(NonceProgram, FALSE, FALSE)
                       /\ \A i \in 1..n :
                             metas[3 + i] = Meta(keys[i], IsSigner(o, i), IsWritable(o, i))
  BY <1>1, MetasOfRequest
<1>3. PICK q \in Nat : q = o.required /\ q <= n
  <2>1. PICK x \in Nat, y \in Nat : x = o.required /\ y = o.readonlyUnsigned
    BY <1>1, RequestsAssumption
  <2>2. x + y <= n
    BY <1>1, <1>2, <2>1 DEF ValidMessage
  <2>3. x <= n
    BY <2>2
  <2> QED
    BY <2>1, <2>3
<1>4. /\ metas[1].key = a /\ metas[1].signer = TRUE
      /\ metas[2].key = b /\ metas[2].signer = FALSE /\ metas[2].writable = TRUE
      /\ metas[3].signer = FALSE
      /\ \A i \in 1..n : /\ metas[3 + i].key = keys[i]
                         /\ metas[3 + i].signer = IsSigner(o, i)
                         /\ metas[3 + i].writable = IsWritable(o, i)
  <2>1. /\ metas[1].key = a /\ metas[1].signer = TRUE
        /\ metas[2].key = b /\ metas[2].signer = FALSE /\ metas[2].writable = TRUE
        /\ metas[3].signer = FALSE
    BY <1>2 DEF Meta
  <2>2. ASSUME NEW i \in 1..n
        PROVE  /\ metas[3 + i].key = keys[i]
               /\ metas[3 + i].signer = IsSigner(o, i)
               /\ metas[3 + i].writable = IsWritable(o, i)
    <3>1. PICK s, w : s = IsSigner(o, i) /\ w = IsWritable(o, i)
      OBVIOUS
    <3>2. metas[3 + i] = Meta(keys[i], s, w)
      BY <1>2, <3>1
    <3>3. QED
      BY <3>1, <3>2 DEF Meta
  <2> QED
    BY <2>1, <2>2
<1>5. 1 \in 1..(3 + n) /\ 2 \in 1..(3 + n) /\ \A i \in 1..n : 3 + i \in 1..(3 + n)
  OBVIOUS
<1>6. Uses(r) = {keys[i] : i \in 1..q} \cup {a}
  BY <1>1, <1>3 DEF Uses, UsedAsSigner, SigningKeys
<1> DEFINE S == {metas[i].key : i \in {j \in 1..(3 + n) : metas[j].signer}}
<1>7. Uses(r) \subseteq S
  <2>1. a \in S
    BY <1>4, <1>5
  <2>2. ASSUME NEW i \in 1..q PROVE keys[i] \in S
    <3>1. i \in 1..n /\ i <= o.required
      BY <1>3
    <3>2. metas[3 + i].key = keys[i] /\ metas[3 + i].signer /\ 3 + i \in 1..(3 + n)
      BY <1>4, <1>5, <3>1 DEF IsSigner
    <3>3. QED
      BY <3>2
  <2> HIDE DEF S
  <2> QED
    BY <1>6, <2>1, <2>2
<1>8. S \subseteq Uses(r)
  <2> SUFFICES ASSUME NEW i \in 1..(3 + n), metas[i].signer PROVE metas[i].key \in Uses(r)
    OBVIOUS
  <2>1. CASE i = 1 \/ i = 2 \/ i = 3
    BY <1>4, <1>6, <2>1
  <2>2. ASSUME NEW j \in 1..n, i = 3 + j PROVE metas[i].key \in Uses(r)
    <3>1. j <= q
      BY <1>3, <1>4, <2>2 DEF IsSigner
    <3>2. j \in 1..q
      BY <3>1
    <3>3. metas[i].key = keys[j]
      BY <1>4, <2>2
    <3>4. keys[j] \in Uses(r)
      BY <1>6, <3>2
    <3>5. QED
      BY <3>3, <3>4
  <2> QED
    BY <2>1, <2>2, AfterThree
<1>9. S \subseteq {metas[i].key : i \in 1..(3 + n)}
  OBVIOUS
<1> DEFINE W == {metas[i].key : i \in {j \in 1..(3 + n) : metas[j].writable}}
<1>10. WritableKeys(o) \cup {b} \subseteq W
  <2>1. b \in W
    BY <1>4, <1>5
  <2>2. ASSUME NEW i \in 1..n, IsWritable(o, i) PROVE keys[i] \in W
    <3>1. metas[3 + i].key = keys[i] /\ metas[3 + i].writable /\ 3 + i \in 1..(3 + n)
      BY <1>4, <1>5, <2>2
    <3>2. QED
      BY <3>1
  <2>3. WritableKeys(o) = {keys[i] : i \in {j \in 1..n : IsWritable(o, j)}}
    BY <1>1, <1>2 DEF WritableKeys
  <2> HIDE DEF W
  <2> QED
    BY <2>1, <2>2, <2>3
<1>11. Written(metas) = W
  BY <1>2 DEF Written
<1>12. MetaKeys(metas) = {metas[i].key : i \in 1..(3 + n)}
  BY <1>2 DEF MetaKeys
<1>13. {metas[i].key : i \in {j \in 1..Len(metas) : metas[j].signer}} = S
  BY <1>2
<1> HIDE DEF S, W
<1>14. Uses(r) = S
  BY <1>7, <1>8
<1>15. S \subseteq MetaKeys(metas)
  BY <1>9, <1>12
<1> QED
  BY <1>1, <1>10, <1>11, <1>13, <1>14, <1>15

\* In every envelope that could be built for a request, the executor is given the accounts
\* whose signatures the execution needs, and is given as writable what it writes to.
LEMMA EnvelopeCovers ==
    ASSUME NEW r \in Requests, ValidMessage(r.message), NEW A \in Seq(Address),
           Buildable(ExecuteMetas(r), A, ExecutionMessage(r)), NEW e,
           e = AuthorizationMessage(ExecuteMetas(r), A, ExecutionMessage(r))
    PROVE  /\ Uses(r) \subseteq ExecutorKeys(e)
           /\ Writes(e) \subseteq ExecutorKeys(e) \cap Written(SubmitAccounts(e))
           /\ Writes(e) = ({r.nonceAccount} \cup WritableKeys(r.message)) \ {ExecutorProgram}
<1>1. PICK metas, m, o : metas = ExecuteMetas(r) /\ m = ExecutionMessage(r) /\ o = r.message
  OBVIOUS
<1>2. /\ e.keys \in Seq(Address)
      /\ \A i \in 1..Len(e.keys) :
            IsWritable(e, i) <=>
               e.keys[i] \in (Written(metas) \cup StandIn(e, metas, A)) \ {ExecutorProgram}
      /\ Len(e.accounts) = Len(metas)
      /\ \A i \in 1..Len(metas) : ExecutorAccount(e, i) = metas[i].key
      /\ e.carried = m /\ NonceAccountOf(e) = r.nonceAccount
  BY <1>1, EnvelopeReadsBack
<1>3. ExecutorKeys(e) = MetaKeys(metas)
  BY <1>2 DEF ExecutorKeys, MetaKeys
<1>4. Writes(e) = ({r.nonceAccount} \cup WritableKeys(m)) \ {ExecutorProgram}
  BY <1>2 DEF Writes, WritableKeys
<1>5. WritableKeys(m) = WritableKeys(o)
  <2>1. m.keys = o.keys /\ \A i : IsWritable(m, i) = IsWritable(o, i)
    BY <1>1, MessageOfRequest
  <2> QED
    BY <2>1 DEF WritableKeys
<1>6. /\ Uses(r) \subseteq MetaKeys(metas)
      /\ WritableKeys(o) \cup {r.nonceAccount} \subseteq Written(metas)
  BY <1>1, MetasCoverUses
<1>7. metas \in Seq(MetaType) /\ Written(metas) \subseteq MetaKeys(metas)
  BY <1>1, MetasOfRequest, MetaFacts
<1>8. ASSUME NEW k \in Written(metas) \ {ExecutorProgram}
      PROVE  k \in Written(SubmitAccounts(e))
  <2>1. e = AuthorizationMessage(metas, A, m) /\ k \in MetaKeys(metas) \cup {ExecutorProgram}
    BY <1>1, <1>7
  <2>2. PICK i \in 1..Len(e.keys) : e.keys[i] = k
    <3>1. \E i \in 1..Len(AuthorizationMessage(metas, A, m).keys) :
              AuthorizationMessage(metas, A, m).keys[i] = k
      BY <1>7, <2>1, MessageHasKeys
    <3>2. QED
      BY <2>1, <3>1
  <2>3. IsWritable(e, i)
    BY <1>2, <2>2
  <2> DEFINE t == SubmitAccounts(e)
  <2>4. Len(e.keys) \in Nat /\ Len(t) = Len(e.keys)
    BY <1>2, LenProperties DEF SubmitAccounts
  <2>5. t[i].key = k /\ t[i].writable = IsWritable(e, i)
    BY <2>2 DEF SubmitAccounts, Meta
  <2> HIDE DEF t
  <2>6. k \in Written(t)
    BY <2>3, <2>4, <2>5 DEF Written
  <2> QED
    BY <2>6 DEF t
<1> QED
  BY <1>1, <1>3, <1>4, <1>5, <1>6, <1>7, <1>8
\* What is known of the envelope of a request that sign accepted.
LEMMA AcceptedEnvelope ==
    ASSUME NEW r \in Requests, ~SignRefused(r), NEW e, e = EnvelopeOf(r)
    PROVE  /\ e.keys \in Seq(Address) /\ e.required \in 1..Len(e.keys)
           /\ Required(e) = Signing(r) /\ Signing(r) \subseteq Address
           /\ Uses(r) \subseteq Address
           /\ WellFormed(e) /\ Needs(e) = Uses(r)
           /\ \A k : /\ IsExecutorSigner(e, k) <=> k \in Uses(r)
                     /\ IsPdaAuthority(e, k) <=> Pda[k] \in Uses(r)
           /\ Uses(r) \subseteq ExecutorKeys(e)
           /\ Writes(e) \subseteq ExecutorKeys(e) \cap Written(SubmitAccounts(e))
           /\ Writes(e) = ({r.nonceAccount} \cup WritableKeys(r.message)) \ {ExecutorProgram}
           /\ Required(e) \subseteq ToSet(e.keys)
           /\ \A k \in Authorities(r) : Pda[k] \in Uses(r)
           /\ \A k \in RelaySigners(r) :
                 k \notin Authorities(r) /\ k \notin Uses(r) /\ Pda[k] \notin Uses(r)
<1>1. PICK A : A = AuthorizationSigners(r)
  OBVIOUS
<1>2. /\ ValidMessage(r.message) /\ A \in Seq(Address) /\ ToSet(A) = Signing(r)
      /\ Buildable(ExecuteMetas(r), A, ExecutionMessage(r))
      /\ e = AuthorizationMessage(ExecuteMetas(r), A, ExecutionMessage(r))
  BY <1>1, EnvelopeOfAccepted
<1>3. /\ e.keys \in Seq(Address) /\ e.required \in 1..Len(e.keys)
      /\ Required(e) = Signing(r) /\ WellFormed(e) /\ Needs(e) = Uses(r)
  BY <1>2, EnvelopeReadsBack
<1>4. Signing(r) \subseteq Address /\ Uses(r) \subseteq Address
  BY <1>2, SignersOfRequest
<1>5. \A k : /\ IsExecutorSigner(e, k) <=> k \in Uses(r)
             /\ IsPdaAuthority(e, k) <=> Pda[k] \in Uses(r)
  BY <1>3 DEF IsExecutorSigner, IsPdaAuthority, Needs
<1>6. /\ Uses(r) \subseteq ExecutorKeys(e)
      /\ Writes(e) \subseteq ExecutorKeys(e) \cap Written(SubmitAccounts(e))
      /\ Writes(e) = ({r.nonceAccount} \cup WritableKeys(r.message)) \ {ExecutorProgram}
  BY <1>2, EnvelopeCovers
<1>7. Required(e) \subseteq ToSet(e.keys)
  <2>1. PICK keys, q : keys = e.keys /\ q = e.required
    OBVIOUS
  <2>2. PICK n \in Nat : n = Len(keys) /\ DOMAIN keys = 1..n
    BY <1>3, <2>1, LenProperties
  <2>3. \A i \in 1..q : i \in 1..n
    BY <1>3, <2>1, <2>2
  <2>4. Required(e) = {keys[i] : i \in 1..q} /\ ToSet(e.keys) = {keys[i] : i \in 1..n}
    BY <2>1, <2>2 DEF Required, SigningKeys, ToSet
  <2> QED
    BY <2>3, <2>4
<1>8. /\ \A k \in Authorities(r) : Pda[k] \in Uses(r)
      /\ \A k \in RelaySigners(r) :
            k \notin Authorities(r) /\ k \notin Uses(r) /\ Pda[k] \notin Uses(r)
  BY DEF SignRefused
<1> QED
  BY <1>3, <1>4, <1>5, <1>6, <1>7, <1>8

\* An envelope's header gives every account exactly the role it has in the request.
THEOREM EnvelopesAreExact == Spec => []HeaderIsExact
<1>1. EnvelopesOfRequest => HeaderIsExact
  <2> SUFFICES ASSUME EnvelopesOfRequest, NEW e \in Envelopes
               PROVE  LET metas   == ExecuteMetas(request)
                          signing == Authorities(request) \cup Forwarded(request)
                                         \cup RelaySigners(request)
                          standIn == IF signing \cap Written(metas) = {} THEN {e.keys[1]} ELSE {}
                      IN  /\ \A i \in 1..Len(e.keys) :
                                /\ IsSigner(e, i) <=> e.keys[i] \in signing
                                /\ IsWritable(e, i) <=>
                                      e.keys[i] \in (Written(metas) \cup standIn) \ {ExecutorProgram}
                          /\ e.keys[e.program] = ExecutorProgram
                          /\ [i \in 1..Len(metas) |-> ExecutorAccount(e, i)] = Keys(metas)
    BY DEF HeaderIsExact
  <2>1. PICK r, A, metas : /\ r = request /\ A = AuthorizationSigners(r)
                           /\ metas = ExecuteMetas(r)
    OBVIOUS
  <2>2. r \in Requests /\ ~SignRefused(r) /\ e = EnvelopeOf(r)
    BY <2>1 DEF Envelopes, EnvelopesOfRequest
  <2>3. /\ ValidMessage(r.message) /\ A \in Seq(Address) /\ ToSet(A) = Signing(r)
        /\ Buildable(ExecuteMetas(r), A, ExecutionMessage(r))
        /\ e = AuthorizationMessage(ExecuteMetas(r), A, ExecutionMessage(r))
    BY <2>1, <2>2, EnvelopeOfAccepted
  <2>4. /\ \A i \in 1..Len(e.keys) :
              /\ IsSigner(e, i) <=> e.keys[i] \in Signing(r)
              /\ IsWritable(e, i) <=>
                    e.keys[i] \in (Written(metas) \cup StandIn(e, metas, A)) \ {ExecutorProgram}
        /\ e.keys[e.program] = ExecutorProgram
        /\ \A i \in 1..Len(metas) : ExecutorAccount(e, i) = metas[i].key
    BY <2>1, <2>2, <2>3, EnvelopeReadsBack
  <2>5. StandIn(e, metas, A) = IF Signing(r) \cap Written(metas) = {} THEN {e.keys[1]} ELSE {}
    BY <2>3 DEF StandIn
  <2>6. [i \in 1..Len(metas) |-> ExecutorAccount(e, i)] = Keys(metas)
    BY <2>4 DEF Keys
  <2> QED
    BY <2>1, <2>4, <2>5, <2>6 DEF Signing
<1> QED
  BY <1>1, EnvelopesHold, PTL

\* submit sees each signer of an envelope in the role in which sign listed it.
THEOREM SignersKeepTheirRoles == Spec => []RolesAgree
<1>1. EnvelopesOfRequest => RolesAgree
  <2> SUFFICES ASSUME EnvelopesOfRequest, NEW e \in Envelopes, NEW k \in Required(e) \cap KeyHolder
               PROVE  /\ k \in RelaySigners(request) <=> IsRequiredRelaySigner(e, k)
                      /\ k \in Forwarded(request) <=> IsExecutorSigner(e, k)
                      /\ k \in Authorities(request) => IsPdaAuthority(e, k)
    BY DEF RolesAgree
  <2>1. PICK r : r = request
    OBVIOUS
  <2>2. r \in Requests /\ ~SignRefused(r) /\ e = EnvelopeOf(r)
    BY <2>1 DEF Envelopes, EnvelopesOfRequest
  <2>3. /\ k \in Signing(r) /\ Signing(r) \subseteq Address
        /\ IsExecutorSigner(e, k) <=> k \in Uses(r)
        /\ IsPdaAuthority(e, k) <=> Pda[k] \in Uses(r)
        /\ \A j \in Authorities(r) : Pda[j] \in Uses(r)
        /\ k \in RelaySigners(r) => k \notin Uses(r) /\ Pda[k] \notin Uses(r)
    BY <2>2, AcceptedEnvelope
  <2>4. k \in Forwarded(r) <=> k \in Uses(r)
    <3>1. \A j \in Authorities(r) : Pda[j] # k
      BY <2>3, KeyAssumption DEF Signing
    <3>2. QED
      BY <3>1 DEF Forwarded, Promotable
  <2> QED
    BY <2>1, <2>3, <2>4 DEF Signing, IsRequiredRelaySigner
<1> QED
  BY <1>1, EnvelopesHold, PTL
------------------------------------------------------------------------------
(* What submit sends.                                                           *)

(* A command of an online run, which collects nothing.                             *)
Online(c, e, approvals, relaySigners, feePayer, durable) ==
    /\ c.envelope = e /\ c.approvals = approvals /\ c.relaySigners = relaySigners
    /\ c.feePayer = feePayer /\ c.durable = durable
    /\ c.signOnly = FALSE /\ c.dryRun = FALSE
    /\ c.collected = {} /\ Collected(c) = {}
    /\ LocalKeys(c) = relaySigners \cup {feePayer} \cup DurableAuthority(c)
    /\ DurableAuthority(c) = IF durable = NoDurable THEN {} ELSE {durable.authority}

\* The commands considered are such.
LEMMA CommandFacts ==
    ASSUME NEW e, NEW approvals, NEW relaySigners, NEW feePayer, NEW durable
    PROVE  Online(Command(e, approvals, relaySigners, feePayer, durable),
                  e, approvals, relaySigners, feePayer, durable)
<1> DEFINE c == Command(e, approvals, relaySigners, feePayer, durable)
<1>1. /\ c.envelope = e /\ c.approvals = approvals /\ c.relaySigners = relaySigners
      /\ c.feePayer = feePayer /\ c.durable = durable
      /\ c.signOnly = FALSE /\ c.dryRun = FALSE /\ c.collected = {}
      /\ c.feePayerLocal = TRUE /\ c.durableLocal = TRUE
  BY DEF Command
<1> HIDE DEF c
<1>2. Collected(c) = {}
  BY <1>1 DEF Collected
<1>3. LocalKeys(c) = relaySigners \cup {feePayer} \cup DurableAuthority(c)
  BY <1>1 DEF LocalKeys, DurableAuthority
<1>4. DurableAuthority(c) = IF durable = NoDurable THEN {} ELSE {durable.authority}
  BY <1>1 DEF DurableAuthority
<1>5. Online(c, e, approvals, relaySigners, feePayer, durable)
  BY <1>1, <1>2, <1>3, <1>4 DEF Online
<1> QED
  BY <1>5 DEF c

\* A planned transaction has the approvals as signatures of the envelope, and is signed
\* by who is left.
LEMMA PlannedFacts ==
    ASSUME NEW c, NEW blockhash, NEW tx, tx = Planned(c, blockhash),
           NEW e, e = c.envelope, e.required \in Nat
    PROVE  /\ tx.envelope = e /\ tx.durable = c.durable /\ tx.feePayer = c.feePayer
           /\ tx.signing = {c.feePayer} \cup (SubmitSigners(c) \cap ToSet(e.keys))
                              \cup DurableAuthority(c)
           /\ Len(tx.signatures) = e.required
           /\ \A i \in 1..e.required :
                 /\ e.keys[i] \in Approved(c) => tx.signatures[i] = <<e.keys[i], e>>
                 /\ e.keys[i] \notin Approved(c) => tx.signatures[i] = NoSignature
                 /\ tx.signatures[i] = NoSignature => e.keys[i] \notin Approved(c)
           /\ VerifiedKeys(tx) = Required(e) \cap Approved(c)
<1> DEFINE t == [i \in 1..e.required |->
                    IF e.keys[i] \in Approved(c) THEN <<e.keys[i], e>> ELSE NoSignature]
<1>1. /\ tx.envelope = e /\ tx.durable = c.durable /\ tx.feePayer = c.feePayer
      /\ tx.signing = {c.feePayer} \cup (SubmitSigners(c) \cap ToSet(e.keys))
                         \cup DurableAuthority(c)
      /\ tx.signatures = t
  BY DEF Planned, RelayTransaction, DurableAuthority
<1>2. \A x, y : <<x, y>> # NoSignature
  BY DEF NoSignature
<1>3. Len(t) = e.required
  OBVIOUS
<1>4. \A i \in 1..e.required :
         /\ e.keys[i] \in Approved(c) => t[i] = <<e.keys[i], e>>
         /\ e.keys[i] \notin Approved(c) => t[i] = NoSignature
         /\ t[i] = NoSignature => e.keys[i] \notin Approved(c)
  BY <1>2
<1> HIDE DEF t
<1>5. Given(tx.signatures) = {i \in 1..e.required : e.keys[i] \in Approved(c)}
  BY <1>1, <1>3, <1>4 DEF Given
<1>6. VerifiedKeys(tx) = Required(e) \cap Approved(c)
  BY <1>1, <1>5 DEF VerifiedKeys, Required, SigningKeys
<1> QED
  BY <1>1, <1>3, <1>4, <1>6

(* A command that somebody who has the keys he uses may give for envelope e.            *)
MayBeGiven(c, e) ==
    \E approvals : \E relaySigners \in SUBSET Holders(e), feePayer \in FeePayers, durable \in Durables :
        Online(c, e, approvals, relaySigners, feePayer, durable)

\* A programmatic signer signs no relay transaction: nobody has a key for it.
LEMMA NobodySignsWithPda ==
    ASSUME NEW e, NEW c, MayBeGiven(c, e), NEW k \in Address
    PROVE  Pda[k] \notin LocalKeys(c) \cup Collected(c)
<1> PICK approvals :
       \E relaySigners \in SUBSET Holders(e), feePayer \in FeePayers, durable \in Durables :
           Online(c, e, approvals, relaySigners, feePayer, durable)
  BY DEF MayBeGiven
<1>0. PICK relaySigners \in SUBSET Holders(e), feePayer \in FeePayers, durable \in Durables :
         Online(c, e, approvals, relaySigners, feePayer, durable)
  OBVIOUS
<1>1. /\ LocalKeys(c) = relaySigners \cup {feePayer} \cup DurableAuthority(c)
      /\ DurableAuthority(c) = IF durable = NoDurable THEN {} ELSE {durable.authority}
      /\ Collected(c) = {}
  BY <1>0 DEF Online
<1>2. Pda[k] \notin relaySigners \cup {feePayer}
  BY KeyAssumption DEF Holders
<1>3. durable # NoDurable => Pda[k] # durable.authority
  BY KeyAssumption
<1> QED
  BY <1>1, <1>2, <1>3

\* What submit builds of an accepted envelope, once every signature is there, the signer
\* program accepts, and it promotes the programmatic signers of the listed authorities.
LEMMA CompleteIsAccepted ==
    ASSUME NEW r \in Requests, ~SignRefused(r), NEW e, e = EnvelopeOf(r),
           NEW c, MayBeGiven(c, e), NEW tx, tx = Planned(c, NoHash), ~SubmitRefused(c), Complete(c, tx)
    PROVE  /\ tx.envelope = e /\ ProgramAccepts(tx)
           /\ Promotable(VerifiedKeys(tx)) \cap Needs(tx.envelope) = Promotable(Authorities(r))
<1>1. c.envelope = e
  BY DEF MayBeGiven, Online
<1>2. /\ e.keys \in Seq(Address) /\ e.required \in 1..Len(e.keys)
      /\ Required(e) = Signing(r) /\ Signing(r) \subseteq Address
      /\ WellFormed(e) /\ Needs(e) = Uses(r)
      /\ \A k : /\ IsExecutorSigner(e, k) <=> k \in Uses(r)
                /\ IsPdaAuthority(e, k) <=> Pda[k] \in Uses(r)
      /\ Uses(r) \subseteq ExecutorKeys(e)
      /\ Writes(e) \subseteq ExecutorKeys(e) \cap Written(SubmitAccounts(e))
      /\ Required(e) \subseteq ToSet(e.keys)
      /\ \A k \in Authorities(r) : Pda[k] \in Uses(r)
  BY AcceptedEnvelope
<1>3. e.required \in Nat
  BY <1>2
<1>4. /\ tx.envelope = e
      /\ tx.signing = {c.feePayer} \cup (SubmitSigners(c) \cap ToSet(e.keys)) \cup DurableAuthority(c)
      /\ Len(tx.signatures) = e.required
      /\ \A i \in 1..e.required :
            /\ e.keys[i] \in Approved(c) => tx.signatures[i] = <<e.keys[i], e>>
            /\ e.keys[i] \notin Approved(c) => tx.signatures[i] = NoSignature
            /\ tx.signatures[i] = NoSignature => e.keys[i] \notin Approved(c)
      /\ VerifiedKeys(tx) = Required(e) \cap Approved(c)
  BY <1>1, <1>3, PlannedFacts
<1>5. \A k \in Required(e) : ~SignerMissing(c, k)
  BY <1>1 DEF SubmitRefused
<1>6. \A k \in Required(e) \cap Uses(r) : k \in tx.signing
  BY <1>1, <1>2, <1>4 DEF SubmitSigners
<1>7. \A k \in Required(e) \ Approved(c) : k \in tx.signing
  <2> SUFFICES ASSUME NEW k \in Required(e) \ Approved(c) PROVE k \in tx.signing
    OBVIOUS
  <2>1. ~IsPdaAuthority(e, k)
    BY <1>1, <1>5 DEF SignerMissing
  <2>2. k \in SubmitSigners(c)
    BY <1>1, <2>1 DEF SubmitSigners, IsRequiredRelaySigner
  <2> QED
    BY <1>2, <1>4, <2>2
<1>8. \A k \in Authorities(r) : k \in VerifiedKeys(tx)
  <2> SUFFICES ASSUME NEW k \in Authorities(r) PROVE k \in VerifiedKeys(tx)
    OBVIOUS
  <2>1. k \in Required(e) /\ IsPdaAuthority(e, k)
    BY <1>2 DEF Signing
  <2>2. k \in Approved(c)
    BY <1>1, <1>5, <2>1 DEF SignerMissing
  <2> QED
    BY <1>4, <2>1, <2>2
<1>9. SignaturesOk(tx)
  <2>1. ASSUME NEW i \in 1..e.required
        PROVE  IF tx.signatures[i] = NoSignature THEN e.keys[i] \in tx.signing
                                                 ELSE tx.signatures[i] = <<e.keys[i], e>>
    <3>1. e.keys[i] \in Required(e)
      BY DEF Required, SigningKeys
    <3>2. QED
      BY <1>4, <1>7, <3>1
  <2> QED
    BY <1>4, <2>1 DEF SignaturesOk
<1>10. GrantedWrites(tx) \subseteq RelayWritable(tx)
  BY DEF GrantedWrites, RelayWritable
<1>11. Needs(e) \subseteq Granted(tx)
  <2> SUFFICES ASSUME NEW k \in Uses(r) PROVE k \in Granted(tx)
    BY <1>2
  <2>1. k \in ExecutorKeys(e)
    BY <1>2
  <2>2. CASE k \in Forwarded(r)
    <3>1. k \in Required(e)
      BY <1>2, <2>2 DEF Signing
    <3>2. k \in tx.signing /\ k \in SigningKeys(e)
      BY <1>6, <3>1 DEF Required
    <3>3. QED
      BY <1>4, <2>1, <3>2 DEF Granted
  <2>3. CASE k \in Promotable(Authorities(r))
    <3>1. k \in Promotable(VerifiedKeys(tx))
      BY <1>8, <2>3 DEF Promotable
    <3>2. QED
      BY <1>4, <2>1, <3>1 DEF Granted
  <2> QED
    BY <2>2, <2>3 DEF Forwarded
<1>12. Writes(e) \subseteq GrantedWrites(tx)
  BY <1>2, <1>4 DEF GrantedWrites
<1>13. ProgramAccepts(tx)
  BY <1>2, <1>4, <1>9, <1>10, <1>11, <1>12 DEF ProgramAccepts
<1>14. ASSUME NEW k \in VerifiedKeys(tx), Pda[k] \in Uses(r)
       PROVE  Pda[k] \in Promotable(Authorities(r))
  <2> SUFFICES ASSUME Pda[k] \notin Promotable(Authorities(r)) PROVE FALSE
    OBVIOUS
  <2>1. k \in Address /\ Pda[k] \in Forwarded(r)
    BY <1>2, <1>4, <1>14 DEF Forwarded
  <2>2. Pda[k] \in Required(e)
    BY <1>2, <2>1 DEF Signing
  <2>3. Pda[k] \in LocalKeys(c) \cup Collected(c)
    BY <1>6, <1>14, <2>2 DEF Complete
  <2> QED
    BY <2>1, <2>3, NobodySignsWithPda
<1>15. Promotable(VerifiedKeys(tx)) \cap Needs(e) = Promotable(Authorities(r))
  <2>1. Promotable(VerifiedKeys(tx)) \cap Uses(r) \subseteq Promotable(Authorities(r))
    BY <1>14 DEF Promotable
  <2>2. Promotable(Authorities(r)) \subseteq Promotable(VerifiedKeys(tx)) \cap Uses(r)
    BY <1>2, <1>8 DEF Promotable
  <2> QED
    BY <1>2, <2>1, <2>2
<1> QED
  BY <1>4, <1>13, <1>15
(* What submit sent is of the request's envelope and runs as it says.                   *)
SentRuns ==
    sent # NotYet =>
        /\ sent.envelope = EnvelopeOf(request) /\ ~SignRefused(request)
        /\ ProgramAccepts(sent)
        /\ Promotable(VerifiedKeys(sent)) \cap Needs(sent.envelope)
               = Promotable(Authorities(request))

\* Only submit sends, and what it sends is complete.
LEMMA StepSent == EnvelopesOfRequest /\ SentRuns /\ [Next]_vars => SentRuns'
<1> SUFFICES ASSUME EnvelopesOfRequest, SentRuns, [Next]_vars PROVE SentRuns'
  OBVIOUS
<1>1. ASSUME request' = request, sent' = sent PROVE SentRuns'
  BY <1>1 DEF SentRuns
<1>2. ASSUME NEW p \in Participant, NEW l, Sign(p, l) PROVE SentRuns'
  BY <1>1, <1>2 DEF Sign
<1>3. ASSUME NEW p \in Participant, envelopes[p] # NotYet,
             NEW approvals, NEW relaySigners \in SUBSET Holders(envelopes[p]),
             NEW feePayer \in FeePayers, NEW durable \in Durables,
             Submit(p, approvals, relaySigners, feePayer, durable)
      PROVE  SentRuns'
  <2>1. PICK r, e, c, tx : /\ r = request /\ e = envelopes[p]
                           /\ c = Command(e, approvals, relaySigners, feePayer, durable)
                           /\ tx = Planned(c, NoHash)
    OBVIOUS
  <2>2. r \in Requests /\ ~SignRefused(r) /\ e = EnvelopeOf(r)
    BY <1>3, <2>1 DEF EnvelopesOfRequest
  <2>3. ~SubmitRefused(c) /\ Complete(c, tx) /\ sent' = tx /\ request' = r
    BY <1>3, <2>1 DEF Submit
  <2>4. MayBeGiven(c, e) /\ tx = Planned(c, NoHash)
    <3>1. Online(c, e, approvals, relaySigners, feePayer, durable)
      BY <2>1, CommandFacts
    <3>2. relaySigners \in SUBSET Holders(e)
      BY <2>1
    <3>3. MayBeGiven(c, e)
      BY <3>1, <3>2 DEF MayBeGiven
    <3>4. QED
      BY <2>1, <3>3
  <2>5. /\ tx.envelope = e /\ ProgramAccepts(tx)
        /\ Promotable(VerifiedKeys(tx)) \cap Needs(tx.envelope) = Promotable(Authorities(r))
    BY <2>2, <2>3, <2>4, CompleteIsAccepted
  <2> QED
    BY <2>2, <2>3, <2>5 DEF SentRuns
<1>4. CASE UNCHANGED vars
  BY <1>1, <1>4 DEF vars
<1> QED
  BY <1>2, <1>3, <1>4 DEF Next

\* So it is always.
LEMMA SentRunsHold == Spec => []SentRuns
<1>1. Init => SentRuns
  BY DEF Init, SentRuns
<1> QED
  BY <1>1, StepSent, EnvelopesHold, PTL DEF Spec

\* What submit sends, the signer program accepts, and the programmatic signers that sign
\* in it are those of the listed authorities.
THEOREM SubmittedRuns == Spec => []SubmittedIsAccepted
<1>1. SentRuns => SubmittedIsAccepted
  BY DEF SentRuns, SubmittedIsAccepted
<1> QED
  BY <1>1, SentRunsHold, PTL

\* A simulation of a request that is not refused is accepted, gives the executor just the
\* signers the execution needs among those, and writes what the execution writes.
LEMMA SimulationRuns ==
    ASSUME NEW r \in Requests, NEW feePayer, NEW nonce, NEW authority, NEW tx,
           ~SimulateRefused(r, feePayer, nonce, authority), tx = Simulated(r, feePayer)
    PROVE  /\ ProgramAccepts(tx) /\ Uses(r) \subseteq Granted(tx)
           /\ Writes(tx.envelope)
                  = ({r.nonceAccount} \cup WritableKeys(r.message)) \ {ExecutorProgram}
<1>1. PICK A, e : /\ A = SimulatedSigners(r)
                  /\ e = AuthorizationMessage(ExecuteMetas(r), A, ExecutionMessage(r))
  OBVIOUS
<1>2. /\ ValidMessage(r.message)
      /\ Buildable(ExecuteMetas(r), A, ExecutionMessage(r))
  BY <1>1 DEF SimulateRefused, Readable
<1>3. A = Ascending(Uses(r)) /\ Uses(r) \in SUBSET Address /\ IsFiniteSet(Uses(r))
  BY <1>1, <1>2, MetasCoverUses, SignersOfRequest DEF SimulatedSigners
<1>4. A \in Seq(Address) /\ ToSet(A) = Uses(r)
  BY <1>3, AscendingAddresses
<1>5. /\ e.keys \in Seq(Address) /\ e.required \in 1..Len(e.keys)
      /\ Required(e) = Uses(r) /\ WellFormed(e) /\ Needs(e) = Uses(r)
  BY <1>1, <1>2, <1>4, EnvelopeReadsBack
<1>6. /\ Uses(r) \subseteq ExecutorKeys(e)
      /\ Writes(e) \subseteq ExecutorKeys(e) \cap Written(SubmitAccounts(e))
      /\ Writes(e) = ({r.nonceAccount} \cup WritableKeys(r.message)) \ {ExecutorProgram}
  BY <1>1, <1>2, <1>4, EnvelopeCovers
<1>7. e.required = Len(A)
  BY <1>1 DEF AuthorizationMessage, Header
<1>8. /\ tx.envelope = e
      /\ tx.signatures = [i \in 1..Len(A) |-> NoSignature]
      /\ ToSet(A) \cap ToSet(e.keys) \subseteq tx.signing
  BY <1>1 DEF Simulated, RelayTransaction
<1>9. Required(e) \subseteq ToSet(e.keys)
  <2>1. PICK keys, q : keys = e.keys /\ q = e.required
    OBVIOUS
  <2>2. PICK n \in Nat : n = Len(keys) /\ DOMAIN keys = 1..n
    BY <1>5, <2>1, LenProperties
  <2>3. \A i \in 1..q : i \in 1..n
    BY <1>5, <2>1, <2>2
  <2>4. Required(e) = {keys[i] : i \in 1..q} /\ ToSet(e.keys) = {keys[i] : i \in 1..n}
    BY <2>1, <2>2 DEF Required, SigningKeys, ToSet
  <2> QED
    BY <2>3, <2>4
<1>10. Uses(r) \subseteq tx.signing
  BY <1>4, <1>5, <1>8, <1>9
<1>11. SignaturesOk(tx)
  <2>1. PICK n \in Nat : n = Len(A)
    BY <1>4, LenProperties
  <2>2. Len(tx.signatures) = n /\ \A i \in 1..n : tx.signatures[i] = NoSignature
    BY <1>8, <2>1
  <2>3. \A i \in 1..n : e.keys[i] \in Required(e)
    BY <1>7, <2>1 DEF Required, SigningKeys
  <2> QED
    BY <1>5, <1>7, <1>8, <1>10, <2>1, <2>2, <2>3 DEF SignaturesOk
<1>12. GrantedWrites(tx) \subseteq RelayWritable(tx)
  BY DEF GrantedWrites, RelayWritable
<1>13. Uses(r) \subseteq Granted(tx)
  BY <1>5, <1>6, <1>8, <1>10 DEF Granted, Required
<1>14. Writes(e) \subseteq GrantedWrites(tx)
  BY <1>6, <1>8 DEF GrantedWrites
<1>15. ProgramAccepts(tx)
  BY <1>5, <1>8, <1>11, <1>12, <1>13, <1>14 DEF ProgramAccepts
<1> QED
  BY <1>6, <1>8, <1>13, <1>15

\* A simulation that passes runs the executor with the signers and the writable accounts
\* that a submission then gives it.
THEOREM SimulationsPredict == Spec => []SimulationPredicts
<1>1. EnvelopesOfRequest /\ SentRuns => SimulationPredicts
  <2> SUFFICES ASSUME EnvelopesOfRequest, SentRuns, sent # NotYet,
                      NEW feePayer \in FeePayers,
                      ~SimulateRefused(request, feePayer, request.nonceHash, request.nonceAuthority)
               PROVE  LET tx == Simulated(request, feePayer)
                      IN  /\ ProgramAccepts(tx)
                          /\ Granted(tx) \cap Needs(sent.envelope)
                                 = Granted(sent) \cap Needs(sent.envelope)
                          /\ Writes(tx.envelope) = Writes(sent.envelope)
    BY DEF SimulationPredicts
  <2>1. PICK r, e, tx : r = request /\ e = sent.envelope /\ tx = Simulated(r, feePayer)
    OBVIOUS
  <2>2. /\ r \in Requests /\ ~SignRefused(r) /\ e = EnvelopeOf(r)
        /\ Needs(e) \subseteq Granted(sent)
    BY <2>1 DEF EnvelopesOfRequest, SentRuns, ProgramAccepts
  <2>3. /\ Needs(e) = Uses(r)
        /\ Writes(e) = ({r.nonceAccount} \cup WritableKeys(r.message)) \ {ExecutorProgram}
    BY <2>2, AcceptedEnvelope
  <2>4. /\ ProgramAccepts(tx) /\ Uses(r) \subseteq Granted(tx)
        /\ Writes(tx.envelope)
               = ({r.nonceAccount} \cup WritableKeys(r.message)) \ {ExecutorProgram}
    BY <2>1, <2>2, SimulationRuns
  <2>5. Granted(tx) \cap Needs(e) = Granted(sent) \cap Needs(e)
    BY <2>2, <2>3, <2>4
  <2> QED
    BY <2>1, <2>3, <2>4, <2>5
<1> QED
  BY <1>1, EnvelopesHold, SentRunsHold, PTL
\* With every signature over an accepted envelope at hand, submit plans just the
\* transaction that sign made sure fits.
LEMMA PlansSmallest ==
    ASSUME NEW r \in Requests, ~SignRefused(r), NEW e, e = EnvelopeOf(r),
           Required(e) \subseteq KeyHolder, NEW feePayer, NEW approvals,
           feePayer = (IF Forwarded(r) = {} THEN e.keys[1] ELSE Min(Forwarded(r))),
           approvals = Approvals({k \in Required(e) : ~IsExecutorSigner(e, k) \/ IsPdaAuthority(e, k)}, e),
           NEW c, Online(c, e, approvals, Forwarded(r), feePayer, NoDurable)
    PROVE  /\ Planned(c, NoHash) = SmallestRelay(r, e)
           /\ SubmitSigners(c) = Forwarded(r)
           /\ \A k \in Required(e) : k \in Approved(c) <=> ~IsExecutorSigner(e, k) \/ IsPdaAuthority(e, k)
<1>1. c.envelope = e /\ c.approvals = approvals /\ c.feePayer = feePayer /\ c.durable = NoDurable
  BY DEF Online
<1>2. /\ Required(e) = Signing(r) /\ Signing(r) \subseteq Address /\ Uses(r) \subseteq Address
      /\ \A k : /\ IsExecutorSigner(e, k) <=> k \in Uses(r)
                /\ IsPdaAuthority(e, k) <=> Pda[k] \in Uses(r)
      /\ \A k \in Authorities(r) : Pda[k] \in Uses(r)
  BY AcceptedEnvelope
<1>3. \A k \in Required(e) : k \in Approved(c) <=> ~IsExecutorSigner(e, k) \/ IsPdaAuthority(e, k)
  <2>1. PICK K : K = {k \in Required(e) : ~IsExecutorSigner(e, k) \/ IsPdaAuthority(e, k)}
    OBVIOUS
  <2>2. c.approvals = {<<k, e>> : k \in K}
    BY <1>1, <2>1 DEF Approvals
  <2>3. Approved(c) = K
    <3>1. Approved(c) = {s[1] : s \in c.approvals}
      BY DEF Approved
    <3>2. \A k : <<k, e>>[1] = k
      OBVIOUS
    <3>3. \A s \in c.approvals : s[1] \in K
      BY <2>2, <3>2
    <3>4. \A k \in K : \E s \in c.approvals : s[1] = k
      BY <2>2, <3>2
    <3>5. QED
      BY <3>1, <3>3, <3>4
  <2> QED
    BY <2>1, <2>3
<1>4. \A k \in Address : Pda[k] \notin Required(e)
  BY KeyAssumption
<1>5. \A k \in Required(e) : k \in Forwarded(r) <=> k \in Uses(r)
  <2> SUFFICES ASSUME NEW k \in Required(e), k \in Uses(r) PROVE k \in Forwarded(r)
    BY DEF Forwarded
  <2>1. k \notin Promotable(Authorities(r))
    BY <1>2, <1>4 DEF Promotable, Signing
  <2> QED
    BY <2>1 DEF Forwarded
<1>6. SubmitSigners(c) = Forwarded(r)
  <2>1. \A k \in Required(e) : k \in SubmitSigners(c) <=> k \in Uses(r)
    BY <1>1, <1>2, <1>3 DEF SubmitSigners, IsRequiredRelaySigner
  <2>2. SubmitSigners(c) \subseteq Required(e) /\ Forwarded(r) \subseteq Required(e)
    BY <1>1, <1>2 DEF SubmitSigners, Signing
  <2> QED
    BY <1>5, <2>1, <2>2
<1>7. \A k \in Required(e) : k \in Approved(c) <=> k \in Authorities(r) \/ k \notin Forwarded(r)
  <2> SUFFICES ASSUME NEW k \in Required(e)
               PROVE  k \in Approved(c) <=> k \in Authorities(r) \/ k \notin Forwarded(r)
    OBVIOUS
  <2>1. k \in Approved(c) <=> k \notin Uses(r) \/ Pda[k] \in Uses(r)
    BY <1>2, <1>3
  <2>2. ASSUME Pda[k] \in Uses(r) PROVE k \in Authorities(r)
    <3>1. k \in Address /\ Pda[k] \in Address /\ Pda[k] \notin Forwarded(r)
      BY <1>2, <1>4, <2>2 DEF Signing
    <3>2. PICK j \in Authorities(r) : Pda[j] = Pda[k]
      BY <2>2, <3>1 DEF Forwarded, Promotable
    <3>3. j \in Address
      BY <1>2 DEF Signing
    <3>4. QED
      BY <3>1, <3>2, <3>3, EnvelopeAssumption DEF EnvelopeAssumption
  <2> QED
    BY <1>2, <1>5, <2>1, <2>2
<1> DEFINE s == [i \in 1..e.required |->
                    IF e.keys[i] \in Approved(c) THEN <<e.keys[i], e>> ELSE NoSignature]
           t == [i \in 1..e.required |->
                    IF e.keys[i] \in Authorities(r) \/ e.keys[i] \notin Forwarded(r)
                    THEN <<e.keys[i], e>> ELSE NoSignature]
<1>8. s = t
  <2>1. \A i \in 1..e.required : e.keys[i] \in Required(e)
    BY DEF Required, SigningKeys
  <2>2. \A i \in 1..e.required :
           e.keys[i] \in Approved(c) <=> e.keys[i] \in Authorities(r) \/ e.keys[i] \notin Forwarded(r)
    BY <1>7, <2>1
  <2> QED
    BY <2>2
<1>9. Planned(c, NoHash) = RelayTransaction(e, s, Forwarded(r), feePayer, NoDurable, NoHash)
  BY <1>1, <1>6 DEF Planned
<1>10. SmallestRelay(r, e) = RelayTransaction(e, t, Forwarded(r), feePayer, NoDurable, NoHash)
  BY DEF SmallestRelay
<1> QED
  BY <1>3, <1>6, <1>8, <1>9, <1>10

\* Once sign has accepted a request whose signers all have their keys, submit accepts the
\* envelope with all their signatures.
THEOREM AcceptedCanBeSubmitted == Spec => []Completable
<1>1. EnvelopesOfRequest => Completable
  <2> SUFFICES ASSUME EnvelopesOfRequest, NEW e \in Envelopes, Required(e) \subseteq KeyHolder
               PROVE  LET executor == {k \in Required(e) : IsExecutorSigner(e, k)}
                          c == Command(e, Approvals({k \in Required(e) : ~IsExecutorSigner(e, k)
                                                              \/ IsPdaAuthority(e, k)}, e),
                                       executor,
                                       IF executor = {} THEN e.keys[1] ELSE Min(executor),
                                       NoDurable)
                          tx == Planned(c, NoHash)
                      IN  /\ ~SubmitRefused(c) /\ ~PlannedRefused(c, tx)
                          /\ ~SigningFails(c, tx) /\ Complete(c, tx)
    BY DEF Completable
  <2>1. PICK r, executor, feePayer, approvals, c, tx :
           /\ r = request
           /\ executor = {k \in Required(e) : IsExecutorSigner(e, k)}
           /\ feePayer = (IF executor = {} THEN e.keys[1] ELSE Min(executor))
           /\ approvals = Approvals({k \in Required(e) : ~IsExecutorSigner(e, k)
                                                            \/ IsPdaAuthority(e, k)}, e)
           /\ c = Command(e, approvals, executor, feePayer, NoDurable)
           /\ tx = Planned(c, NoHash)
    OBVIOUS
  <2>2. r \in Requests /\ ~SignRefused(r) /\ e = EnvelopeOf(r) /\ Submittable(r)
    BY <2>1 DEF Envelopes, EnvelopesOfRequest
  <2>3. /\ Required(e) = Signing(r) /\ Signing(r) \subseteq Address
        /\ \A k : /\ IsExecutorSigner(e, k) <=> k \in Uses(r)
        /\ WellFormed(e) /\ Required(e) \subseteq ToSet(e.keys)
        /\ e.required \in 1..Len(e.keys)
    BY <2>2, AcceptedEnvelope
  <2>4. executor = Forwarded(r)
    <3>1. \A k \in Required(e) : k \notin Promotable(Authorities(r))
      BY <2>3, KeyAssumption DEF Promotable, Signing
    <3>2. QED
      BY <2>1, <2>3, <3>1 DEF Forwarded, Signing
  <2>5. Online(c, e, approvals, Forwarded(r), feePayer, NoDurable)
    BY <2>1, <2>4, CommandFacts
  <2>6. /\ Planned(c, NoHash) = SmallestRelay(r, e)
        /\ SubmitSigners(c) = Forwarded(r)
        /\ \A k \in Required(e) :
              k \in Approved(c) <=> ~IsExecutorSigner(e, k) \/ IsPdaAuthority(e, k)
    <3>1. feePayer = (IF Forwarded(r) = {} THEN e.keys[1] ELSE Min(Forwarded(r)))
      BY <2>1, <2>4
    <3>2. approvals = Approvals({k \in Required(e) : ~IsExecutorSigner(e, k)
                                                            \/ IsPdaAuthority(e, k)}, e)
      BY <2>1
    <3>3. QED
      BY <2>2, <2>5, <3>1, <3>2, PlansSmallest
  <2>7. /\ c.envelope = e /\ c.approvals = approvals /\ c.relaySigners = Forwarded(r)
        /\ c.feePayer = feePayer /\ c.durable = NoDurable
        /\ c.signOnly = FALSE /\ c.dryRun = FALSE /\ c.collected = {} /\ Collected(c) = {}
        /\ DurableAuthority(c) = {} /\ LocalKeys(c) = Forwarded(r) \cup {feePayer}
    BY <2>5 DEF Online
  <2>8. /\ tx.envelope = e
        /\ tx.signing = {feePayer} \cup Forwarded(r)
    <3>1. e.required \in Nat
      BY <2>3
    <3>2. tx = Planned(c, NoHash) /\ e = c.envelope
      BY <2>1, <2>7
    <3>3. /\ tx.envelope = e
          /\ tx.signing = {c.feePayer} \cup (SubmitSigners(c) \cap ToSet(e.keys)) \cup DurableAuthority(c)
      BY <3>1, <3>2, PlannedFacts
    <3>4. Forwarded(r) \subseteq ToSet(e.keys)
      BY <2>3 DEF Signing
    <3>5. QED
      BY <2>6, <2>7, <3>3, <3>4
  <2>9. ~SubmitRefused(c)
    <3>1. \A s \in c.approvals : ~ApprovalRefused(c, s)
      <4> SUFFICES ASSUME NEW s \in c.approvals PROVE ~ApprovalRefused(c, s)
        OBVIOUS
      <4>1. PICK k \in Required(e) : /\ (~IsExecutorSigner(e, k) \/ IsPdaAuthority(e, k))
                                      /\ s = <<k, e>>
        BY <2>1, <2>7 DEF Approvals
      <4>2. s[1] = k /\ s[2] = e
        BY <4>1
      <4>3. QED
        BY <2>7, <4>1, <4>2 DEF ApprovalRefused, IsRequiredRelaySigner
    <3>2. ~AddressRefused(c)
      BY <2>7 DEF AddressRefused
    <3>3. \A k \in c.relaySigners : ~RelaySignerRefused(c, k)
      BY <2>1, <2>4, <2>7 DEF RelaySignerRefused
    <3>4. \A k \in Required(e) : ~SignerMissing(c, k)
      BY <2>1, <2>4, <2>6, <2>7 DEF SignerMissing, IsRequiredRelaySigner, SignsRelay
    <3>5. QED
      BY <2>3, <2>7, <3>1, <3>2, <3>3, <3>4 DEF SubmitRefused
  <2>10. ~PlannedRefused(c, tx)
    BY <2>1, <2>2, <2>6, <2>7 DEF PlannedRefused, Submittable
  <2>11. ~SigningFails(c, tx) /\ Complete(c, tx)
    BY <2>7, <2>8 DEF SigningFails, Complete
  <2> QED
    BY <2>1, <2>9, <2>10, <2>11
<1> QED
  BY <1>1, EnvelopesHold, PTL
==============================================================================
