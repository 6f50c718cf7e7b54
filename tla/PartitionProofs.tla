--------------------------- MODULE PartitionProofs ---------------------------
(****************************************************************************)
(* The parts of a batch are contiguous, in order, pairwise disjoint, and    *)
(* together they are the whole batch: for every batch size and every number *)
(* of parts.  The lemmas about numbers that this takes serve the proofs of  *)
(* other modules too.                                                       *)
(****************************************************************************)
EXTENDS Partition, FiniteSetTheorems, TLAPS

(* Products of integers, which the provers treat as opaque terms otherwise. *)
LEMMA Distributes ==
  ASSUME NEW a \in Int, NEW b \in Int, NEW q \in Int
  PROVE  (a + b) * q = a * q + b * q
  BY SMT

(* n \div parts and n % parts are the quotient and the remainder.           *)
LEMMA QuotientRemainder ==
  ASSUME NEW n \in Nat, NEW parts \in Nat \ {0}
  PROVE  /\ n \div parts \in Nat
         /\ n % parts \in 0 .. parts - 1
         /\ n = parts * (n \div parts) + (n % parts)
  BY SMT

(* The shape of a cut: quotient and remainder, named.                       *)
IsCut(n, parts, q, r) ==
  /\ r < parts /\ n = parts * q + r
  /\ \A i \in Nat :
       /\ PartOffset(n, parts, i) = i * q + IF i < r THEN i ELSE r
       /\ PartSize(n, parts, i) = q + IF i < r THEN 1 ELSE 0

(* Every batch has such a cut: quotient and remainder.                      *)
LEMMA Cut ==
  ASSUME NEW n \in Nat, NEW parts \in Nat \ {0}
  PROVE  \E q \in Nat, r \in Nat : IsCut(n, parts, q, r)
  <1> DEFINE q == n \div parts
             r == n % parts
  <1>1. q \in Nat /\ r \in Nat /\ r < parts /\ n = parts * q + r
    BY QuotientRemainder
  <1>2. \A i \in Nat : /\ PartOffset(n, parts, i) = i * q + IF i < r THEN i ELSE r
                       /\ PartSize(n, parts, i) = q + IF i < r THEN 1 ELSE 0
    BY DEF PartOffset, PartSize
  <1> QED
    BY <1>1, <1>2 DEF IsCut

(* Offsets and sizes of parts are natural numbers.                          *)
LEMMA PartType ==
  ASSUME NEW n \in Nat, NEW parts \in Nat \ {0}, NEW i \in Nat
  PROVE  PartOffset(n, parts, i) \in Nat /\ PartSize(n, parts, i) \in Nat
  <1>1. PICK q \in Nat, r \in Nat : IsCut(n, parts, q, r)
    BY Cut
  <1>2. i * q \in Nat
    BY SMT
  <1> QED
    BY <1>1, <1>2 DEF IsCut

(* The loops that cut a batch start with offset 0 ...                       *)
LEMMA PartOffsetZero ==
  ASSUME NEW n \in Nat, NEW parts \in Nat \ {0}
  PROVE  PartOffset(n, parts, 0) = 0
  <1>1. PICK q \in Nat, r \in Nat : IsCut(n, parts, q, r)
    BY Cut
  <1> QED
    BY <1>1 DEF IsCut

(* ... and add the size of each part to it (offset += count).               *)
LEMMA PartOffsetStep ==
  ASSUME NEW n \in Nat, NEW parts \in Nat \ {0}, NEW i \in Nat
  PROVE  PartOffset(n, parts, i + 1) = PartOffset(n, parts, i) + PartSize(n, parts, i)
  <1>1. PICK q \in Nat, r \in Nat : IsCut(n, parts, q, r)
    BY Cut
  <1>2. (i + 1) * q = i * q + q /\ i * q \in Nat
    BY Distributes
  <1>3. PartOffset(n, parts, i + 1) = (i + 1) * q + IF i + 1 < r THEN i + 1 ELSE r
    BY <1>1 DEF IsCut
  <1>4. /\ PartOffset(n, parts, i) = i * q + IF i < r THEN i ELSE r
        /\ PartSize(n, parts, i) = q + IF i < r THEN 1 ELSE 0
    BY <1>1 DEF IsCut
  <1> QED
    BY <1>2, <1>3, <1>4

(* The parts together have n items: the last one ends where the batch does. *)
LEMMA PartOffsetTotal ==
  ASSUME NEW n \in Nat, NEW parts \in Nat \ {0}
  PROVE  PartOffset(n, parts, parts) = n
  <1>1. PICK q \in Nat, r \in Nat : IsCut(n, parts, q, r)
    BY Cut
  <1> QED
    BY <1>1 DEF IsCut

(* A part ends before, or where, any later part begins.                     *)
LEMMA PartOrder ==
  ASSUME NEW n \in Nat, NEW parts \in Nat \ {0}, NEW i \in Nat, NEW j \in Nat, i < j
  PROVE  PartOffset(n, parts, i) + PartSize(n, parts, i) <= PartOffset(n, parts, j)
  <1>1. PICK q \in Nat, r \in Nat : IsCut(n, parts, q, r)
    BY Cut
  <1>2. PICK d \in Nat : j = i + 1 + d
    <2>1. j - i - 1 \in Nat /\ j = i + 1 + (j - i - 1)
      OBVIOUS
    <2> QED
      BY <2>1
  <1>3. j * q = i * q + q + d * q
    <2>1. j * q = (i + 1) * q + d * q
      BY <1>2, Distributes
    <2>2. (i + 1) * q = i * q + q
      BY Distributes
    <2> QED
      BY <2>1, <2>2
  <1>4. d * q \in Nat /\ i * q \in Nat
    BY SMT
  <1> QED
    BY <1>1, <1>2, <1>3, <1>4 DEF IsCut

(* Every part lies within the batch.                                        *)
LEMMA PartWithin ==
  ASSUME NEW n \in Nat, NEW parts \in Nat \ {0}, NEW i \in 0 .. parts - 1
  PROVE  PartOffset(n, parts, i) + PartSize(n, parts, i) <= n
  BY PartOrder, PartOffsetTotal

(* With at least as many items as parts, no part is empty.                  *)
LEMMA PartNotEmpty ==
  ASSUME NEW n \in Nat, NEW parts \in Nat \ {0}, NEW i \in Nat, n >= parts
  PROVE  PartSize(n, parts, i) >= 1
  <1>1. PICK q \in Nat, r \in Nat : IsCut(n, parts, q, r)
    BY Cut
  <1>2. CASE q = 0
    <2>1. parts * q = 0
      BY <1>2
    <2> QED
      BY <1>1, <2>1 DEF IsCut
  <1>3. CASE q >= 1
    BY <1>1, <1>3 DEF IsCut
  <1> QED
    BY <1>2, <1>3

(* Products grow with their first factor.                                   *)
LEMMA Monotone ==
  ASSUME NEW a \in Nat, NEW b \in Nat, NEW q \in Nat, a <= b
  PROVE  a * q \in Nat /\ a * q <= b * q
  <1>1. PICK d \in Nat : b = a + d
    <2>1. b - a \in Nat /\ b = a + (b - a)
      OBVIOUS
    <2> QED
      BY <2>1
  <1>2. b * q = a * q + d * q
    BY <1>1, Distributes
  <1>3. a * q \in Nat /\ d * q \in Nat
    BY SMT
  <1> QED
    BY <1>2, <1>3

(* Division with a remainder, as an existence.                              *)
LEMMA Division ==
  ASSUME NEW m \in Nat, NEW d \in Nat \ {0}
  PROVE  \E a \in Nat, b \in Nat : m = a * d + b /\ b < d
  <1> DEFINE a == m \div d
             b == m % d
  <1>1. a \in Nat /\ b \in Nat /\ b < d /\ m = d * a + b
    BY QuotientRemainder
  <1>2. d * a = a * d
    BY <1>1, SMT
  <1>3. m = a * d + b
    BY <1>1, <1>2
  <1> HIDE DEF a, b
  <1> QED
    BY <1>1, <1>3

(* Products of different numbers are a factor apart, ...                    *)
LEMMA Strictly ==
  ASSUME NEW a \in Nat, NEW b \in Nat, NEW q \in Nat, a < b
  PROVE  a * q \in Nat /\ b * q \in Nat /\ a * q + q <= b * q
  <1>1. (a + 1) * q <= b * q
    BY Monotone
  <1>2. (a + 1) * q = a * q + 1 * q /\ 1 * q = q
    BY Distributes
  <1>3. a * q \in Nat /\ b * q \in Nat
    BY SMT
  <1> QED
    BY <1>1, <1>2, <1>3

(* ... so that quotient and remainder are unique.                           *)
LEMMA RemainderUnique ==
  ASSUME NEW n \in Nat, NEW d \in Nat \ {0}, NEW a \in Nat, NEW r \in Nat,
         n = d * a + r, r < d
  PROVE  n % d = r /\ n \div d = a
  <1>1. \E b \in Nat, m \in Nat : b = n \div d /\ m = n % d /\ n = d * b + m /\ m < d
    <2> DEFINE b == n \div d
               m == n % d
    <2>1. b \in Nat /\ m \in Nat /\ m < d /\ n = d * b + m
      BY QuotientRemainder
    <2> QED
      BY <2>1
  <1>2. PICK b \in Nat, m \in Nat :
          b = n \div d /\ m = n % d /\ n = d * b + m /\ m < d
    BY <1>1
  <1>3. a * d = d * a /\ b * d = d * b /\ a * d \in Nat /\ b * d \in Nat
    BY SMT
  <1>4. ~(a < b)
    <2>1. a < b => a * d + d <= b * d
      BY Strictly
    <2> QED
      BY <1>2, <1>3, <2>1
  <1>5. ~(b < a)
    <2>1. b < a => b * d + d <= a * d
      BY Strictly
    <2> QED
      BY <1>2, <1>3, <2>1
  <1>6. a = b
    BY <1>4, <1>5
  <1>7. m = r
    BY <1>2, <1>3, <1>6
  <1> QED
    BY <1>1, <1>6, <1>7

(* Every item is in some part.                                              *)
LEMMA PartCover ==
  ASSUME NEW n \in Nat, NEW parts \in Nat \ {0}, NEW k \in 1 .. n
  PROVE  \E i \in 0 .. parts - 1 :
           /\ PartOffset(n, parts, i) < k
           /\ k <= PartOffset(n, parts, i) + PartSize(n, parts, i)
  <1>1. PICK q \in Nat, r \in Nat : IsCut(n, parts, q, r)
    BY Cut
  <1>2. r * (q + 1) = r * q + r /\ r * q \in Nat
    <2>1. (q + 1) * r = q * r + 1 * r /\ (q + 1) * r = r * (q + 1) /\ q * r = r * q
      BY SMT
    <2>2. r * q \in Nat
      BY SMT
    <2> QED
      BY <2>1, <2>2
  <1>3. CASE k - 1 < r * (q + 1)
    <2>1. PICK a \in Nat, b \in Nat : k - 1 = a * (q + 1) + b /\ b < q + 1
      <3>1. k - 1 \in Nat /\ q + 1 \in Nat \ {0}
        OBVIOUS
      <3> QED
        BY <3>1, Division
    <2>2. a < r
      <3> SUFFICES ASSUME r <= a PROVE FALSE
        OBVIOUS
      <3>1. r * (q + 1) <= a * (q + 1) /\ a * (q + 1) \in Nat
        BY Monotone
      <3> QED
        BY <1>2, <1>3, <2>1, <3>1
    <2>3. a * (q + 1) = a * q + a /\ a * q \in Nat
      <3>1. (q + 1) * a = q * a + 1 * a /\ (q + 1) * a = a * (q + 1) /\ q * a = a * q
        BY SMT
      <3>2. a * q \in Nat
        BY SMT
      <3> QED
        BY <3>1, <3>2
    <2>4. PartOffset(n, parts, a) = a * q + a /\ PartSize(n, parts, a) = q + 1
      BY <1>1, <2>2 DEF IsCut
    <2>5. a \in 0 .. parts - 1
      BY <1>1, <2>2 DEF IsCut
    <2>6. PartOffset(n, parts, a) < k
      BY <2>1, <2>3, <2>4
    <2>7. k <= PartOffset(n, parts, a) + PartSize(n, parts, a)
      BY <2>1, <2>3, <2>4
    <2> QED
      BY <2>5, <2>6, <2>7
  <1>4. CASE r * (q + 1) <= k - 1
    <2>1. q # 0
      <3> SUFFICES ASSUME q = 0 PROVE FALSE
        OBVIOUS
      <3>1. parts * q = 0 /\ r * q = 0
        OBVIOUS
      <3>2. n = parts * q + r
        BY <1>1 DEF IsCut
      <3>3. n = r
        BY <3>1, <3>2
      <3>4. r * (q + 1) = r
        BY <1>2, <3>1
      <3> QED
        BY <1>4, <3>3, <3>4
    <2>2. PICK a \in Nat, b \in Nat : k - 1 - r * (q + 1) = a * q + b /\ b < q
      <3>1. k - 1 - r * (q + 1) \in Nat /\ q \in Nat \ {0}
        BY <1>2, <1>4, <2>1
      <3> QED
        BY <3>1, Division
    <2>3. (r + a) * q = r * q + a * q /\ a * q \in Nat
      <3>1. a * q \in Nat
        BY SMT
      <3> QED
        BY <3>1, Distributes
    <2>4. PartOffset(n, parts, r + a) = (r + a) * q + r /\ PartSize(n, parts, r + a) = q
      <3>1. r + a \in Nat /\ ~(r + a < r)
        OBVIOUS
      <3> QED
        BY <1>1, <3>1 DEF IsCut
    <2>5. PartOffset(n, parts, r + a) < k
      BY <1>2, <1>4, <2>2, <2>3, <2>4
    <2>6. k <= PartOffset(n, parts, r + a) + PartSize(n, parts, r + a)
      BY <1>2, <1>4, <2>2, <2>3, <2>4
    <2>7. r + a < parts
      <3> SUFFICES ASSUME parts <= r + a PROVE FALSE
        OBVIOUS
      <3>1. parts * q <= (r + a) * q
        BY Monotone
      <3>2. n = parts * q + r
        BY <1>1 DEF IsCut
      <3>3. parts * q \in Nat /\ (r + a) * q \in Nat
        BY SMT
      <3> QED
        BY <2>4, <2>5, <3>1, <3>2, <3>3
    <2>8. r + a \in 0 .. parts - 1
      BY <2>7
    <2> QED
      BY <2>5, <2>6, <2>8
  <1>5. r * (q + 1) \in Nat /\ k - 1 \in Nat
    BY <1>2
  <1> QED
    BY <1>3, <1>4, <1>5
-----------------------------------------------------------------------------
(* The elements of a finite set of numbers are numbered by how many others  *)
(* are less: no two have the same number, and there is one for each.        *)
LEMMA Ranks ==
  ASSUME NEW L, L \subseteq Nat, IsFiniteSet(L)
  PROVE  /\ \A c, d \in L : c < d =>
              Cardinality({e \in L : e < c}) # Cardinality({e \in L : e < d})
         /\ \A k \in 0 .. Cardinality(L) - 1 :
              \E c \in L : Cardinality({d \in L : d < c}) = k
  <1> DEFINE Below(c) == {d \in L : d < c}
             N == Cardinality(L)
             r == [c \in L |-> Cardinality(Below(c))]
  <1>1. N \in Nat
    BY FS_CardinalityType
  <1>2. \A c \in L : IsFiniteSet(Below(c)) /\ Cardinality(Below(c)) \in Nat
    <2> TAKE c \in L
    <2>1. Below(c) \in SUBSET L
      OBVIOUS
    <2> HIDE DEF Below
    <2> QED
      BY <2>1, FS_Subset, FS_CardinalityType
  <1>3. \A c \in L : Cardinality(Below(c)) <= N - 1
    <2> TAKE c \in L
    <2>1. IsFiniteSet(L \ {c}) /\ Cardinality(L \ {c}) = N - 1
      BY FS_RemoveElement
    <2>2. Below(c) \in SUBSET (L \ {c})
      OBVIOUS
    <2> HIDE DEF Below
    <2> QED
      BY <2>1, <2>2, FS_Subset
  <1>4. ASSUME NEW c \in L, NEW d \in L, c < d
        PROVE  Cardinality(Below(c)) # Cardinality(Below(d))
    <2> SUFFICES ASSUME Cardinality(Below(d)) = Cardinality(Below(c)) PROVE FALSE
      OBVIOUS
    <2>0. c \in Nat /\ d \in Nat /\ \A e \in L : e \in Nat /\ (e < c => e < d)
      <3>1. \A e \in Nat : c \in Nat /\ d \in Nat /\ (e < c => e < d)
        BY <1>4
      <3> QED
        BY <3>1
    <2>1. Below(c) \in SUBSET Below(d) /\ c \in Below(d) /\ c \notin Below(c)
      <3>1. Below(c) \in SUBSET Below(d)
        BY <2>0
      <3>2. c \in Below(d)
        BY <1>4
      <3>3. ~(c < c)
        BY <2>0
      <3> QED
        BY <3>1, <3>2, <3>3
    <2>2. IsFiniteSet(Below(d))
      BY <1>2
    <2> HIDE DEF Below
    <2>3. Below(d) = Below(c)
      BY <2>1, <2>2, FS_Subset
    <2> QED
      BY <2>1, <2>3
  <1>5. r \in [L -> 0 .. N - 1]
    <2> HIDE DEF Below, N
    <2> QED
      BY <1>1, <1>2, <1>3
  <1>6. \A c, d \in L : c # d => r[c] # r[d]
    <2> TAKE c \in L, d \in L
    <2>1. c < d \/ d < c \/ c = d
      OBVIOUS
    <2> HIDE DEF Below
    <2> QED
      BY <1>4, <2>1
  <1>7. r \in Injection(L, 0 .. N - 1)
    <2> HIDE DEF r
    <2>1. \A c, d \in DOMAIN r : r[c] = r[d] => c = d
      BY <1>5, <1>6
    <2> QED
      BY <1>5, <2>1 DEF Injection, IsInjective
  <1>8. IsFiniteSet(0 .. N - 1) /\ Cardinality(0 .. N - 1) = N
    <2> HIDE DEF N
    <2>1. 0 \in Int /\ N - 1 \in Int
      BY <1>1
    <2>2. /\ IsFiniteSet(0 .. N - 1)
          /\ Cardinality(0 .. N - 1) = IF 0 > N - 1 THEN 0 ELSE N - 1 - 0 + 1
      BY <2>1, FS_Interval
    <2> QED
      BY <1>1, <2>2
  <1>9. r \in Surjection(L, 0 .. N - 1)
    <2> HIDE DEF r
    <2>1. Cardinality(L) = Cardinality(0 .. N - 1)
      BY <1>8
    <2> QED
      BY <1>7, <1>8, <2>1, FS_Injection
  <1>10. \A k \in 0 .. N - 1 : \E c \in L : r[c] = k
    <2> HIDE DEF r
    <2> QED
      BY <1>9 DEF Surjection
  <1> QED
    BY <1>4, <1>10
=============================================================================
