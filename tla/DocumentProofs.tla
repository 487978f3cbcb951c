--------------------------- MODULE DocumentProofs ---------------------------
(***************************************************************************)
(* Proofs about documents (modules Numbers, Document, Visitor and           *)
(* Formatter), of any size and in any number of segments: an integer is     *)
(* read as it was stored; a key is found exactly if a table has it, in as   *)
(* many steps as it takes to halve the table; every table that somebody     *)
(* holds is a slice of a table cell, whatever is sorted meanwhile.          *)
(***************************************************************************)
EXTENDS Formatter, FiniteSetTheorems, SequenceTheorems, WellFoundedInduction, TLAPS

----------------------------------------------------------------------------
(* Natural numbers.                                                        *)

Below == {pair \in Nat \X Nat : pair[1] < pair[2]}

(* The order of the natural numbers, as a relation, is well founded.        *)
LEMMA BelowWellFounded == IsWellFoundedOn(Below, Nat)
  BY NatLessThanWellFounded, Zenon DEF OpToRel, Below

(* A set of natural numbers that is not empty has a least element.          *)
LEMMA LeastNatural ==
  ASSUME NEW S \in SUBSET Nat, S # {}
  PROVE  \E n \in S : \A m \in S : n <= m
<1>1. \E n \in S : \A m \in S : ~ (<<m, n>> \in Below)
  BY BelowWellFounded, WFMin
<1>2. \A m, n \in Nat : m < n => <<m, n>> \in Below
  BY Z3 DEF Below
<1>3. \E n \in S : \A m \in S : ~ (m < n)
  BY <1>1, <1>2
<1> QED BY <1>3

(* A set that has every number of which it has all smaller ones has all.    *)
LEMMA StrongInduction ==
  ASSUME NEW S \in SUBSET Nat,
         \A n \in Nat : (\A m \in Nat : m < n => m \in S) => n \in S
  PROVE  \A n \in Nat : n \in S
<1> SUFFICES ASSUME Nat \ S # {}  PROVE FALSE
  OBVIOUS
<1>1. PICK n \in Nat \ S : \A m \in Nat \ S : n <= m
  BY LeastNatural
<1>2. \A m \in Nat : m < n => m \in S
  BY <1>1
<1> QED BY <1>1, <1>2

(* 2 ^ n counts the subsets of n things, which one more thing doubles.      *)
LEMMA PowerOfTwo ==
  ASSUME NEW n \in Nat
  PROVE  2 ^ n \in Nat \ {0} /\ 2 ^ (n + 1) = 2 * 2 ^ n
<1> DEFINE small == SUBSET (1 .. n)
           large == SUBSET (1 .. n + 1)
           new   == large \ small
           with(T) == T \cup {n + 1}
<1>1. /\ IsFiniteSet(1 .. n) /\ Cardinality(1 .. n) = n
      /\ IsFiniteSet(1 .. n + 1) /\ Cardinality(1 .. n + 1) = n + 1
  BY FS_Interval
<1>2. /\ IsFiniteSet(small) /\ Cardinality(small) = 2 ^ n
      /\ IsFiniteSet(large) /\ Cardinality(large) = 2 ^ (n + 1)
  BY <1>1, FS_SUBSET
<1>3. Cardinality(small) \in Nat /\ Cardinality(large) \in Nat
  BY <1>2, FS_CardinalityType
<1>4. IsFiniteSet(new) /\ new \cap small = {} /\ small \cup new = large
  <2>1. small \subseteq large
    OBVIOUS
  <2>2. new \subseteq large
    OBVIOUS
  <2> QED BY <1>2, <2>1, <2>2, FS_Subset
<1>5. Cardinality(new) = Cardinality(small)
  <2> DEFINE f == [T \in small |-> with(T)]
  <2>1. f \in [small -> new]
    OBVIOUS
  <2>2. \A S, T \in small : f[S] = f[T] => S = T
    <3>1. \A T \in small : T = f[T] \ {n + 1}
      OBVIOUS
    <3> QED BY <3>1
  <2>3. \A T \in new : \E S \in small : f[S] = T
    <3> SUFFICES ASSUME NEW T \in new  PROVE \E S \in small : f[S] = T
      OBVIOUS
    <3>1. n + 1 \in T /\ T \ {n + 1} \in small
      OBVIOUS
    <3>2. f[T \ {n + 1}] = T
      BY <3>1
    <3> QED BY <3>1, <3>2
  <2>4. f \in Bijection(small, new)
    BY <2>1, <2>2, <2>3, Zenon DEF Bijection, Injection, Surjection, IsInjective
  <2>5. ExistsBijection(small, new)
    BY <2>4 DEF ExistsBijection
  <2> QED BY <1>2, <2>5, FS_Bijection
<1>6. Cardinality(small \cup new) =
        Cardinality(small) + Cardinality(new) - Cardinality(small \cap new)
  BY <1>2, <1>4, FS_Union
<1>7. Cardinality(small \cap new) = 0
  BY <1>4, FS_EmptySet
<1> HIDE DEF small, large, new
<1>8. Cardinality(large) = Cardinality(small) + Cardinality(small)
  <2>1. Cardinality(large) = Cardinality(small) + Cardinality(small) - 0
    BY <1>4, <1>5, <1>6, <1>7
  <2> QED BY <1>3, <2>1
<1>9. Cardinality(small) # 0
  <2>1. {} \in small
    BY DEF small
  <2> QED BY <1>2, <2>1, FS_EmptySet
<1> QED BY <1>2, <1>3, <1>8, <1>9

----------------------------------------------------------------------------
(* Integers.                                                               *)

(* What is stored of a number in half the range of a width, its remainder,  *)
(* is read as that number again.                                           *)
LEMMA RemainderIsRead ==
  ASSUME NEW half \in Nat \ {0}, NEW n \in Int, -half <= n, n <= half - 1
  PROVE  (((n % (2 * half)) + half) % (2 * half)) - half = n
  OBVIOUS

(* An integer of a long long is read as it was stored, whatever the widths: *)
(* thsn_segment_store_int finds one that holds it, and the bits of that     *)
(* width are enough for thsn_segment_read_number.                           *)
THEOREM IntegersAreReadAsStored ==
  \A n \in Minimum(LongLong) .. Maximum(LongLong) : ReadInt(StoreInt(n)) = n
<1> SUFFICES ASSUME NEW n \in Minimum(LongLong) .. Maximum(LongLong)
             PROVE  ReadInt(StoreInt(n)) = n
  OBVIOUS
<1>1. /\ LongLong \in DOMAIN Bits /\ DOMAIN Bits \subseteq Nat \ {0}
      /\ \A k \in DOMAIN Bits : Bits[k] \in Nat \ {0}
  BY BitsAssumption DEF LongLong
<1>2. \A k \in DOMAIN Bits : /\ 2 ^ (Bits[k] - 1) \in Nat \ {0}
                             /\ 2 ^ Bits[k] = 2 * 2 ^ (Bits[k] - 1)
  <2> TAKE k \in DOMAIN Bits
  <2>1. Bits[k] - 1 \in Nat /\ (Bits[k] - 1) + 1 = Bits[k]
    BY <1>1
  <2>2. 2 ^ ((Bits[k] - 1) + 1) = 2 * 2 ^ (Bits[k] - 1)
    BY <2>1, PowerOfTwo
  <2> QED BY <2>1, <2>2, PowerOfTwo
<1>3. CASE n = 0
  BY <1>3 DEF ReadInt, StoreInt
<1>4. CASE n # 0
  <2> DEFINE fits == {k \in DOMAIN Bits : Minimum(k) <= n /\ n <= Maximum(k)}
             size == CHOOSE k \in fits : \A l \in fits : k <= l
             half == 2 ^ (Bits[size] - 1)
  <2>1. n \in Int /\ LongLong \in fits
    BY <1>1, <1>2 DEF Minimum, Maximum
  <2>2. fits \in SUBSET Nat /\ fits # {}
    BY <1>1, <2>1
  <2>3. \E k \in fits : \A l \in fits : k <= l
    BY <2>2, LeastNatural
  <2>4. size \in fits
    BY <2>3
  <2>5. StoreInt(n) = [size |-> size, bits |-> n % 2 ^ Bits[size]]
    BY <1>1, <1>4, <2>4 DEF StoreInt
  <2>6. ReadInt(StoreInt(n)) = AsSigned(n % 2 ^ Bits[size], size)
    <3>1. size # 0
      BY <1>1, <2>4
    <3> HIDE DEF size
    <3> QED BY <2>5, <3>1 DEF ReadInt
  <2>7. /\ half \in Nat \ {0} /\ 2 ^ Bits[size] = 2 * half
        /\ Minimum(size) = -half /\ -half <= n /\ n <= half - 1
    BY <1>1, <1>2, <2>4 DEF Minimum, Maximum
  <2> HIDE DEF half, size
  <2>8. (((n % (2 * half)) + half) % (2 * half)) - half = n
    BY <2>1, <2>7, RemainderIsRead
  <2>9. n % (2 * half) \in Int
    BY <2>1, <2>7
  <2>10. AsSigned(n % 2 ^ Bits[size], size)
           = (((n % (2 * half)) + half) % (2 * half)) - half
    <3>1. \A r \in Int : r - (-half) = r + half
      BY <2>7
    <3>2. \A r \in Int : (r % (2 * half)) + (-half) = (r % (2 * half)) - half
      BY <2>7
    <3> QED BY <2>7, <2>9, <3>1, <3>2 DEF AsSigned
  <2> QED BY <2>6, <2>8, <2>10
<1> QED BY <1>3, <1>4

----------------------------------------------------------------------------
(* The order of keys.                                                      *)

(* What a key is compared by at a position: the end of it is less than      *)
(* every byte.                                                             *)
ByteAt(s, k) == IF k <= Len(s) THEN s[k] + 1 ELSE 0

DiffersFirstAt(s, t, k) ==
  /\ k \in Nat \ {0} /\ ByteAt(s, k) # ByteAt(t, k)
  /\ \A l \in Nat \ {0} : l < k => ByteAt(s, l) = ByteAt(t, l)

(* Bytes are numbers, and one less than all of them is the end.             *)
LEMMA ByteAtType ==
  ASSUME NEW s \in Seq(Nat), NEW k \in Nat \ {0}
  PROVE  /\ ByteAt(s, k) \in Nat
         /\ k <= Len(s) <=> ByteAt(s, k) # 0
  BY DEF ByteAt

(* thsn_segment_object_index compares keys by the first byte in which they  *)
(* differ, the end of a key included.                                      *)
LEMMA CompareFirstDifference ==
  ASSUME NEW s \in Seq(Nat), NEW t \in Seq(Nat)
  PROVE  \/ s = t /\ Compare(s, t) = 0
         \/ \E k \in Nat : /\ DiffersFirstAt(s, t, k)
                           /\ Compare(s, t) \in Int \ {0}
                           /\ Compare(s, t) < 0 <=> ByteAt(s, k) < ByteAt(t, k)
<1> DEFINE both == Least(Len(s), Len(t))
           differences == {k \in 1 .. both : s[k] # t[k]}
           first == CHOOSE k \in differences : \A l \in differences : k <= l
<1>1. /\ both \in Nat /\ both <= Len(s) /\ both <= Len(t)
      /\ both = Len(s) \/ both = Len(t)
      /\ Len(s) \in Nat /\ Len(t) \in Nat
  BY DEF Least
<1>2. \A k \in 1 .. both : s[k] \in Nat /\ t[k] \in Nat
  BY <1>1
<1>3. \A k \in 1 .. both : ByteAt(s, k) = s[k] + 1 /\ ByteAt(t, k) = t[k] + 1
  BY <1>1 DEF ByteAt
<1>4. Compare(s, t) = IF differences = {} THEN Len(s) - Len(t) ELSE s[first] - t[first]
  BY DEF Compare
<1>5. CASE differences = {}
  <2>1. \A k \in 1 .. both : s[k] = t[k]
    BY <1>5
  <2>2. Compare(s, t) = Len(s) - Len(t)
    BY <1>4, <1>5
  <2>3. CASE Len(s) = Len(t)
    <3>1. s = t
      BY <1>1, <2>1, <2>3
    <3> QED BY <1>1, <2>2, <2>3, <3>1
  <2>4. CASE Len(s) # Len(t)
    <3> HIDE DEF both, differences, first
    <3>1. /\ both + 1 \in Nat \ {0}
          /\ \/ ByteAt(s, both + 1) = 0 /\ ByteAt(t, both + 1) \in Nat \ {0} /\ Len(s) < Len(t)
             \/ ByteAt(t, both + 1) = 0 /\ ByteAt(s, both + 1) \in Nat \ {0} /\ Len(t) < Len(s)
      <4>1. CASE Len(s) < Len(t)
        <5>1. both = Len(s) /\ both + 1 \in 1 .. Len(t) /\ ~(both + 1 <= Len(s))
          BY <1>1, <4>1
        <5>2. t[both + 1] \in Nat
          BY <5>1
        <5> QED BY <1>1, <4>1, <5>1, <5>2 DEF ByteAt
      <4>2. CASE Len(t) < Len(s)
        <5>1. both = Len(t) /\ both + 1 \in 1 .. Len(s) /\ ~(both + 1 <= Len(t))
          BY <1>1, <4>2
        <5>2. s[both + 1] \in Nat
          BY <5>1
        <5> QED BY <1>1, <4>2, <5>1, <5>2 DEF ByteAt
      <4> QED BY <1>1, <2>4, <4>1, <4>2
    <3>2. \A l \in Nat \ {0} : l < both + 1 => ByteAt(s, l) = ByteAt(t, l)
      BY <1>1, <1>3, <2>1
    <3>3. DiffersFirstAt(s, t, both + 1)
      BY <3>1, <3>2 DEF DiffersFirstAt
    <3>4. Compare(s, t) \in Int \ {0}
      BY <1>1, <2>2, <2>4
    <3>5. Compare(s, t) < 0 <=> ByteAt(s, both + 1) < ByteAt(t, both + 1)
      BY <1>1, <2>2, <3>1
    <3> QED BY <3>1, <3>3, <3>4, <3>5
  <2> QED BY <2>3, <2>4
<1>6. CASE differences # {}
  <2>1. differences \in SUBSET Nat
    BY <1>1
  <2>2. \E k \in differences : \A l \in differences : k <= l
    BY <1>6, <2>1, LeastNatural
  <2>3. first \in differences /\ \A l \in differences : first <= l
    BY <2>2
  <2>4. Compare(s, t) = s[first] - t[first]
    BY <1>4, <1>6
  <2> HIDE DEF first
  <2>5. first \in 1 .. both /\ s[first] # t[first]
    BY <2>3
  <2>6. \A l \in 1 .. both : l < first => s[l] = t[l]
    BY <1>1, <2>3, <2>5
  <2> HIDE DEF differences, both
  <2>7. \A l \in Nat \ {0} : l < first => ByteAt(s, l) = ByteAt(t, l)
    <3>1. \A l \in Nat \ {0} : l < first => l \in 1 .. both
      BY <1>1, <2>5
    <3> QED BY <1>3, <2>6, <3>1
  <2>8. /\ first \in Nat \ {0} /\ s[first] \in Nat /\ t[first] \in Nat
        /\ ByteAt(s, first) = s[first] + 1 /\ ByteAt(t, first) = t[first] + 1
    BY <1>1, <1>2, <1>3, <2>5
  <2>9. ByteAt(s, first) # ByteAt(t, first)
    BY <2>5, <2>8
  <2>10. DiffersFirstAt(s, t, first)
    BY <2>7, <2>8, <2>9 DEF DiffersFirstAt
  <2>11. /\ Compare(s, t) \in Int \ {0}
         /\ Compare(s, t) < 0 <=> ByteAt(s, first) < ByteAt(t, first)
    BY <2>4, <2>5, <2>8
  <2> QED BY <2>8, <2>10, <2>11
<1> QED BY <1>5, <1>6

(* The order of keys in the same key is decided by their first differences. *)
Before(s, t) == \E k \in Nat : DiffersFirstAt(s, t, k) /\ ByteAt(s, k) < ByteAt(t, k)

(* Two keys differ first at one position only.                              *)
LEMMA OneFirstDifference ==
  ASSUME NEW s, NEW t, NEW k \in Nat, NEW l \in Nat,
         DiffersFirstAt(s, t, k), DiffersFirstAt(s, t, l)
  PROVE  k = l
<1>1. ~(k < l) /\ ~(l < k)
  BY DEF DiffersFirstAt
<1> QED BY <1>1

(* Of two keys one comes before the other, or they are equal; comparing     *)
(* them tells which.                                                       *)
LEMMA CompareTells ==
  ASSUME NEW s \in Seq(Nat), NEW t \in Seq(Nat)
  PROVE  /\ Compare(s, t) \in Int
         /\ Compare(s, t) = 0 <=> s = t
         /\ Compare(s, t) < 0 <=> Before(s, t)
         /\ Compare(s, t) > 0 <=> Before(t, s)
<1>1. ~Before(s, s) /\ ~Before(t, t)
  BY DEF Before, DiffersFirstAt
<1>2. CASE s = t /\ Compare(s, t) = 0
  BY <1>1, <1>2
<1>3. CASE \E k \in Nat : /\ DiffersFirstAt(s, t, k)
                          /\ Compare(s, t) \in Int \ {0}
                          /\ Compare(s, t) < 0 <=> ByteAt(s, k) < ByteAt(t, k)
  <2>1. PICK k \in Nat : /\ DiffersFirstAt(s, t, k)
                         /\ Compare(s, t) \in Int \ {0}
                         /\ Compare(s, t) < 0 <=> ByteAt(s, k) < ByteAt(t, k)
    BY <1>3
  <2>2. s # t
    BY <2>1 DEF DiffersFirstAt
  <2>3. k \in Nat \ {0} /\ ByteAt(s, k) \in Nat /\ ByteAt(t, k) \in Nat
        /\ ByteAt(s, k) # ByteAt(t, k)
    BY <2>1, ByteAtType DEF DiffersFirstAt
  <2>4. DiffersFirstAt(t, s, k)
    BY <2>1 DEF DiffersFirstAt
  <2>5. Before(s, t) <=> ByteAt(s, k) < ByteAt(t, k)
    BY <2>1, OneFirstDifference DEF Before
  <2>6. Before(t, s) <=> ByteAt(t, k) < ByteAt(s, k)
    BY <2>4, OneFirstDifference DEF Before
  <2> QED BY <2>1, <2>2, <2>3, <2>5, <2>6
<1> QED BY <1>2, <1>3, CompareFirstDifference

(* The order of keys is transitive.                                        *)
LEMMA BeforeTransitive ==
  ASSUME NEW r \in Seq(Nat), NEW s \in Seq(Nat), NEW t \in Seq(Nat),
         Before(r, s), Before(s, t)
  PROVE  Before(r, t)
<1>1. PICK k \in Nat : DiffersFirstAt(r, s, k) /\ ByteAt(r, k) < ByteAt(s, k)
  BY DEF Before
<1>2. PICK l \in Nat : DiffersFirstAt(s, t, l) /\ ByteAt(s, l) < ByteAt(t, l)
  BY DEF Before
<1>3. k \in Nat \ {0} /\ l \in Nat \ {0}
  BY <1>1, <1>2 DEF DiffersFirstAt
<1>4. /\ ByteAt(r, k) \in Nat /\ ByteAt(s, k) \in Nat /\ ByteAt(t, k) \in Nat
      /\ ByteAt(r, l) \in Nat /\ ByteAt(s, l) \in Nat /\ ByteAt(t, l) \in Nat
  BY <1>3, ByteAtType
<1>5. /\ \A m \in Nat \ {0} : m < k => ByteAt(r, m) = ByteAt(s, m)
      /\ \A m \in Nat \ {0} : m < l => ByteAt(s, m) = ByteAt(t, m)
  BY <1>1, <1>2 DEF DiffersFirstAt
<1>6. CASE k <= l
  <2>1. ByteAt(r, k) < ByteAt(t, k)
    <3>1. CASE k = l
      BY <1>1, <1>2, <1>4, <3>1
    <3>2. CASE k < l
      BY <1>1, <1>3, <1>5, <3>2
    <3> QED BY <1>6, <3>1, <3>2
  <2>2. \A m \in Nat \ {0} : m < k => m < l
    BY <1>3, <1>6
  <2>3. \A m \in Nat \ {0} : m < k => ByteAt(r, m) = ByteAt(t, m)
    BY <1>5, <2>2
  <2>4. ByteAt(r, k) # ByteAt(t, k)
    BY <1>4, <2>1
  <2>5. DiffersFirstAt(r, t, k)
    BY <1>3, <2>3, <2>4 DEF DiffersFirstAt
  <2> QED BY <2>1, <2>5 DEF Before
<1>7. CASE l < k
  <2>1. ByteAt(r, l) < ByteAt(t, l)
    BY <1>2, <1>3, <1>5, <1>7
  <2>2. \A m \in Nat \ {0} : m < l => m < k
    BY <1>3, <1>7
  <2>3. \A m \in Nat \ {0} : m < l => ByteAt(r, m) = ByteAt(t, m)
    BY <1>5, <2>2
  <2>4. ByteAt(r, l) # ByteAt(t, l)
    BY <1>4, <2>1
  <2>5. DiffersFirstAt(r, t, l)
    BY <1>3, <2>3, <2>4 DEF DiffersFirstAt
  <2> QED BY <2>1, <2>5 DEF Before
<1> QED BY <1>6, <1>7

(* A key that comes before another one comes before what that one is not    *)
(* after, and the other way round.                                         *)
LEMMA CompareTransitive ==
  ASSUME NEW r \in Seq(Nat), NEW s \in Seq(Nat), NEW t \in Seq(Nat)
  PROVE  /\ Compare(r, s) <= 0 /\ Compare(s, t) <= 0 => Compare(r, t) <= 0
         /\ Compare(r, s) < 0 /\ Compare(s, t) <= 0 => Compare(r, t) < 0
         /\ Compare(r, s) <= 0 /\ Compare(t, s) > 0 => Compare(t, r) > 0
<1>1. /\ Compare(r, s) \in Int /\ Compare(s, t) \in Int /\ Compare(r, t) \in Int
      /\ Compare(t, s) \in Int /\ Compare(t, r) \in Int
  BY CompareTells
<1>2. Compare(r, s) <= 0 <=> r = s \/ Before(r, s)
  BY <1>1, CompareTells
<1>3. Compare(s, t) <= 0 <=> s = t \/ Before(s, t)
  BY <1>1, CompareTells
<1>4. Compare(r, t) <= 0 <=> r = t \/ Before(r, t)
  BY <1>1, CompareTells
<1>5. (Compare(r, s) < 0 <=> Before(r, s)) /\ (Compare(r, t) < 0 <=> Before(r, t))
  BY CompareTells
<1>6. (Compare(t, s) > 0 <=> Before(s, t)) /\ (Compare(t, r) > 0 <=> Before(r, t))
  BY CompareTells
<1>7. Before(r, s) /\ Before(s, t) => Before(r, t)
  BY BeforeTransitive
<1> QED BY <1>2, <1>3, <1>4, <1>5, <1>6, <1>7

----------------------------------------------------------------------------
(* Binary search.                                                          *)

(* The parts of a table before and behind an element.                      *)
LEMMA Parts ==
  ASSUME NEW t \in Tables, NEW n \in Nat, n < t.count
  PROVE  /\ Truncate(t, n) \in Tables /\ AtOffset(t, n + 1) \in Tables
         /\ Truncate(t, n).count = n /\ AtOffset(t, n + 1).count = t.count - n - 1
         /\ \A k \in Nat : /\ OffsetAt(Truncate(t, n), k) = OffsetAt(t, k)
                           /\ OffsetAt(AtOffset(t, n + 1), k) = OffsetAt(t, n + 1 + k)
         /\ Truncate(t, n).segment_no = t.segment_no
         /\ AtOffset(t, n + 1).segment_no = t.segment_no
<1>1. Truncate(t, n) = [type |-> t.type, segment_no |-> t.segment_no, table |-> t.table,
                        first |-> t.first, count |-> n]
  BY DEF Truncate, Tables
<1>2. AtOffset(t, n + 1) = [type |-> t.type, segment_no |-> t.segment_no, table |-> t.table,
                            first |-> t.first + (n + 1), count |-> t.count - (n + 1)]
  <2> DEFINE u == [t EXCEPT !.first = t.first + (n + 1)]
  <2>1. u = [type |-> t.type, segment_no |-> t.segment_no, table |-> t.table,
             first |-> t.first + (n + 1), count |-> t.count]
    BY DEF Tables
  <2>2. AtOffset(t, n + 1) = [u EXCEPT !.count = t.count - (n + 1)]
    BY DEF AtOffset, Tables
  <2> HIDE DEF u
  <2> QED BY <2>1, <2>2
<1>3. /\ t.type \in {"array", "object", "sorted"} /\ t.segment_no \in Nat /\ t.table \in Nat
      /\ t.first \in Nat \ {0} /\ t.count \in Nat
  BY DEF Tables
<1>4. t.first + (n + 1) \in Nat \ {0} /\ t.count - (n + 1) \in Nat
      /\ t.count - (n + 1) = t.count - n - 1
  BY <1>3
<1>5. Truncate(t, n) \in Tables /\ AtOffset(t, n + 1) \in Tables
  BY <1>1, <1>2, <1>3, <1>4 DEF Tables
<1>6. \A k \in Nat : t.first + (n + 1) + k = t.first + (n + 1 + k)
  BY <1>3
<1> QED BY <1>1, <1>2, <1>4, <1>5, <1>6 DEF OffsetAt, TableCell

(* The middle of a table with elements is one of them, and neither part is  *)
(* longer than half of the table.                                          *)
LEMMA MiddleHalves ==
  ASSUME NEW count \in Nat, count # 0
  PROVE  /\ Midpoint(count) \in Nat /\ Midpoint(count) < count
         /\ 2 * Midpoint(count) <= count /\ 2 * (count - Midpoint(count) - 1) <= count
  BY DEF Midpoint

(* One round of the search, by what its rest would find.                   *)
Round(rest, t, key) ==
  IF t.count = 0 THEN [handle |-> NotFound, probes |-> 0]
  ELSE LET middle == Midpoint(t.count)
           place  == OffsetAt(t, middle)
           order  == Compare(key, KeyAt(t.segment_no, place))
           found  == IF order < 0 THEN rest[Truncate(t, middle)]
                                  ELSE rest[AtOffset(t, middle + 1)]
       IN  IF order = 0
           THEN [handle |-> <<t.segment_no, place + 1>>, probes |-> 1]
           ELSE [found EXCEPT !.probes = @ + 1]

(* A round depends on the rest of shorter tables only.                     *)
LEMMA RoundIsLocal ==
  ASSUME NEW key, NEW t \in Tables, NEW f, NEW g,
         \A s \in Tables : s.count < t.count => f[s] = g[s]
  PROVE  Round(f, t, key) = Round(g, t, key)
<1>1. CASE t.count = 0
  BY <1>1 DEF Round
<1>2. CASE t.count # 0
  <2> DEFINE middle == Midpoint(t.count)
  <2>1. t.count \in Nat
    BY DEF Tables
  <2>2. middle \in Nat /\ middle < t.count
    BY <1>2, <2>1, MiddleHalves
  <2>3. /\ Truncate(t, middle) \in Tables /\ Truncate(t, middle).count < t.count
        /\ AtOffset(t, middle + 1) \in Tables /\ AtOffset(t, middle + 1).count < t.count
    <3> HIDE DEF middle
    <3>1. /\ Truncate(t, middle) \in Tables /\ AtOffset(t, middle + 1) \in Tables
          /\ Truncate(t, middle).count = middle
          /\ AtOffset(t, middle + 1).count = t.count - middle - 1
      BY <2>2, Parts
    <3> QED BY <2>1, <2>2, <3>1
  <2>4. /\ f[Truncate(t, middle)] = g[Truncate(t, middle)]
        /\ f[AtOffset(t, middle + 1)] = g[AtOffset(t, middle + 1)]
    BY <2>3
  <2> QED BY <2>4, Zenon DEF Round
<1> QED BY <1>1, <1>2

(* The searches of all tables shorter than n.                              *)
Shorter(n) == {t \in Tables : t.count < n}
Searches(f, n, key) == f = [t \in Shorter(n) |-> Round(f, t, key)]

(* Searches agree on the tables that both are of.                          *)
LEMMA SearchesAgree ==
  ASSUME NEW key, NEW m \in Nat, NEW n \in Nat, NEW f, NEW g,
         Searches(f, m, key), Searches(g, n, key)
  PROVE  \A t \in Tables : t.count < m /\ t.count < n => f[t] = g[t]
<1> DEFINE Agree == {c \in Nat : \A t \in Tables :
                       t.count = c /\ c < m /\ c < n => f[t] = g[t]}
<1>1. ASSUME NEW c \in Nat, \A d \in Nat : d < c => d \in Agree
      PROVE  c \in Agree
  <2> SUFFICES ASSUME NEW t \in Tables, t.count = c, c < m, c < n
               PROVE  f[t] = g[t]
    OBVIOUS
  <2>1. t \in Shorter(m) /\ t \in Shorter(n)
    BY DEF Shorter
  <2>2. f[t] = Round(f, t, key) /\ g[t] = Round(g, t, key)
    BY <2>1, Zenon DEF Searches
  <2>3. \A s \in Tables : s.count < t.count => f[s] = g[s]
    <3> TAKE s \in Tables
    <3> HAVE s.count < t.count
    <3>1. s.count \in Nat /\ s.count < c /\ s.count < m /\ s.count < n
      BY DEF Tables
    <3>2. s.count \in Agree
      BY <1>1, <3>1
    <3> QED BY <3>1, <3>2
  <2>4. Round(f, t, key) = Round(g, t, key)
    BY <2>3, RoundIsLocal
  <2> QED BY <2>2, <2>4
<1>2. \A c \in Nat : c \in Agree
  <2>1. Agree \in SUBSET Nat
    OBVIOUS
  <2> HIDE DEF Agree
  <2> QED BY <1>1, <2>1, StrongInduction
<1>3. \A t \in Tables : t.count \in Nat
  BY DEF Tables
<1> QED BY <1>2, <1>3

(* All tables can be searched: the definition of the search is one.         *)
LEMMA SearchesExist ==
  ASSUME NEW key
  PROVE  /\ \A n \in Nat : \E f : Searches(f, n, key)
         /\ \E f : f = [t \in Tables |-> Round(f, t, key)]
<1>0. \A t \in Tables : t.count \in Nat
  BY DEF Tables
<1>1. \A n \in Nat : \E f : Searches(f, n, key)
  <2> DEFINE Exist == {n \in Nat : \E f : Searches(f, n, key)}
  <2>1. ASSUME NEW n \in Nat, \A m \in Nat : m < n => m \in Exist
        PROVE  n \in Exist
    <3>1. CASE n = 0
      <4>1. Shorter(n) = {}
        BY <1>0, <3>1 DEF Shorter
      <4> DEFINE f == [t \in Shorter(n) |-> <<>>]
      <4>2. f = [t \in Shorter(n) |-> Round(f, t, key)]
        BY <4>1
      <4> QED BY <4>2 DEF Searches
    <3>2. CASE n # 0
      <4>1. n - 1 \in Nat /\ n - 1 < n
        BY <3>2
      <4>2. PICK f : Searches(f, n - 1, key)
        BY <2>1, <4>1
      <4> DEFINE g == [t \in Shorter(n) |-> Round(f, t, key)]
      <4>3. ASSUME NEW s \in Tables, s.count < n - 1
            PROVE  f[s] = g[s]
        <5>1. s \in Shorter(n - 1) /\ s \in Shorter(n)
          BY <1>0, <4>1, <4>3 DEF Shorter
        <5> QED BY <4>2, <5>1, Zenon DEF Searches
      <4>4. ASSUME NEW t \in Shorter(n)  PROVE Round(f, t, key) = Round(g, t, key)
        <5>1. t \in Tables /\ t.count < n
          BY DEF Shorter
        <5>2. \A s \in Tables : s.count < t.count => s.count < n - 1
          BY <1>0, <4>1, <5>1
        <5>3. \A s \in Tables : s.count < t.count => f[s] = g[s]
          BY <4>3, <5>2, Zenon
        <5> HIDE DEF g
        <5> QED BY <5>1, <5>3, RoundIsLocal
      <4>5. g = [t \in Shorter(n) |-> Round(g, t, key)]
        BY <4>4, Zenon
      <4> QED BY <4>5 DEF Searches
    <3> QED BY <3>1, <3>2
  <2>2. Exist \in SUBSET Nat
    OBVIOUS
  <2> HIDE DEF Exist
  <2>3. \A n \in Nat : n \in Exist
    BY <2>1, <2>2, StrongInduction
  <2> QED BY <2>3 DEF Exist
<1> DEFINE of(n) == CHOOSE f : Searches(f, n, key)
           all == [t \in Tables |-> of(t.count + 1)[t]]
<1>2. \A n \in Nat : Searches(of(n), n, key)
  BY <1>1
<1> HIDE DEF of
<1>3. ASSUME NEW t \in Tables  PROVE all[t] = Round(all, t, key)
  <2> DEFINE n == t.count + 1
  <2>1. n \in Nat /\ t \in Shorter(n)
    BY <1>0 DEF Shorter
  <2>2. Searches(of(n), n, key)
    BY <1>2, <2>1
  <2>3. of(n)[t] = Round(of(n), t, key)
    BY <2>1, <2>2, Zenon DEF Searches
  <2>4. ASSUME NEW s \in Tables, s.count < t.count  PROVE of(n)[s] = all[s]
    <3>1. s.count + 1 \in Nat /\ s.count < n /\ s.count < s.count + 1
      BY <1>0, <2>4
    <3>2. Searches(of(s.count + 1), s.count + 1, key)
      BY <1>2, <3>1
    <3> HIDE DEF n
    <3>3. of(n)[s] = of(s.count + 1)[s]
      BY <2>1, <2>2, <3>1, <3>2, SearchesAgree
    <3> QED BY <3>3
  <2> HIDE DEF all, n
  <2>5. Round(of(n), t, key) = Round(all, t, key)
    BY <2>4, RoundIsLocal
  <2> QED BY <2>3, <2>5 DEF all, n
<1>4. all = [t \in Tables |-> Round(all, t, key)]
  BY <1>3, Zenon
<1> QED BY <1>1, <1>4, Zenon

(* What a search finds, by what the search of one of the halves finds.      *)
LEMMA SearchStep ==
  ASSUME NEW key, NEW t \in Tables
  PROVE  LET middle == Midpoint(t.count)
             place  == OffsetAt(t, middle)
             order  == Compare(key, KeyAt(t.segment_no, place))
             half   == IF order < 0 THEN Truncate(t, middle) ELSE AtOffset(t, middle + 1)
         IN  Search(t, key) =
               IF t.count = 0 THEN [handle |-> NotFound, probes |-> 0]
               ELSE IF order = 0
               THEN [handle |-> <<t.segment_no, place + 1>>, probes |-> 1]
               ELSE [Search(half, key) EXCEPT !.probes = @ + 1]
<1> DEFINE search == CHOOSE f : f = [s \in Tables |-> Round(f, s, key)]
<1>1. search = [s \in Tables |-> Round(search, s, key)]
  <2>1. \E f : f = [s \in Tables |-> Round(f, s, key)]
    BY SearchesExist
  <2> QED BY <2>1, Zenon
<1>2. \A s : Search(s, key) = search[s]
  BY Zenon DEF Search, Round
<1> HIDE DEF search
<1>3. Search(t, key) = Round(search, t, key)
  BY <1>1, <1>2, Zenon
<1> QED BY <1>2, <1>3 DEF Round

(* What a search gives and how many keys it reads.                         *)
Counted(r, count) ==
  /\ r = [handle |-> r.handle, probes |-> r.probes]
  /\ r.probes \in Nat
  /\ r.probes = 0 => count = 0
  /\ count = 0 => r.probes = 0
  /\ count > 0 => 2 ^ (r.probes - 1) <= count

(* One more key read in a table of at least twice the elements keeps to the *)
(* bound.                                                                  *)
LEMMA OneMoreProbe ==
  ASSUME NEW r, NEW count \in Nat, NEW half \in Nat,
         Counted(r, half), count # 0, 2 * half <= count
  PROVE  Counted([r EXCEPT !.probes = @ + 1], count)
<1>1. r.probes \in Nat /\ r = [handle |-> r.handle, probes |-> r.probes]
  BY DEF Counted
<1>2. [r EXCEPT !.probes = @ + 1] = [handle |-> r.handle, probes |-> r.probes + 1]
  BY <1>1
<1>3. 2 ^ r.probes <= count
  <2>1. CASE half = 0
    <3>1. r.probes = 0
      BY <2>1 DEF Counted
    <3>2. 2 ^ 0 = 1
      OBVIOUS
    <3> QED BY <3>1, <3>2
  <2>2. CASE half > 0
    <3>1. r.probes # 0 /\ 2 ^ (r.probes - 1) <= half
      BY <2>2 DEF Counted
    <3>2. r.probes - 1 \in Nat /\ (r.probes - 1) + 1 = r.probes
      BY <1>1, <3>1
    <3>3. 2 ^ (r.probes - 1) \in Nat /\ 2 ^ r.probes = 2 * 2 ^ (r.probes - 1)
      BY <3>2, PowerOfTwo
    <3> HIDE DEF Counted
    <3>4. \A p \in Nat : p <= half => 2 * p <= count
      OBVIOUS
    <3> QED BY <3>1, <3>3, <3>4
  <2> QED BY <2>1, <2>2
<1>4. (r.probes + 1) - 1 = r.probes /\ r.probes + 1 \in Nat /\ r.probes + 1 # 0
  BY <1>1
<1> QED BY <1>2, <1>3, <1>4 DEF Counted

(* A search reads no more keys than it takes to halve the table down to     *)
(* nothing, whatever the table holds.                                      *)
LEMMA SearchIsCounted ==
  ASSUME NEW key, NEW table \in Tables
  PROVE  Counted(Search(table, key), table.count)
<1> DEFINE Good == {c \in Nat : \A t \in Tables :
                      t.count = c => Counted(Search(t, key), c)}
<1>1. ASSUME NEW c \in Nat, \A d \in Nat : d < c => d \in Good
      PROVE  c \in Good
  <2> SUFFICES ASSUME NEW t \in Tables, t.count = c
               PROVE  Counted(Search(t, key), c)
    OBVIOUS
  <2> DEFINE middle == Midpoint(t.count)
             order  == Compare(key, KeyAt(t.segment_no, OffsetAt(t, middle)))
             found  == [handle |-> <<t.segment_no, OffsetAt(t, middle) + 1>>, probes |-> 1]
  <2>1. Search(t, key) =
          IF t.count = 0 THEN [handle |-> NotFound, probes |-> 0]
          ELSE IF order = 0 THEN found
          ELSE IF order < 0 THEN [Search(Truncate(t, middle), key) EXCEPT !.probes = @ + 1]
          ELSE [Search(AtOffset(t, middle + 1), key) EXCEPT !.probes = @ + 1]
    <3> HIDE DEF found
    <3>1. Search(t, key) =
            IF t.count = 0 THEN [handle |-> NotFound, probes |-> 0]
            ELSE IF order = 0 THEN found
            ELSE [Search(IF order < 0 THEN Truncate(t, middle)
                                      ELSE AtOffset(t, middle + 1), key)
                    EXCEPT !.probes = @ + 1]
      BY SearchStep, Zenon DEF found
    <3> QED BY <3>1
  <2> HIDE DEF order
  <2>2. CASE c = 0
    <3>1. Search(t, key) = [handle |-> NotFound, probes |-> 0]
      BY <2>1, <2>2
    <3> QED BY <2>2, <3>1 DEF Counted
  <2>3. CASE c # 0
    <3>1. /\ middle \in Nat /\ middle < c /\ 2 * middle <= c /\ 2 * (c - middle - 1) <= c
      BY <2>3, MiddleHalves
    <3> HIDE DEF middle
    <3>2. /\ Truncate(t, middle) \in Tables /\ Truncate(t, middle).count = middle
          /\ AtOffset(t, middle + 1) \in Tables
          /\ AtOffset(t, middle + 1).count = c - middle - 1
      BY <3>1, Parts
    <3>3. c - middle - 1 \in Nat /\ c - middle - 1 < c
      BY <3>1
    <3>4. Counted(Search(Truncate(t, middle), key), middle)
      BY <1>1, <3>1, <3>2
    <3>5. Counted(Search(AtOffset(t, middle + 1), key), c - middle - 1)
      BY <1>1, <3>2, <3>3
    <3>6. Counted(found, c)
      <4>1. found.probes = 1 /\ 1 - 1 = 0 /\ 2 ^ 0 = 1
        OBVIOUS
      <4>2. found = [handle |-> found.handle, probes |-> found.probes]
        OBVIOUS
      <4> HIDE DEF found
      <4> QED BY <2>3, <4>1, <4>2 DEF Counted
    <3>7. Counted([Search(Truncate(t, middle), key) EXCEPT !.probes = @ + 1], c)
      BY <2>3, <3>1, <3>4, OneMoreProbe
    <3>8. Counted([Search(AtOffset(t, middle + 1), key) EXCEPT !.probes = @ + 1], c)
      BY <2>3, <3>1, <3>3, <3>5, OneMoreProbe
    <3> HIDE DEF found
    <3> QED BY <2>1, <2>3, <3>6, <3>7, <3>8
  <2> QED BY <2>2, <2>3
<1>2. Good \in SUBSET Nat
  OBVIOUS
<1> HIDE DEF Good
<1>3. \A c \in Nat : c \in Good
  BY <1>1, <1>2, StrongInduction
<1>4. table.count \in Nat
  BY DEF Tables
<1> QED BY <1>3, <1>4 DEF Good

(* The key of an element of a table.                                       *)
ElementKey(t, k) == KeyAt(t.segment_no, OffsetAt(t, k))

(* A table whose keys are in order.                                        *)
Ordered(t) ==
  /\ \A k \in 0 .. t.count - 1 : ElementKey(t, k) \in Seq(Nat)
  /\ \A j, k \in 0 .. t.count - 1 :
       j <= k => Compare(ElementKey(t, j), ElementKey(t, k)) <= 0

(* What is to be found in a table.                                         *)
Finds(t, key, h) ==
  \/ h = NotFound /\ \A k \in 0 .. t.count - 1 : ElementKey(t, k) # key
  \/ \E k \in 0 .. t.count - 1 : /\ ElementKey(t, k) = key
                                 /\ h = <<t.segment_no, OffsetAt(t, k) + 1>>

(* A search of a table in order finds a key exactly if an element has it:   *)
(* no element of the half that is left aside can.                          *)
LEMMA SearchFinds ==
  ASSUME NEW key \in Seq(Nat), NEW table \in Tables, Ordered(table)
  PROVE  Finds(table, key, Search(table, key).handle)
<1> DEFINE Good == {c \in Nat : \A t \in Tables :
                      t.count = c /\ Ordered(t) => Finds(t, key, Search(t, key).handle)}
<1>1. ASSUME NEW c \in Nat, \A d \in Nat : d < c => d \in Good
      PROVE  c \in Good
  <2> SUFFICES ASSUME NEW t \in Tables, t.count = c, Ordered(t)
               PROVE  Finds(t, key, Search(t, key).handle)
    OBVIOUS
  <2> DEFINE m == Midpoint(t.count)
             left  == Truncate(t, m)
             right == AtOffset(t, m + 1)
             order == Compare(key, ElementKey(t, m))
  <2>1. Search(t, key) =
          IF t.count = 0 THEN [handle |-> NotFound, probes |-> 0]
          ELSE IF order = 0
          THEN [handle |-> <<t.segment_no, OffsetAt(t, m) + 1>>, probes |-> 1]
          ELSE [Search(IF order < 0 THEN left ELSE right, key) EXCEPT !.probes = @ + 1]
    BY SearchStep, Zenon DEF ElementKey
  <2>2. CASE c = 0
    <3>1. Search(t, key).handle = NotFound
      BY <2>1, <2>2
    <3> QED BY <2>2, <3>1 DEF Finds
  <2>3. CASE c # 0
    <3>0. m \in Nat /\ m < c
      BY <2>3, MiddleHalves
    <3> HIDE DEF m
    <3>1. m \in Nat /\ m < c /\ m \in 0 .. c - 1 /\ c - m - 1 \in Nat /\ c - m - 1 < c
      BY <3>0
    <3>2. /\ left \in Tables /\ left.count = m /\ left.segment_no = t.segment_no
          /\ right \in Tables /\ right.count = c - m - 1 /\ right.segment_no = t.segment_no
          /\ \A k \in Nat : /\ OffsetAt(left, k) = OffsetAt(t, k)
                            /\ OffsetAt(right, k) = OffsetAt(t, m + 1 + k)
      BY <3>1, Parts
    <3> HIDE DEF left, right
    <3>3. \A k \in Nat : /\ ElementKey(left, k) = ElementKey(t, k)
                         /\ ElementKey(right, k) = ElementKey(t, m + 1 + k)
      BY <3>2 DEF ElementKey
    <3>4. /\ \A k \in 0 .. c - 1 : ElementKey(t, k) \in Seq(Nat)
          /\ \A j, k \in 0 .. c - 1 :
               j <= k => Compare(ElementKey(t, j), ElementKey(t, k)) <= 0
      BY DEF Ordered
    <3>5. Ordered(left)
      <4>1. \A k \in 0 .. m - 1 : k \in 0 .. c - 1 /\ k \in Nat
        BY <3>1
      <4>2. \A k \in 0 .. m - 1 : ElementKey(left, k) = ElementKey(t, k)
        BY <3>3, <4>1
      <4> QED BY <3>2, <3>4, <4>1, <4>2 DEF Ordered
    <3>6. Ordered(right)
      <4>1. \A k \in 0 .. (c - m - 1) - 1 : m + 1 + k \in 0 .. c - 1 /\ k \in Nat
        BY <3>1
      <4>2. \A k \in 0 .. (c - m - 1) - 1 : ElementKey(right, k) = ElementKey(t, m + 1 + k)
        BY <3>3, <4>1
      <4>3. \A j, k \in 0 .. (c - m - 1) - 1 : j <= k => m + 1 + j <= m + 1 + k
        BY <3>1
      <4>4. \A j, k \in 0 .. (c - m - 1) - 1 :
              j <= k => Compare(ElementKey(t, m + 1 + j), ElementKey(t, m + 1 + k)) <= 0
        BY <3>4, <4>1, <4>3
      <4> QED BY <3>2, <3>4, <4>1, <4>2, <4>4 DEF Ordered
    <3>7. Finds(left, key, Search(left, key).handle)
      BY <1>1, <3>1, <3>2, <3>5
    <3>8. Finds(right, key, Search(right, key).handle)
      BY <1>1, <3>1, <3>2, <3>6
    <3>9. Counted(Search(left, key), m) /\ Counted(Search(right, key), c - m - 1)
      BY <3>2, SearchIsCounted
    <3>10. ElementKey(t, m) \in Seq(Nat)
      BY <3>1, <3>4
    <3>11. order \in Int /\ (order = 0 <=> key = ElementKey(t, m))
      BY <3>10, CompareTells
    <3>12. CASE order = 0
      <4>1. Search(t, key).handle = <<t.segment_no, OffsetAt(t, m) + 1>>
        BY <2>1, <2>3, <3>12
      <4> QED BY <3>1, <3>11, <3>12, <4>1 DEF Finds
    <3>13. CASE order < 0
      <4>1. \A k \in 0 .. c - 1 : m <= k => ElementKey(t, k) # key
        <5> TAKE k \in 0 .. c - 1
        <5> HAVE m <= k
        <5>1. ElementKey(t, k) \in Seq(Nat) /\ Compare(ElementKey(t, m), ElementKey(t, k)) <= 0
          BY <3>1, <3>4
        <5>2. Compare(key, ElementKey(t, k)) < 0
          BY <3>10, <3>13, <5>1, CompareTransitive
        <5>3. Compare(key, ElementKey(t, k)) # 0
          BY <5>2
        <5> QED BY <5>1, <5>3, CompareTells
      <4>2. Search(t, key).handle = Search(left, key).handle
        <5>1. Search(t, key) = [Search(left, key) EXCEPT !.probes = @ + 1]
          BY <2>1, <2>3, <3>11, <3>13
        <5> QED BY <3>9, <5>1 DEF Counted
      <4>3. \A k \in 0 .. c - 1 : k \in 0 .. m - 1 \/ m <= k
        BY <3>1
      <4>4. \A k \in 0 .. m - 1 : k \in 0 .. c - 1 /\ k \in Nat
        BY <3>1
      <4>5. \A k \in 0 .. m - 1 : /\ ElementKey(left, k) = ElementKey(t, k)
                                  /\ OffsetAt(left, k) = OffsetAt(t, k)
        BY <3>2, <3>3, <4>4
      <4> QED BY <3>2, <3>7, <4>1, <4>2, <4>3, <4>4, <4>5 DEF Finds
    <3>14. CASE order > 0
      <4>1. \A k \in 0 .. c - 1 : k <= m => ElementKey(t, k) # key
        <5> TAKE k \in 0 .. c - 1
        <5> HAVE k <= m
        <5>1. ElementKey(t, k) \in Seq(Nat) /\ Compare(ElementKey(t, k), ElementKey(t, m)) <= 0
          BY <3>1, <3>4
        <5>2. Compare(key, ElementKey(t, k)) > 0
          BY <3>10, <3>14, <5>1, CompareTransitive
        <5>3. Compare(key, ElementKey(t, k)) # 0
          BY <5>2
        <5> QED BY <5>1, <5>3, CompareTells
      <4>2. Search(t, key).handle = Search(right, key).handle
        <5>1. Search(t, key) = [Search(right, key) EXCEPT !.probes = @ + 1]
          BY <2>1, <2>3, <3>11, <3>14
        <5> QED BY <3>9, <5>1 DEF Counted
      <4>3. \A k \in 0 .. c - 1 :
              \/ k <= m
              \/ k - m - 1 \in 0 .. (c - m - 1) - 1 /\ m + 1 + (k - m - 1) = k
        BY <3>1
      <4>4. \A k \in 0 .. (c - m - 1) - 1 : m + 1 + k \in 0 .. c - 1 /\ k \in Nat
        BY <3>1
      <4>5. \A k \in 0 .. (c - m - 1) - 1 :
              /\ ElementKey(right, k) = ElementKey(t, m + 1 + k)
              /\ OffsetAt(right, k) = OffsetAt(t, m + 1 + k)
        BY <3>2, <3>3, <4>4
      <4>6. CASE \A k \in 0 .. (c - m - 1) - 1 : ElementKey(right, k) # key
        <5>1. Search(right, key).handle = NotFound
          BY <3>2, <3>8, <4>6 DEF Finds
        <5>2. \A k \in 0 .. c - 1 : ElementKey(t, k) # key
          BY <4>1, <4>3, <4>5, <4>6
        <5> QED BY <4>2, <5>1, <5>2 DEF Finds
      <4>7. CASE \E k \in 0 .. (c - m - 1) - 1 :
                   /\ ElementKey(right, k) = key
                   /\ Search(right, key).handle = <<right.segment_no, OffsetAt(right, k) + 1>>
        BY <3>2, <4>2, <4>4, <4>5, <4>7 DEF Finds
      <4> QED BY <3>2, <3>8, <4>6, <4>7 DEF Finds
    <3> HIDE DEF order
    <3> QED BY <3>11, <3>12, <3>13, <3>14
  <2> QED BY <2>2, <2>3
<1>2. Good \in SUBSET Nat
  OBVIOUS
<1> HIDE DEF Good
<1>3. \A c \in Nat : c \in Good
  BY <1>1, <1>2, StrongInduction
<1>4. table.count \in Nat
  BY DEF Tables
<1> QED BY <1>3, <1>4 DEF Good

----------------------------------------------------------------------------
(* Sorting.                                                                *)

(* The arrangements of some of the offsets, by those of one less.           *)
OneMore(rest, offsets, R) ==
  IF R = {} THEN {<<>>}
  ELSE UNION {{Append(start, offsets[k]) : start \in rest[R \ {k}]} : k \in R}

(* Where the offsets at S have gone, each to a place of its own.            *)
Moves(q, S, T, arranged, offsets) ==
  /\ q \in [S -> T]
  /\ \A i, j \in S : q[i] = q[j] => i = j
  /\ \A i \in S : arranged[q[i]] = offsets[i]

(* A sequence of offsets in another order.                                 *)
Shuffled(arranged, offsets) ==
  /\ Len(arranged) = Len(offsets)
  /\ \E q : Moves(q, 1 .. Len(offsets), 1 .. Len(arranged), arranged, offsets)

(* What is arranged of the offsets in R.                                   *)
ArrangedFrom(arranged, offsets, R) ==
  /\ arranged \in Seq(Nat) /\ Len(arranged) = Cardinality(R)
  /\ \A k \in 1 .. Len(arranged) : \E l \in R : arranged[k] = offsets[l]
  /\ \E q : Moves(q, R, 1 .. Len(arranged), arranged, offsets)

Fewer(offsets, n) == {R \in SUBSET DOMAIN offsets : Cardinality(R) < n}
Arranges(f, offsets, n) == f = [R \in Fewer(offsets, n) |-> OneMore(f, offsets, R)]

(* Taking one away leaves one less.                                        *)
LEMMA OneLess ==
  ASSUME NEW D, IsFiniteSet(D), NEW R \in SUBSET D
  PROVE  /\ Cardinality(R) \in Nat /\ IsFiniteSet(R)
         /\ Cardinality(R) = 0 <=> R = {}
         /\ \A k \in R : Cardinality(R \ {k}) = Cardinality(R) - 1
<1>1. IsFiniteSet(R)
  BY FS_Subset
<1> QED BY <1>1, FS_CardinalityType, FS_EmptySet, FS_RemoveElement

(* The arrangements of a set of offsets depend on those of smaller sets.    *)
LEMMA OneMoreIsLocal ==
  ASSUME NEW offsets, IsFiniteSet(DOMAIN offsets), NEW R \in SUBSET DOMAIN offsets,
         NEW f, NEW g,
         \A S \in SUBSET DOMAIN offsets : Cardinality(S) < Cardinality(R) => f[S] = g[S]
  PROVE  OneMore(f, offsets, R) = OneMore(g, offsets, R)
<1>1. \A k \in R : f[R \ {k}] = g[R \ {k}]
  <2> TAKE k \in R
  <2>1. Cardinality(R) \in Nat /\ Cardinality(R \ {k}) = Cardinality(R) - 1
    BY OneLess
  <2>2. R \ {k} \in SUBSET DOMAIN offsets /\ Cardinality(R \ {k}) < Cardinality(R)
    BY <2>1
  <2> QED BY <2>2
<1> DEFINE F(k) == {Append(start, offsets[k]) : start \in f[R \ {k}]}
           G(k) == {Append(start, offsets[k]) : start \in g[R \ {k}]}
<1>2. \A k \in R : F(k) = G(k)
  BY <1>1
<1>3. OneMore(f, offsets, R) = IF R = {} THEN {<<>>} ELSE UNION {F(k) : k \in R}
  BY DEF OneMore
<1>4. OneMore(g, offsets, R) = IF R = {} THEN {<<>>} ELSE UNION {G(k) : k \in R}
  BY DEF OneMore
<1> HIDE DEF F, G
<1>5. {F(k) : k \in R} = {G(k) : k \in R}
  BY <1>2
<1> QED BY <1>3, <1>4, <1>5

(* The arrangements of sequences of offsets are defined.                    *)
LEMMA ArrangesExist ==
  ASSUME NEW offsets, IsFiniteSet(DOMAIN offsets)
  PROVE  \E f : f = [R \in SUBSET DOMAIN offsets |-> OneMore(f, offsets, R)]
<1> DEFINE D == DOMAIN offsets
           total == Cardinality(D)
           Exist == {n \in Nat : \E f : Arranges(f, offsets, n)}
<1>0. \A R \in SUBSET D : Cardinality(R) \in Nat /\ Cardinality(R) <= total
  BY FS_Subset, FS_CardinalityType
<1>1. ASSUME NEW n \in Nat, \A m \in Nat : m < n => m \in Exist
      PROVE  n \in Exist
  <2>1. CASE n = 0
    <3>1. Fewer(offsets, n) = {}
      BY <1>0, <2>1 DEF Fewer
    <3> DEFINE f == [R \in Fewer(offsets, n) |-> <<>>]
    <3>2. f = [R \in Fewer(offsets, n) |-> OneMore(f, offsets, R)]
      BY <3>1
    <3> QED BY <3>2 DEF Arranges
  <2>2. CASE n # 0
    <3>1. n - 1 \in Nat /\ n - 1 < n
      BY <2>2
    <3>2. PICK f : Arranges(f, offsets, n - 1)
      BY <1>1, <3>1
    <3> DEFINE g == [R \in Fewer(offsets, n) |-> OneMore(f, offsets, R)]
    <3>3. ASSUME NEW S \in SUBSET D, Cardinality(S) < n - 1
          PROVE  f[S] = g[S]
      <4>1. S \in Fewer(offsets, n - 1) /\ S \in Fewer(offsets, n)
        BY <1>0, <3>1, <3>3 DEF Fewer
      <4> QED BY <3>2, <4>1, Zenon DEF Arranges
    <3>4. ASSUME NEW R \in Fewer(offsets, n)
          PROVE  OneMore(f, offsets, R) = OneMore(g, offsets, R)
      <4>1. R \in SUBSET D /\ Cardinality(R) < n
        BY DEF Fewer
      <4>2. \A S \in SUBSET D : Cardinality(S) < Cardinality(R) => Cardinality(S) < n - 1
        BY <1>0, <3>1, <4>1
      <4>3. \A S \in SUBSET D : Cardinality(S) < Cardinality(R) => f[S] = g[S]
        BY <3>3, <4>2, Zenon
      <4> HIDE DEF g
      <4> QED BY <4>1, <4>3, OneMoreIsLocal
    <3>5. g = [R \in Fewer(offsets, n) |-> OneMore(g, offsets, R)]
      BY <3>4, Zenon
    <3> QED BY <3>5 DEF Arranges
  <2> QED BY <2>1, <2>2
<1>2. Exist \in SUBSET Nat
  OBVIOUS
<1> HIDE DEF Exist
<1>3. \A n \in Nat : n \in Exist
  BY <1>1, <1>2, StrongInduction
<1>4. total \in Nat /\ total + 1 \in Nat
  BY FS_CardinalityType
<1>5. Fewer(offsets, total + 1) = SUBSET D
  <2> HIDE DEF total
  <2>1. \A R \in SUBSET D : Cardinality(R) < total + 1
    BY <1>0, <1>4
  <2> QED BY <2>1, Zenon DEF Fewer
<1>6. total + 1 \in Exist
  BY <1>3, <1>4
<1>7. \E f : Arranges(f, offsets, total + 1)
  BY <1>6 DEF Exist
<1> QED BY <1>5, <1>7, Zenon DEF Arranges

(* An arrangement has as many offsets as there were, and no others.         *)
LEMMA ArrangementsKeep ==
  ASSUME NEW offsets \in Seq(Nat), NEW arranged \in Arrangements(offsets)
  PROVE  /\ arranged \in Seq(Nat) /\ Len(arranged) = Len(offsets)
         /\ \A k \in 1 .. Len(arranged) : \E l \in 1 .. Len(offsets) : arranged[k] = offsets[l]
         /\ Shuffled(arranged, offsets)
<1> DEFINE D == DOMAIN offsets
           of == CHOOSE f : f = [R \in SUBSET D |-> OneMore(f, offsets, R)]
           Good == {n \in Nat : \A R \in SUBSET D : Cardinality(R) = n =>
                      \A a \in of[R] : ArrangedFrom(a, offsets, R)}
<1>1. D = 1 .. Len(offsets) /\ IsFiniteSet(D) /\ Cardinality(D) = Len(offsets)
      /\ \A k \in D : offsets[k] \in Nat
  <2>1. D = 1 .. Len(offsets) /\ Len(offsets) \in Nat
    OBVIOUS
  <2>2. 1 \in Int /\ Len(offsets) \in Int
    BY <2>1
  <2>3. IsFiniteSet(D)
    BY <2>1, <2>2, FS_Interval, Zenon
  <2>4. Cardinality(D) = IF 1 > Len(offsets) THEN 0 ELSE Len(offsets) - 1 + 1
    BY <2>1, <2>2, FS_Interval, Zenon
  <2> QED BY <2>1, <2>3, <2>4
<1>2. of = [R \in SUBSET D |-> OneMore(of, offsets, R)]
  <2>1. \E f : f = [R \in SUBSET D |-> OneMore(f, offsets, R)]
    BY <1>1, ArrangesExist
  <2> QED BY <2>1, Zenon
<1>3. Arrangements(offsets) = of[D]
  BY Zenon DEF Arrangements, OneMore
<1> HIDE DEF of
<1>4. ASSUME NEW n \in Nat, \A m \in Nat : m < n => m \in Good
      PROVE  n \in Good
  <2> SUFFICES ASSUME NEW R \in SUBSET D, Cardinality(R) = n, NEW a \in of[R]
               PROVE  ArrangedFrom(a, offsets, R)
    OBVIOUS
  <2>1. a \in OneMore(of, offsets, R)
    BY <1>2, Zenon
  <2>2. /\ Cardinality(R) \in Nat
        /\ Cardinality(R) = 0 <=> R = {}
        /\ \A k \in R : Cardinality(R \ {k}) = Cardinality(R) - 1
    BY <1>1, OneLess
  <2>3. CASE R = {}
    <3>1. a = <<>> /\ a \in Seq(Nat) /\ Len(a) = 0
      BY <2>1, <2>3 DEF OneMore
    <3>2. Moves([i \in R |-> 1], R, 1 .. Len(a), a, offsets)
      BY <2>3 DEF Moves
    <3>3. \A j \in 1 .. Len(a) : FALSE
      BY <3>1
    <3> QED BY <2>2, <2>3, <3>1, <3>2, <3>3, Zenon DEF ArrangedFrom
  <2>4. CASE R # {}
    <3>1. PICK k \in R : a \in {Append(start, offsets[k]) : start \in of[R \ {k}]}
      BY <2>1, <2>4, Zenon DEF OneMore
    <3>2. PICK start \in of[R \ {k}] : a = Append(start, offsets[k])
      BY <3>1
    <3>3. n - 1 \in Nat /\ n - 1 < n /\ R \ {k} \in SUBSET D /\ Cardinality(R \ {k}) = n - 1
      <4>1. n # 0
        BY <2>2, <2>4
      <4>2. n - 1 \in Nat /\ n - 1 < n
        BY <4>1
      <4>3. Cardinality(R \ {k}) = n - 1
        BY <2>2
      <4>4. R \ {k} \in SUBSET D
        OBVIOUS
      <4> QED BY <4>2, <4>3, <4>4
    <3>4. ArrangedFrom(start, offsets, R \ {k})
      BY <1>4, <3>3
    <3>5. /\ start \in Seq(Nat) /\ Len(start) = n - 1
          /\ \A j \in 1 .. Len(start) : \E l \in R : start[j] = offsets[l]
      BY <3>3, <3>4 DEF ArrangedFrom
    <3>6. k \in D /\ offsets[k] \in Nat
      BY <1>1
    <3>7. /\ a \in Seq(Nat) /\ Len(a) = Len(start) + 1 /\ a[Len(start) + 1] = offsets[k]
          /\ \A j \in 1 .. Len(start) : a[j] = start[j]
      BY <3>2, <3>5, <3>6
    <3>8. \A j \in 1 .. Len(a) : j \in 1 .. Len(start) \/ j = Len(start) + 1
      BY <3>5, <3>7
    <3>9. \A j \in 1 .. Len(a) : \E l \in R : a[j] = offsets[l]
      BY <3>5, <3>7, <3>8
    <3>10. PICK p : Moves(p, R \ {k}, 1 .. Len(start), start, offsets)
      BY <3>4 DEF ArrangedFrom
    <3> DEFINE q == [i \in R |-> IF i = k THEN n ELSE p[i]]
    <3>11. Len(a) = n /\ n \in 1 .. n /\ \A j \in 1 .. Len(start) : j \in 1 .. n /\ j # n
      BY <3>3, <3>5, <3>7
    <3>12. ASSUME NEW i \in R, i # k
           PROVE  p[i] \in 1 .. Len(start) /\ start[p[i]] = offsets[i] /\ q[i] = p[i]
      BY <3>10, <3>12 DEF Moves
    <3>13. q[k] = n
      OBVIOUS
    <3>14. q \in [R -> 1 .. Len(a)]
      <4>1. \A i \in R : (IF i = k THEN n ELSE p[i]) \in 1 .. Len(a)
        BY <3>11, <3>12
      <4> QED BY <4>1
    <3>15. \A i \in R \ {k} : \A j \in R \ {k} : p[i] = p[j] => i = j
      BY <3>10 DEF Moves
    <3> HIDE DEF q
    <3>16. \A i, j \in R : q[i] = q[j] => i = j
      <4> TAKE i \in R, j \in R
      <4> HAVE q[i] = q[j]
      <4>1. CASE i = k
        BY <3>11, <3>12, <3>13, <4>1
      <4>2. CASE i # k
        <5>1. q[i] # n
          BY <3>11, <3>12, <4>2
        <5>2. j # k
          BY <3>13, <5>1
        <5> QED BY <3>12, <3>15, <4>2, <5>2
      <4> QED BY <4>1, <4>2
    <3>17. \A i \in R : a[q[i]] = offsets[i]
      <4> TAKE i \in R
      <4>1. CASE i = k
        BY <3>5, <3>7, <3>11, <3>13, <4>1
      <4>2. CASE i # k
        BY <3>7, <3>12, <4>2
      <4> QED BY <4>1, <4>2
    <3>18. Moves(q, R, 1 .. Len(a), a, offsets)
      BY <3>14, <3>16, <3>17 DEF Moves
    <3>19. Len(a) = Cardinality(R)
      BY <3>11
    <3> QED BY <3>7, <3>9, <3>18, <3>19, Zenon DEF ArrangedFrom
  <2> QED BY <2>3, <2>4
<1>5. Good \in SUBSET Nat
  OBVIOUS
<1> HIDE DEF Good
<1>6. \A n \in Nat : n \in Good
  BY <1>4, <1>5, StrongInduction
<1>7. Cardinality(D) \in Good
  BY <1>1, <1>6
<1>8. ArrangedFrom(arranged, offsets, D)
  BY <1>3, <1>7 DEF Good
<1> QED BY <1>1, <1>8 DEF ArrangedFrom, Shuffled

----------------------------------------------------------------------------
(* Documents.                                                              *)

(* A document, whatever its cells are.                                     *)
Sound(segs) ==
  /\ \E cells : segs \in Seq(Seq(cells))
  /\ \A n \in DOMAIN segs : \A o \in DOMAIN segs[n] : IsCell(segs, <<n - 1, o - 1>>)

Places == Nat \X Nat

(* The handles of a document are the places where it has a cell.           *)
LEMMA HandlesAreCells ==
  ASSUME NEW cells, segments \in Seq(Seq(cells))
  PROVE  \A h : h \in Handles <=> h \in Places /\ HasCell(segments, h)
<1>1. \A n \in DOMAIN segments : n \in Nat \ {0} /\ segments[n] \in Seq(cells)
  OBVIOUS
<1>2. \A n \in DOMAIN segments : DOMAIN segments[n] = 1 .. Len(segments[n])
                                 /\ Len(segments[n]) \in Nat
  BY <1>1
<1>3. ASSUME NEW h \in Handles
      PROVE  h \in Places /\ HasCell(segments, h)
  <2>1. PICK n \in DOMAIN segments : h \in {<<n - 1, o>> : o \in 0 .. Len(segments[n]) - 1}
    BY DEF Handles
  <2>2. PICK o \in 0 .. Len(segments[n]) - 1 : h = <<n - 1, o>>
    BY <2>1
  <2>3. n - 1 \in Nat /\ n - 1 + 1 = n
    BY <1>1
  <2>4. o \in Nat /\ o + 1 \in 1 .. Len(segments[n])
    BY <1>2
  <2>5. h[1] = n - 1 /\ h[2] = o
    BY <2>2
  <2>6. h[1] + 1 \in DOMAIN segments /\ h[2] + 1 \in DOMAIN segments[h[1] + 1]
    BY <1>2, <2>3, <2>4, <2>5
  <2> QED BY <2>2, <2>3, <2>4, <2>6 DEF Places, HasCell
<1>4. ASSUME NEW h \in Places, HasCell(segments, h)
      PROVE  h \in Handles
  <2> DEFINE n == h[1] + 1
  <2>1. h = <<h[1], h[2]>> /\ h[1] \in Nat /\ h[2] \in Nat
    BY DEF Places
  <2>2. n \in DOMAIN segments /\ h[2] + 1 \in 1 .. Len(segments[n])
    BY <1>2, <1>4 DEF HasCell
  <2>3. n - 1 = h[1] /\ h[2] \in 0 .. Len(segments[n]) - 1
    BY <1>2, <2>1, <2>2
  <2>4. h \in {<<n - 1, o>> : o \in 0 .. Len(segments[n]) - 1}
    BY <2>1, <2>3
  <2> QED BY <2>2, <2>4 DEF Handles
<1> QED BY <1>3, <1>4

(* Every cell of a document is sound.                                      *)
LEMMA CellsAreSound ==
  ASSUME NEW segs, Sound(segs), NEW h \in Places, HasCell(segs, h)
  PROVE  IsCell(segs, h)
<1>1. h = <<h[1], h[2]>> /\ h[1] \in Nat /\ h[2] \in Nat
  BY DEF Places
<1> DEFINE n == h[1] + 1
           o == h[2] + 1
<1>2. n \in DOMAIN segs /\ o \in DOMAIN segs[n]
  BY DEF HasCell
<1>3. n - 1 = h[1] /\ o - 1 = h[2]
  BY <1>1
<1> HIDE DEF n, o
<1>4. IsCell(segs, <<n - 1, o - 1>>)
  BY <1>2 DEF Sound
<1> QED BY <1>1, <1>3, <1>4

(* A cell's tag says what is stored in it.                                 *)
LEMMA CellsByTag ==
  ASSUME NEW segs, Sound(segs), NEW h \in Places, HasCell(segs, h)
  PROVE  /\ CellOf(segs, h).tag \in {"leaf", "handle", "table", "array", "object"}
         /\ CellOf(segs, h).tag = "leaf" => TypeOfLeaf(CellOf(segs, h).token) \in Scalars
         /\ CellOf(segs, h).tag = "handle" =>
              /\ CellOf(segs, h).value \in Places
              /\ HasTag(segs, CellOf(segs, h).value, Values)
         /\ CellOf(segs, h).tag = "table" =>
              /\ CellOf(segs, h) = P!Table(CellOf(segs, h).offsets)
              /\ CellOf(segs, h).offsets \in Seq(Nat)
         /\ CellOf(segs, h).tag \in {"array", "object"} =>
              /\ CellOf(segs, h).count \in Nat
              /\ CellOf(segs, h).count > 0 =>
                   /\ CellOf(segs, h).table \in Nat
                   /\ IsTableOf(segs, CellOf(segs, h).tag,
                                <<h[1], CellOf(segs, h).table>>, CellOf(segs, h).count)
                   /\ CellOf(segs, h).tag = "object" =>
                        IsTableOf(segs, CellOf(segs, h).tag,
                                  <<h[1], CellOf(segs, h).table + 1>>, CellOf(segs, h).count)
<1>1. IsCell(segs, h)
  BY CellsAreSound
<1> QED BY <1>1 DEF IsCell, Places

----------------------------------------------------------------------------
(* A table cell whose offsets are arranged differently.                    *)
Rearranged(segs, segs2, c, arranged) ==
  /\ Sound(segs) /\ c \in Places /\ HasTag(segs, c, {"table"})
  /\ \E cells : segs2 \in Seq(Seq(cells))
  /\ \A h : HasCell(segs2, h) <=> HasCell(segs, h)
  /\ DOMAIN segs2 = DOMAIN segs /\ \A n \in DOMAIN segs : DOMAIN segs2[n] = DOMAIN segs[n]
  /\ \A h \in Places : HasCell(segs, h) =>
       CellOf(segs2, h) = IF h = c THEN P!Table(arranged) ELSE CellOf(segs, h)
  /\ arranged \in Seq(Nat) /\ Len(arranged) = Len(CellOf(segs, c).offsets)
  /\ \A k \in 1 .. Len(arranged) : \E l \in 1 .. Len(CellOf(segs, c).offsets) :
       arranged[k] = CellOf(segs, c).offsets[l]

(* What a cell is stays the same, only the offsets in that one do not.     *)
LEMMA CellsKept ==
  ASSUME NEW segs, NEW segs2, NEW c, NEW arranged, Rearranged(segs, segs2, c, arranged),
         NEW h \in Places, HasCell(segs, h)
  PROVE  /\ CellOf(segs2, h).tag = CellOf(segs, h).tag
         /\ CellOf(segs, h).tag # "table" => CellOf(segs2, h) = CellOf(segs, h)
<1>1. CellOf(segs2, h) = IF h = c THEN P!Table(arranged) ELSE CellOf(segs, h)
  BY DEF Rearranged
<1>2. CellOf(segs, c).tag = "table"
  BY DEF Rearranged, HasTag
<1>3. P!Table(arranged).tag = "table"
  BY DEF P!Table
<1> QED BY <1>1, <1>2, <1>3

(* Rearranging the table of one object changes the tag of no cell.         *)
LEMMA TagsKept ==
  ASSUME NEW segs, NEW segs2, NEW c, NEW arranged, Rearranged(segs, segs2, c, arranged),
         NEW h \in Places, NEW tags
  PROVE  HasTag(segs2, h, tags) <=> HasTag(segs, h, tags)
<1>1. HasCell(segs2, h) <=> HasCell(segs, h)
  BY DEF Rearranged
<1>2. CASE HasCell(segs, h)
  BY <1>1, <1>2, CellsKept DEF HasTag
<1>3. CASE ~HasCell(segs, h)
  BY <1>1, <1>3 DEF HasTag
<1> QED BY <1>2, <1>3

(* The offsets in a table cell are the old ones in some order.             *)
LEMMA OffsetsKept ==
  ASSUME NEW segs, NEW segs2, NEW c, NEW arranged, Rearranged(segs, segs2, c, arranged),
         NEW h \in Places, HasTag(segs, h, {"table"})
  PROVE  /\ CellOf(segs, h).offsets \in Seq(Nat)
         /\ CellOf(segs2, h).offsets \in Seq(Nat)
         /\ CellOf(segs2, h) = P!Table(CellOf(segs2, h).offsets)
         /\ Len(CellOf(segs2, h).offsets) = Len(CellOf(segs, h).offsets)
         /\ \A k \in 1 .. Len(CellOf(segs2, h).offsets) :
              \E l \in 1 .. Len(CellOf(segs, h).offsets) :
                CellOf(segs2, h).offsets[k] = CellOf(segs, h).offsets[l]
<1>1. HasCell(segs, h) /\ CellOf(segs, h).tag = "table" /\ Sound(segs)
  BY DEF HasTag, Rearranged
<1>2. CellOf(segs, h) = P!Table(CellOf(segs, h).offsets) /\ CellOf(segs, h).offsets \in Seq(Nat)
  BY <1>1, CellsByTag
<1>3. CellOf(segs2, h) = IF h = c THEN P!Table(arranged) ELSE CellOf(segs, h)
  BY <1>1 DEF Rearranged
<1>4. CASE h = c
  <2>1. CellOf(segs2, h) = P!Table(arranged) /\ CellOf(segs2, h).offsets = arranged
    BY <1>3, <1>4 DEF P!Table
  <2> QED BY <1>2, <1>4, <2>1 DEF Rearranged
<1>5. CASE h # c
  BY <1>2, <1>3, <1>5
<1> QED BY <1>4, <1>5

(* Elements and tables of elements stay what they are.                     *)
LEMMA ElementsKept ==
  ASSUME NEW segs, NEW segs2, NEW c, NEW arranged, Rearranged(segs, segs2, c, arranged),
         NEW h \in Places, NEW type, IsElement(segs, type, h)
  PROVE  /\ IsElement(segs2, type, h)
         /\ type # "array" => CellOf(segs2, h) = CellOf(segs, h)
<1>1. CASE type = "array"
  BY <1>1, TagsKept DEF IsElement
<1>2. CASE type # "array"
  <2>1. HasTag(segs, h, {"leaf"}) /\ CellOf(segs, h).token.data \in Seq(Nat)
        /\ HasTag(segs, <<h[1], h[2] + 1>>, Values \cup {"handle"})
    BY <1>2 DEF IsElement
  <2>2. <<h[1], h[2] + 1>> \in Places
    BY DEF Places
  <2>3. HasTag(segs2, h, {"leaf"}) /\ HasTag(segs2, <<h[1], h[2] + 1>>, Values \cup {"handle"})
    BY <2>1, <2>2, TagsKept
  <2>4. CellOf(segs2, h) = CellOf(segs, h)
    BY <2>1, CellsKept DEF HasTag
  <2> QED BY <1>2, <2>1, <2>3, <2>4 DEF IsElement
<1> QED BY <1>1, <1>2

(* The table of every composite remains one, the rearranged one too.       *)
LEMMA TablesKept ==
  ASSUME NEW segs, NEW segs2, NEW c, NEW arranged, Rearranged(segs, segs2, c, arranged),
         NEW h \in Places, NEW type, NEW count, IsTableOf(segs, type, h, count)
  PROVE  IsTableOf(segs2, type, h, count)
<1> DEFINE old == CellOf(segs, h).offsets
           new == CellOf(segs2, h).offsets
<1>1. HasTag(segs, h, {"table"}) /\ Len(old) = count
      /\ \A k \in 1 .. count : IsElement(segs, type, <<h[1], old[k]>>)
  BY DEF IsTableOf
<1>2. /\ old \in Seq(Nat) /\ new \in Seq(Nat) /\ Len(new) = Len(old)
      /\ \A k \in 1 .. Len(new) : \E l \in 1 .. Len(old) : new[k] = old[l]
  BY <1>1, OffsetsKept
<1>3. HasTag(segs2, h, {"table"})
  BY <1>1, TagsKept
<1>4. \A k \in 1 .. count : IsElement(segs2, type, <<h[1], new[k]>>)
  <2> HIDE DEF old, new
  <2> TAKE k \in 1 .. count
  <2>1. PICK l \in 1 .. count : new[k] = old[l]
    BY <1>1, <1>2
  <2>2. IsElement(segs, type, <<h[1], new[k]>>)
    BY <1>1, <2>1
  <2>3. k \in 1 .. Len(new)
    BY <1>1, <1>2
  <2>4. new[k] \in Nat
    <3>1. \A s \in Seq(Nat) : \A j \in 1 .. Len(s) : s[j] \in Nat
      OBVIOUS
    <3> QED BY <1>2, <2>3, <3>1
  <2>5. <<h[1], new[k]>> \in Places
    BY <2>4 DEF Places
  <2> QED BY <2>2, <2>5, ElementsKept
<1> QED BY <1>1, <1>2, <1>3, <1>4 DEF IsTableOf

(* A document is still one when a table cell is arranged differently.      *)
LEMMA DocumentKept ==
  ASSUME NEW segs, NEW segs2, NEW c, NEW arranged, Rearranged(segs, segs2, c, arranged)
  PROVE  Sound(segs2)
<1>1. ASSUME NEW n \in DOMAIN segs2, NEW o \in DOMAIN segs2[n]
      PROVE  IsCell(segs2, <<n - 1, o - 1>>)
  <2> DEFINE h == <<n - 1, o - 1>>
  <2>1. Sound(segs) /\ n \in DOMAIN segs /\ o \in DOMAIN segs[n]
    BY DEF Rearranged
  <2>2. n \in Nat \ {0} /\ o \in Nat \ {0}
    BY <2>1 DEF Sound
  <2>3. h \in Places /\ h[1] = n - 1 /\ h[2] = o - 1 /\ h[1] + 1 = n /\ h[2] + 1 = o
    BY <2>2 DEF Places
  <2>4. HasCell(segs, h)
    BY <2>1, <2>3 DEF HasCell
  <2> DEFINE old == CellOf(segs, h)
             new == CellOf(segs2, h)
  <2>5. new.tag = old.tag /\ (old.tag # "table" => new = old)
    BY <2>3, <2>4, CellsKept
  <2>6. old.tag \in {"leaf", "handle", "table", "array", "object"}
    BY <2>1, <2>3, <2>4, CellsByTag
  <2> SUFFICES IsCell(segs2, h)
    OBVIOUS
  <2> HIDE DEF h
  <2>7. CASE old.tag = "leaf"
    <3>1. TypeOfLeaf(old.token) \in Scalars /\ new = old
      BY <2>1, <2>3, <2>4, <2>5, <2>7, CellsByTag
    <3>2. new.tag = "leaf" /\ TypeOfLeaf(new.token) \in Scalars
      BY <2>7, <3>1
    <3> QED BY <3>2, Zenon DEF IsCell
  <2>8. CASE old.tag = "handle"
    <3>1. old.value \in Places /\ HasTag(segs, old.value, Values) /\ new = old
      BY <2>1, <2>3, <2>4, <2>5, <2>8, CellsByTag
    <3>2. HasTag(segs2, old.value, Values)
      BY <3>1, TagsKept
    <3>3. /\ new.tag = "handle"
          /\ new.value \in Nat \X Nat /\ HasTag(segs2, new.value, Values)
      BY <2>8, <3>1, <3>2 DEF Places
    <3> QED BY <3>3, Zenon DEF IsCell
  <2>9. CASE old.tag = "table"
    <3>1. HasTag(segs, h, {"table"})
      BY <2>4, <2>9 DEF HasTag
    <3>2. new = P!Table(new.offsets) /\ new.offsets \in Seq(Nat)
      BY <2>3, <3>1, OffsetsKept
    <3>3. new.tag = "table"
      BY <2>5, <2>9
    <3> QED BY <3>2, <3>3, Zenon DEF IsCell
  <2>10. CASE old.tag \in {"array", "object"}
    <3>1. /\ new = old /\ old.count \in Nat
          /\ old.count > 0 =>
               /\ old.table \in Nat
               /\ IsTableOf(segs, old.tag, <<h[1], old.table>>, old.count)
               /\ old.tag = "object" =>
                    IsTableOf(segs, old.tag, <<h[1], old.table + 1>>, old.count)
      BY <2>1, <2>3, <2>4, <2>5, <2>10, CellsByTag
    <3>2. ASSUME old.count > 0
          PROVE  /\ IsTableOf(segs2, old.tag, <<h[1], old.table>>, old.count)
                 /\ old.tag = "object" =>
                      IsTableOf(segs2, old.tag, <<h[1], old.table + 1>>, old.count)
      <4>1. <<h[1], old.table>> \in Places /\ <<h[1], old.table + 1>> \in Places
        BY <2>3, <3>1, <3>2 DEF Places
      <4> QED BY <3>1, <3>2, <4>1, TablesKept
    <3>3. /\ new.tag \in {"array", "object"} /\ new.count \in Nat
          /\ new.count > 0 =>
               /\ new.table \in Nat
               /\ IsTableOf(segs2, new.tag, <<h[1], new.table>>, new.count)
               /\ new.tag = "object" =>
                    IsTableOf(segs2, new.tag, <<h[1], new.table + 1>>, new.count)
      <4> HIDE DEF old, new
      <4> QED BY <2>10, <3>1, <3>2
    <3> QED BY <3>3, Zenon DEF IsCell
  <2> QED BY <2>6, <2>7, <2>8, <2>9, <2>10
<1> QED BY <1>1 DEF Sound, Rearranged

----------------------------------------------------------------------------
(* Reading a document.                                                     *)

(* A handle in a cell leads to a value, and is followed once.              *)
LEMMA HandlesAreFollowed ==
  ASSUME Sound(segments), NEW h \in Handles
  PROVE  /\ FollowHandle(h) = IF Cell(h).tag = "handle" THEN Cell(h).value ELSE h
         /\ FollowHandle(h) \in Handles
         /\ HasTag(segments, h, Values \cup {"handle"}) =>
              HasTag(segments, FollowHandle(h), Values)
<1>1. PICK cells : segments \in Seq(Seq(cells))
  BY DEF Sound
<1>2. \A g : g \in Handles <=> g \in Places /\ HasCell(segments, g)
  BY <1>1, HandlesAreCells
<1>3. ASSUME NEW g \in Handles, Cell(g).tag = "handle"
      PROVE  Cell(g).value \in Handles /\ HasTag(segments, Cell(g).value, Values)
  <2>1. Cell(g).value \in Places /\ HasTag(segments, Cell(g).value, Values)
    BY <1>2, <1>3, CellsByTag DEF Cell
  <2> QED BY <1>2, <2>1 DEF HasTag
<1>4. ASSUME NEW g, HasTag(segments, g, Values)
      PROVE  Cell(g).tag # "handle"
  BY <1>4 DEF HasTag, Values, Cell
<1> DEFINE IsFollow(f) ==
             f = [g \in Handles |-> IF Cell(g).tag = "handle" THEN f[Cell(g).value] ELSE g]
           follow == CHOOSE f : IsFollow(f)
<1>5. \E f : IsFollow(f)
  <2> DEFINE w == [g \in Handles |-> IF Cell(g).tag = "handle" THEN Cell(g).value ELSE g]
  <2>1. ASSUME NEW g \in Handles
        PROVE  (IF Cell(g).tag = "handle" THEN Cell(g).value ELSE g)
                 = (IF Cell(g).tag = "handle" THEN w[Cell(g).value] ELSE g)
    <3>1. CASE Cell(g).tag = "handle"
      <4>1. Cell(g).value \in Handles /\ Cell(Cell(g).value).tag # "handle"
        BY <1>3, <1>4, <3>1
      <4>2. w[Cell(g).value] = Cell(g).value
        BY <4>1
      <4> QED BY <3>1, <4>2
    <3>2. CASE Cell(g).tag # "handle"
      BY <3>2
    <3> QED BY <3>1, <3>2
  <2> DEFINE A(g) == IF Cell(g).tag = "handle" THEN Cell(g).value ELSE g
             B(g) == IF Cell(g).tag = "handle" THEN w[Cell(g).value] ELSE g
  <2>2. \A g \in Handles : A(g) = B(g)
    BY <2>1
  <2>3. w = [g \in Handles |-> A(g)]
    OBVIOUS
  <2>4. [g \in Handles |-> A(g)] = [g \in Handles |-> B(g)]
    <3> HIDE DEF A, B
    <3> QED BY <2>2
  <2>5. w = [g \in Handles |-> B(g)]
    BY <2>3, <2>4
  <2>6. IsFollow(w)
    <3> HIDE DEF w
    <3> QED BY <2>5
  <2> QED BY <2>6
<1>6. IsFollow(follow)
  <2> HIDE DEF IsFollow
  <2> QED BY <1>5
<1>7. FollowHandle(h) = follow[h]
  <2>1. FollowHandle(h) = IF Readable(h) THEN follow[h] ELSE h
    BY Zenon DEF FollowHandle
  <2>2. Readable(h)
    BY <1>2 DEF Readable
  <2> QED BY <2>1, <2>2
<1>8. \A g \in Handles : follow[g] = IF Cell(g).tag = "handle" THEN follow[Cell(g).value] ELSE g
  <2> HIDE DEF follow
  <2> QED BY <1>6
<1> HIDE DEF IsFollow, follow
<1>9. CASE Cell(h).tag = "handle"
  <2>1. Cell(h).value \in Handles /\ HasTag(segments, Cell(h).value, Values)
        /\ Cell(Cell(h).value).tag # "handle"
    BY <1>3, <1>4, <1>9
  <2>2. FollowHandle(h) = Cell(h).value
    BY <1>7, <1>8, <1>9, <2>1
  <2> QED BY <1>9, <2>1, <2>2
<1>10. CASE Cell(h).tag # "handle"
  <2>1. FollowHandle(h) = h
    BY <1>7, <1>8, <1>10
  <2> QED BY <1>10, <2>1 DEF HasTag, Values, Cell
<1> QED BY <1>9, <1>10

(* The type of a value is an error exactly if there is none.               *)
LEMMA TypesOfValues ==
  ASSUME Sound(segments), NEW h \in Places
  PROVE  /\ HasTag(segments, h, Values) <=> ValueType(h) # "error"
         /\ \A type \in {"array", "object"} :
              ValueType(h) = type <=> HasTag(segments, h, {type})
         /\ ValueType(h) \in Scalars \cup {"array", "object", "error"}
<1>1. CASE ~HasCell(segments, h)
  BY <1>1 DEF ValueType, Readable, HasTag
<1>2. CASE HasCell(segments, h)
  <2>1. /\ Cell(h).tag \in {"leaf", "handle", "table", "array", "object"}
        /\ Cell(h).tag = "leaf" => TypeOfLeaf(Cell(h).token) \in Scalars
    BY <1>2, CellsByTag DEF Cell
  <2>2. \A tags : HasTag(segments, h, tags) <=> Cell(h).tag \in tags
    BY <1>2 DEF HasTag, Cell
  <2>3. CASE Cell(h).tag \in {"handle", "table"}
    <3>1. ValueType(h) = "error"
      BY <1>2, <2>3 DEF ValueType, Readable
    <3> QED BY <2>2, <2>3, <3>1 DEF Values
  <2>4. CASE Cell(h).tag \in {"array", "object"}
    <3>1. ValueType(h) = Cell(h).tag
      BY <1>2, <2>4 DEF ValueType, Readable
    <3> QED BY <2>2, <2>4, <3>1 DEF Values
  <2>5. CASE Cell(h).tag = "leaf"
    <3>1. ValueType(h) = TypeOfLeaf(Cell(h).token)
      BY <1>2, <2>5 DEF ValueType, Readable
    <3>2. ValueType(h) \in Scalars
      BY <2>1, <2>5, <3>1
    <3> QED BY <2>2, <2>5, <3>2 DEF Values, Scalars
  <2> QED BY <2>1, <2>3, <2>4, <2>5
<1> QED BY <1>1, <1>2

----------------------------------------------------------------------------
(* Tables that somebody holds.                                             *)

OffsetsOf(segs, t) == CellOf(segs, <<t.segment_no, t.table>>).offsets
Kind(t)            == IF t.type = "array" THEN "array" ELSE "object"

OrderedIn(segs, n, offsets) ==
  \A k \in 1 .. Len(offsets) - 1 :
    Compare(CellOf(segs, <<n, offsets[k]>>).token.data,
            CellOf(segs, <<n, offsets[k + 1]>>).token.data) <= 0

(* A table that is not empty ends where its cell does, the cell leads to    *)
(* elements, and to keys in order if the table is a sorted one.            *)
LeadsToElements(segs, t) ==
  /\ HasTag(segs, <<t.segment_no, t.table>>, {"table"})
  /\ t.first + t.count - 1 = Len(OffsetsOf(segs, t))
  /\ \A k \in 1 .. Len(OffsetsOf(segs, t)) :
       IsElement(segs, Kind(t), <<t.segment_no, OffsetsOf(segs, t)[k]>>)
  /\ t.type = "sorted" => OrderedIn(segs, t.segment_no, OffsetsOf(segs, t))

HoldsIn(segs, t) == t \in Tables /\ (t.count > 0 => LeadsToElements(segs, t))

(* The elements that a table leads to.                                     *)
LEMMA TablesLeadToElements ==
  ASSUME Sound(segments), NEW t, HoldsIn(segments, t), NEW k \in 0 .. t.count - 1
  PROVE  /\ OffsetAt(t, k) \in Nat
         /\ IsElement(segments, Kind(t), <<t.segment_no, OffsetAt(t, k)>>)
         /\ OffsetAt(t, k) = OffsetsOf(segments, t)[t.first + k]
<1>1. /\ t.count \in Nat /\ t.first \in Nat \ {0} /\ t.segment_no \in Nat /\ t.table \in Nat
      /\ t.count > 0
  BY DEF HoldsIn, Tables
<1>2. LeadsToElements(segments, t)
  BY <1>1 DEF HoldsIn
<1> DEFINE c == <<t.segment_no, t.table>>
           offsets == OffsetsOf(segments, t)
<1>3. c \in Places /\ HasCell(segments, c) /\ CellOf(segments, c).tag = "table"
  BY <1>1, <1>2 DEF Places, LeadsToElements, HasTag
<1>4. offsets \in Seq(Nat)
  BY <1>3, CellsByTag DEF OffsetsOf
<1>5. t.first + t.count - 1 = Len(offsets)
  BY <1>2 DEF LeadsToElements
<1>6. \A l \in 1 .. Len(offsets) : IsElement(segments, Kind(t), <<t.segment_no, offsets[l]>>)
  BY <1>2 DEF LeadsToElements
<1>7. OffsetAt(t, k) = offsets[t.first + k]
  BY DEF OffsetAt, TableCell, OffsetsOf, Cell
<1> HIDE DEF offsets
<1>8. t.first + k \in 1 .. Len(offsets)
  BY <1>1, <1>5
<1>9. offsets[t.first + k] \in Nat
  BY <1>4, <1>8
<1> QED BY <1>6, <1>7, <1>8, <1>9 DEF offsets

(* An element's value is one that the document holds.                      *)
LEMMA TablesLeadToValues ==
  ASSUME Sound(segments), NEW t, HoldsIn(segments, t), NEW k \in 0 .. t.count - 1
  PROVE  /\ ValueOf(t, OffsetAt(t, k)) \in Handles
         /\ HasTag(segments, ValueOf(t, OffsetAt(t, k)), Values)
<1> DEFINE o == OffsetAt(t, k)
           h == <<t.segment_no, IF t.type = "array" THEN o ELSE o + 1>>
<1>1. o \in Nat /\ IsElement(segments, Kind(t), <<t.segment_no, o>>) /\ t.segment_no \in Nat
  BY TablesLeadToElements DEF HoldsIn, Tables
<1>2. ValueOf(t, o) = FollowHandle(h)
  BY DEF ValueOf
<1> HIDE DEF o
<1>3. HasTag(segments, h, Values \cup {"handle"})
  BY <1>1 DEF IsElement, Kind
<1>4. h \in Places
  BY <1>1 DEF Places
<1> HIDE DEF h
<1>5. h \in Handles
  <2>1. PICK cells : segments \in Seq(Seq(cells))
    BY DEF Sound
  <2> QED BY <1>3, <1>4, <2>1, HandlesAreCells DEF HasTag
<1> QED BY <1>2, <1>3, <1>5, HandlesAreFollowed DEF o

(* What is left of a table when its first element is consumed.             *)
LEMMA RestsHold ==
  ASSUME NEW segs, NEW t, HoldsIn(segs, t), t.count > 0
  PROVE  HoldsIn(segs, Rest(t)) /\ Rest(t).type = t.type
<1>1. /\ t.count \in Nat /\ t.first \in Nat \ {0} /\ t \in Tables /\ LeadsToElements(segs, t)
  BY DEF HoldsIn, Tables
<1>2. Rest(t) = [type |-> t.type, segment_no |-> t.segment_no, table |-> t.table,
                 first |-> t.first + 1, count |-> t.count - 1]
  <2> DEFINE u == [t EXCEPT !.first = t.first + 1]
  <2>1. u = [type |-> t.type, segment_no |-> t.segment_no, table |-> t.table,
             first |-> t.first + 1, count |-> t.count]
    BY DEF HoldsIn, Tables
  <2>2. Rest(t) = [u EXCEPT !.count = t.count - 1]
    BY DEF Rest, AtOffset, HoldsIn, Tables
  <2> HIDE DEF u
  <2> QED BY <2>1, <2>2
<1>3. /\ Rest(t).type = t.type /\ Rest(t).segment_no = t.segment_no
      /\ Rest(t).table = t.table /\ Rest(t).first = t.first + 1 /\ Rest(t).count = t.count - 1
  BY <1>2
<1>4. Rest(t) \in Tables
  <2>1. t.first + 1 \in Nat \ {0} /\ t.count - 1 \in Nat
    BY <1>1
  <2> QED BY <1>1, <1>2, <2>1 DEF Tables
<1>5. Rest(t).first + Rest(t).count - 1 = t.first + t.count - 1
  BY <1>1, <1>3
<1>6. LeadsToElements(segs, Rest(t))
  BY <1>1, <1>3, <1>5 DEF LeadsToElements, OffsetsOf, Kind
<1> QED BY <1>3, <1>4, <1>6 DEF HoldsIn

(* A table of no elements is held in every document.                       *)
LEMMA EmptyTablesHold ==
  ASSUME NEW segs, NEW type \in {"array", "object", "sorted"}, NEW n \in Nat
  PROVE  HoldsIn(segs, EmptyTable(type, n)) /\ EmptyTable(type, n).type = type
<1>1. EmptyTable(type, n) \in Tables
  BY DEF EmptyTable, Tables
<1>2. EmptyTable(type, n).count = 0 /\ EmptyTable(type, n).type = type
  BY DEF EmptyTable
<1> QED BY <1>1, <1>2 DEF HoldsIn

(* A header's table, filled in.                                            *)
LEMMA FilledTables ==
  ASSUME NEW type \in {"array", "object", "sorted"}, NEW n, NEW cell, NEW count
  PROVE  [EmptyTable(type, n) EXCEPT !.table = cell, !.count = count]
           = [type |-> type, segment_no |-> n, table |-> cell, first |-> 1, count |-> count]
<1> DEFINE u == [EmptyTable(type, n) EXCEPT !.table = cell]
<1>1. u = [type |-> type, segment_no |-> n, table |-> cell, first |-> 1, count |-> 0]
  BY DEF EmptyTable
<1>2. [EmptyTable(type, n) EXCEPT !.table = cell, !.count = count] = [u EXCEPT !.count = count]
  BY DEF EmptyTable
<1> HIDE DEF u
<1> QED BY <1>1, <1>2

(* The table of a header leads to its elements.                            *)
LEMMA HeadersLeadToElements ==
  ASSUME NEW segs, NEW t \in Tables, t.first = 1,
         IsTableOf(segs, Kind(t), <<t.segment_no, t.table>>, t.count),
         t.type = "sorted" => OrderedIn(segs, t.segment_no, OffsetsOf(segs, t))
  PROVE  HoldsIn(segs, t)
<1>1. /\ HasTag(segs, <<t.segment_no, t.table>>, {"table"})
      /\ Len(OffsetsOf(segs, t)) = t.count
      /\ \A k \in 1 .. t.count :
           IsElement(segs, Kind(t), <<t.segment_no, OffsetsOf(segs, t)[k]>>)
  BY DEF IsTableOf, OffsetsOf
<1>2. t.first + t.count - 1 = t.count
  BY DEF Tables
<1> QED BY <1>1, <1>2 DEF HoldsIn, LeadsToElements

(* What thsn_document_read_array and _object give.                         *)
LEMMA CompositesHold ==
  ASSUME Sound(segments), NEW h \in Places, HasTag(segments, h, {"array", "object"})
  PROVE  /\ HoldsIn(segments, ReadComposite(h))
         /\ ReadComposite(h).type = Cell(h).tag /\ Cell(h).tag \in {"array", "object"}
<1> DEFINE cell == Cell(h)
<1>1. cell.tag \in {"array", "object"} /\ HasCell(segments, h)
  BY DEF HasTag, Cell
<1>2. /\ cell.count \in Nat
      /\ cell.count > 0 =>
           cell.table \in Nat /\ IsTableOf(segments, cell.tag, <<h[1], cell.table>>, cell.count)
  BY <1>1, CellsByTag DEF Cell
<1>3. h[1] \in Nat
  BY DEF Places
<1>4. CASE cell.count = 0
  BY <1>1, <1>3, <1>4, EmptyTablesHold DEF ReadComposite
<1>5. CASE cell.count # 0
  <2> DEFINE t == ReadComposite(h)
  <2>1. t = [type |-> cell.tag, segment_no |-> h[1], table |-> cell.table,
             first |-> 1, count |-> cell.count]
    <3>1. [EmptyTable(cell.tag, h[1]) EXCEPT !.table = cell.table, !.count = cell.count]
            = [type |-> cell.tag, segment_no |-> h[1], table |-> cell.table,
               first |-> 1, count |-> cell.count]
      <4>1. PICK type \in {"array", "object", "sorted"} : cell.tag = type
        BY <1>1
      <4>2. [EmptyTable(type, h[1]) EXCEPT !.table = cell.table, !.count = cell.count]
              = [type |-> type, segment_no |-> h[1], table |-> cell.table,
                 first |-> 1, count |-> cell.count]
        <5> DEFINE n == h[1]
                   table == cell.table
                   count == cell.count
        <5> HIDE DEF n, table, count
        <5>1. [EmptyTable(type, n) EXCEPT !.table = table, !.count = count]
                = [type |-> type, segment_no |-> n, table |-> table, first |-> 1, count |-> count]
          BY FilledTables
        <5> QED BY <5>1 DEF n, table, count
      <4> QED BY <4>1, <4>2
    <3> QED BY <1>5, <3>1 DEF ReadComposite, PlainTable
  <2>2. cell.table \in Nat /\ IsTableOf(segments, cell.tag, <<h[1], cell.table>>, cell.count)
    BY <1>2, <1>5
  <2> HIDE DEF t, cell
  <2>3. t \in Tables /\ t.first = 1 /\ Kind(t) = cell.tag /\ t.type = cell.tag
        /\ t.segment_no = h[1] /\ t.table = cell.table /\ t.count = cell.count
    BY <1>1, <1>2, <1>3, <2>1, <2>2 DEF Tables, Kind
  <2>4. t.type # "sorted"
    BY <1>1, <2>3
  <2>5. IsTableOf(segments, Kind(t), <<t.segment_no, t.table>>, t.count)
    BY <2>2, <2>3
  <2>6. HoldsIn(segments, t)
    BY <2>3, <2>4, <2>5, HeadersLeadToElements
  <2> QED BY <1>1, <2>3, <2>6 DEF t, cell
<1> QED BY <1>4, <1>5

(* The second table of an object that was sorted.                          *)
SortedObjects(segs, S) ==
  \A h \in S :
    /\ h \in Places /\ HasTag(segs, h, {"object"})
    /\ CellOf(segs, h).count > 0 =>
         OrderedIn(segs, h[1], CellOf(segs, <<h[1], CellOf(segs, h).table + 1>>).offsets)

(* What thsn_document_read_object_sorted finds in an object's header.      *)
LEMMA SecondTables ==
  ASSUME Sound(segments), NEW h \in Places, HasTag(segments, h, {"object"})
  PROVE  /\ ReadSorted(h) \in Tables /\ ReadSorted(h).type = "sorted"
         /\ ReadSorted(h).segment_no = h[1] /\ ReadSorted(h).first = 1
         /\ ReadSorted(h).count = Cell(h).count /\ Cell(h).count \in Nat
         /\ ReadSorted(h).count > 0 =>
              /\ ReadSorted(h).table = Cell(h).table + 1
              /\ IsTableOf(segments, "object", <<h[1], Cell(h).table + 1>>, Cell(h).count)
<1> DEFINE cell == Cell(h)
<1>1. cell.tag = "object" /\ HasCell(segments, h)
  BY DEF HasTag, Cell
<1>2. /\ cell.count \in Nat
      /\ cell.count > 0 =>
           /\ cell.table \in Nat
           /\ IsTableOf(segments, "object", <<h[1], cell.table + 1>>, cell.count)
  BY <1>1, CellsByTag DEF Cell
<1>3. h[1] \in Nat
  BY DEF Places
<1>4. CASE cell.count = 0
  <2>1. ReadSorted(h) = [type |-> "sorted", segment_no |-> h[1], table |-> 0,
                         first |-> 1, count |-> 0]
    BY <1>4 DEF ReadSorted, EmptyTable
  <2>2. ReadSorted(h) \in Tables
    BY <1>3, <2>1 DEF Tables
  <2> QED BY <1>2, <1>4, <2>1, <2>2
<1>5. CASE cell.count # 0
  <2> DEFINE t == ReadSorted(h)
  <2>1. t = [type |-> "sorted", segment_no |-> h[1], table |-> cell.table + 1,
             first |-> 1, count |-> cell.count]
    <3> DEFINE n == h[1]
               table == cell.table + 1
               count == cell.count
    <3> HIDE DEF n, table, count
    <3>1. [EmptyTable("sorted", n) EXCEPT !.table = table, !.count = count]
            = [type |-> "sorted", segment_no |-> n, table |-> table, first |-> 1, count |-> count]
      BY FilledTables
    <3> QED BY <1>5, <3>1 DEF ReadSorted, SortedTable, n, table, count
  <2>2. cell.table + 1 \in Nat
        /\ IsTableOf(segments, "object", <<h[1], cell.table + 1>>, cell.count)
    BY <1>2, <1>5
  <2> HIDE DEF t, cell
  <2>3. t \in Tables
    BY <1>2, <1>3, <2>1, <2>2 DEF Tables
  <2> QED BY <1>2, <2>1, <2>2, <2>3 DEF t, cell
<1> QED BY <1>4, <1>5

(* A table that was read from a sorted object is held.                     *)
LEMMA SortedHold ==
  ASSUME Sound(segments), NEW h \in Places, HasTag(segments, h, {"object"}),
         Cell(h).count = 0 \/ SortedObjects(segments, {h})
  PROVE  HoldsIn(segments, ReadSorted(h))
<1> DEFINE t == ReadSorted(h)
<1>1. /\ t \in Tables /\ t.type = "sorted"
      /\ t.segment_no = h[1] /\ t.first = 1 /\ t.count = Cell(h).count /\ Cell(h).count \in Nat
      /\ t.count > 0 =>
           /\ t.table = Cell(h).table + 1
           /\ IsTableOf(segments, "object", <<h[1], Cell(h).table + 1>>, Cell(h).count)
  BY SecondTables
<1> HIDE DEF t
<1>2. CASE t.count = 0
  BY <1>1, <1>2 DEF HoldsIn, t
<1>3. CASE t.count # 0
  <2>1. t.count > 0 /\ t.table = Cell(h).table + 1 /\ Cell(h).count > 0
    BY <1>1, <1>3
  <2>2. OrderedIn(segments, h[1], CellOf(segments, <<h[1], Cell(h).table + 1>>).offsets)
    BY <1>1, <2>1 DEF SortedObjects, Cell
  <2>3. OrderedIn(segments, t.segment_no, OffsetsOf(segments, t))
    BY <1>1, <2>1, <2>2 DEF OffsetsOf
  <2>4. IsTableOf(segments, Kind(t), <<t.segment_no, t.table>>, t.count)
    BY <1>1, <2>1 DEF Kind
  <2>5. HoldsIn(segments, t)
    BY <1>1, <2>3, <2>4, HeadersLeadToElements
  <2> QED BY <2>5 DEF t
<1> QED BY <1>2, <1>3

(* Keys of which each comes before the next are in order.                  *)
LEMMA HeldAreOrdered ==
  ASSUME Sound(segments), NEW t, HoldsIn(segments, t), t.type = "sorted"
  PROVE  Ordered(t)
<1> DEFINE key(k) == ElementKey(t, k)
           last   == t.count - 1
<1>1. t.count \in Nat /\ t.first \in Nat \ {0} /\ last \in Int
  BY DEF HoldsIn, Tables
<1>2. \A k \in 0 .. last : key(k) \in Seq(Nat)
  <2> TAKE k \in 0 .. last
  <2>1. IsElement(segments, "object", <<t.segment_no, OffsetAt(t, k)>>)
    BY TablesLeadToElements DEF Kind
  <2> QED BY <2>1 DEF IsElement, ElementKey, KeyAt, Cell
<1>3. \A k \in 0 .. last - 1 : Compare(key(k), key(k + 1)) <= 0
  <2> TAKE k \in 0 .. last - 1
  <2> DEFINE offsets == OffsetsOf(segments, t)
             l == t.first + k
  <2>1. k \in 0 .. last /\ k + 1 \in 0 .. last /\ t.count > 0
    BY <1>1
  <2>2. OrderedIn(segments, t.segment_no, offsets) /\ t.first + t.count - 1 = Len(offsets)
    BY <2>1 DEF HoldsIn, LeadsToElements
  <2>3. OffsetAt(t, k) = offsets[l] /\ OffsetAt(t, k + 1) = offsets[t.first + (k + 1)]
    BY <2>1, TablesLeadToElements
  <2>4. t.first + (k + 1) = l + 1 /\ l \in 1 .. Len(offsets) - 1
    <3>1. k \in Nat /\ k + 1 <= t.count - 1
      BY <1>1
    <3>2. t.first + (k + 1) = t.first + k + 1 /\ t.first + k \in 1 .. t.first + t.count - 1 - 1
      BY <1>1, <3>1
    <3>3. t.first + t.count - 1 = Len(offsets)
      BY <2>2
    <3>4. t.first + t.count - 1 - 1 = Len(offsets) - 1
      BY <1>1, <3>3
    <3> HIDE DEF offsets
    <3> QED BY <3>2, <3>4
  <2>5. key(k) = CellOf(segments, <<t.segment_no, offsets[l]>>).token.data
        /\ key(k + 1) = CellOf(segments, <<t.segment_no, offsets[l + 1]>>).token.data
    BY <2>3, <2>4 DEF ElementKey, KeyAt, Cell
  <2> HIDE DEF offsets, l, key
  <2> QED BY <2>2, <2>4, <2>5 DEF OrderedIn
<1> DEFINE Good == {d \in Nat : \A j \in 0 .. last : j + d <= last => Compare(key(j), key(j + d)) <= 0}
<1> HIDE DEF key, last
<1>4. ASSUME NEW d \in Nat, \A e \in Nat : e < d => e \in Good
      PROVE  d \in Good
  <2> SUFFICES ASSUME NEW j \in 0 .. last, j + d <= last
               PROVE  Compare(key(j), key(j + d)) <= 0
    OBVIOUS
  <2>1. key(j) \in Seq(Nat)
    BY <1>2
  <2>2. CASE d = 0
    <3>1. j + d = j
      BY <1>1, <2>2
    <3>2. Compare(key(j), key(j)) = 0
      BY <2>1, CompareTells
    <3> QED BY <3>1, <3>2
  <2>3. CASE d # 0
    <3>1. d - 1 \in Nat /\ d - 1 < d
      BY <2>3
    <3>2. /\ j + (d - 1) \in 0 .. last - 1 /\ j + (d - 1) <= last /\ j + (d - 1) + 1 = j + d
          /\ j + (d - 1) \in 0 .. last /\ j + d \in 0 .. last
      BY <1>1, <3>1
    <3>3. Compare(key(j), key(j + (d - 1))) <= 0
      BY <1>4, <3>1, <3>2
    <3>4. Compare(key(j + (d - 1)), key(j + d)) <= 0
      BY <1>3, <3>2
    <3>5. key(j + (d - 1)) \in Seq(Nat) /\ key(j + d) \in Seq(Nat)
      BY <1>2, <3>2
    <3> QED BY <2>1, <3>3, <3>4, <3>5, CompareTransitive
  <2> QED BY <2>2, <2>3
<1>5. Good \in SUBSET Nat
  OBVIOUS
<1> HIDE DEF Good
<1>6. \A d \in Nat : d \in Good
  BY <1>4, <1>5, StrongInduction
<1>7. ASSUME NEW j \in 0 .. last, NEW k \in 0 .. last, j <= k
      PROVE  Compare(key(j), key(k)) <= 0
  <2>1. k - j \in Nat /\ j + (k - j) = k /\ j + (k - j) <= last
    BY <1>1, <1>7
  <2>2. k - j \in Good
    BY <1>6, <2>1
  <2>3. Compare(key(j), key(j + (k - j))) <= 0
    BY <2>1, <2>2 DEF Good
  <2> QED BY <2>1, <2>3
<1> QED BY <1>2, <1>7 DEF Ordered, key, last

----------------------------------------------------------------------------
(* Sorting a table while others are held.                                  *)

(* Keys that are in order stay in order when some table is arranged.        *)
LEMMA OrderKept ==
  ASSUME NEW segs, NEW segs2, NEW c, NEW arranged, Rearranged(segs, segs2, c, arranged),
         NEW n \in Nat, NEW offsets \in Seq(Nat), OrderedIn(segs, n, offsets),
         \A k \in 1 .. Len(offsets) : IsElement(segs, "object", <<n, offsets[k]>>)
  PROVE  OrderedIn(segs2, n, offsets)
<1>1. \A k \in 1 .. Len(offsets) : CellOf(segs2, <<n, offsets[k]>>) = CellOf(segs, <<n, offsets[k]>>)
  <2> TAKE k \in 1 .. Len(offsets)
  <2>1. offsets[k] \in Nat
    OBVIOUS
  <2>2. <<n, offsets[k]>> \in Places
    BY <2>1 DEF Places
  <2> QED BY <2>2, ElementsKept
<1>2. \A k \in 1 .. Len(offsets) - 1 : k \in 1 .. Len(offsets) /\ k + 1 \in 1 .. Len(offsets)
  <2>1. Len(offsets) \in Nat
    OBVIOUS
  <2> QED BY <2>1
<1> QED BY <1>1, <1>2 DEF OrderedIn

(* So do the keys of a cell, be it the one that is arranged or another.     *)
LEMMA CellOrderKept ==
  ASSUME NEW segs, NEW segs2, NEW c, NEW arranged, Rearranged(segs, segs2, c, arranged),
         OrderedIn(segs2, c[1], arranged),
         NEW h \in Places, HasTag(segs, h, {"table"}),
         OrderedIn(segs, h[1], CellOf(segs, h).offsets),
         \A k \in 1 .. Len(CellOf(segs, h).offsets) :
           IsElement(segs, "object", <<h[1], CellOf(segs, h).offsets[k]>>)
  PROVE  OrderedIn(segs2, h[1], CellOf(segs2, h).offsets)
<1>1. CellOf(segs2, h) = IF h = c THEN P!Table(arranged) ELSE CellOf(segs, h)
  BY DEF Rearranged, HasTag
<1>2. CASE h = c
  <2>1. CellOf(segs2, h).offsets = arranged
    BY <1>1, <1>2 DEF P!Table
  <2> QED BY <1>2, <2>1
<1>3. CASE h # c
  <2>1. CellOf(segs2, h) = CellOf(segs, h)
    BY <1>1, <1>3
  <2>2. CellOf(segs, h).offsets \in Seq(Nat) /\ h[1] \in Nat
    BY OffsetsKept DEF Places
  <2>3. OrderedIn(segs2, h[1], CellOf(segs, h).offsets)
    BY <2>2, OrderKept
  <2> QED BY <2>1, <2>3
<1> QED BY <1>2, <1>3

(* A table that somebody holds stays one, and in order if it was sorted.    *)
LEMMA HoldsKept ==
  ASSUME NEW segs, NEW segs2, NEW c, NEW arranged, Rearranged(segs, segs2, c, arranged),
         OrderedIn(segs2, c[1], arranged), NEW t, HoldsIn(segs, t)
  PROVE  HoldsIn(segs2, t)
<1>1. CASE t.count = 0
  BY <1>1 DEF HoldsIn
<1>2. CASE t.count # 0
  <2> DEFINE h == <<t.segment_no, t.table>>
             old == CellOf(segs, h).offsets
             new == CellOf(segs2, h).offsets
  <2>1. t \in Tables /\ LeadsToElements(segs, t) /\ h \in Places /\ t.segment_no \in Nat
    BY <1>2 DEF HoldsIn, Tables, Places
  <2>2. /\ HasTag(segs, h, {"table"}) /\ t.first + t.count - 1 = Len(old)
        /\ \A k \in 1 .. Len(old) : IsElement(segs, Kind(t), <<t.segment_no, old[k]>>)
        /\ t.type = "sorted" => OrderedIn(segs, t.segment_no, old)
    BY <2>1 DEF LeadsToElements, OffsetsOf
  <2>3. HasTag(segs2, h, {"table"})
    BY <2>1, <2>2, TagsKept
  <2>4. /\ old \in Seq(Nat) /\ new \in Seq(Nat) /\ Len(new) = Len(old)
        /\ \A k \in 1 .. Len(new) : \E l \in 1 .. Len(old) : new[k] = old[l]
    <3> HIDE DEF h
    <3> QED BY <2>1, <2>2, OffsetsKept
  <2>5. \A k \in 1 .. Len(new) : IsElement(segs2, Kind(t), <<t.segment_no, new[k]>>)
    <3> HIDE DEF old, new
    <3> TAKE k \in 1 .. Len(new)
    <3>1. IsElement(segs, Kind(t), <<t.segment_no, new[k]>>)
      BY <2>2, <2>4
    <3>2. new[k] \in Nat
      <4>1. \A s \in Seq(Nat) : \A j \in 1 .. Len(s) : s[j] \in Nat
        OBVIOUS
      <4> QED BY <2>4, <4>1
    <3>3. <<t.segment_no, new[k]>> \in Places
      BY <2>1, <3>2 DEF Places
    <3> QED BY <3>1, <3>3, ElementsKept
  <2>6. t.type = "sorted" => OrderedIn(segs2, t.segment_no, new)
    <3> SUFFICES ASSUME t.type = "sorted"
                 PROVE  OrderedIn(segs2, h[1], CellOf(segs2, h).offsets)
      OBVIOUS
    <3>1. Kind(t) = "object" /\ h[1] = t.segment_no
      BY DEF Kind
    <3>2. OrderedIn(segs, h[1], CellOf(segs, h).offsets)
      BY <2>2
    <3>3. \A k \in 1 .. Len(CellOf(segs, h).offsets) :
            IsElement(segs, "object", <<h[1], CellOf(segs, h).offsets[k]>>)
      BY <2>2, <3>1
    <3> HIDE DEF h
    <3> QED BY <2>1, <2>2, <3>2, <3>3, CellOrderKept
  <2>7. LeadsToElements(segs2, t)
    BY <2>2, <2>3, <2>4, <2>5, <2>6 DEF LeadsToElements, OffsetsOf
  <2> QED BY <2>1, <2>7 DEF HoldsIn
<1> QED BY <1>1, <1>2

(* Objects that were sorted stay in order.                                 *)
LEMMA SortedKept ==
  ASSUME NEW segs, NEW segs2, NEW c, NEW arranged, Rearranged(segs, segs2, c, arranged),
         OrderedIn(segs2, c[1], arranged), NEW S, SortedObjects(segs, S)
  PROVE  SortedObjects(segs2, S)
<1> SUFFICES ASSUME NEW h \in S
             PROVE  /\ h \in Places /\ HasTag(segs2, h, {"object"})
                    /\ CellOf(segs2, h).count > 0 =>
                         OrderedIn(segs2, h[1],
                                   CellOf(segs2, <<h[1], CellOf(segs2, h).table + 1>>).offsets)
  BY DEF SortedObjects
<1>1. /\ h \in Places /\ HasTag(segs, h, {"object"})
      /\ CellOf(segs, h).count > 0 =>
           OrderedIn(segs, h[1], CellOf(segs, <<h[1], CellOf(segs, h).table + 1>>).offsets)
  BY DEF SortedObjects
<1>2. HasTag(segs2, h, {"object"})
  BY <1>1, TagsKept
<1> DEFINE cell == CellOf(segs, h)
           k == <<h[1], cell.table + 1>>
<1>3. HasCell(segs, h) /\ cell.tag = "object"
  BY <1>1 DEF HasTag
<1>4. CellOf(segs2, h) = cell
  BY <1>1, <1>3, CellsKept
<1>5. ASSUME cell.count > 0
      PROVE  OrderedIn(segs2, h[1], CellOf(segs2, k).offsets)
  <2>1. /\ cell.table \in Nat /\ cell.count \in Nat
        /\ IsTableOf(segs, "object", k, cell.count)
    BY <1>1, <1>3, <1>5, CellsByTag DEF Rearranged
  <2>2. k \in Places /\ k[1] = h[1]
    BY <1>1, <2>1 DEF Places
  <2>3. /\ HasTag(segs, k, {"table"})
        /\ \A l \in 1 .. Len(CellOf(segs, k).offsets) :
             IsElement(segs, "object", <<k[1], CellOf(segs, k).offsets[l]>>)
    BY <2>1 DEF IsTableOf
  <2>4. OrderedIn(segs, k[1], CellOf(segs, k).offsets)
    BY <1>1, <1>5, <2>2
  <2> HIDE DEF k
  <2>5. OrderedIn(segs2, k[1], CellOf(segs2, k).offsets)
    BY <2>2, <2>3, <2>4, CellOrderKept
  <2> QED BY <2>2, <2>5
<1> QED BY <1>1, <1>2, <1>4, <1>5

(* A sequence with one element changed is a sequence.                      *)
LEMMA ChangedSequence ==
  ASSUME NEW T, NEW s \in Seq(T), NEW k \in DOMAIN s, NEW x \in T
  PROVE  [s EXCEPT ![k] = x] \in Seq(T) /\ Len([s EXCEPT ![k] = x]) = Len(s)
OBVIOUS

(* Sorting an object arranges the offsets of its second table.             *)
LEMMA SortingArranges ==
  ASSUME Sound(segments), NEW h \in Places, HasTag(segments, h, {"object"}),
         ReadSorted(h).count # 0,
         NEW arranged \in Sortings(h[1], TableCell(ReadSorted(h)).offsets), NEW segs2,
         segs2 = [segments EXCEPT ![h[1] + 1][ReadSorted(h).table + 1].offsets = arranged]
  PROVE  /\ Rearranged(segments, segs2, <<h[1], ReadSorted(h).table>>, arranged)
         /\ OrderedIn(segs2, h[1], arranged)
         /\ ReadSorted(h).table = Cell(h).table + 1
         /\ Shuffled(arranged, CellOf(segments, <<h[1], ReadSorted(h).table>>).offsets)
<1> DEFINE t == ReadSorted(h)
           c == <<h[1], t.table>>
           a == h[1] + 1
           b == t.table + 1
           old == CellOf(segments, c)
<1>1. t.count > 0 /\ t.table = Cell(h).table + 1 /\ t.segment_no = h[1] /\ t.table \in Nat
      /\ IsTableOf(segments, "object", c, Cell(h).count)
  <2>1. /\ t \in Tables /\ t.segment_no = h[1]
        /\ t.count = Cell(h).count /\ Cell(h).count \in Nat
        /\ t.count > 0 =>
             /\ t.table = Cell(h).table + 1
             /\ IsTableOf(segments, "object", <<h[1], Cell(h).table + 1>>, Cell(h).count)
    BY SecondTables
  <2>2. t.table \in Nat /\ t.count > 0
    BY <2>1 DEF Tables
  <2> HIDE DEF t
  <2> QED BY <2>1, <2>2
<1>2. c \in Places /\ c[1] = h[1] /\ c[2] = t.table
  BY <1>1 DEF Places
<1>3. /\ HasTag(segments, c, {"table"})
      /\ \A k \in 1 .. Len(old.offsets) : IsElement(segments, "object", <<c[1], old.offsets[k]>>)
  BY <1>1 DEF IsTableOf
<1>4. old = P!Table(old.offsets) /\ old.offsets \in Seq(Nat) /\ HasCell(segments, c)
  BY <1>2, <1>3, CellsByTag DEF HasTag
<1>5. TableCell(t).offsets = old.offsets
  BY <1>1 DEF TableCell, Cell
<1>6. arranged \in Arrangements(old.offsets) /\ InOrder(h[1], arranged)
  BY <1>5 DEF Sortings
<1>7. /\ arranged \in Seq(Nat) /\ Len(arranged) = Len(old.offsets)
      /\ \A k \in 1 .. Len(arranged) : \E l \in 1 .. Len(old.offsets) :
           arranged[k] = old.offsets[l]
      /\ Shuffled(arranged, old.offsets)
  BY <1>4, <1>6, ArrangementsKeep
<1>8. a \in DOMAIN segments /\ b \in DOMAIN segments[a] /\ segments[a][b] = old
  BY <1>2, <1>4 DEF HasCell, CellOf
<1>9. PICK cells : segments \in Seq(Seq(cells))
  BY DEF Sound
<1> DEFINE cell == P!Table(arranged)
           row  == [segments[a] EXCEPT ![b] = cell]
<1> HIDE DEF t
<1>10. segs2 = [segments EXCEPT ![a] = row]
  <2>1. [old EXCEPT !.offsets = arranged] = cell
    <3>1. old = [tag |-> "table", offsets |-> old.offsets]
      BY <1>4 DEF P!Table
    <3> HIDE DEF old
    <3> QED BY <3>1 DEF P!Table
  <2>2. segs2 = [segments EXCEPT ![a] = [segments[a] EXCEPT ![b] =
                                           [segments[a][b] EXCEPT !.offsets = arranged]]]
    BY DEF t
  <2> QED BY <1>8, <2>1, <2>2
<1> HIDE DEF a, b, old, cell
<1>11. segs2 \in Seq(Seq(cells \cup {cell}))
  <2>1. segments[a] \in Seq(cells \cup {cell})
    BY <1>8, <1>9
  <2>2. row \in Seq(cells \cup {cell})
    BY <1>8, <2>1
  <2>3. segments \in Seq(Seq(cells \cup {cell}))
    BY <1>9
  <2> DEFINE T == Seq(cells \cup {cell})
  <2>4. segments \in Seq(T) /\ row \in T
    BY <2>2, <2>3
  <2> HIDE DEF row, T
  <2>5. a \in DOMAIN segments
    BY <1>8
  <2>6. [segments EXCEPT ![a] = row] \in Seq(T)
    BY <2>4, <2>5, ChangedSequence
  <2>7. segs2 \in Seq(T)
    BY <1>10, <2>6
  <2> QED BY <2>7 DEF T
<1>12. DOMAIN segs2 = DOMAIN segments /\ \A n \in DOMAIN segments : DOMAIN segs2[n] = DOMAIN segments[n]
  BY <1>8, <1>10
<1>13. \A g : HasCell(segs2, g) <=> HasCell(segments, g)
  BY <1>12 DEF HasCell
<1>14. \A g \in Places : HasCell(segments, g) =>
         CellOf(segs2, g) = IF g = c THEN cell ELSE CellOf(segments, g)
  <2> SUFFICES ASSUME NEW g \in Places, HasCell(segments, g)
               PROVE  CellOf(segs2, g) = IF g = c THEN cell ELSE CellOf(segments, g)
    OBVIOUS
  <2>1. g[1] + 1 \in DOMAIN segments /\ g[2] + 1 \in DOMAIN segments[g[1] + 1]
    BY DEF HasCell
  <2>2. g = c <=> g[1] + 1 = a /\ g[2] + 1 = b
    BY <1>1, <1>2 DEF Places, a, b
  <2>3. CASE g[1] + 1 = a
    BY <1>10, <2>1, <2>2, <2>3 DEF CellOf
  <2>4. CASE g[1] + 1 # a
    BY <1>10, <2>1, <2>2, <2>4 DEF CellOf
  <2> QED BY <2>3, <2>4
<1>15. Rearranged(segments, segs2, c, arranged)
  BY <1>2, <1>3, <1>7, <1>11, <1>12, <1>13, <1>14 DEF Rearranged, old, cell
<1>16. OrderedIn(segs2, h[1], arranged)
  <2>1. OrderedIn(segments, h[1], arranged)
    BY <1>6 DEF InOrder, OrderedIn, KeyAt, Cell
  <2>2. \A k \in 1 .. Len(arranged) : IsElement(segments, "object", <<h[1], arranged[k]>>)
    BY <1>2, <1>3, <1>7
  <2>3. h[1] \in Nat
    BY DEF Places
  <2> QED BY <1>7, <1>15, <2>1, <2>2, <2>3, OrderKept
<1> QED BY <1>1, <1>7, <1>15, <1>16 DEF t, old

(* thsn_document_read_object_sorted leaves a document in which everything   *)
(* that was held is held still, and so is the table that it gives.         *)
LEMMA SortKeeps ==
  ASSUME Sound(segments), SortedObjects(segments, sorted), NEW h \in Places, Sort(h)
  PROVE  /\ Sound(segments') /\ SortedObjects(segments', sorted') /\ segments' # <<>>
         /\ \A g : HasCell(segments', g) <=> HasCell(segments, g)
         /\ \A t : HoldsIn(segments, t) => HoldsIn(segments', t)
         /\ HoldsIn(segments', ReadSorted(h))
<1> DEFINE t == ReadSorted(h)
           c == <<h[1], t.table>>
<1>1. HasTag(segments, h, {"object"}) /\ HasCell(segments, h)
  <2>1. ValueType(h) = "object"
    BY DEF Sort
  <2> QED BY <2>1, TypesOfValues DEF HasTag
<1>2. /\ t \in Tables /\ t.type = "sorted" /\ t.segment_no = h[1] /\ t.first = 1
      /\ t.count = Cell(h).count /\ Cell(h).count \in Nat
      /\ t.count > 0 =>
           /\ t.table = Cell(h).table + 1
           /\ IsTableOf(segments, "object", <<h[1], Cell(h).table + 1>>, Cell(h).count)
  BY <1>1, SecondTables
<1>3. CASE t.count = 0 \/ h \in sorted
  <2>1. segments' = segments /\ sorted' = sorted
    BY <1>3 DEF Sort
  <2>2. segments # <<>>
    BY <1>1 DEF HasCell
  <2>3. Cell(h).count = 0 \/ SortedObjects(segments, {h})
    BY <1>2, <1>3 DEF SortedObjects
  <2>4. HoldsIn(segments, t)
    BY <1>1, <2>3, SortedHold
  <2> QED BY <2>1, <2>2, <2>4
<1>4. CASE ~(t.count = 0 \/ h \in sorted)
  <2>1. PICK arranged \in Sortings(h[1], TableCell(t).offsets) :
          segments' = [segments EXCEPT ![h[1] + 1][t.table + 1].offsets = arranged]
    BY <1>4 DEF Sort
  <2>2. sorted' = sorted \cup {h}
    BY <1>4 DEF Sort
  <2>3. /\ Rearranged(segments, segments', c, arranged)
        /\ OrderedIn(segments', h[1], arranged) /\ t.table = Cell(h).table + 1
    BY <1>1, <1>4, <2>1, SortingArranges
  <2> HIDE DEF t
  <2>4. t.count > 0 /\ c \in Places /\ c[1] = h[1] /\ HasTag(segments, c, {"table"})
    BY <1>2, <1>4, <2>3 DEF Rearranged
  <2>5. Sound(segments')
    BY <2>3, DocumentKept
  <2>6. \A g : HasCell(segments', g) <=> HasCell(segments, g)
    BY <2>3 DEF Rearranged
  <2>7. segments' # <<>>
    BY <1>1, <2>6 DEF HasCell
  <2>8. OrderedIn(segments', c[1], arranged)
    BY <2>3, <2>4
  <2>9. \A u : HoldsIn(segments, u) => HoldsIn(segments', u)
    BY <2>3, <2>8, HoldsKept
  <2>10. CellOf(segments', c).offsets = arranged
    BY <2>3, <2>4 DEF Rearranged, HasTag, P!Table
  <2>11. SortedObjects(segments', {h})
    <3>1. HasTag(segments', h, {"object"})
      BY <1>1, <2>3, TagsKept
    <3>2. CellOf(segments', h) = Cell(h)
      <4>1. CellOf(segments, h).tag # "table"
        BY <1>1 DEF HasTag
      <4> QED BY <1>1, <2>3, <4>1, CellsKept DEF Cell
    <3>3. OrderedIn(segments', h[1], CellOf(segments', <<h[1], Cell(h).table + 1>>).offsets)
      BY <2>3, <2>10
    <3> QED BY <3>1, <3>2, <3>3 DEF SortedObjects
  <2>12. SortedObjects(segments', sorted)
    BY <2>3, <2>8, SortedKept
  <2>13. SortedObjects(segments', sorted')
    BY <2>2, <2>11, <2>12 DEF SortedObjects
  <2>14. HoldsIn(segments', t)
    <3>1. IsTableOf(segments, "object", c, t.count)
      BY <1>2, <2>3, <2>4
    <3>2. IsTableOf(segments', "object", c, t.count)
      BY <2>3, <2>4, <3>1, TablesKept
    <3>3. OffsetsOf(segments', t) = arranged /\ Kind(t) = "object" /\ c = <<t.segment_no, t.table>>
      BY <1>2, <2>10 DEF OffsetsOf, Kind
    <3>4. IsTableOf(segments', Kind(t), <<t.segment_no, t.table>>, t.count)
      BY <3>2, <3>3
    <3>5. OrderedIn(segments', t.segment_no, OffsetsOf(segments', t))
      BY <1>2, <2>3, <3>3
    <3> QED BY <1>2, <3>4, <3>5, HeadersLeadToElements
  <2> QED BY <2>5, <2>6, <2>7, <2>9, <2>13, <2>14 DEF t
<1> QED BY <1>3, <1>4

----------------------------------------------------------------------------
(* The invariant.                                                          *)

(* Of the document and of what the client holds of it.                     *)
DocInv ==
  /\ Sound(segments)
  /\ segments # <<>> /\ tree # Missing => HasCell(segments, First)
  /\ SortedObjects(segments, sorted)
  /\ handle \in Places
  /\ handle = NotFound \/ segments = <<>> \/ tree = Missing \/ HasCell(segments, handle)
  /\ \A s \in DOMAIN tables : HoldsIn(segments, tables[s])

(* Of a visit: on its stack are the tables of composites, never sorted ones. *)
VisitInv ==
  /\ pc \in {"visit", "ascend", "done", "aborted", "failed"}
  /\ current \in Places
  /\ \E contexts : stack \in Seq([table : Tables, context : contexts])
  /\ \A k \in 1 .. Len(stack) : /\ HoldsIn(segments, stack[k].table)
                                /\ stack[k].table.type # "sorted"
  /\ \E S : calls \in Seq(S)

(* Of the program: it indents by as many composites as the visit is in.     *)
MainInv ==
  /\ client \in Clients
  /\ main \in {"parsed", "visiting", "error_cleanup", "exited_0", "exited_1", "crashed"}
  /\ owned \subseteq {"json_str", "document"}
  /\ "document" \in owned => segments # <<>>
  /\ client = "formatter" => visitor = FormatterVisitor /\ offset = Len(stack)
  /\ client # "formatter" => offset = 0

IInv == DocInv /\ VisitInv /\ MainInv

(* It holds of every text that is parsed.                                  *)
LEMMA InitHolds == Init => IInv
<1> SUFFICES ASSUME Init PROVE IInv
  OBVIOUS
<1>1. PICK k \in DOMAIN Texts :
        /\ segments = Parsed(Texts[k].tokens)
        /\ tree = Texts[k].tree
        /\ tables = [s \in Texts[k].slots |-> EmptyTable("array", 0)]
  BY DEF Init, DocumentInit
<1>2. IsDocument(segments) /\ (segments # <<>> /\ tree # Missing => HasCell(segments, First))
  BY <1>1, TextsAssumption DEF HasTag
<1>3. Sound(segments)
  BY <1>2 DEF IsDocument, Sound
<1>4. First \in Places /\ handle = First /\ sorted = {}
  BY DEF Init, DocumentInit, First, Places
<1>5. \A s \in DOMAIN tables : HoldsIn(segments, tables[s])
  BY <1>1, EmptyTablesHold
<1>6. DocInv
  BY <1>2, <1>3, <1>4, <1>5 DEF DocInv, SortedObjects
<1>7. VisitInv
  <2>1. pc = "visit" /\ current = First /\ stack = <<>> /\ calls = <<>>
    BY DEF Init, VisitInit
  <2>2. stack \in Seq([table : Tables, context : {}]) /\ calls \in Seq({}) /\ Len(stack) = 0
    BY <2>1
  <2> QED BY <1>4, <2>1, <2>2 DEF VisitInv
<1>8. MainInv
  <2>1. stack = <<>> /\ Len(stack) = 0
    BY DEF Init, VisitInit
  <2> QED BY <2>1 DEF Init, MainInv
<1> QED BY <1>6, <1>7, <1>8 DEF IInv

(* The client's calls keep it.                                             *)
LEMMA NavigateKeeps ==
  ASSUME DocInv, Navigate
  PROVE  /\ DocInv' /\ (segments # <<>> => segments' # <<>>)
         /\ \A t : HoldsIn(segments, t) => HoldsIn(segments', t)
<1>1. \A h \in Handles : h \in Places /\ HasCell(segments, h)
  <2>1. PICK cells : segments \in Seq(Seq(cells))
    BY DEF DocInv, Sound
  <2> QED BY <2>1, HandlesAreCells
<1>2. ASSUME NEW s \in DOMAIN tables, NEW k \in 0 .. tables[s].count - 1,
             handle' = ValueOf(tables[s], OffsetAt(tables[s], k))
      PROVE  handle' \in Places /\ HasCell(segments, handle')
  BY <1>1, <1>2, TablesLeadToValues DEF DocInv
<1>3. CASE GoToRoot
  BY <1>3 DEF GoToRoot, DocInv, First, Places
<1>4. CASE \E s \in DOMAIN tables : ReadElements(s)
  <2>1. PICK s \in DOMAIN tables : ReadElements(s)
    BY <1>4
  <2>2. HasTag(segments, handle, {"array", "object"})
    BY <2>1, TypesOfValues DEF ReadElements, DocInv, HasTag
  <2>3. HoldsIn(segments, ReadComposite(handle))
    BY <2>2, CompositesHold DEF DocInv
  <2>4. tables' = [tables EXCEPT ![s] = ReadComposite(handle)]
        /\ UNCHANGED <<segments, sorted, handle, tree>>
    BY <2>1 DEF ReadElements, Keep
  <2>5. \A u \in DOMAIN tables' : HoldsIn(segments, tables'[u])
    BY <2>3, <2>4 DEF DocInv
  <2> QED BY <2>4, <2>5 DEF DocInv
<1>5. CASE \E s \in DOMAIN tables : ReadObjectSorted(s)
  <2>1. PICK s \in DOMAIN tables : ReadObjectSorted(s)
    BY <1>5
  <2>2. Sort(handle) /\ UNCHANGED <<handle, tree>>
        /\ tables' = [tables EXCEPT ![s] = ReadSorted(handle)]
    BY <2>1 DEF ReadObjectSorted, Keep
  <2>3. /\ Sound(segments') /\ SortedObjects(segments', sorted') /\ segments' # <<>>
        /\ \A g : HasCell(segments', g) <=> HasCell(segments, g)
        /\ \A t : HoldsIn(segments, t) => HoldsIn(segments', t)
        /\ HoldsIn(segments', ReadSorted(handle))
    BY <2>2, SortKeeps DEF DocInv
  <2>4. \A u \in DOMAIN tables' : HoldsIn(segments', tables'[u])
    BY <2>2, <2>3 DEF DocInv
  <2>5. segments # <<>>
    <3>1. HasTag(segments, handle, {"object"})
      BY <2>2, TypesOfValues DEF Sort, DocInv
    <3> QED BY <3>1 DEF HasTag, HasCell
  <2> QED BY <2>2, <2>3, <2>4, <2>5 DEF DocInv
<1>6. CASE \E s \in DOMAIN tables : IndexElement(s)
  <2>1. PICK s \in DOMAIN tables : IndexElement(s)
    BY <1>6
  <2>2. PICK k \in 0 .. tables[s].count - 1 :
          handle' = ValueOf(tables[s], OffsetAt(tables[s], k))
    BY <2>1 DEF IndexElement
  <2>3. handle' \in Places /\ HasCell(segments, handle')
    BY <1>2, <2>2
  <2>4. UNCHANGED <<segments, sorted, tables, tree>>
    BY <2>1 DEF IndexElement
  <2> QED BY <2>3, <2>4 DEF DocInv
<1>7. CASE \E s \in DOMAIN tables : ConsumeElement(s)
  <2>1. PICK s \in DOMAIN tables : ConsumeElement(s)
    BY <1>7
  <2>2. /\ tables[s].count > 0 /\ UNCHANGED <<segments, sorted, tree>>
        /\ handle' = ValueOf(tables[s], OffsetAt(tables[s], 0))
        /\ tables' = [tables EXCEPT ![s] = Rest(tables[s])]
    BY <2>1 DEF ConsumeElement, Keep
  <2>3. HoldsIn(segments, tables[s])
    BY DEF DocInv
  <2>4. 0 \in 0 .. tables[s].count - 1
    BY <2>2, <2>3 DEF HoldsIn, Tables
  <2>5. handle' \in Places /\ HasCell(segments, handle')
    BY <1>2, <2>2, <2>4
  <2>6. HoldsIn(segments, Rest(tables[s]))
    BY <2>2, <2>3, RestsHold
  <2>7. \A u \in DOMAIN tables' : HoldsIn(segments, tables'[u])
    BY <2>2, <2>6 DEF DocInv
  <2> QED BY <2>2, <2>5, <2>7 DEF DocInv
<1>8. CASE \E s \in DOMAIN tables, key \in Keys : ObjectIndex(s, key)
  <2>1. PICK s \in DOMAIN tables, key \in Keys : ObjectIndex(s, key)
    BY <1>8
  <2> DEFINE t == tables[s]
  <2>2. /\ t.type = "sorted" /\ handle' = Search(t, key).handle
        /\ UNCHANGED <<segments, sorted, tables, tree>>
    BY <2>1 DEF ObjectIndex
  <2>3. key \in Seq(Nat) /\ HoldsIn(segments, t) /\ t \in Tables /\ Sound(segments)
    BY KeysAssumption DEF DocInv, HoldsIn
  <2>4. Finds(t, key, Search(t, key).handle)
    BY <2>2, <2>3, HeldAreOrdered, SearchFinds
  <2>5. CASE handle' = NotFound
    BY <2>2, <2>5 DEF DocInv, NotFound, Places
  <2>6. CASE \E k \in 0 .. t.count - 1 : handle' = <<t.segment_no, OffsetAt(t, k) + 1>>
    <3>1. PICK k \in 0 .. t.count - 1 : handle' = <<t.segment_no, OffsetAt(t, k) + 1>>
      BY <2>6
    <3>2. OffsetAt(t, k) \in Nat /\ IsElement(segments, "object", <<t.segment_no, OffsetAt(t, k)>>)
      BY <2>2, <2>3, TablesLeadToElements DEF Kind
    <3>3. HasCell(segments, handle')
      BY <3>1, <3>2 DEF IsElement, HasTag
    <3>4. handle' \in Places
      BY <2>3, <3>1, <3>2 DEF Places, Tables
    <3> QED BY <2>2, <3>3, <3>4 DEF DocInv
  <2> QED BY <2>2, <2>4, <2>5, <2>6 DEF Finds
<1> QED BY <1>3, <1>4, <1>5, <1>6, <1>7, <1>8 DEF Navigate

(* All but the last of a sequence.                                         *)
LEMMA FrontOfSequence ==
  ASSUME NEW T, NEW s \in Seq(T), Len(s) # 0
  PROVE  /\ Front(s) \in Seq(T) /\ Len(Front(s)) = Len(s) - 1
         /\ \A k \in 1 .. Len(s) - 1 : Front(s)[k] = s[k]
<1>1. Len(s) \in Nat \ {0} /\ Front(s) = SubSeq(s, 1, Len(s) - 1)
  BY DEF Front
<1> DEFINE n == Len(s) - 1
<1>2. 1 \in Int /\ n \in Int /\ \A k \in 1 .. n : s[k] \in T /\ 1 + k - 1 = k
  BY <1>1
<1>3. /\ SubSeq(s, 1, n) \in Seq(T)
      /\ Len(SubSeq(s, 1, n)) = IF 1 <= n THEN n - 1 + 1 ELSE 0
      /\ \A k \in 1 .. n - 1 + 1 : SubSeq(s, 1, n)[k] = s[1 + k - 1]
  BY <1>2, SubSeqProperties
<1>4. n \in Nat /\ n - 1 + 1 = n
  BY <1>1
<1> HIDE DEF n
<1> QED BY <1>1, <1>2, <1>3, <1>4 DEF n

(* A callback is noted in any case, and the visit goes on or ends.          *)
LEMMA CallsKeep ==
  ASSUME NEW call, NEW at, NEW answer \in Answers, Call(call, at, answer),
         \E S : calls \in Seq(S)
  PROVE  /\ pc' \in {"visit", "ascend", "done", "aborted", "failed"}
         /\ \E S : calls' \in Seq(S)
<1>1. pc' \in {"visit", "ascend", "done", "aborted", "failed"}
  BY Zenon DEF Call, Answers
<1>2. PICK S : calls \in Seq(S)
  OBVIOUS
<1> DEFINE made == [call |-> call, context |-> at, skip |-> answer = "SKIP" /\ call[1] \in Starts]
<1>3. calls' = calls \/ calls' = Append(calls, made)
  BY DEF Call
<1> HIDE DEF made
<1>4. calls \in Seq(S \cup {made}) /\ Append(calls, made) \in Seq(S \cup {made})
  BY <1>2
<1>5. calls' \in Seq(S \cup {made})
  BY <1>3, <1>4
<1> QED BY <1>1, <1>5

(* A step of a visit keeps the invariant; the document does not change.     *)
LEMMA VisitKeeps ==
  ASSUME DocInv, VisitInv, Visit, UNCHANGED docVars
  PROVE  VisitInv'
<1>1. PICK contexts : stack \in Seq([table : Tables, context : contexts])
  BY DEF VisitInv
<1> DEFINE Frames(c) == [table : Tables, context : c]
<1>2. segments' = segments /\ Sound(segments)
  BY DEF docVars, DocInv
<1>3. ASSUME UNCHANGED stack, current' \in Places, \E S : calls' \in Seq(S),
             pc' \in {"visit", "ascend", "done", "aborted", "failed"}
      PROVE  VisitInv'
  BY <1>1, <1>2, <1>3 DEF VisitInv
<1>4. CASE VisitScalar
  <2>1. PICK answer \in Answers :
          Call(<<ValueType(current), ReadScalar(current)>>, context, answer)
    BY <1>4 DEF VisitScalar
  <2>2. UNCHANGED <<current, stack>>
    BY <1>4 DEF VisitScalar
  <2>3. /\ pc' \in {"visit", "ascend", "done", "aborted", "failed"}
        /\ \E S : calls' \in Seq(S)
    BY <2>1, CallsKeep DEF VisitInv
  <2> QED BY <1>3, <2>2, <2>3 DEF VisitInv
<1>5. CASE VisitComposite
  <2>1. PICK answer \in Answers :
          /\ Call(<<StartOf[ValueType(current)]>>, context, answer)
          /\ stack' = IF answer # "CONTINUE" THEN stack
                      ELSE Append(stack, [table |-> ReadComposite(current),
                                          context |-> context])
    BY <1>5 DEF VisitComposite
  <2>2. UNCHANGED current
    BY <1>5 DEF VisitComposite
  <2>3. /\ pc' \in {"visit", "ascend", "done", "aborted", "failed"}
        /\ \E S : calls' \in Seq(S)
    BY <2>1, CallsKeep DEF VisitInv
  <2>4. CASE answer # "CONTINUE"
    BY <1>3, <2>1, <2>2, <2>3, <2>4 DEF VisitInv
  <2>5. CASE answer = "CONTINUE"
    <3> DEFINE t == ReadComposite(current)
               frame == [table |-> t, context |-> context]
               C == contexts \cup {context}
    <3>1. stack' = Append(stack, frame)
      BY <2>1, <2>5
    <3>2. HasTag(segments, current, {"array", "object"})
      BY <1>2, <1>5, TypesOfValues DEF VisitComposite, VisitInv, HasTag
    <3>3. HoldsIn(segments, t) /\ t.type \in {"array", "object"}
      BY <1>2, <3>2, CompositesHold DEF VisitInv
    <3>4. t \in Tables
      BY <3>3 DEF HoldsIn
    <3> HIDE DEF t
    <3>5. frame \in Frames(C) /\ frame.table = t
      BY <3>4
    <3>6. stack \in Seq(Frames(C))
      <4>1. Frames(contexts) \subseteq Frames(C) /\ stack \in Seq(Frames(contexts))
        BY <1>1
      <4> HIDE DEF Frames, C
      <4> QED BY <4>1
    <3> HIDE DEF frame, Frames
    <3>7. /\ stack' \in Seq(Frames(C)) /\ Len(stack') = Len(stack) + 1 /\ Len(stack) \in Nat
          /\ stack'[Len(stack) + 1] = frame
          /\ \A k \in 1 .. Len(stack) : stack'[k] = stack[k]
      BY <3>1, <3>5, <3>6
    <3>8. \A k \in 1 .. Len(stack') : /\ HoldsIn(segments', stack'[k].table)
                                      /\ stack'[k].table.type # "sorted"
      <4> TAKE k \in 1 .. Len(stack')
      <4>1. CASE k = Len(stack) + 1
        BY <1>2, <3>3, <3>5, <3>7, <4>1
      <4>2. CASE k # Len(stack) + 1
        <5>1. k \in 1 .. Len(stack)
          BY <3>7, <4>2
        <5> QED BY <1>2, <3>7, <5>1 DEF VisitInv
      <4> QED BY <4>1, <4>2
    <3> HIDE DEF C
    <3>9. \E c : stack' \in Seq([table : Tables, context : c])
      BY <3>7 DEF Frames
    <3>10. current' \in Places
      BY <2>2 DEF VisitInv
    <3> QED BY <2>3, <3>8, <3>9, <3>10 DEF VisitInv
  <2> QED BY <2>4, <2>5
<1>6. CASE VisitFails
  BY <1>3, <1>6 DEF VisitFails, VisitInv
<1>7. CASE Ascend
  <2>1. PICK answer \in Answers :
          Call(<<EndOf[Last(stack).table.type]>>, Last(stack).context, answer)
    BY <1>7 DEF Ascend
  <2>2. /\ pc' \in {"visit", "ascend", "done", "aborted", "failed"}
        /\ \E S : calls' \in Seq(S)
    BY <2>1, CallsKeep DEF VisitInv
  <2>3. stack # <<>> /\ stack' = Front(stack) /\ current' = current
    BY <1>7 DEF Ascend
  <2>4. Len(stack) \in Nat \ {0}
    BY <1>1, <2>3
  <2> DEFINE F == Frames(contexts)
  <2>5. stack \in Seq(F)
    BY <1>1
  <2> HIDE DEF Frames, F
  <2>7. /\ stack' \in Seq(F) /\ Len(stack') = Len(stack) - 1
        /\ \A k \in 1 .. Len(stack) - 1 : stack'[k] = stack[k]
    BY <2>3, <2>4, <2>5, FrontOfSequence
  <2>8. \A k \in 1 .. Len(stack') : /\ HoldsIn(segments', stack'[k].table)
                                    /\ stack'[k].table.type # "sorted"
    <3> TAKE k \in 1 .. Len(stack')
    <3>1. k \in 1 .. Len(stack) /\ stack'[k] = stack[k]
      BY <2>4, <2>7
    <3> QED BY <1>2, <3>1 DEF VisitInv
  <2>9. \E c : stack' \in Seq([table : Tables, context : c])
    BY <2>7 DEF F, Frames
  <2> QED BY <2>2, <2>3, <2>8, <2>9 DEF VisitInv
<1>8. CASE Descend
  <2> DEFINE n == Len(stack)
             t == stack[n].table
             frame == [stack[n] EXCEPT !.table = Rest(t)]
             F == Frames(contexts)
  <2>1. n \in Nat \ {0} /\ n \in 1 .. n
    BY <1>1, <1>8 DEF Descend
  <2>2. stack[n] \in F
    <3>1. stack \in Seq(F)
      BY <1>1
    <3> HIDE DEF F, Frames
    <3> QED BY <2>1, <3>1
  <2>3. Last(stack) = stack[n]
    BY DEF Last
  <2>4. /\ t.count > 0 /\ current' = ValueOf(t, OffsetAt(t, 0))
        /\ stack' = [stack EXCEPT ![n].table = Rest(t)] /\ pc' = "visit" /\ calls' = calls
    BY <1>8, <2>3 DEF Descend
  <2>5. HoldsIn(segments, t) /\ t.type # "sorted"
    BY <2>1 DEF VisitInv
  <2>6. HoldsIn(segments, Rest(t)) /\ Rest(t).type = t.type
    BY <2>4, <2>5, RestsHold
  <2>7. Rest(t) \in Tables
    BY <2>6 DEF HoldsIn
  <2>8. current' \in Places
    <3>1. 0 \in 0 .. t.count - 1
      BY <2>4, <2>5 DEF HoldsIn, Tables
    <3>2. current' \in Handles
      BY <1>2, <2>4, <2>5, <3>1, TablesLeadToValues
    <3>3. PICK cells : segments \in Seq(Seq(cells))
      BY <1>2 DEF Sound
    <3> QED BY <3>2, <3>3, HandlesAreCells
  <2>9. frame \in F /\ frame.table = Rest(t)
    BY <2>2, <2>7
  <2>10. stack' = [stack EXCEPT ![n] = frame]
    BY <2>4
  <2> HIDE DEF frame, F, n, t
  <2>11. stack \in Seq(F)
    BY <1>1 DEF F
  <2>12. n \in DOMAIN stack
    BY <2>1 DEF n
  <2>13. stack' \in Seq(F) /\ Len(stack') = n
    BY <2>9, <2>10, <2>11, <2>12, ChangedSequence DEF n
  <2>14. \A k \in 1 .. Len(stack') : /\ HoldsIn(segments', stack'[k].table)
                                     /\ stack'[k].table.type # "sorted"
    <3> TAKE k \in 1 .. Len(stack')
    <3>1. k \in 1 .. n /\ k \in DOMAIN stack
      BY <2>11, <2>13 DEF n
    <3>2. CASE k = n
      <4>1. stack'[k] = frame
        BY <2>10, <3>1, <3>2
      <4> QED BY <1>2, <2>5, <2>6, <2>9, <4>1
    <3>3. CASE k # n
      <4>1. stack'[k] = stack[k]
        BY <2>10, <3>1, <3>3
      <4> QED BY <1>2, <3>1, <4>1 DEF VisitInv, n
    <3> QED BY <3>2, <3>3
  <2>15. \E c : stack' \in Seq([table : Tables, context : c])
    BY <2>13 DEF F
  <2> QED BY <2>4, <2>8, <2>14, <2>15 DEF VisitInv
<1>9. CASE EndVisit
  BY <1>3, <1>9 DEF EndVisit, VisitInv
<1> QED BY <1>4, <1>5, <1>6, <1>7, <1>8, <1>9 DEF Visit

(* What the program prints for a callback.                                 *)
LEMMA PrintedIndents ==
  ASSUME NEW called, Printed(called)
  PROVE  /\ called.call[1] \in Scalars => offset' = offset
         /\ called.call[1] \in Starts => offset' = offset + 1
         /\ called.call[1] \in {"array_end", "object_end"} => offset' = offset - 1
<1>1. CASE called.call[1] \in Scalars
  BY <1>1, Zenon DEF Printed, Scalars, Starts
<1>2. CASE called.call[1] \in Starts
  BY <1>2, Zenon DEF Printed, Scalars, Starts
<1>3. CASE called.call[1] \in {"array_end", "object_end"}
  BY <1>3, Zenon DEF Printed, Scalars, Starts
<1> QED BY <1>1, <1>2, <1>3 DEF Scalars, Starts

(* A callback of the program's is made, and answers that the visit goes on. *)
LEMMA FormatterIsCalled ==
  ASSUME VisitInv, visitor = FormatterVisitor, NEW type \in Callbacks, NEW rest, NEW at,
         NEW answer, NEW call, call[1] = type, Call(call, at, answer)
  PROVE  /\ answer = "CONTINUE" /\ calls' # calls
         /\ Last(calls').call = call /\ Last(calls').context = at
<1>1. visitor.vtable = Callbacks /\ visitor.answers = {"CONTINUE"}
  BY DEF FormatterVisitor
<1> DEFINE made == [call |-> call, context |-> at, skip |-> answer = "SKIP" /\ call[1] \in Starts]
<1>2. answer = "CONTINUE" /\ calls' = Append(calls, made)
  BY <1>1 DEF Call
<1>3. PICK S : calls \in Seq(S)
  BY DEF VisitInv
<1>4. made.call = call /\ made.context = at
  OBVIOUS
<1> HIDE DEF made
<1>5. Len(calls') = Len(calls) + 1 /\ Len(calls) \in Nat /\ calls'[Len(calls) + 1] = made
  BY <1>2, <1>3
<1>6. Last(calls') = made
  BY <1>5 DEF Last
<1> QED BY <1>2, <1>4, <1>5, <1>6

(* The program indents by as many composites as the visit is in.            *)
LEMMA FormatKeepsOffset ==
  ASSUME DocInv, VisitInv, visitor = FormatterVisitor, offset = Len(stack), Visit,
         IF calls' # calls THEN Printed(Last(calls')) ELSE UNCHANGED <<offset, lines>>
  PROVE  offset' = Len(stack')
<1>1. PICK contexts : stack \in Seq([table : Tables, context : contexts])
  BY DEF VisitInv
<1>2. Len(stack) \in Nat
  BY <1>1
<1>3. CASE VisitScalar
  <2>1. PICK answer \in Answers :
          Call(<<ValueType(current), ReadScalar(current)>>, context, answer)
    BY <1>3 DEF VisitScalar
  <2> DEFINE call == <<ValueType(current), ReadScalar(current)>>
  <2>2. call[1] \in Scalars /\ stack' = stack
    BY <1>3 DEF VisitScalar
  <2>3. call[1] \in Callbacks
    BY <2>2 DEF Scalars, Callbacks
  <2> HIDE DEF call
  <2>4. Call(call, context, answer)
    BY <2>1 DEF call
  <2>5. calls' # calls /\ Last(calls').call = call
    BY <2>3, <2>4, FormatterIsCalled
  <2>6. Printed(Last(calls'))
    BY <2>5
  <2> QED BY <2>2, <2>5, <2>6, PrintedIndents
<1>4. CASE VisitComposite
  <2> DEFINE call  == <<StartOf[ValueType(current)]>>
             frame == [table |-> ReadComposite(current), context |-> context]
  <2>1. PICK answer \in Answers :
          /\ Call(call, context, answer)
          /\ stack' = IF answer # "CONTINUE" THEN stack ELSE Append(stack, frame)
    BY <1>4 DEF VisitComposite
  <2>2. ValueType(current) \in {"array", "object"}
    BY <1>4 DEF VisitComposite
  <2>3. call[1] \in Starts /\ call[1] \in Callbacks
    BY <2>2 DEF StartOf, Starts, Callbacks
  <2> HIDE DEF call, frame
  <2>4. answer = "CONTINUE" /\ calls' # calls /\ Last(calls').call = call
    BY <2>1, <2>3, FormatterIsCalled
  <2>5. offset' = offset + 1
    BY <2>3, <2>4, PrintedIndents
  <2>6. stack' = Append(stack, frame)
    BY <2>1, <2>4
  <2>7. Len(stack') = Len(stack) + 1
    <3>1. \A S : \A s \in Seq(S) : \A x : Len(Append(s, x)) = Len(s) + 1
      <4> TAKE S
      <4> TAKE s \in Seq(S)
      <4> TAKE x
      <4>1. s \in Seq(S \cup {x})
        OBVIOUS
      <4> QED BY <4>1
    <3> QED BY <1>1, <2>6, <3>1
  <2> QED BY <2>5, <2>7
<1>5. CASE VisitFails
  BY <1>5 DEF VisitFails
<1>6. CASE Ascend
  <2> DEFINE n    == Len(stack)
             call == <<EndOf[Last(stack).table.type]>>
  <2>1. PICK answer \in Answers : Call(call, Last(stack).context, answer)
    BY <1>6 DEF Ascend
  <2>2. stack # <<>> /\ stack' = Front(stack)
    BY <1>6 DEF Ascend
  <2>3. n \in 1 .. n /\ n \in Nat \ {0} /\ Last(stack) = stack[n]
    BY <1>1, <2>2 DEF Last
  <2>4. stack[n].table.type \in {"array", "object"}
    <3>1. stack[n].table.type # "sorted" /\ HoldsIn(segments, stack[n].table)
      BY <2>3 DEF VisitInv
    <3> QED BY <3>1 DEF HoldsIn, Tables
  <2>5. call[1] \in {"array_end", "object_end"} /\ call[1] \in Callbacks
    BY <2>3, <2>4 DEF EndOf, Callbacks
  <2> HIDE DEF call
  <2>6. calls' # calls /\ Last(calls').call = call
    BY <2>1, <2>5, FormatterIsCalled
  <2>7. offset' = offset - 1
    BY <2>5, <2>6, PrintedIndents
  <2>8. Len(stack') = Len(stack) - 1
    BY <1>1, <2>2, <2>3, FrontOfSequence
  <2> QED BY <2>7, <2>8
<1>7. CASE Descend
  <2>1. stack' = [stack EXCEPT ![Len(stack)].table = Rest(Last(stack).table)]
        /\ calls' = calls
    BY <1>7 DEF Descend
  <2>2. Len(stack') = Len(stack)
    BY <1>1, <2>1
  <2> QED BY <2>1, <2>2
<1>8. CASE EndVisit
  BY <1>8 DEF EndVisit
<1> QED BY <1>3, <1>4, <1>5, <1>6, <1>7, <1>8 DEF Visit

(* Every step of a client keeps the invariant.                             *)
LEMMA NextKeeps == IInv /\ [Next]_vars => IInv'
<1> SUFFICES ASSUME IInv, [Next]_vars PROVE IInv'
  OBVIOUS
<1>1. DocInv /\ VisitInv /\ MainInv
  BY DEF IInv
<1>2. ASSUME UNCHANGED docVars PROVE DocInv'
  BY <1>1, <1>2 DEF docVars, DocInv
<1>3. ASSUME UNCHANGED visitVars, \A t : HoldsIn(segments, t) => HoldsIn(segments', t)
      PROVE  VisitInv'
  BY <1>1, <1>3 DEF visitVars, VisitInv
<1>4. ASSUME UNCHANGED <<docVars, visitVars>> PROVE DocInv' /\ VisitInv'
  <2>1. segments' = segments
    BY <1>4 DEF docVars
  <2> QED BY <1>2, <1>3, <1>4, <2>1
<1>5. ASSUME UNCHANGED mainVars, UNCHANGED <<stack, visitor>>, segments # <<>> => segments' # <<>>
      PROVE  MainInv'
  BY <1>1, <1>5 DEF mainVars, MainInv
<1>6. CASE Navigate /\ UNCHANGED <<visitVars, mainVars>>
  <2>1. /\ DocInv' /\ (segments # <<>> => segments' # <<>>)
        /\ \A t : HoldsIn(segments, t) => HoldsIn(segments', t)
    BY <1>1, <1>6, NavigateKeeps
  <2> QED BY <1>3, <1>5, <1>6, <2>1 DEF IInv, visitVars
<1>7. CASE VisitorSteps
  <2>1. Visit /\ UNCHANGED docVars /\ UNCHANGED mainVars /\ client = "visitor"
    BY <1>7 DEF VisitorSteps
  <2>2. VisitInv'
    BY <1>1, <2>1, VisitKeeps
  <2>3. MainInv'
    BY <1>1, <2>1 DEF MainInv, mainVars, docVars
  <2> QED BY <1>2, <2>1, <2>2, <2>3 DEF IInv
<1>8. CASE CallbackSorts /\ UNCHANGED <<handle, tables, tree, visitVars, mainVars>>
  <2>1. PICK h \in Handles : Sort(h)
    BY <1>8 DEF CallbackSorts
  <2>2. h \in Places /\ HasCell(segments, h)
    <3>1. PICK cells : segments \in Seq(Seq(cells))
      BY <1>1 DEF DocInv, Sound
    <3> QED BY <3>1, HandlesAreCells
  <2>3. /\ Sound(segments') /\ SortedObjects(segments', sorted') /\ segments' # <<>>
        /\ \A g : HasCell(segments', g) <=> HasCell(segments, g)
        /\ \A t : HoldsIn(segments, t) => HoldsIn(segments', t)
    BY <1>1, <2>1, <2>2, SortKeeps DEF DocInv
  <2>4. segments # <<>>
    BY <2>2 DEF HasCell
  <2>5. DocInv'
    BY <1>1, <1>8, <2>3, <2>4 DEF DocInv
  <2> QED BY <1>3, <1>5, <1>8, <2>3, <2>5 DEF IInv, visitVars
<1>9. CASE FormatterSteps
  <2>1. client = "formatter" /\ visitor = FormatterVisitor /\ offset = Len(stack)
    BY <1>1, <1>9 DEF FormatterSteps, MainInv
  <2>2. CASE MainGoesOn
    <3>1. MainInv'
      BY <1>1, <2>1, <2>2 DEF MainGoesOn, MainInv, docVars, visitVars
    <3> QED BY <1>4, <2>2, <3>1 DEF IInv, MainGoesOn
  <2>3. CASE Format
    <3>1. /\ Visit /\ UNCHANGED <<docVars, client, main, owned>> /\ UNCHANGED docVars
          /\ IF calls' # calls THEN Printed(Last(calls')) ELSE UNCHANGED <<offset, lines>>
      BY <2>3 DEF Format
    <3>2. visitor' = visitor
      BY <3>1 DEF Visit
    <3>3. VisitInv'
      BY <1>1, <3>1, VisitKeeps
    <3>4. offset' = Len(stack')
      BY <1>1, <2>1, <3>1, FormatKeepsOffset
    <3>5. MainInv'
      BY <1>1, <2>1, <3>1, <3>2, <3>4 DEF MainInv, docVars
    <3> QED BY <1>2, <3>1, <3>3, <3>5 DEF IInv
  <2>4. CASE VisitReturns
    <3>1. MainInv'
      BY <1>1, <2>1, <2>4 DEF VisitReturns, MainInv, docVars, visitVars
    <3> QED BY <1>4, <2>4, <3>1 DEF IInv, VisitReturns
  <2>5. CASE ErrorCleanup
    <3>1. MainInv'
      BY <1>1, <2>1, <2>5 DEF ErrorCleanup, MainInv, docVars, visitVars
    <3> QED BY <1>4, <2>5, <3>1 DEF IInv, ErrorCleanup
  <2> QED BY <1>9, <2>2, <2>3, <2>4, <2>5 DEF FormatterSteps
<1>10. CASE UNCHANGED vars
  <2>1. UNCHANGED <<docVars, visitVars>> /\ UNCHANGED mainVars /\ UNCHANGED <<stack, visitor>>
        /\ segments' = segments
    BY <1>10 DEF vars, visitVars, docVars
  <2> QED BY <1>4, <1>5, <2>1 DEF IInv
<1> QED BY <1>6, <1>7, <1>8, <1>9, <1>10 DEF Next

(* The invariant holds whatever the clients do.                            *)
LEMMA Invariant == Spec => []IInv
BY InitHolds, NextKeeps, PTL DEF Spec

----------------------------------------------------------------------------
(* Theorems.                                                               *)

(* Every variable has its type in documents of any size: all tables that    *)
(* somebody holds are slices of table cells, whoever has sorted objects     *)
(* since, and what is marked as sorted are objects (segment.h:418).        *)
THEOREM TablesAreSlices == Spec => []TypeOK
<1>1. ASSUME IInv PROVE TypeOK
  <2>1. DocInv /\ VisitInv /\ MainInv
    BY <1>1 DEF IInv
  <2>2. sorted \subseteq {h \in Handles : ValueType(h) = "object"}
    <3>1. PICK cells : segments \in Seq(Seq(cells))
      BY <2>1 DEF DocInv, Sound
    <3>2. \A h \in sorted : h \in Places /\ HasTag(segments, h, {"object"})
      BY <2>1 DEF DocInv, SortedObjects
    <3>3. \A h \in sorted : h \in Handles
      BY <3>1, <3>2, HandlesAreCells DEF HasTag
    <3>4. \A h \in sorted : ValueType(h) = "object"
      BY <2>1, <3>2, TypesOfValues DEF DocInv
    <3> QED BY <3>3, <3>4
  <2>3. handle = NotFound \/ "document" \notin owned \/ tree = Missing \/ Readable(handle)
    BY <2>1 DEF DocInv, MainInv, Readable
  <2>4. ASSUME NEW t, HoldsIn(segments, t)
        PROVE  IsTable(t)
    BY <2>4 DEF HoldsIn, LeadsToElements, IsTable, HasTag, TableCell, OffsetsOf, Cell
  <2>5. \A s \in DOMAIN tables : IsTable(tables[s])
    BY <2>1, <2>4 DEF DocInv
  <2>6. \A k \in DOMAIN stack : IsTable(stack[k].table)
    <3>1. DOMAIN stack = 1 .. Len(stack)
      BY <2>1 DEF VisitInv
    <3> QED BY <2>1, <2>4, <3>1 DEF VisitInv
  <2>7. offset \in Nat
    <3>1. Len(stack) \in Nat
      BY <2>1 DEF VisitInv
    <3> QED BY <2>1, <3>1 DEF MainInv
  <2> QED BY <2>1, <2>2, <2>3, <2>5, <2>6, <2>7 DEF TypeOK, VisitInv, MainInv
<1> QED BY <1>1, Invariant, PTL

(* A table that the client keeps is in order from its first sort on, so a   *)
(* key is found exactly if an element that is left has it (segment.h:467). *)
THEOREM KeysOfObjectsAreFound == Spec => []KeysAreFound
<1>1. ASSUME IInv PROVE KeysAreFound
  <2> SUFFICES ASSUME NEW s \in DOMAIN tables, NEW key \in Keys, tables[s].type = "sorted"
               PROVE  LET t     == tables[s]
                          named == {o \in {OffsetAt(t, k) : k \in 0 .. t.count - 1} :
                                      KeyAt(t.segment_no, o) = key}
                      IN  Search(t, key).handle
                            \in IF named = {} THEN {NotFound}
                                ELSE {<<t.segment_no, o + 1>> : o \in named}
    BY DEF KeysAreFound
  <2> DEFINE t == tables[s]
             named == {o \in {OffsetAt(t, k) : k \in 0 .. t.count - 1} :
                         KeyAt(t.segment_no, o) = key}
  <2>1. key \in Seq(Nat) /\ HoldsIn(segments, t) /\ t \in Tables /\ Sound(segments)
    BY <1>1, KeysAssumption DEF IInv, DocInv, HoldsIn
  <2>2. Finds(t, key, Search(t, key).handle)
    BY <2>1, HeldAreOrdered, SearchFinds
  <2>3. \A k \in 0 .. t.count - 1 :
          ElementKey(t, k) = key <=> OffsetAt(t, k) \in named
    BY DEF ElementKey
  <2> HIDE DEF t
  <2>4. CASE /\ Search(t, key).handle = NotFound
             /\ \A k \in 0 .. t.count - 1 : ElementKey(t, k) # key
    <3>1. named = {}
      BY <2>4 DEF ElementKey
    <3> HIDE DEF named
    <3> QED BY <2>4, <3>1 DEF t, named
  <2>5. CASE \E k \in 0 .. t.count - 1 :
               /\ ElementKey(t, k) = key
               /\ Search(t, key).handle = <<t.segment_no, OffsetAt(t, k) + 1>>
    <3>1. PICK k \in 0 .. t.count - 1 :
            /\ ElementKey(t, k) = key
            /\ Search(t, key).handle = <<t.segment_no, OffsetAt(t, k) + 1>>
      BY <2>5
    <3>2. OffsetAt(t, k) \in named
      BY <2>3, <3>1
    <3> HIDE DEF named
    <3>3. Search(t, key).handle \in {<<t.segment_no, o + 1>> : o \in named} /\ named # {}
      BY <3>1, <3>2
    <3> QED BY <3>3 DEF t, named
  <2> QED BY <2>2, <2>4, <2>5 DEF Finds
<1> QED BY <1>1, Invariant, PTL

(* README.md's "indexing an object is O(log(n))": no search of any table    *)
(* that a client keeps reads more keys than it takes to halve it.          *)
THEOREM ObjectsAreIndexedFast == Spec => []LookupsAreLogarithmic
<1>1. ASSUME IInv PROVE LookupsAreLogarithmic
  <2> SUFFICES ASSUME NEW s \in DOMAIN tables, tables[s].count > 0, NEW key \in Keys
               PROVE  2 ^ (Search(tables[s], key).probes - 1) <= tables[s].count
    BY DEF LookupsAreLogarithmic
  <2>1. tables[s] \in Tables /\ key \in Seq(Nat)
    BY <1>1, KeysAssumption DEF IInv, DocInv, HoldsIn
  <2>2. Counted(Search(tables[s], key), tables[s].count)
    BY <2>1, SearchIsCounted
  <2> QED BY <2>2 DEF Counted
<1> QED BY <1>1, Invariant, PTL
=============================================================================
