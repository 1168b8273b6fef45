------------------------ MODULE SceneStructureProofs ------------------------
(***************************************************************************)
(* Theorems about the ops that restructure a scene (object/kernel/apply.rs,*)
(* fractional.rs) and the Batches the shell makes of them (grouping.rs):   *)
(* keys can always be given, no object is above itself, an edit stores     *)
(* what it changes, grouping does not restack, and the anchors of others   *)
(* stay on the nodes they name when contours are split and merged.         *)
(*                                                                         *)
(* In this order: the string order of keys is a strict total order, and    *)
(* generate_key_between stays between its bounds; the paint order has each *)
(* object of a set at the rank it has there; what each op changes and keeps*)
(* of a well-formed scene; what a Batch does, op by op; that whatever the  *)
(* shell authors fits; the invariant SceneInv; and where anchors go.       *)
(***************************************************************************)
EXTENDS SceneStructure, TLAPS, FiniteSetTheorems, SequenceTheorems

(* A set of natural numbers that is not empty has a least one. *)
LEMMA LeastExists ==
    ASSUME NEW T \in SUBSET Nat, T # {}
    PROVE  \E x \in T : \A y \in T : x <= y
<1>1. \E x \in T : \A y \in T : ~(<<y, x>> \in OpToRel(<, Nat))
  BY NatLessThanWellFounded, WFMin
<1>2. PICK x \in T : \A y \in T : ~(<<y, x>> \in OpToRel(<, Nat))
  BY <1>1
<1>3. \A y \in T : ~(y < x)
  BY <1>2, Zenon DEF OpToRel
<1> QED BY <1>3

(* A stretch of a sequence, element by element. *)
LEMMA Stretch ==
    ASSUME NEW U, NEW s \in Seq(U), NEW m \in Nat \ {0}, NEW n \in 0..Len(s)
    PROVE  /\ SubSeq(s, m, n) \in Seq(U)
           /\ Len(SubSeq(s, m, n)) = IF m <= n THEN n - m + 1 ELSE 0
           /\ \A i \in 1..Len(SubSeq(s, m, n)) : SubSeq(s, m, n)[i] = s[m + i - 1]
<1>1. Len(s) \in Nat /\ \A i \in m..n : s[i] \in U
  BY ElementOfSeq, LenProperties
<1>2. m \in Int /\ n \in Int
  OBVIOUS
<1> QED BY <1>1, <1>2, SubSeqProperties

(* Two sequences one after the other, element by element. *)
LEMMA Joined ==
    ASSUME NEW U, NEW s \in Seq(U), NEW t \in Seq(U)
    PROVE  /\ s \o t \in Seq(U)
           /\ Len(s \o t) = Len(s) + Len(t)
           /\ \A i \in 1..(Len(s) + Len(t)) :
                 (s \o t)[i] = IF i <= Len(s) THEN s[i] ELSE t[i - Len(s)]
BY ConcatProperties

(* The same, each of the two by its own places. *)
LEMMA JoinedParts ==
    ASSUME NEW U, NEW s \in Seq(U), NEW t \in Seq(U)
    PROVE  /\ \A i \in 1..Len(s) : (s \o t)[i] = s[i]
           /\ \A i \in 1..Len(t) : (s \o t)[Len(s) + i] = t[i]
<1>1. Len(s) \in Nat /\ Len(t) \in Nat
  BY LenProperties
<1> DEFINE k == s \o t
<1>2. \A i \in 1..(Len(s) + Len(t)) : k[i] = IF i <= Len(s) THEN s[i] ELSE t[i - Len(s)]
  BY Joined
<1> HIDE DEF k
<1>3. \A i \in 1..Len(s) : k[i] = s[i]
  BY <1>1, <1>2
<1>4. ASSUME NEW i \in 1..Len(t) PROVE k[Len(s) + i] = t[i]
  <2>1. PICK j \in 1..(Len(s) + Len(t)) : j = Len(s) + i
    BY <1>1
  <2>2. ~(j <= Len(s)) /\ j - Len(s) = i
    BY <1>1, <2>1
  <2>3. k[j] = t[j - Len(s)]
    BY <1>2, <2>2
  <2> QED BY <2>1, <2>2, <2>3
<1> QED BY <1>3, <1>4 DEF k

-----------------------------------------------------------------------------
(* The order of keys *)

(* Where a and b part: a ends there, or has the smaller number. *)
PartAt(a, b, n) ==
    /\ n \in 1..Len(b) /\ n <= Len(a) + 1
    /\ \A m \in 1..(n - 1) : a[m] = b[m]
    /\ n <= Len(a) => a[n] < b[n]

(* The string order compares the first place where two keys part. *)
LEMMA BeforeParts ==
    ASSUME NEW a \in Seq(Int), NEW b \in Seq(Int)
    PROVE  Before(a, b) <=> \E n \in 1..Len(b) : PartAt(a, b, n)
<1>1. /\ Len(a) \in Nat /\ Len(b) \in Nat
      /\ DOMAIN a = 1..Len(a) /\ DOMAIN b = 1..Len(b)
      /\ \A i \in 1..Len(a) : a[i] \in Int
      /\ \A i \in 1..Len(b) : b[i] \in Int
  BY ElementOfSeq, LenProperties
<1>2. SubSeq(a, 1, Len(a)) = a
  BY SubSeqFull
<1>3. ASSUME IsStrictPrefix(a, b)
      PROVE  \E n \in 1..Len(b) : PartAt(a, b, n)
  <2>1. Len(a) <= Len(b) /\ a = SubSeq(b, 1, Len(a)) /\ a # b
    BY <1>2, <1>3 DEF IsStrictPrefix, IsPrefix
  <2>2. Len(a) # Len(b)
    BY <2>1, SubSeqFull
  <2>3. Len(a) + 1 \in 1..Len(b)
    <3>1. Len(a) <= Len(b)
      BY <2>1
    <3>2. \A x, y \in Nat : x <= y /\ x # y => x + 1 \in 1..y
      OBVIOUS
    <3> QED BY <1>1, <2>2, <3>1, <3>2
  <2>4. \A i \in 1..Len(a) : SubSeq(b, 1, Len(a))[i] = b[i]
    BY <1>1, <2>1, Stretch
  <2>5. PartAt(a, b, Len(a) + 1)
    BY <1>1, <2>1, <2>3, <2>4 DEF PartAt
  <2> QED BY <2>3, <2>5
<1>4. ASSUME NEW n \in 1..Len(b), PartAt(a, b, n), n > Len(a)
      PROVE  IsStrictPrefix(a, b)
  <2>1. n = Len(a) + 1 /\ Len(a) < Len(b)
    BY <1>1, <1>4 DEF PartAt
  <2>2. /\ SubSeq(b, 1, Len(a)) \in Seq(Int) /\ Len(SubSeq(b, 1, Len(a))) = Len(a)
        /\ \A i \in 1..Len(a) : SubSeq(b, 1, Len(a))[i] = b[i]
    BY <1>1, <2>1, Stretch
  <2>3. \A i \in 1..Len(a) : a[i] = b[i]
    BY <1>1, <1>4, <2>1 DEF PartAt
  <2>4. a = SubSeq(b, 1, Len(a))
    BY <2>2, <2>3, SeqEqual
  <2> QED BY <1>1, <1>2, <2>1, <2>4 DEF IsStrictPrefix, IsPrefix
<1>5. ASSUME NEW n \in DOMAIN a \cap DOMAIN b, a[n] < b[n],
             \A m \in 1..(n - 1) : a[m] = b[m]
      PROVE  \E k \in 1..Len(b) : PartAt(a, b, k)
  BY <1>1, <1>5 DEF PartAt
<1>6. ASSUME NEW n \in 1..Len(b), PartAt(a, b, n), n <= Len(a)
      PROVE  \E k \in DOMAIN a \cap DOMAIN b :
                a[k] < b[k] /\ \A m \in 1..(k - 1) : a[m] = b[m]
  BY SMTT(30), <1>1, <1>6 DEF PartAt
<1>7. ASSUME Before(a, b)
      PROVE  \E n \in 1..Len(b) : PartAt(a, b, n)
  <2>1. \/ IsStrictPrefix(a, b)
        \/ \E n \in DOMAIN a \cap DOMAIN b :
              a[n] < b[n] /\ \A m \in 1..(n - 1) : a[m] = b[m]
    BY <1>7 DEF Before
  <2> QED BY <1>3, <1>5, <2>1
<1>8. ASSUME NEW n \in 1..Len(b), PartAt(a, b, n)
      PROVE  Before(a, b)
  <2>1. n \in Nat /\ (n > Len(a) \/ n <= Len(a))
    BY <1>1
  <2>2. CASE n > Len(a)
    BY <1>4, <1>8, <2>2 DEF Before
  <2>3. CASE n <= Len(a)
    <3>1. \E k \in DOMAIN a \cap DOMAIN b :
             a[k] < b[k] /\ \A m \in 1..(k - 1) : a[m] = b[m]
      BY <1>6, <1>8, <2>3
    <3> QED BY <3>1 DEF Before
  <2> QED BY <2>1, <2>2, <2>3
<1> QED BY <1>7, <1>8

(* The string order is a strict total order. *)
LEMMA BeforeIsTransitive ==
    ASSUME NEW a \in Seq(Int), NEW b \in Seq(Int), NEW c \in Seq(Int),
           Before(a, b), Before(b, c)
    PROVE  Before(a, c)
<1>1. PICK n \in 1..Len(b) : PartAt(a, b, n)
  BY BeforeParts
<1>2. PICK m \in 1..Len(c) : PartAt(b, c, m)
  BY BeforeParts
<1>3. /\ Len(a) \in Nat /\ Len(b) \in Nat /\ Len(c) \in Nat
      /\ \A i \in 1..Len(a) : a[i] \in Int
      /\ \A i \in 1..Len(b) : b[i] \in Int
      /\ \A i \in 1..Len(c) : c[i] \in Int
  BY ElementOfSeq, LenProperties
<1>4. /\ n \in Nat /\ 1 <= n /\ n <= Len(b) /\ n <= Len(a) + 1
      /\ m \in Nat /\ 1 <= m /\ m <= Len(c) /\ m <= Len(b) + 1
  BY <1>1, <1>2, <1>3 DEF PartAt
<1>5. /\ \A i \in 1..(n - 1) : a[i] = b[i]
      /\ \A i \in 1..(m - 1) : b[i] = c[i]
      /\ n <= Len(a) => a[n] < b[n]
      /\ m <= Len(b) => b[m] < c[m]
  BY <1>1, <1>2 DEF PartAt
<1>6. CASE n <= m
  <2>1. n \in 1..Len(c) /\ n <= Len(a) + 1
    BY <1>3, <1>4, <1>6
  <2>2. \A i \in 1..(n - 1) : a[i] = c[i]
    BY <1>4, <1>5, <1>6
  <2>3. ASSUME n <= Len(a) PROVE a[n] < c[n]
    <3>1. a[n] \in Int /\ b[n] \in Int /\ c[n] \in Int /\ a[n] < b[n]
      BY <1>3, <1>4, <1>5, <2>1, <2>3
    <3>2. CASE n = m
      BY <1>3, <1>4, <1>5, <3>1, <3>2
    <3>3. CASE n < m
      BY <1>4, <1>5, <3>1, <3>3
    <3> QED BY <1>4, <1>6, <3>2, <3>3
  <2> QED BY <2>1, <2>2, <2>3, BeforeParts DEF PartAt
<1>7. CASE m < n
  <2>1. m \in 1..Len(c) /\ m <= Len(a) /\ m <= Len(b)
    BY SMTT(30), <1>3, <1>4, <1>7
  <2>2. \A i \in 1..(m - 1) : a[i] = c[i]
    BY <1>4, <1>5, <1>7
  <2>3. a[m] < c[m]
    BY <1>4, <1>5, <1>7, <2>1
  <2>4. m <= Len(a) + 1
    BY <1>3, <1>4, <2>1
  <2> QED BY <2>1, <2>2, <2>3, <2>4, BeforeParts DEF PartAt
<1> QED BY <1>4, <1>6, <1>7

(* No key is before itself, and no two are before each other. *)
LEMMA BeforeIsStrict ==
    ASSUME NEW a \in Seq(Int), NEW b \in Seq(Int), Before(a, b)
    PROVE  a # b /\ ~Before(b, a)
<1>1. ASSUME NEW c \in Seq(Int), Before(c, c) PROVE FALSE
  <2>1. PICK n \in 1..Len(c) : PartAt(c, c, n)
    BY <1>1, BeforeParts
  <2>2. c[n] \in Int
    BY ElementOfSeq
  <2> QED BY <2>1, <2>2 DEF PartAt
<1> QED BY <1>1, BeforeIsTransitive

(* Of two keys one is before the other. *)
LEMMA BeforeIsTotal ==
    ASSUME NEW a \in Seq(Int), NEW b \in Seq(Int), a # b
    PROVE  Before(a, b) \/ Before(b, a)
<1> DEFINE D == {k \in Nat \ {0} : k > Len(a) \/ k > Len(b) \/ a[k] # b[k]}
<1>1. /\ Len(a) \in Nat /\ Len(b) \in Nat
      /\ \A i \in 1..Len(a) : a[i] \in Int
      /\ \A i \in 1..Len(b) : b[i] \in Int
  BY ElementOfSeq, LenProperties
<1>2. D \in SUBSET Nat /\ Len(a) + 1 \in D
  BY <1>1
<1>3. PICK n \in D : \A k \in D : n <= k
  <2> HIDE DEF D
  <2> QED BY <1>2, LeastExists
<1>4. \A m \in 1..(n - 1) : m <= Len(a) /\ m <= Len(b) /\ a[m] = b[m]
  BY <1>3
<1>5. n \in Nat \ {0} /\ n <= Len(a) + 1 /\ n <= Len(b) + 1
  BY <1>1, <1>4
<1>6. CASE n <= Len(a) /\ n <= Len(b)
  <2>1. a[n] < b[n] \/ b[n] < a[n]
    BY <1>1, <1>3, <1>5, <1>6
  <2>2. PartAt(a, b, n) \/ PartAt(b, a, n)
    BY <1>1, <1>4, <1>5, <1>6, <2>1 DEF PartAt
  <2> QED BY <1>5, <1>6, <2>2, BeforeParts
<1>7. CASE n > Len(a) /\ n <= Len(b)
  <2>1. PartAt(a, b, n)
    BY <1>1, <1>4, <1>5, <1>7 DEF PartAt
  <2> QED BY <1>5, <1>7, <2>1, BeforeParts
<1>8. CASE n <= Len(a) /\ n > Len(b)
  <2>1. PartAt(b, a, n)
    BY <1>1, <1>4, <1>5, <1>8 DEF PartAt
  <2> QED BY <1>5, <1>8, <2>1, BeforeParts
<1>9. CASE n > Len(a) /\ n > Len(b)
  <2>1. Len(a) = Len(b) /\ n - 1 = Len(a)
    BY <1>1, <1>5, <1>9
  <2>2. \A i \in 1..Len(a) : a[i] = b[i]
    BY <1>4, <2>1
  <2> QED BY <2>1, <2>2, SeqEqual
<1> QED BY <1>1, <1>5, <1>6, <1>7, <1>8, <1>9

-----------------------------------------------------------------------------
(* What lies between two fractions *)

USE KeyAssumption

Digit == 0..(Digits - 1)

(* The digits of a fraction are numbers. *)
LEMMA DigitsAreInts ==
    ASSUME NEW s \in Seq(Digit)
    PROVE  /\ s \in Seq(Int) /\ Len(s) \in Nat
           /\ \A i \in 1..Len(s) : s[i] \in Digit /\ s[i] \in Int
<1>1. Digit \subseteq Int
  BY DEF Digit
<1> QED BY <1>1, SeqMonotonic, LenProperties, ElementOfSeq

(* A digit halfway to the top is above it, when there is room. *)
LEMMA HalfwayUp ==
    ASSUME NEW d \in Digit, Digits - d > 1
    PROVE  (d + Digits + 1) \div 2 \in Digit /\ (d + Digits + 1) \div 2 > d
BY DEF Digit

(* A digit halfway between two that are not neighbours is between them. *)
LEMMA Halfway ==
    ASSUME NEW d \in Digit, NEW e \in Digit, e - d > 1
    PROVE  LET h == (d + e + 1) \div 2 IN h \in Digit /\ d < h /\ h < e
BY DEF Digit

(* A prefix and one more element. *)
LEMMA PrefixThen ==
    ASSUME NEW U, NEW s \in Seq(U), NEW n \in 0..Len(s), NEW x \in U
    PROVE  LET k == SubSeq(s, 1, n) \o <<x>> IN
           /\ k \in Seq(U) /\ Len(k) = n + 1 /\ k[n + 1] = x
           /\ \A i \in 1..n : k[i] = s[i]
<1> DEFINE p == SubSeq(s, 1, n)
<1>1. Len(s) \in Nat /\ n \in Nat
  BY LenProperties
<1>2. p \in Seq(U) /\ Len(p) = n /\ \A i \in 1..n : p[i] = s[i]
  BY <1>1, Stretch
<1> HIDE DEF p
<1>3. <<x>> \in Seq(U) /\ Len(<<x>>) = 1 /\ <<x>>[1] = x
  OBVIOUS
<1>4. /\ p \o <<x>> \in Seq(U) /\ Len(p \o <<x>>) = n + 1
      /\ \A i \in 1..(n + 1) :
            (p \o <<x>>)[i] = IF i <= n THEN p[i] ELSE <<x>>[i - n]
  BY <1>2, <1>3, Joined
<1>5. n + 1 \in 1..(n + 1) /\ n + 1 - n = 1 /\ ~(n + 1 <= n)
  BY <1>1
<1>6. \A i \in 1..n : i \in 1..(n + 1) /\ i <= n
  BY <1>1
<1>7. (p \o <<x>>)[n + 1] = x
  BY <1>3, <1>4, <1>5
<1>8. \A i \in 1..n : (p \o <<x>>)[i] = s[i]
  BY <1>2, <1>4, <1>6
<1> QED BY <1>4, <1>7, <1>8 DEF p

(* The open end leaves room above every fraction. *)
LEMMA MidpointAboveFits ==
    ASSUME NEW a \in Seq(Digit)
    PROVE  /\ MidpointAbove(a) \in Seq(Digit)
           /\ MidpointAbove(a) # <<>>
           /\ MidpointAbove(a)[Len(MidpointAbove(a))] # 0
           /\ Before(a, MidpointAbove(a))
<1> DEFINE digit(n) == IF n \in DOMAIN a THEN a[n] ELSE 0
           Room(m) == /\ Digits - digit(m) > 1
                      /\ \A l \in 1..(m - 1) : Digits - digit(l) <= 1
           T == {m \in 1..(Len(a) + 1) : Digits - digit(m) > 1}
           n == CHOOSE m \in 1..(Len(a) + 1) : Room(m)
           h == (digit(n) + Digits + 1) \div 2
           p == SubSeq(a, 1, n - 1)
           k == p \o <<h>>
<1>1. /\ a \in Seq(Int) /\ Len(a) \in Nat /\ DOMAIN a = 1..Len(a)
      /\ \A i \in 1..Len(a) : a[i] \in Digit /\ a[i] \in Int
  BY DigitsAreInts, LenProperties
<1>2. \A m \in 1..(Len(a) + 1) : digit(m) \in Digit
  BY <1>1 DEF Digit
<1>3. T \in SUBSET Nat /\ Len(a) + 1 \in T
  BY <1>1
<1>4. \E m \in 1..(Len(a) + 1) : Room(m)
  <2>1. PICK m \in T : \A x \in T : m <= x
    <3> HIDE DEF T
    <3> QED BY <1>3, LeastExists
  <2>2. \A l \in 1..(m - 1) : l \in 1..(Len(a) + 1) /\ l \notin T
    BY <1>1, <2>1
  <2>3. \A l \in 1..(m - 1) : Digits - digit(l) <= 1
    BY <1>2, <2>2 DEF Digit
  <2> QED BY <2>1, <2>3
<1>5. n \in 1..(Len(a) + 1) /\ Room(n)
  <2> HIDE DEF Room
  <2> QED BY <1>4
<1>6. MidpointAbove(a) = k
  BY DEF MidpointAbove
<1> HIDE DEF n
<1>7. h \in Digit /\ h > digit(n) /\ digit(n) \in Digit
  BY <1>2, <1>5, HalfwayUp
<1>8. n - 1 \in 0..Len(a) /\ n \in Nat \ {0}
  BY <1>1, <1>5
<1>9. /\ k \in Seq(Digit) /\ Len(k) = n /\ k[n] = h
      /\ \A i \in 1..(n - 1) : k[i] = a[i]
  <2> HIDE DEF h, digit
  <2>1. n - 1 + 1 = n
    BY <1>8
  <2> QED BY <1>7, <1>8, <2>1, PrefixThen
<1>10. k \in Seq(Int) /\ k[n] \in Int
  <2> HIDE DEF h, k
  <2>1. h \in Int
    BY <1>7 DEF Digit
  <2> QED BY <1>9, <2>1, DigitsAreInts
<1> HIDE DEF k
<1>12. PartAt(a, k, n)
  BY <1>1, <1>5, <1>7, <1>8, <1>9 DEF PartAt, digit
<1>13. Before(a, k)
  BY <1>1, <1>8, <1>9, <1>10, <1>12, BeforeParts
<1>14. k # <<>> /\ h # 0
  BY <1>7, <1>8, <1>9 DEF Digit
<1> QED BY <1>6, <1>9, <1>13, <1>14

(* Before a common prefix, the order is that of what follows. *)
LEMMA PrefixBefore ==
    ASSUME NEW p \in Seq(Int), NEW s \in Seq(Int), NEW t \in Seq(Int), Before(s, t)
    PROVE  Before(p \o s, p \o t)
<1> DEFINE a == p \o s
           b == p \o t
           n == Len(p)
<1>1. n \in Nat /\ Len(s) \in Nat /\ Len(t) \in Nat
  BY LenProperties
<1>2. /\ a \in Seq(Int) /\ Len(a) = n + Len(s)
      /\ \A i \in 1..(n + Len(s)) : a[i] = IF i <= n THEN p[i] ELSE s[i - n]
      /\ \A i \in 1..Len(s) : a[n + i] = s[i]
  BY Joined, JoinedParts
<1>3. /\ b \in Seq(Int) /\ Len(b) = n + Len(t)
      /\ \A i \in 1..(n + Len(t)) : b[i] = IF i <= n THEN p[i] ELSE t[i - n]
      /\ \A i \in 1..Len(t) : b[n + i] = t[i]
  BY Joined, JoinedParts
<1> HIDE DEF a, b, n
<1>4. PICK m \in 1..Len(t) : PartAt(s, t, m)
  BY BeforeParts
<1>5. /\ m \in Nat /\ 1 <= m /\ m <= Len(t) /\ m <= Len(s) + 1
      /\ \A i \in 1..(m - 1) : s[i] = t[i]
      /\ m <= Len(s) => s[m] < t[m]
  BY <1>1, <1>4 DEF PartAt
<1>6. n + m \in 1..Len(b) /\ n + m <= Len(a) + 1
  BY <1>1, <1>2, <1>3, <1>5
<1>7. ASSUME NEW j \in 1..(n + m - 1)
      PROVE  a[j] = b[j]
  <2>1. j \in 1..(n + Len(s)) /\ j \in 1..(n + Len(t))
    BY <1>1, <1>5
  <2>2. CASE j <= n
    BY <1>2, <1>3, <2>1, <2>2
  <2>3. CASE j > n
    <3>1. j - n \in 1..(m - 1) /\ ~(j <= n)
      BY <1>1, <1>5, <2>3
    <3>2. a[j] = s[j - n] /\ b[j] = t[j - n]
      BY <1>2, <1>3, <2>1, <3>1
    <3> QED BY <1>5, <3>1, <3>2
  <2> QED BY <1>1, <2>2, <2>3
<1>8. ASSUME n + m <= Len(a) PROVE a[n + m] < b[n + m]
  <2>1. m \in 1..Len(s) /\ m \in 1..Len(t) /\ m <= Len(s)
    BY <1>1, <1>2, <1>5, <1>8
  <2>2. a[n + m] = s[m] /\ b[n + m] = t[m]
    BY <1>2, <1>3, <2>1
  <2> QED BY <1>5, <2>1, <2>2
<1>9. PartAt(a, b, n + m)
  BY <1>1, <1>5, <1>6, <1>7, <1>8 DEF PartAt
<1>10. Before(a, b)
  BY <1>2, <1>3, <1>6, <1>9, BeforeParts
<1> QED BY <1>10 DEF a, b

(* And the other way round. *)
LEMMA BeforePrefix ==
    ASSUME NEW p \in Seq(Int), NEW s \in Seq(Int), NEW t \in Seq(Int),
           Before(p \o s, p \o t)
    PROVE  Before(s, t)
<1>1. p \o s \in Seq(Int) /\ p \o t \in Seq(Int)
  BY Joined
<1>2. p \o s # p \o t
  BY <1>1, BeforeIsStrict
<1>3. Before(t, s) => Before(p \o t, p \o s)
  BY PrefixBefore
<1> QED BY <1>1, <1>2, <1>3, BeforeIsTotal, BeforeIsStrict

(* A sequence is its first n elements and the others. *)
LEMMA Cut ==
    ASSUME NEW U, NEW a \in Seq(U), NEW n \in 0..Len(a)
    PROVE  a = SubSeq(a, 1, n) \o SubSeq(a, n + 1, Len(a))
<1>1. Len(a) \in Nat /\ 1 \in 1..(Len(a) + 1) /\ n \in (1 - 1)..Len(a)
      /\ Len(a) \in n..Len(a)
  BY LenProperties
<1>2. SubSeq(a, 1, n) \o SubSeq(a, n + 1, Len(a)) = SubSeq(a, 1, Len(a))
  BY <1>1, ConcatAdjacentSubSeq
<1> QED BY <1>2, SubSeqFull

(* The midpoint of two fractions, the second without a zero at its end, is a
   fraction between them, without a zero at its end.                       *)
LEMMA MidpointFits ==
    ASSUME NEW a \in Seq(Digit), NEW b \in Seq(Digit), Before(a, b), b[Len(b)] # 0
    PROVE  /\ Midpoint(a, b) \in Seq(Digit)
           /\ Midpoint(a, b) # <<>>
           /\ Midpoint(a, b)[Len(Midpoint(a, b))] # 0
           /\ Before(a, Midpoint(a, b)) /\ Before(Midpoint(a, b), b)
<1> DEFINE digit(n) == IF n \in DOMAIN a THEN a[n] ELSE 0
           First(m) == /\ digit(m) # b[m]
                       /\ \A l \in 1..(m - 1) : digit(l) = b[l]
           T == {m \in 1..Len(b) : digit(m) # b[m]}
           n == CHOOSE m \in DOMAIN b : First(m)
           prefix == SubSeq(b, 1, n - 1)
           rest == SubSeq(a, n + 1, Len(a))
           k == Midpoint(a, b)
<1>1. /\ a \in Seq(Int) /\ Len(a) \in Nat /\ DOMAIN a = 1..Len(a)
      /\ \A i \in 1..Len(a) : a[i] \in Digit /\ a[i] \in Int
      /\ b \in Seq(Int) /\ Len(b) \in Nat /\ DOMAIN b = 1..Len(b)
      /\ \A i \in 1..Len(b) : b[i] \in Digit /\ b[i] \in Int
  BY DigitsAreInts, LenProperties
<1>2. PICK q \in 1..Len(b) : PartAt(a, b, q)
  BY <1>1, BeforeParts
<1>3. /\ q \in Nat /\ 1 <= q /\ q <= Len(b) /\ q <= Len(a) + 1
      /\ \A i \in 1..(q - 1) : a[i] = b[i]
      /\ q <= Len(a) => a[q] < b[q]
  BY <1>1, <1>2 DEF PartAt
<1>4. T \in SUBSET Nat /\ T # {}
  <2>1. CASE q <= Len(a)
    <3>1. q \in DOMAIN a /\ q \in 1..Len(b) /\ a[q] # b[q]
      BY <1>1, <1>3, <2>1
    <3> QED BY <3>1
  <2>2. CASE q > Len(a)
    <3>1. Len(b) \notin DOMAIN a /\ Len(b) \in 1..Len(b)
      BY <1>1, <1>3, <2>2
    <3> QED BY <3>1
  <2> QED BY <1>1, <1>3, <2>1, <2>2
<1>5. \E m \in DOMAIN b : First(m)
  <2>1. PICK m \in T : \A x \in T : m <= x
    <3> HIDE DEF T
    <3> QED BY <1>4, LeastExists
  <2>2. m \in Nat /\ m <= Len(b) /\ \A l \in 1..(m - 1) : l \in 1..Len(b) /\ l \notin T
    BY <1>1, <2>1
  <2> QED BY <1>1, <2>1, <2>2
<1>6. n \in 1..Len(b) /\ First(n)
  <2> HIDE DEF First
  <2> QED BY <1>1, <1>5
<1>7. k = IF b[n] - digit(n) > 1
          THEN Append(prefix, (digit(n) + b[n] + 1) \div 2)
          ELSE IF Len(b) > n THEN Append(prefix, b[n])
          ELSE Append(prefix, digit(n)) \o MidpointAbove(rest)
  BY DEF Midpoint
<1> HIDE DEF n, T, k
<1>8. /\ n \in Nat /\ 1 <= n /\ n <= Len(b) /\ n - 1 \in 0..Len(b)
      /\ b[n] \in Digit /\ digit(n) \in Digit
  BY <1>1, <1>6 DEF Digit
<1>9. \A i \in 1..(n - 1) : i <= Len(a) => a[i] = b[i]
  BY <1>1, <1>6
<1>10. digit(n) < b[n]
  <2>1. CASE n > Len(a)
    BY <1>1, <1>6, <1>8, <2>1 DEF Digit
  <2>2. CASE n <= Len(a)
    <3>1. n \in DOMAIN a /\ a[n] # b[n]
      BY <1>1, <1>6, <1>8, <2>2
    <3>2. ~(n < q)
      BY <1>3, <1>8, <3>1
    <3>3. q <= Len(a) /\ a[q] # b[q]
      BY <1>1, <1>3, <1>8, <2>2, <3>2
    <3>4. ~(q < n)
      BY <1>3, <1>8, <1>9, <3>3
    <3>5. n = q
      BY <1>3, <1>8, <3>2, <3>4
    <3> QED BY <1>3, <3>1, <3>3, <3>5
  <2> QED BY <1>1, <1>8, <2>1, <2>2
<1>11. ASSUME NEW x \in Digit
       PROVE  /\ Append(prefix, x) \in Seq(Digit)
              /\ Append(prefix, x) \in Seq(Int)
              /\ Len(Append(prefix, x)) = n /\ Append(prefix, x)[n] = x
              /\ \A i \in 1..(n - 1) : Append(prefix, x)[i] = b[i]
  <2>1. prefix \in Seq(Digit)
    BY <1>8, Stretch
  <2>2. Append(prefix, x) = prefix \o <<x>>
    BY <2>1, AppendIsConcat
  <2>3. n - 1 + 1 = n
    BY <1>8
  <2> DEFINE c == Append(prefix, x)
  <2>4. /\ c \in Seq(Digit) /\ Len(c) = n - 1 + 1 /\ c[n - 1 + 1] = x
        /\ \A i \in 1..(n - 1) : c[i] = b[i]
    BY <1>8, <2>2, PrefixThen
  <2> HIDE DEF c
  <2>5. c \in Seq(Int)
    BY <2>4, DigitsAreInts
  <2>6. Len(c) = n /\ c[n] = x
    BY <2>3, <2>4
  <2>7. QED BY <2>4, <2>5, <2>6 DEF c
<1>12. ASSUME NEW c \in Seq(Int), Len(c) >= n, c[n] > digit(n),
              \A i \in 1..(n - 1) : c[i] = b[i]
       PROVE  Before(a, c)
  <2>0. Len(c) \in Nat
    BY LenProperties
  <2>1. CASE n <= Len(a)
    <3>1. PartAt(a, c, n) /\ n \in 1..Len(c)
      BY SMTT(30), <1>1, <1>8, <1>9, <1>12, <2>0, <2>1 DEF PartAt
    <3> QED BY <1>1, <3>1, BeforeParts
  <2>2. CASE n > Len(a)
    <3>1. Len(a) + 1 \in 1..Len(c)
      BY <1>1, <1>8, <1>12, <2>0, <2>2
    <3>2. \A i \in 1..(Len(a) + 1 - 1) : a[i] = c[i]
      <4> TAKE i \in 1..(Len(a) + 1 - 1)
      <4>1. Len(a) \in Nat
        BY LenProperties
      <4>2. i \in 1..(n - 1) /\ i <= Len(a)
        <5> HIDE DEF digit, prefix, rest, First
        <5> QED BY <1>8, <2>2, <4>1
      <4> QED BY <1>9, <1>12, <4>2
    <3>3. PartAt(a, c, Len(a) + 1)
      BY <1>1, <3>1, <3>2 DEF PartAt
    <3> QED BY <1>1, <3>1, <3>3, BeforeParts
  <2> QED BY <1>1, <1>8, <2>1, <2>2
<1>13. ASSUME NEW c \in Seq(Int), Len(c) >= n, c[n] < b[n],
              \A i \in 1..(n - 1) : c[i] = b[i]
       PROVE  Before(c, b)
  <2>1. PartAt(c, b, n)
    <3>1. Len(c) \in Nat
      BY LenProperties
    <3> QED BY <1>8, <1>13, <3>1 DEF PartAt
  <2> QED BY <1>1, <1>6, <2>1, BeforeParts
<1> HIDE DEF prefix, First, rest
<1>14. CASE b[n] - digit(n) > 1
  <2> DEFINE h == (digit(n) + b[n] + 1) \div 2
  <2>1. h \in Digit /\ digit(n) < h /\ h < b[n]
    <3> HIDE DEF digit
    <3> QED BY <1>8, <1>14, Halfway
  <2>2. k = Append(prefix, h)
    BY <1>7, <1>14
  <2> HIDE DEF h, digit
  <2>3. /\ k \in Seq(Digit) /\ k \in Seq(Int) /\ Len(k) = n /\ k[n] = h
        /\ \A i \in 1..(n - 1) : k[i] = b[i]
    BY <1>11, <2>1, <2>2
  <2>a. Len(k) >= n /\ k[n] > digit(n) /\ k[n] < b[n]
    BY <1>8, <2>1, <2>3 DEF Digit
  <2>4. Before(a, k) /\ Before(k, b)
    BY <1>12, <1>13, <2>3, <2>a
  <2>5. h # 0 /\ k # <<>>
    BY <1>8, <2>1, <2>3 DEF Digit
  <2> QED BY <2>3, <2>4, <2>5 DEF k
<1>15. CASE ~(b[n] - digit(n) > 1) /\ Len(b) > n
  <2>2. k = Append(prefix, b[n])
    BY <1>7, <1>15
  <2> HIDE DEF digit
  <2>3. /\ k \in Seq(Digit) /\ k \in Seq(Int) /\ Len(k) = n /\ k[n] = b[n]
        /\ \A i \in 1..(n - 1) : k[i] = b[i]
    BY <1>8, <1>11, <2>2
  <2>a. Len(k) >= n /\ k[n] > digit(n)
    BY <1>8, <1>10, <2>3 DEF Digit
  <2>4. Before(a, k)
    BY <1>12, <2>3, <2>a
  <2>5. PartAt(k, b, n + 1) /\ n + 1 \in 1..Len(b)
    <3>1. n + 1 \in 1..Len(b) /\ n + 1 - 1 = n /\ ~(n + 1 <= n)
      BY <1>1, <1>8, <1>15
    <3>2. \A i \in 1..n : k[i] = b[i]
      BY <1>8, <2>3
    <3> QED BY <2>3, <3>1, <3>2 DEF PartAt
  <2>6. Before(k, b)
    BY <1>1, <2>3, <2>5, BeforeParts
  <2>7. b[n] # 0 /\ k # <<>>
    BY <1>8, <1>10, <2>3 DEF Digit
  <2> QED BY <2>3, <2>4, <2>6, <2>7 DEF k
<1>16. CASE ~(b[n] - digit(n) > 1) /\ ~(Len(b) > n)
  <2> DEFINE c == Append(prefix, digit(n))
             up == MidpointAbove(rest)
  <2>1. k = c \o up
    BY <1>7, <1>16
  <2>2. /\ c \in Seq(Digit) /\ c \in Seq(Int) /\ Len(c) = n /\ c[n] = digit(n)
        /\ \A i \in 1..(n - 1) : c[i] = b[i]
    <3> HIDE DEF digit
    <3> QED BY <1>8, <1>11
  <2>3. rest \in Seq(Digit)
    <3>1. n + 1 \in Nat \ {0} /\ Len(a) \in 0..Len(a)
      BY <1>1, <1>8
    <3> QED BY <3>1, Stretch DEF rest
  <2>4. /\ up \in Seq(Digit) /\ up # <<>> /\ up[Len(up)] # 0 /\ Before(rest, up)
    BY <2>3, MidpointAboveFits
  <2>5. rest \in Seq(Int) /\ up \in Seq(Int) /\ Len(up) \in Nat \ {0}
    BY <2>3, <2>4, DigitsAreInts, EmptySeq
  <2>c. \A i \in 1..n : i <= Len(a) => a[i] = c[i]
    BY SMTT(30), <1>1, <1>8, <1>9, <2>2
  <2> HIDE DEF c, up, digit
  <2>6. /\ k \in Seq(Digit) /\ Len(k) = n + Len(up)
        /\ \A i \in 1..(n + Len(up)) : k[i] = IF i <= n THEN c[i] ELSE up[i - n]
    BY <2>1, <2>2, <2>4, Joined
  <2>6a. \A i \in 1..Len(up) : k[n + i] = up[i]
    BY SMTT(30), <2>1, <2>2, <2>4, JoinedParts
  <2>7. /\ k \in Seq(Int) /\ k[n] = digit(n) /\ Len(k) >= n
        /\ \A i \in 1..(n - 1) : k[i] = b[i]
    <3>1. /\ n \in 1..(n + Len(up)) /\ n <= n
          /\ \A i \in 1..(n - 1) : i \in 1..(n + Len(up)) /\ i <= n
      BY <1>8, <2>5
    <3>2. Len(k) >= n
      BY <1>8, <2>5, <2>6
    <3> QED BY <2>2, <2>6, <3>1, <3>2, DigitsAreInts
  <2>8. Before(k, b)
    BY <1>10, <1>13, <2>7
  <2>9. k[Len(k)] # 0 /\ k # <<>>
    <3>1. Len(up) \in 1..Len(up) /\ n + Len(up) # 0
      BY <1>8, <2>5
    <3>2. k[n + Len(up)] = up[Len(up)] /\ Len(k) # 0
      BY <2>6, <2>6a, <3>1
    <3> QED BY <2>4, <2>6, <3>2
  <2>10. Before(a, k)
    <3>1. CASE n <= Len(a)
      <4>1. n \in 0..Len(a)
        BY <1>1, <1>8, <3>1
      <4>2. a = SubSeq(a, 1, n) \o rest
        BY <1>1, <4>1, Cut DEF rest
      <4>3. /\ SubSeq(a, 1, n) \in Seq(Int) /\ Len(SubSeq(a, 1, n)) = n
            /\ \A i \in 1..n : SubSeq(a, 1, n)[i] = a[i]
        BY <1>1, <1>8, <4>1, Stretch
      <4>4. \A i \in 1..n : i <= Len(a)
        BY <1>1, <1>8, <3>1
      <4>5. SubSeq(a, 1, n) = c
        BY <2>2, <2>c, <4>3, <4>4, SeqEqual
      <4> QED BY <2>1, <2>2, <2>4, <2>5, <4>2, <4>5, PrefixBefore
    <3>2. CASE n > Len(a)
      <4>1. Len(a) + 1 \in 1..Len(k)
        BY SMTT(30), <1>1, <1>8, <2>5, <2>6, <3>2
      <4>2. \A i \in 1..(Len(a) + 1 - 1) : a[i] = k[i]
        BY SMTT(30), <1>1, <1>8, <1>9, <2>7, <3>2
      <4>3. PartAt(a, k, Len(a) + 1)
        BY <1>1, <4>1, <4>2 DEF PartAt
      <4> QED BY <1>1, <2>7, <4>1, <4>3, BeforeParts
    <3> QED BY <1>1, <1>8, <3>1, <3>2
  <2> QED BY <2>6, <2>8, <2>9, <2>10 DEF k
<1> QED BY <1>14, <1>15, <1>16

-----------------------------------------------------------------------------
(* Integers of a key *)

Key == {k \in Seq(Int) : ValidKey(k)}

Whole == {x \in Seq(Int) :
            /\ x # <<>> /\ x[1] \in 0..(2 * Widths - 1)
            /\ Len(x) = IntegerLength(x[1])
            /\ \A n \in 2..Len(x) : x[n] \in Digit}

(* Neither is a prefix of the other, and x has the smaller number. *)
Under1(x, y) ==
    \E i \in 1..Len(x) : /\ i <= Len(y) /\ x[i] < y[i]
                         /\ \A m \in 1..(i - 1) : x[m] = y[m]

(* An integer has a digit at least. *)
LEMMA IntegerLengthIs ==
    ASSUME NEW h \in 0..(2 * Widths - 1)
    PROVE  IntegerLength(h) \in Nat /\ IntegerLength(h) >= 2
BY DEF IntegerLength

(* The numbers of an integer. *)
LEMMA WholeNumbers ==
    ASSUME NEW x \in Whole
    PROVE  /\ x \in Seq(Int) /\ Len(x) \in Nat /\ Len(x) >= 2
           /\ x[1] \in 0..(2 * Widths - 1) /\ Len(x) = IntegerLength(x[1])
           /\ \A i \in 1..Len(x) : x[i] \in Int
           /\ \A i \in 2..Len(x) : x[i] \in Digit
           /\ x # Failed
<1>1. /\ x \in Seq(Int) /\ x[1] \in 0..(2 * Widths - 1)
      /\ Len(x) = IntegerLength(x[1]) /\ \A i \in 2..Len(x) : x[i] \in Digit
  BY DEF Whole
<1>2. Len(x) \in Nat /\ Len(x) >= 2
  BY <1>1, IntegerLengthIs
<1>3. \A i \in 1..Len(x) : x[i] \in Int
  BY <1>1, ElementOfSeq
<1>4. x # Failed
  BY <1>1 DEF Failed
<1> QED BY <1>1, <1>2, <1>3, <1>4

(* The smallest integer is one. *)
LEMMA SmallestIsWhole ==
    /\ SmallestInteger \in Whole
    /\ Len(SmallestInteger) = Widths + 1
    /\ \A n \in 1..(Widths + 1) : SmallestInteger[n] = 0
<1>1. Widths + 1 \in Nat /\ SmallestInteger \in [1..(Widths + 1) -> Int]
  BY DEF SmallestInteger
<1>2. SmallestInteger \in Seq(Int) /\ Len(SmallestInteger) = Widths + 1
  BY <1>1
<1>3. \A n \in 1..(Widths + 1) : SmallestInteger[n] = 0
  BY DEF SmallestInteger
<1>4. SmallestInteger[1] = 0 /\ IntegerLength(0) = Widths + 1
  BY <1>3 DEF IntegerLength
<1> QED BY <1>2, <1>3, <1>4 DEF Whole, Digit

(* What is under an integer at one of its numbers is before it, whatever
   follows either.                                                         *)
LEMMA UnderIsBefore ==
    ASSUME NEW x \in Whole, NEW y \in Whole, Under1(x, y),
           NEW s \in Seq(Int), NEW t \in Seq(Int)
    PROVE  Before(x \o s, y \o t)
<1>1. /\ x \in Seq(Int) /\ y \in Seq(Int) /\ Len(x) \in Nat /\ Len(y) \in Nat
      /\ Len(s) \in Nat /\ Len(t) \in Nat
  BY WholeNumbers, LenProperties
<1>2. PICK i \in 1..Len(x) : /\ i <= Len(y) /\ x[i] < y[i]
                             /\ \A m \in 1..(i - 1) : x[m] = y[m]
  BY DEF Under1
<1> DEFINE a == x \o s
           b == y \o t
<1>3. /\ a \in Seq(Int) /\ Len(a) = Len(x) + Len(s)
      /\ b \in Seq(Int) /\ Len(b) = Len(y) + Len(t)
      /\ \A m \in 1..Len(x) : a[m] = x[m]
      /\ \A m \in 1..Len(y) : b[m] = y[m]
  BY <1>1, Joined, JoinedParts
<1> HIDE DEF a, b
<1>4. i \in 1..Len(b) /\ i <= Len(a) + 1 /\ i \in 1..Len(y)
  BY <1>1, <1>2, <1>3
<1>5. \A m \in 1..(i - 1) : a[m] = b[m]
  <2> TAKE m \in 1..(i - 1)
  <2>1. m \in 1..Len(x) /\ m \in 1..Len(y)
    BY <1>1, <1>2
  <2> QED BY <1>2, <1>3, <2>1
<1>6. a[i] < b[i]
  BY <1>2, <1>3, <1>4
<1>7. Before(a, b)
  BY <1>3, <1>4, <1>5, <1>6, BeforeParts DEF PartAt
<1> QED BY <1>7 DEF a, b

(* Of two integers one is under the other. *)
LEMMA WholesPart ==
    ASSUME NEW x \in Whole, NEW y \in Whole, x # y
    PROVE  Under1(x, y) \/ Under1(y, x)
<1>1. ASSUME NEW u \in Whole, NEW v \in Whole, Before(u, v)
      PROVE  Under1(u, v)
  <2>1. /\ u \in Seq(Int) /\ Len(u) \in Nat /\ Len(u) >= 2 /\ Len(u) = IntegerLength(u[1])
        /\ v \in Seq(Int) /\ Len(v) \in Nat /\ Len(v) >= 2 /\ Len(v) = IntegerLength(v[1])
    BY WholeNumbers
  <2>2. PICK n \in 1..Len(v) : PartAt(u, v, n)
    BY <1>1, <2>1, BeforeParts
  <2>3. n <= Len(u)
    <3> SUFFICES ASSUME ~(n <= Len(u)) PROVE FALSE
      OBVIOUS
    <3>1. n = Len(u) + 1 /\ 1 \in 1..(n - 1)
      BY <2>1, <2>2 DEF PartAt
    <3>2. u[1] = v[1]
      BY <2>2, <3>1 DEF PartAt
    <3> QED BY <2>1, <3>1, <3>2
  <2> QED BY <2>1, <2>2, <2>3 DEF PartAt, Under1
<1>2. x \in Seq(Int) /\ y \in Seq(Int)
  BY WholeNumbers
<1> QED BY <1>1, <1>2, BeforeIsTotal

(* A key is an integer and a fraction. *)
LEMMA KeyParts ==
    ASSUME NEW a \in Key
    PROVE  /\ IntegerPart(a) \in Whole /\ Fraction(a) \in Seq(Digit)
           /\ a = IntegerPart(a) \o Fraction(a)
           /\ Fraction(a) # <<>> => Fraction(a)[Len(Fraction(a))] # 0
           /\ Fraction(a) = <<>> => IntegerPart(a) = a
           /\ a # SmallestInteger
<1> DEFINE n == IntegerLength(a[1])
           x == IntegerPart(a)
           f == Fraction(a)
<1>1. /\ a \in Seq(Int) /\ a # <<>> /\ a # SmallestInteger
      /\ a[1] \in 0..(2 * Widths - 1)
      /\ Len(a) >= n /\ \A i \in 2..Len(a) : a[i] \in 0..(Digits - 1)
      /\ f # <<>> => a[Len(a)] # 0
  BY DEF Key, ValidKey, Last
<1>2. n \in Nat /\ n >= 2 /\ Len(a) \in Nat
  BY <1>1, IntegerLengthIs, LenProperties
<1>3. n \in 0..Len(a) /\ n + 1 \in Nat \ {0} /\ Len(a) \in 0..Len(a)
  BY <1>1, <1>2
<1>4. x = SubSeq(a, 1, n) /\ f = SubSeq(a, n + 1, Len(a))
  BY DEF IntegerPart, Fraction
<1>5. a = x \o f
  BY <1>1, <1>3, <1>4, Cut
<1>a. a \in Seq(Int)
  BY <1>1
<1> HIDE DEF n, x, f
<1>6. /\ x \in Seq(Int)
      /\ Len(x) = IF 1 <= n THEN n - 1 + 1 ELSE 0
      /\ \A i \in 1..Len(x) : x[i] = a[1 + i - 1]
  BY <1>3, <1>4, <1>a, Stretch
<1>7. /\ f \in Seq(Int)
      /\ Len(f) = IF n + 1 <= Len(a) THEN Len(a) - (n + 1) + 1 ELSE 0
      /\ \A i \in 1..Len(f) : f[i] = a[n + 1 + i - 1]
  BY <1>3, <1>4, <1>a, Stretch
<1>8. Len(x) = n /\ \A i \in 1..n : x[i] = a[i]
  BY <1>2, <1>6
<1>9. x[1] = a[1] /\ x # <<>>
  BY <1>2, <1>8
<1>10. \A i \in 2..Len(x) : x[i] \in Digit
  BY SMTT(30), <1>1, <1>2, <1>8 DEF Digit
<1>11. x \in Whole
  BY <1>1, <1>6, <1>8, <1>9, <1>10 DEF Whole, n
<1>12. Len(f) = Len(a) - n
  BY <1>1, <1>2, <1>7
<1>13. ASSUME NEW i \in 1..Len(f)
       PROVE  f[i] = a[n + i] /\ n + i \in 2..Len(a)
  <2>1. n + 1 + i - 1 = n + i
    BY <1>2, <1>12
  <2>2. n + i \in 2..Len(a)
    BY <1>1, <1>2, <1>12
  <2> QED BY <1>7, <2>1, <2>2
<1>14. f \in Seq(Digit)
  <2>1. \A i \in 1..Len(f) : f[i] \in Digit
    BY <1>1, <1>13 DEF Digit
  <2>2. Len(f) \in Nat /\ f \in [1..Len(f) -> Int]
    BY <1>7, LenProperties
  <2>3. f \in [1..Len(f) -> Digit]
    BY <2>1, <2>2
  <2> QED BY <2>2, <2>3, SeqDef
<1>15. f # <<>> => f[Len(f)] # 0
  <2> SUFFICES ASSUME f # <<>> PROVE f[Len(f)] # 0
    OBVIOUS
  <2>1. Len(f) \in Nat \ {0}
    BY <1>14, EmptySeq
  <2>2. Len(f) \in 1..Len(f) /\ n + Len(f) = Len(a)
    BY <1>2, <1>12, <2>1
  <2> QED BY <1>1, <1>13, <2>2
<1>16. f = <<>> => x = a
  BY <1>1, <1>5, <1>6, ConcatEmptySeq
<1> QED BY <1>1, <1>5, <1>11, <1>14, <1>15, <1>16 DEF x, f

(* An integer and a fraction without a zero at its end are a key, unless
   they are the smallest integer.                                          *)
LEMMA KeyOf ==
    ASSUME NEW x \in Whole, NEW f \in Seq(Digit), f # <<>> => f[Len(f)] # 0,
           f = <<>> => x # SmallestInteger
    PROVE  x \o f \in Key
<1> DEFINE k == x \o f
<1>1. /\ x \in Seq(Int) /\ Len(x) \in Nat /\ Len(x) >= 2
      /\ x[1] \in 0..(2 * Widths - 1) /\ Len(x) = IntegerLength(x[1])
      /\ \A i \in 2..Len(x) : x[i] \in Digit
  BY WholeNumbers
<1>2. f \in Seq(Int) /\ Len(f) \in Nat /\ \A i \in 1..Len(f) : f[i] \in Digit
  BY DigitsAreInts
<1>3. /\ k \in Seq(Int) /\ Len(k) = Len(x) + Len(f)
      /\ \A i \in 1..Len(x) : k[i] = x[i]
      /\ \A i \in 1..Len(f) : k[Len(x) + i] = f[i]
  <2>1. x \in Seq(Int) /\ f \in Seq(Int)
    BY <1>1, <1>2
  <2>2. k \in Seq(Int) /\ Len(k) = Len(x) + Len(f)
    BY <2>1, Joined
  <2> QED BY <2>1, <2>2, JoinedParts
<1>4. f = <<>> => k = x
  BY <1>1, ConcatEmptySeq
<1>5. f # <<>> => Len(f) \in Nat \ {0}
  BY EmptySeq
<1> HIDE DEF k
<1>6. k # <<>> /\ k[1] = x[1] /\ Len(k) >= IntegerLength(k[1])
  <2>1. k[1] = x[1]
    <3>1. 1 \in 1..Len(x)
      BY <1>1
    <3> QED BY <1>3, <3>1
  <2>2. Len(k) >= Len(x) /\ Len(k) >= 2
    BY <1>1, <1>2, <1>3
  <2>3. Len(k) # 0
    BY <2>2
  <2>4. k # <<>>
    BY <1>3, <2>3, EmptySeq
  <2> QED BY <1>1, <2>1, <2>2, <2>4
<1>7. k # SmallestInteger
  <2> SUFFICES ASSUME k = SmallestInteger PROVE FALSE
    OBVIOUS
  <2>1. k[1] = 0 /\ Len(k) = Widths + 1
    BY SmallestIsWhole
  <2>2. Len(x) = Widths + 1
    BY <1>1, <1>6, <2>1 DEF IntegerLength
  <2>3. Len(f) = 0
    BY <1>1, <1>2, <1>3, <2>1, <2>2
  <2> QED BY <1>4, <1>5, <2>3
<1>8. ASSUME NEW i \in 2..Len(k) PROVE k[i] \in 0..(Digits - 1)
  <2>0. /\ Len(x) \in Nat /\ Len(f) \in Nat /\ Len(k) = Len(x) + Len(f)
        /\ i \in Nat /\ 2 <= i /\ i <= Len(k)
    BY <1>1, <1>2, <1>3
  <2>1. CASE i <= Len(x)
    <3>1. i \in 1..Len(x) /\ i \in 2..Len(x)
      BY <2>0, <2>1
    <3> QED BY <1>1, <1>3, <3>1 DEF Digit
  <2>2. CASE i > Len(x)
    <3>1. i - Len(x) \in 1..Len(f) /\ Len(x) + (i - Len(x)) = i
      BY <2>0, <2>2
    <3>2. k[i] = f[i - Len(x)]
      BY <1>3, <3>1
    <3> QED BY <1>2, <3>1, <3>2 DEF Digit
  <2> QED BY <2>0, <2>1, <2>2
<1>9. Fraction(k) # <<>> => k[Len(k)] # 0
  <2>1. CASE f # <<>>
    <3>1. Len(f) \in 1..Len(f)
      BY <1>5, <2>1
    <3> QED BY <1>3, <2>1, <3>1
  <2>2. CASE f = <<>>
    <3>1. Fraction(k) = SubSeq(k, Len(x) + 1, Len(k)) /\ Len(k) = Len(x)
      BY <1>1, <1>4, <1>6, <2>2 DEF Fraction
    <3>2. Len(k) < Len(x) + 1 /\ Len(x) + 1 \in Int /\ Len(k) \in Int
      BY <1>1, <3>1
    <3>3. Fraction(k) = <<>>
      BY <3>1, <3>2, SubSeqEmpty
    <3> QED BY <3>3
  <2> QED BY <2>1, <2>2
<1>10. ValidKey(k)
  BY <1>1, <1>6, <1>7, <1>8, <1>9 DEF ValidKey, Last
<1> QED BY <1>3, <1>10 DEF Key, k

-----------------------------------------------------------------------------
(* The next and the previous integer *)

(* The last number that is not d, counted from the end. *)
LEMMA LastOther ==
    ASSUME NEW x \in Seq(Int), NEW d \in Int, Len(x) >= 1,
           NEW top, top = {n \in 2..Len(x) : \A m \in n..Len(x) : x[m] = d}
    PROVE  LET n == Len(x) - Cardinality(top) IN
           /\ n \in 1..Len(x)
           /\ \A m \in (n + 1)..Len(x) : x[m] = d
           /\ n > 1 => x[n] # d
<1> DEFINE J == {j \in 1..Len(x) : \A m \in (j + 1)..Len(x) : x[m] = d}
<1>1. Len(x) \in Nat
  BY LenProperties
<1>2. J \in SUBSET Nat /\ Len(x) \in J
  BY <1>1
<1>3. PICK j \in J : \A i \in J : j <= i
  <2> HIDE DEF J
  <2> QED BY <1>2, LeastExists
<1>4. /\ j \in Nat /\ 1 <= j /\ j <= Len(x)
      /\ \A m \in (j + 1)..Len(x) : x[m] = d
  BY <1>1, <1>3
<1>5. top = (j + 1)..Len(x)
  <2>1. ASSUME NEW n \in top PROVE n \in (j + 1)..Len(x)
    <3>1. /\ n \in Nat /\ 2 <= n /\ n <= Len(x)
          /\ \A m \in n..Len(x) : x[m] = d
      BY <1>1
    <3>2. n - 1 \in 1..Len(x) /\ n - 1 + 1 = n
      BY <1>1, <3>1
    <3>3. n - 1 \in J
      BY <3>1, <3>2
    <3> HIDE DEF J
    <3>4. j <= n - 1
      BY <1>3, <3>3
    <3> QED BY <1>1, <1>4, <3>1, <3>4
  <2>2. ASSUME NEW n \in (j + 1)..Len(x) PROVE n \in top
    <3>1. n \in 2..Len(x) /\ \A m \in n..Len(x) : m \in (j + 1)..Len(x)
      BY <1>1, <1>4
    <3> QED BY <1>4, <3>1
  <2> QED BY <2>1, <2>2
<1>6. Cardinality(top) = Len(x) - j
  <2>1. j + 1 \in Int /\ Len(x) \in Int
    BY <1>1, <1>4
  <2>2. Cardinality((j + 1)..Len(x))
          = IF j + 1 > Len(x) THEN 0 ELSE Len(x) - (j + 1) + 1
    BY <2>1, FS_Interval
  <2> DEFINE c == Cardinality((j + 1)..Len(x))
  <2>3. c = Len(x) - j
    <3> HIDE DEF c
    <3>1. c = IF j + 1 > Len(x) THEN 0 ELSE Len(x) - (j + 1) + 1
      BY <2>2 DEF c
    <3> QED BY <1>1, <1>4, <3>1
  <2> QED BY <1>5, <2>3
<1>7. Len(x) - Cardinality(top) = j
  BY <1>1, <1>4, <1>6
<1>8. ASSUME j > 1 PROVE x[j] # d
  <2> SUFFICES ASSUME x[j] = d PROVE FALSE
    OBVIOUS
  <2>1. j - 1 \in 1..Len(x) /\ j - 1 + 1 = j
    BY <1>1, <1>4, <1>8
  <2>2. \A m \in j..Len(x) : x[m] = d
    BY <1>1, <1>4
  <2>3. j - 1 \in J
    BY <2>1, <2>2
  <2> HIDE DEF J
  <2>4. j <= j - 1
    BY <1>3, <2>3
  <2> QED BY <1>4, <2>4
<1>9. j \in 1..Len(x)
  BY <1>1, <1>4
<1> QED BY <1>4, <1>7, <1>8, <1>9

(* A function on 1..n is a sequence of that length. *)
LEMMA SequenceOf ==
    ASSUME NEW U, NEW n \in Nat, NEW s \in [1..n -> U]
    PROVE  s \in Seq(U) /\ Len(s) = n
OBVIOUS

(* An integer with another number at n, and other digits behind. *)
LEMMA WholeFrom ==
    ASSUME NEW x \in Whole, NEW n \in 2..Len(x), NEW e \in Digit, NEW g \in Digit,
           NEW y, y = [m \in 1..Len(x) |->
                         IF m = n THEN e ELSE IF m > n THEN g ELSE x[m]]
    PROVE  /\ y \in Whole /\ Len(y) = Len(x) /\ y[n] = e /\ y[1] = x[1]
           /\ \A m \in 1..(n - 1) : y[m] = x[m]
           /\ \A m \in (n + 1)..Len(x) : y[m] = g
<1>1. /\ x \in Seq(Int) /\ Len(x) \in Nat /\ Len(x) >= 2
      /\ x[1] \in 0..(2 * Widths - 1) /\ Len(x) = IntegerLength(x[1])
      /\ \A i \in 1..Len(x) : x[i] \in Int
      /\ \A i \in 2..Len(x) : x[i] \in Digit
      /\ DOMAIN x = 1..Len(x)
  BY WholeNumbers, LenProperties
<1>2. e \in Int /\ g \in Int /\ n \in Nat /\ 2 <= n /\ n <= Len(x)
  BY <1>1 DEF Digit
<1>3. y \in [1..Len(x) -> Int]
  BY <1>1, <1>2
<1>4. y \in Seq(Int) /\ Len(y) = Len(x)
  <2>1. Len(x) \in Nat
    BY <1>1
  <2> QED BY ONLY <1>3, <2>1, SequenceOf
<1>5. /\ y[n] = e /\ y[1] = x[1]
      /\ \A m \in 1..(n - 1) : y[m] = x[m]
      /\ \A m \in (n + 1)..Len(x) : y[m] = g
      /\ \A m \in 2..Len(x) : y[m] \in Digit
  BY <1>1, <1>2
<1>6. y \in Whole
  <2>1. y # <<>>
    BY <1>1, <1>4
  <2> QED BY <1>1, <1>4, <1>5, <2>1 DEF Whole
<1> QED BY <1>4, <1>5, <1>6

(* The integer of a head whose digits are all g. *)
LEMMA WholeOf ==
    ASSUME NEW h \in 0..(2 * Widths - 1), NEW g \in Digit,
           NEW n, n = IntegerLength(h) - 1, NEW t \in [1..n -> {g}]
    PROVE  LET y == <<h>> \o t IN
           /\ y \in Whole /\ y[1] = h
           /\ \A m \in 2..Len(y) : y[m] = g
<1> DEFINE y == <<h>> \o t
<1>1. IntegerLength(h) \in Nat /\ IntegerLength(h) >= 2 /\ h \in Int /\ g \in Int
  BY IntegerLengthIs DEF Digit
<1>2. t \in [1..n -> Int] /\ n \in Nat
  BY <1>1
<1>3. t \in Seq(Int) /\ Len(t) = IntegerLength(h) - 1
  BY <1>2, SequenceOf
<1>4. \A m \in 1..Len(t) : t[m] = g
  BY <1>1, <1>3
<1>5. <<h>> \in Seq(Int) /\ Len(<<h>>) = 1 /\ <<h>>[1] = h
  BY <1>1
<1>6. /\ y \in Seq(Int) /\ Len(y) = 1 + Len(t)
      /\ \A m \in 1..1 : y[m] = <<h>>[m]
      /\ \A m \in 1..Len(t) : y[1 + m] = t[m]
  <2>1. /\ <<h>> \o t \in Seq(Int)
        /\ Len(<<h>> \o t) = Len(<<h>>) + Len(t)
    BY <1>3, <1>5, Joined
  <2> DEFINE s == <<h>>
  <2>a. t \in Seq(Int) /\ s \in Seq(Int)
    BY <1>3, <1>5
  <2> HIDE DEF s
  <2>2. /\ \A m \in 1..Len(s) : (s \o t)[m] = s[m]
        /\ \A m \in 1..Len(t) : (s \o t)[Len(s) + m] = t[m]
    BY <2>a, JoinedParts
  <2> USE DEF s
  <2>3. Len(<<h>>) = 1
    BY <1>5
  <2> QED BY <2>1, <2>2, <2>3
<1> HIDE DEF y
<1>7. Len(y) = IntegerLength(h) /\ y[1] = h
  BY <1>1, <1>3, <1>5, <1>6
<1>8. ASSUME NEW m \in 2..Len(y) PROVE y[m] = g
  <2>1. m - 1 \in 1..Len(t) /\ 1 + (m - 1) = m
    BY <1>1, <1>3, <1>7
  <2> QED BY <1>4, <1>6, <2>1
<1>9. y # <<>>
  BY <1>1, <1>6, <1>7
<1>10. y \in Whole
  BY <1>6, <1>7, <1>8, <1>9 DEF Whole
<1> QED BY <1>7, <1>8, <1>10 DEF y

(* The next integer is above, and is not the smallest; only the largest has
   none.                                                                   *)
LEMMA IncrementFits ==
    ASSUME NEW x \in Whole
    PROVE  LET y == IncrementInteger(x) IN
           \/ y = Failed /\ x[1] = 2 * Widths - 1
              /\ \A m \in 2..Len(x) : x[m] = Digits - 1
           \/ y \in Whole /\ Under1(x, y) /\ y # SmallestInteger
<1> DEFINE top == {n \in 2..Len(x) : \A m \in n..Len(x) : x[m] = Digits - 1}
           n == Len(x) - Cardinality(top)
           y == IncrementInteger(x)
<1>1. /\ x \in Seq(Int) /\ Len(x) \in Nat /\ Len(x) >= 2
      /\ x[1] \in 0..(2 * Widths - 1) /\ Len(x) = IntegerLength(x[1])
      /\ \A i \in 1..Len(x) : x[i] \in Int
      /\ \A i \in 2..Len(x) : x[i] \in Digit
  BY WholeNumbers
<1>2. Digits - 1 \in Int /\ Len(x) >= 1
  BY <1>1
<1>3. /\ n \in 1..Len(x)
      /\ \A m \in (n + 1)..Len(x) : x[m] = Digits - 1
      /\ n > 1 => x[n] # Digits - 1
  BY <1>1, <1>2, LastOther
<1>4. y = IF n > 1
            THEN [m \in DOMAIN x |->
                    IF m = n THEN x[m] + 1 ELSE IF m > n THEN 0 ELSE x[m]]
          ELSE IF x[1] = 2 * Widths - 1 THEN Failed
          ELSE <<x[1] + 1>> \o [m \in 1..(IntegerLength(x[1] + 1) - 1) |-> 0]
  BY DEF IncrementInteger
<1> HIDE DEF n, top, y
<1>5. CASE n > 1
  <2>1. n \in 2..Len(x) /\ n \in Nat
    BY <1>1, <1>3, <1>5
  <2>2. x[n] + 1 \in Digit /\ 0 \in Digit /\ x[n] \in Int
    BY <1>1, <1>3, <1>5, <2>1 DEF Digit
  <2>3. PICK e \in Digit : e = x[n] + 1
    BY <2>2
  <2>3a. DOMAIN x = 1..Len(x)
    BY <1>1
  <2>3b. y = [m \in 1..Len(x) |-> IF m = n THEN e ELSE IF m > n THEN 0 ELSE x[m]]
    BY <1>4, <1>5, <2>3, <2>3a
  <2>4. /\ y \in Whole /\ Len(y) = Len(x) /\ y[n] = x[n] + 1 /\ y[1] = x[1]
        /\ \A m \in 1..(n - 1) : y[m] = x[m]
    BY <2>1, <2>2, <2>3, <2>3b, WholeFrom
  <2>5. Under1(x, y)
    BY SMTT(30), <1>1, <2>1, <2>2, <2>4 DEF Under1
  <2>6. y # SmallestInteger
    <3> SUFFICES ASSUME y = SmallestInteger PROVE FALSE
      OBVIOUS
    <3>1. n \in 1..(Widths + 1)
      BY <1>1, <2>1, <2>4, SmallestIsWhole
    <3> QED BY <2>1, <2>2, <2>4, <1>1, <3>1, SmallestIsWhole DEF Digit
  <2> QED BY <2>4, <2>5, <2>6 DEF y
<1>6. CASE ~(n > 1) /\ x[1] = 2 * Widths - 1
  <2>1. n = 1
    BY <1>1, <1>3, <1>6
  <2>2. \A m \in 2..Len(x) : x[m] = Digits - 1
    BY <1>3, <2>1
  <2>3. y = Failed
    BY <1>4, <1>6
  <2> QED BY <1>6, <2>2, <2>3 DEF y
<1>7. CASE ~(n > 1) /\ x[1] # 2 * Widths - 1
  <2>1. x[1] + 1 \in 0..(2 * Widths - 1) /\ 0 \in Digit
    BY <1>1, <1>7 DEF Digit
  <2>1a. PICK h \in 0..(2 * Widths - 1) : h = x[1] + 1
    BY <2>1
  <2>1b. PICK n1 : n1 = IntegerLength(h) - 1
    OBVIOUS
  <2>1c. PICK t \in [1..n1 -> {0}] : t = [m \in 1..n1 |-> 0]
    OBVIOUS
  <2>1d. y = <<h>> \o t
    BY <1>4, <1>7, <2>1a, <2>1b, <2>1c
  <2>2. y \in Whole /\ y[1] = x[1] + 1
    BY <2>1, <2>1a, <2>1b, <2>1c, <2>1d, WholeOf
  <2>3. Len(y) \in Nat /\ Len(y) >= 2
    BY <2>2, WholeNumbers
  <2>4. Under1(x, y)
    <3>1. 1 \in 1..Len(x) /\ 1 <= Len(y) /\ x[1] < y[1]
      BY <1>1, <2>2, <2>3
    <3> QED BY <3>1 DEF Under1
  <2>5. y # SmallestInteger
    <3>1. SmallestInteger[1] = 0
      BY SmallestIsWhole
    <3> QED BY <1>1, <2>2, <3>1
  <2> QED BY <2>2, <2>4, <2>5 DEF y
<1> QED BY <1>5, <1>6, <1>7

(* The previous integer is below; it is the smallest only below the integer
   that follows that.                                                      *)
LEMMA DecrementFits ==
    ASSUME NEW x \in Whole, x # SmallestInteger
    PROVE  LET y == DecrementInteger(x) IN
           /\ y \in Whole /\ Under1(y, x)
           /\ y = SmallestInteger => x = IncrementInteger(SmallestInteger)
<1> DEFINE zeros == {n \in 2..Len(x) : \A m \in n..Len(x) : x[m] = 0}
           n == Len(x) - Cardinality(zeros)
           y == DecrementInteger(x)
           g == Digits - 1
<1>1. /\ x \in Seq(Int) /\ Len(x) \in Nat /\ Len(x) >= 2
      /\ x[1] \in 0..(2 * Widths - 1) /\ Len(x) = IntegerLength(x[1])
      /\ \A i \in 1..Len(x) : x[i] \in Int
      /\ \A i \in 2..Len(x) : x[i] \in Digit
      /\ DOMAIN x = 1..Len(x)
  BY WholeNumbers, LenProperties
<1>2. 0 \in Int /\ Len(x) >= 1 /\ g \in Digit /\ g # 0
  BY <1>1 DEF Digit
<1>3. /\ n \in 1..Len(x)
      /\ \A m \in (n + 1)..Len(x) : x[m] = 0
      /\ n > 1 => x[n] # 0
  BY <1>1, <1>2, LastOther
<1>4. y = IF n > 1
            THEN [m \in DOMAIN x |->
                    IF m = n THEN x[m] - 1
                    ELSE IF m > n THEN Digits - 1 ELSE x[m]]
          ELSE IF x[1] = 0 THEN Failed
          ELSE <<x[1] - 1>>
               \o [m \in 1..(IntegerLength(x[1] - 1) - 1) |-> Digits - 1]
  BY DEF DecrementInteger
<1> HIDE DEF n, zeros, y, g
<1>5. CASE n > 1
  <2>1. n \in 2..Len(x) /\ n \in Nat
    BY <1>1, <1>3, <1>5
  <2>2. x[n] - 1 \in Digit /\ x[n] \in Int
    BY <1>1, <1>3, <1>5, <2>1 DEF Digit
  <2>3. PICK e \in Digit : e = x[n] - 1
    BY <2>2
  <2>4. y = [m \in 1..Len(x) |-> IF m = n THEN e ELSE IF m > n THEN g ELSE x[m]]
    BY <1>1, <1>4, <1>5, <2>3 DEF g
  <2>5. /\ y \in Whole /\ Len(y) = Len(x) /\ y[n] = e /\ y[1] = x[1]
        /\ \A m \in 1..(n - 1) : y[m] = x[m]
        /\ \A m \in (n + 1)..Len(x) : y[m] = g
    BY <1>2, <2>1, <2>4, WholeFrom
  <2>6. Under1(y, x)
    <3>1. n \in 1..Len(y) /\ n <= Len(x) /\ y[n] < x[n]
      BY <1>1, <2>1, <2>2, <2>3, <2>5
    <3> QED BY <2>5, <3>1 DEF Under1
  <2>7. ASSUME y = SmallestInteger PROVE x = IncrementInteger(SmallestInteger)
    <3>1. /\ Len(x) = Widths + 1 /\ Len(x) \in Nat
          /\ \A m \in 1..Len(x) : y[m] = 0
      BY <1>1, <2>5, <2>7, SmallestIsWhole
    <3>2. n = Len(x)
      <4> SUFFICES ASSUME n # Len(x) PROVE FALSE
        OBVIOUS
      <4>1. n + 1 \in (n + 1)..Len(x) /\ n + 1 \in 1..Len(x)
        BY <1>1, <2>1
      <4> QED BY <1>2, <2>5, <3>1, <4>1
    <3>3. x[n] = 1
      BY <2>1, <2>2, <2>3, <2>5, <3>1
    <3>4. \A m \in 1..(n - 1) : x[m] = 0
      BY <1>1, <2>1, <2>5, <3>1
    <3> DEFINE z == SmallestInteger
               top == {i \in 2..Len(z) : \A m \in i..Len(z) : z[m] = g}
    <3>5. /\ z \in Seq(Int) /\ Len(z) = n /\ DOMAIN z = 1..n
          /\ \A m \in 1..n : z[m] = 0
      BY <2>5, <2>7, <3>1, <3>2, WholeNumbers, LenProperties
    <3>6. top = {}
      <4> SUFFICES ASSUME NEW i \in top PROVE FALSE
        OBVIOUS
      <4> HIDE DEF z
      <4>1. i \in 1..n /\ i \in i..Len(z)
        BY <2>1, <3>5
      <4> QED BY <1>2, <3>5, <4>1
    <3>7. Len(z) - Cardinality(top) = n
      <4> HIDE DEF z, top
      <4> QED BY <2>1, <3>5, <3>6, FS_EmptySet
    <3>8. IncrementInteger(z)
            = [m \in DOMAIN z |-> IF m = n THEN z[m] + 1
                                  ELSE IF m > n THEN 0 ELSE z[m]]
      BY <1>5, <3>7 DEF IncrementInteger, g
    <3>9. x = [m \in 1..n |-> x[m]]
      BY <1>1, <3>2
    <3>10. \A m \in 1..n : x[m] = IF m = n THEN z[m] + 1
                                  ELSE IF m > n THEN 0 ELSE z[m]
      <4> HIDE DEF z
      <4> TAKE m \in 1..n
      <4>1. m = n \/ m \in 1..(n - 1)
        BY <2>1
      <4> QED BY <2>1, <3>3, <3>4, <3>5, <4>1
    <3> HIDE DEF z
    <3> QED BY <3>5, <3>8, <3>9, <3>10 DEF z
  <2> QED BY <2>5, <2>6, <2>7 DEF y
<1>6. CASE ~(n > 1)
  <2>1. n = 1 /\ \A m \in 2..Len(x) : x[m] = 0
    BY <1>1, <1>3, <1>6
  <2>2. x[1] # 0
    <3> SUFFICES ASSUME x[1] = 0 PROVE FALSE
      OBVIOUS
    <3>1. Len(x) = Widths + 1
      BY <1>1 DEF IntegerLength
    <3>2. \A m \in 1..Len(x) : x[m] = SmallestInteger[m]
      <4> TAKE m \in 1..Len(x)
      <4>1. m = 1 \/ m \in 2..Len(x)
        BY <1>1
      <4> QED BY <2>1, <3>1, <4>1, SmallestIsWhole
    <3>3. x = SmallestInteger
      BY <1>1, <3>1, <3>2, SmallestIsWhole, WholeNumbers, SeqEqual
    <3> QED BY <3>3
  <2>3. PICK h \in 0..(2 * Widths - 1) : h = x[1] - 1
    BY <1>1, <2>2
  <2>4. PICK n1 : n1 = IntegerLength(h) - 1
    OBVIOUS
  <2> DEFINE t == [m \in 1..n1 |-> g]
  <2>5. y = <<h>> \o t /\ t \in [1..n1 -> {g}]
    BY <1>4, <1>6, <2>2, <2>3, <2>4 DEF g
  <2> HIDE DEF t
  <2>5a. g \in Digit
    BY <1>2
  <2>6. y \in Whole /\ y[1] = h /\ \A m \in 2..Len(y) : y[m] = g
    BY <2>4, <2>5, <2>5a, WholeOf
  <2>7. Len(y) \in Nat /\ Len(y) >= 2
    BY <2>6, WholeNumbers
  <2>8. Under1(y, x)
    <3>1. 1 \in 1..Len(y) /\ 1 <= Len(x) /\ y[1] < x[1]
      BY <1>1, <2>3, <2>6, <2>7
    <3> QED BY <3>1 DEF Under1
  <2>9. y # SmallestInteger
    <3>1. 2 \in 2..Len(y) /\ y[2] = g
      BY <2>6, <2>7
    <3>2. 2 \in 1..(Widths + 1) /\ SmallestInteger[2] = 0
      BY SmallestIsWhole
    <3> QED BY <1>2, <3>1, <3>2
  <2> QED BY <2>6, <2>8, <2>9 DEF y
<1> QED BY <1>5, <1>6

-----------------------------------------------------------------------------
(* The keys generate_key_between makes *)

(* The first key is one. *)
LEMMA FirstKeyFits == FirstKey \in Key
<1>1. FirstKey \in Seq(Int) /\ Len(FirstKey) = 2
  BY DEF FirstKey
<1>2. FirstKey[1] = Widths /\ FirstKey[2] = 0 /\ IntegerLength(Widths) = 2
  BY DEF FirstKey, IntegerLength
<1>3. SubSeq(FirstKey, 3, 2) = <<>>
  BY <1>1
<1>4. Fraction(FirstKey) = <<>>
  BY <1>1, <1>2, <1>3 DEF Fraction
<1>5. FirstKey # SmallestInteger
  BY <1>2, SmallestIsWhole
<1>6. \A n \in 2..Len(FirstKey) : FirstKey[n] \in 0..(Digits - 1)
  <2>1. \A n \in 2..Len(FirstKey) : n = 2
    BY <1>1
  <2> QED BY <1>2, <2>1
<1>7. FirstKey # <<>> /\ Widths \in 0..(2 * Widths - 1)
  BY SMTT(30), <1>1
<1>8. ValidKey(FirstKey)
  BY <1>1, <1>2, <1>4, <1>5, <1>6, <1>7 DEF ValidKey
<1> QED BY <1>1, <1>8 DEF Key

(* An integer is a key of its own, unless it is the smallest. *)
LEMMA WholeIsKey ==
    ASSUME NEW x \in Whole, x # SmallestInteger
    PROVE  x \in Key
<1>1. x \o <<>> = x /\ <<>> \in Seq(Digit)
  BY WholeNumbers, ConcatEmptySeq
<1> QED BY <1>1, KeyOf

(* Above every key there is one. *)
LEMMA KeyAboveFits ==
    ASSUME NEW a \in Key
    PROVE  KeyAbove(a) \in Key /\ Before(a, KeyAbove(a))
<1> DEFINE x == IntegerPart(a)
           f == Fraction(a)
           next == IncrementInteger(x)
           up == MidpointAbove(f)
<1>1. x \in Whole /\ f \in Seq(Digit) /\ a = x \o f
  BY KeyParts
<1>2. x \in Seq(Int) /\ f \in Seq(Int)
  BY <1>1, WholeNumbers, DigitsAreInts
<1>3. KeyAbove(a) = IF next = Failed THEN x \o up ELSE next
  BY DEF KeyAbove
<1> HIDE DEF x, f
<1>4. CASE next = Failed
  <2>1. /\ up \in Seq(Digit) /\ up # <<>> /\ up[Len(up)] # 0 /\ Before(f, up)
    BY <1>1, MidpointAboveFits
  <2>2. up \in Seq(Int)
    BY <2>1, DigitsAreInts
  <2> HIDE DEF up
  <2>3. x \o up \in Key
    BY <1>1, <2>1, KeyOf
  <2>4. Before(x \o f, x \o up)
    BY <1>2, <2>1, <2>2, PrefixBefore
  <2> QED BY <1>1, <1>3, <1>4, <2>3, <2>4
<1>5. CASE next # Failed
  <2>1. next \in Whole /\ Under1(x, next) /\ next # SmallestInteger
    BY <1>1, <1>5, IncrementFits
  <2> HIDE DEF next
  <2>2. next \in Seq(Int) /\ <<>> \in Seq(Int)
    BY <2>1, WholeNumbers
  <2>3. Before(x \o f, next \o <<>>)
    BY <1>1, <1>2, <2>1, <2>2, UnderIsBefore
  <2>4. next \o <<>> = next
    BY <2>2, ConcatEmptySeq
  <2> QED BY <1>1, <1>3, <1>5, <2>1, <2>3, <2>4, WholeIsKey
<1> QED BY <1>4, <1>5

(* Below every key there is one; below the integer after the smallest one,
   the smallest is taken.                                                  *)
LEMMA KeyBelowFits ==
    ASSUME NEW b \in Key
    PROVE  /\ Before(KeyBelow(b), b)
           /\ \/ KeyBelow(b) \in Key
              \/ /\ KeyBelow(b) = SmallestInteger
                 /\ b = IncrementInteger(SmallestInteger)
<1> DEFINE x == IntegerPart(b)
           f == Fraction(b)
           mid == Midpoint(<<>>, f)
           low == DecrementInteger(x)
<1>1. /\ x \in Whole /\ f \in Seq(Digit) /\ b = x \o f
      /\ f # <<>> => f[Len(f)] # 0
      /\ f = <<>> => x = b
      /\ b # SmallestInteger
  BY KeyParts
<1>2. /\ x \in Seq(Int) /\ f \in Seq(Int) /\ <<>> \in Seq(Int) /\ <<>> \in Seq(Digit)
      /\ x \o <<>> = x
  BY <1>1, WholeNumbers, DigitsAreInts, ConcatEmptySeq
<1>3. KeyBelow(b) = IF x = SmallestInteger THEN x \o mid
                    ELSE IF Before(x, b) THEN x ELSE low
  BY DEF KeyBelow
<1> HIDE DEF x, f
<1>4. f # <<>> => Before(<<>>, f)
  <2> SUFFICES ASSUME f # <<>> PROVE Before(<<>>, f)
    OBVIOUS
  <2>1. Len(f) \in Nat \ {0}
    BY <1>2, EmptySeq
  <2>2. 1 \in 1..Len(f) /\ 1 <= Len(<<>>) + 1 /\ ~(1 <= Len(<<>>))
    BY <2>1
  <2>3. PartAt(<<>>, f, 1)
    BY <2>2 DEF PartAt
  <2> QED BY <1>2, <2>2, <2>3, BeforeParts
<1>5. CASE x = SmallestInteger
  <2>1. f # <<>> /\ Before(<<>>, f) /\ f[Len(f)] # 0
    BY <1>1, <1>4, <1>5
  <2>2. /\ mid \in Seq(Digit) /\ mid # <<>> /\ mid[Len(mid)] # 0 /\ Before(mid, f)
    BY <1>1, <1>2, <2>1, MidpointFits
  <2> HIDE DEF mid
  <2>3. mid \in Seq(Int)
    BY <2>2, DigitsAreInts
  <2>4. x \o mid \in Key
    BY <1>1, <2>2, KeyOf
  <2>5. Before(x \o mid, x \o f)
    BY <1>2, <2>2, <2>3, PrefixBefore
  <2> QED BY <1>1, <1>3, <1>5, <2>4, <2>5
<1>6. CASE x # SmallestInteger /\ Before(x, b)
  BY <1>1, <1>3, <1>6, WholeIsKey
<1>7. CASE x # SmallestInteger /\ ~Before(x, b)
  <2>1. f = <<>>
    <3> SUFFICES ASSUME f # <<>> PROVE FALSE
      OBVIOUS
    <3>1. Before(x \o <<>>, x \o f)
      BY <1>2, <1>4, PrefixBefore
    <3> QED BY <1>1, <1>2, <1>7, <3>1
  <2>2. x = b
    BY <1>1, <2>1
  <2>3. /\ low \in Whole /\ Under1(low, x)
        /\ low = SmallestInteger => b = IncrementInteger(SmallestInteger)
    BY <1>1, <1>7, <2>2, DecrementFits
  <2> HIDE DEF low
  <2>4. Before(low \o <<>>, x \o <<>>) /\ low \o <<>> = low
    BY <1>1, <1>2, <2>3, UnderIsBefore, WholeNumbers, ConcatEmptySeq
  <2>5. Before(low, b)
    BY <1>2, <2>2, <2>4
  <2> QED BY <1>3, <1>7, <2>3, <2>5, WholeIsKey
<1> QED BY <1>5, <1>6, <1>7

(* Between two keys there is one. *)
LEMMA KeyInsideFits ==
    ASSUME NEW a \in Key, NEW b \in Key, Before(a, b)
    PROVE  /\ KeyInside(a, b) \in Key
           /\ Before(a, KeyInside(a, b)) /\ Before(KeyInside(a, b), b)
<1> DEFINE x == IntegerPart(a)
           f == Fraction(a)
           y == IntegerPart(b)
           g == Fraction(b)
           mid == Midpoint(f, g)
           next == IncrementInteger(x)
           up == MidpointAbove(f)
<1>1. /\ x \in Whole /\ f \in Seq(Digit) /\ a = x \o f
      /\ y \in Whole /\ g \in Seq(Digit) /\ b = y \o g
      /\ g # <<>> => g[Len(g)] # 0
  BY KeyParts
<1>2. /\ x \in Seq(Int) /\ f \in Seq(Int) /\ y \in Seq(Int) /\ g \in Seq(Int)
      /\ a \in Seq(Int) /\ b \in Seq(Int)
  BY <1>1, WholeNumbers, DigitsAreInts DEF Key
<1>3. KeyInside(a, b) = IF x = y THEN x \o mid
                        ELSE IF next = Failed THEN Failed
                        ELSE IF Before(next, b) THEN next ELSE x \o up
  BY DEF KeyInside
<1> HIDE DEF x, f, y, g
<1>4. CASE x = y
  <2>1. Before(f, g)
    BY <1>1, <1>2, <1>4, BeforePrefix
  <2>2. g # <<>>
    <3>1. PICK n \in 1..Len(g) : PartAt(f, g, n)
      BY <1>2, <2>1, BeforeParts
    <3>2. Len(<<>>) = 0
      OBVIOUS
    <3> QED BY <3>1, <3>2
  <2>3. /\ mid \in Seq(Digit) /\ mid # <<>> /\ mid[Len(mid)] # 0
        /\ Before(f, mid) /\ Before(mid, g)
    BY <1>1, <2>1, <2>2, MidpointFits
  <2> HIDE DEF mid
  <2>4. mid \in Seq(Int)
    BY <2>3, DigitsAreInts
  <2>5. x \o mid \in Key
    BY <1>1, <2>3, KeyOf
  <2>6. Before(x \o f, x \o mid) /\ Before(x \o mid, x \o g)
    BY <1>2, <2>3, <2>4, PrefixBefore
  <2> QED BY <1>1, <1>3, <1>4, <2>5, <2>6
<1>5. CASE x # y
  <2>1. Under1(x, y)
    <3> SUFFICES ASSUME ~Under1(x, y) PROVE FALSE
      OBVIOUS
    <3>1. Under1(y, x)
      BY <1>1, <1>5, WholesPart
    <3>2. Before(b, a)
      BY <1>1, <1>2, <3>1, UnderIsBefore
    <3> QED BY <1>2, <3>2, BeforeIsStrict
  <2>2. next # Failed
    <3> SUFFICES ASSUME next = Failed PROVE FALSE
      OBVIOUS
    <3>1. x[1] = 2 * Widths - 1 /\ \A m \in 2..Len(x) : x[m] = Digits - 1
      <4>1. Failed \notin Whole
        BY WholeNumbers
      <4> QED BY <1>1, <4>1, IncrementFits
    <3>2. PICK i \in 1..Len(x) : i <= Len(y) /\ x[i] < y[i]
      BY <2>1 DEF Under1
    <3>3. /\ Len(x) \in Nat /\ Len(y) \in Nat /\ y[1] \in 0..(2 * Widths - 1)
          /\ \A m \in 2..Len(y) : y[m] \in 0..(Digits - 1)
      BY <1>1, WholeNumbers DEF Digit
    <3>4. CASE i = 1
      BY <3>1, <3>2, <3>3, <3>4
    <3>5. CASE i # 1
      <4>1. i \in 2..Len(x) /\ i \in 2..Len(y)
        BY <3>2, <3>3, <3>5
      <4> QED BY <3>1, <3>2, <3>3, <4>1
    <3> QED BY <3>4, <3>5
  <2>3. next \in Whole /\ Under1(x, next) /\ next # SmallestInteger
    BY <1>1, <2>2, IncrementFits
  <2>4. CASE Before(next, b)
    <3> HIDE DEF next
    <3>a. next \in Seq(Int) /\ <<>> \in Seq(Int)
      BY <2>3, WholeNumbers
    <3>1. Before(x \o f, next \o <<>>) /\ next \o <<>> = next
      BY <1>1, <1>2, <2>3, <3>a, UnderIsBefore, ConcatEmptySeq
    <3> QED BY <1>1, <1>3, <1>5, <2>2, <2>3, <2>4, <3>1, WholeIsKey
  <2>5. CASE ~Before(next, b)
    <3>1. up \in Seq(Digit) /\ up # <<>> /\ up[Len(up)] # 0 /\ Before(f, up)
      BY <1>1, MidpointAboveFits
    <3> HIDE DEF up, next
    <3>2. up \in Seq(Int)
      BY <3>1, DigitsAreInts
    <3>3. x \o up \in Key /\ Before(x \o f, x \o up)
      BY <1>1, <1>2, <3>1, <3>2, KeyOf, PrefixBefore
    <3>4. Before(x \o up, y \o g)
      BY <1>1, <1>2, <2>1, <3>2, UnderIsBefore
    <3> QED BY <1>1, <1>3, <1>5, <2>2, <2>5, <3>3, <3>4
  <2> QED BY <2>4, <2>5
<1> QED BY <1>4, <1>5

(* generate_key_between, for every number of digits and of widths: the key
   it makes is valid and strictly inside its bounds (fractional.rs:6), save
   below the integer that follows the smallest one.                        *)
THEOREM KeysBetween ==
    /\ KeyBetween(Open, Open) \in Key
    /\ \A a \in Key : KeyBetween(a, Open) \in Key /\ Before(a, KeyBetween(a, Open))
    /\ \A b \in Key \ {IncrementInteger(SmallestInteger)} :
          KeyBetween(Open, b) \in Key /\ Before(KeyBetween(Open, b), b)
    /\ \A a, b \in Key : Before(a, b) =>
          LET k == KeyBetween(a, b) IN
          k \in Key /\ Before(a, k) /\ Before(k, b)
<1>1. \A k \in Key : ValidKey(k) /\ k # Open
  BY DEF Key, ValidKey, Open
<1>2. KeyBetween(Open, Open) \in Key
  BY FirstKeyFits DEF KeyBetween
<1>3. ASSUME NEW a \in Key
      PROVE  KeyBetween(a, Open) \in Key /\ Before(a, KeyBetween(a, Open))
  <2>1. KeyBetween(a, Open) = KeyAbove(a)
    BY <1>1 DEF KeyBetween
  <2> QED BY <2>1, KeyAboveFits
<1>4. ASSUME NEW b \in Key \ {IncrementInteger(SmallestInteger)}
      PROVE  KeyBetween(Open, b) \in Key /\ Before(KeyBetween(Open, b), b)
  <2>1. KeyBetween(Open, b) = KeyBelow(b)
    BY <1>1 DEF KeyBetween
  <2> QED BY <2>1, KeyBelowFits
<1>5. ASSUME NEW a \in Key, NEW b \in Key, Before(a, b)
      PROVE  LET k == KeyBetween(a, b) IN
             k \in Key /\ Before(a, k) /\ Before(k, b)
  <2>1. KeyBetween(a, b) = KeyInside(a, b)
    BY <1>1, <1>5 DEF KeyBetween
  <2> QED BY <1>5, <2>1, KeyInsideFits
<1> QED BY <1>2, <1>3, <1>4, <1>5

-----------------------------------------------------------------------------
(* Functions that are given step by step *)

(* g is a in the beginning, and after step n what F makes of it. *)
Iterates(g, S, a, N, F) ==
    /\ g \in [0..N -> S] /\ g[0] = a
    /\ \A n \in 1..N : g[n] = F[g[n - 1], n]

(* There is a function whose value at each step is made of the one before. *)
LEMMA Iterate ==
    ASSUME NEW S, NEW a \in S, NEW N \in Nat, NEW F \in [S \X (1..N) -> S]
    PROVE  \E g : Iterates(g, S, a, N, F)
<1> DEFINE Solves(g, m) == /\ g \in [0..m -> S] /\ g[0] = a
                           /\ \A n \in 1..m : g[n] = F[g[n - 1], n]
           Bad == {m \in 0..N : ~\E g : Solves(g, m)}
<1>0. Bad \in SUBSET Nat
  <2> HIDE DEF Solves
  <2> QED OBVIOUS
<1>1. Bad = {}
  <2> SUFFICES ASSUME Bad # {} PROVE FALSE
    OBVIOUS
  <2> HIDE DEF Bad
  <2>1. PICK m \in Bad : \A x \in Bad : m <= x
    BY <1>0, LeastExists
  <2>a. m \in 0..N /\ ~\E g : Solves(g, m)
    <3> HIDE DEF Solves
    <3> QED BY <2>1 DEF Bad
  <2>2. m # 0
    <3> DEFINE z == [n \in 0..0 |-> a]
    <3>1. z \in [0..0 -> S] /\ z[0] = a /\ \A n \in 1..0 : z[n] = F[z[n - 1], n]
      OBVIOUS
    <3> HIDE DEF z
    <3>2. Solves(z, 0)
      BY <3>1
    <3> HIDE DEF Solves
    <3> QED BY <2>a, <3>2
  <2>3. m \in 1..N /\ m - 1 \in 0..N /\ ~(m <= m - 1)
    <3> HIDE DEF Solves
    <3> QED BY <2>a, <2>2
  <2>4. PICK g : Solves(g, m - 1)
    <3> HIDE DEF Solves
    <3>1. m - 1 \notin Bad
      BY <2>1, <2>3
    <3> QED BY <2>3, <3>1 DEF Bad
  <2> DEFINE h == [n \in 0..m |-> IF n = m THEN F[g[m - 1], m] ELSE g[n]]
  <2>5. /\ g \in [0..(m - 1) -> S] /\ g[0] = a
        /\ \A n \in 1..(m - 1) : g[n] = F[g[n - 1], n]
    BY <2>4
  <2>6. m - 1 \in 0..(m - 1) /\ F[g[m - 1], m] \in S
    <3>1. m - 1 \in 0..(m - 1)
      BY <2>3
    <3>2. g[m - 1] \in S
      BY <2>5, <3>1
    <3> QED BY <2>3, <3>1, <3>2
  <2>7. \A n \in 0..m : n = m \/ n \in 0..(m - 1)
    BY <2>3
  <2>8. h \in [0..m -> S]
    BY <2>5, <2>6, <2>7
  <2>9. h[0] = a
    <3>1. 0 \in 0..m /\ 0 # m
      BY <2>3
    <3>2. h[0] = g[0]
      BY <3>1
    <3> QED BY <2>5, <3>2
  <2>10. ASSUME NEW n \in 1..m PROVE h[n] = F[h[n - 1], n]
    <3>1. n - 1 \in 0..m /\ n - 1 # m /\ n \in 0..m
      BY <2>3
    <3>2. h[n - 1] = g[n - 1]
      BY <3>1
    <3>3. CASE n = m
      BY <3>1, <3>2, <3>3
    <3>4. CASE n # m
      <4>1. n \in 1..(m - 1)
        BY <2>3, <3>4
      <4> QED BY <2>5, <3>1, <3>2, <3>4, <4>1
    <3> QED BY <3>3, <3>4
  <2>11. Solves(h, m)
    <3> HIDE DEF h
    <3> QED BY <2>8, <2>9, <2>10
  <2> HIDE DEF Solves
  <2> QED BY <2>a, <2>11
<1>2. N \in 0..N
  OBVIOUS
<1>3. \E g : Solves(g, N)
  <2> HIDE DEF Solves
  <2> QED BY <1>1, <1>2
<1> QED BY <1>3 DEF Iterates

(* What a step keeps, every step keeps. *)
LEMMA Steady ==
    ASSUME NEW S, NEW N \in Nat, NEW g, g[0] \in S,
           \A n \in 1..N : g[n - 1] \in S => g[n] \in S
    PROVE  \A n \in 0..N : g[n] \in S
<1> DEFINE Bad == {n \in 0..N : g[n] \notin S}
<1>1. Bad \in SUBSET Nat
  OBVIOUS
<1>2. SUFFICES ASSUME Bad # {} PROVE FALSE
  OBVIOUS
<1>3. PICK n \in Bad : \A m \in Bad : n <= m
  <2> HIDE DEF Bad
  <2> QED BY <1>1, <1>2, LeastExists
<1>4. n \in 1..N /\ n - 1 \in 0..N /\ ~(n <= n - 1)
  BY <1>3
<1>5. n - 1 \notin Bad
  <2> HIDE DEF Bad
  <2> QED BY <1>3, <1>4
<1>6. g[n - 1] \in S
  BY <1>4, <1>5
<1> QED BY <1>3, <1>4, <1>6

(* The place of an element of a sequence. *)
LEMMA PlaceOf ==
    ASSUME NEW U, NEW s \in Seq(U), NEW x \in Range(s)
    PROVE  LET k == SelectInSeq(s, LAMBDA i : i = x) IN
           k \in 1..Len(s) /\ s[k] = x
<1> DEFINE I == {i \in 1..Len(s) : s[i] = x}
<1>1. I \in SUBSET Nat /\ I # {}
  <2>1. DOMAIN s = 1..Len(s)
    BY LenProperties
  <2> QED BY <2>1 DEF Range
<1>2. SelectInSeq(s, LAMBDA i : i = x) = Min(I)
  BY <1>1 DEF SelectInSeq
<1>3. Min(I) \in I
  <2> HIDE DEF I
  <2>1. \E i \in I : \A j \in I : i =< j
    BY <1>1, LeastExists
  <2> QED BY <2>1 DEF Min
<1> QED BY <1>2, <1>3

(* A set that has 0, and with a number the next one, has them all. *)
LEMMA AllReached ==
    ASSUME NEW N \in Nat, NEW Good, 0 \in Good,
           \A n \in 1..N : n - 1 \in Good => n \in Good
    PROVE  \A n \in 0..N : n \in Good
<1> DEFINE g == [n \in 0..N |-> n]
<1>1. g[0] \in Good /\ \A n \in 1..N : g[n - 1] = n - 1 /\ g[n] = n
  OBVIOUS
<1>2. \A n \in 0..N : g[n] = n
  OBVIOUS
<1> HIDE DEF g
<1>3. \A n \in 0..N : g[n] \in Good
  BY <1>1, Steady
<1> QED BY <1>2, <1>3

(* The keys above a key are keys, each above the one before. *)
LEMMA KeysAboveFit ==
    ASSUME NEW a \in Key, NEW N \in Nat
    PROVE  LET keys == KeysAbove(a, N) IN
           /\ keys \in [1..N -> Key]
           /\ N >= 1 => Before(a, keys[1])
           /\ \A n \in 1..(N - 1) : Before(keys[n], keys[n + 1])
<1> DEFINE F == [e \in Key \X (1..N) |-> KeyBetween(e[1], Open)]
           Solves(g) == g = [m \in 0..N |-> IF m = 0 THEN a
                                            ELSE KeyBetween(g[m - 1], Open)]
           key == CHOOSE g : Solves(g)
<1>1. F \in [Key \X (1..N) -> Key]
  BY KeysBetween
<1>2. PICK g \in [0..N -> Key] : g[0] = a /\ \A n \in 1..N : g[n] = F[g[n - 1], n]
  <2> HIDE DEF F
  <2>1. PICK g : Iterates(g, Key, a, N, F)
    BY <1>1, Iterate
  <2> QED BY <2>1 DEF Iterates
<1>3. ASSUME NEW n \in 1..N PROVE g[n] = KeyBetween(g[n - 1], Open)
  <2>1. g[n - 1] \in Key
    <3>1. n - 1 \in 0..N
      OBVIOUS
    <3> HIDE DEF F
    <3> QED BY <3>1
  <2>2. F[g[n - 1], n] = KeyBetween(g[n - 1], Open)
    BY <2>1
  <2> HIDE DEF F
  <2> QED BY <1>2, <2>2
<1>4. Solves(g)
  <2>1. \A m \in 0..N : m = 0 \/ m \in 1..N
    OBVIOUS
  <2>2. \A m \in 0..N : g[m] = IF m = 0 THEN a ELSE KeyBetween(g[m - 1], Open)
    BY <1>2, <1>3, <2>1
  <2>3. g = [m \in 0..N |-> g[m]]
    BY <1>2
  <2> QED BY <2>2, <2>3
<1>5. Solves(key)
  <2> HIDE DEF Solves
  <2> QED BY <1>4
<1>6. KeysAbove(a, N) = [m \in 1..N |-> key[m]]
  BY DEF KeysAbove
<1> HIDE DEF key
<1>7. \A m \in 0..N : key[m] = IF m = 0 THEN a ELSE KeyBetween(key[m - 1], Open)
  BY <1>5
<1> DEFINE Bad == {m \in 0..N : key[m] \notin Key}
<1>8. Bad = {}
  <2> SUFFICES ASSUME Bad # {} PROVE FALSE
    OBVIOUS
  <2>1. PICK m \in Bad : \A x \in Bad : m <= x
    <3>1. Bad \in SUBSET Nat
      OBVIOUS
    <3> HIDE DEF Bad
    <3> QED BY <3>1, LeastExists
  <2>2. m # 0
    BY <1>7, <2>1
  <2>3. m \in 0..N /\ m - 1 \in 0..N /\ ~(m <= m - 1)
    BY <2>1, <2>2
  <2>4. key[m - 1] \in Key
    BY <2>1, <2>3
  <2>5. key[m] \in Key
    BY <1>7, <2>2, <2>3, <2>4, KeysBetween
  <2> QED BY <2>1, <2>5
<1>9. \A m \in 0..N : key[m] \in Key
  BY <1>8
<1>10. ASSUME NEW m \in 1..N PROVE Before(key[m - 1], key[m])
  <2>1. m \in 0..N /\ m # 0 /\ m - 1 \in 0..N
    OBVIOUS
  <2> QED BY <1>7, <1>9, <2>1, KeysBetween
<1>11. [m \in 1..N |-> key[m]] \in [1..N -> Key]
  BY <1>9
<1>12. N >= 1 => Before(a, key[1])
  BY <1>7, <1>10
<1>13. ASSUME NEW n \in 1..(N - 1)
       PROVE  n \in 1..N /\ n + 1 \in 1..N /\ Before(key[n], key[n + 1])
  <2>1. PICK m \in 1..N : m = n + 1
    OBVIOUS
  <2>2. m - 1 = n /\ n \in 1..N
    BY <2>1
  <2> QED BY <1>10, <2>1, <2>2
<1> HIDE DEF Bad
<1> QED BY <1>6, <1>11, <1>12, <1>13

-----------------------------------------------------------------------------
(* Finite sets with an order *)

(* A subset that lacks an element has fewer. *)
LEMMA Fewer ==
    ASSUME NEW S, IsFiniteSet(S), NEW T \in SUBSET S, NEW x \in S, x \notin T
    PROVE  /\ Cardinality(T) \in Nat /\ Cardinality(S) \in Nat
           /\ Cardinality(T) < Cardinality(S)
<1>1. /\ Cardinality(S) \in Nat /\ IsFiniteSet(T)
      /\ Cardinality(T) <= Cardinality(S) /\ Cardinality(T) # Cardinality(S)
  BY FS_CardinalityType, FS_Subset
<1>2. Cardinality(T) \in Nat
  BY <1>1, FS_CardinalityType
<1> QED BY <1>1, <1>2

(* A finite set has a least element in a strict order. *)
LEMMA Lowest ==
    ASSUME NEW T, IsFiniteSet(T), T # {}, NEW R,
           \A x \in T : <<x, x>> \notin R,
           \A x, y, z \in T : <<x, y>> \in R /\ <<y, z>> \in R => <<x, z>> \in R
    PROVE  \E x \in T : \A y \in T : <<y, x>> \notin R
<1> DEFINE Low(x) == {y \in T : <<y, x>> \in R}
           C == {Cardinality(Low(x)) : x \in T}
<1>1. \A x \in T : Low(x) \in SUBSET T /\ Cardinality(Low(x)) \in Nat
  BY FS_Subset, FS_CardinalityType
<1>2. C \in SUBSET Nat /\ C # {}
  <2> HIDE DEF Low
  <2> QED BY <1>1
<1>3. PICK c \in C : \A d \in C : c <= d
  <2> HIDE DEF C
  <2> QED BY <1>2, LeastExists
<1>4. PICK x \in T : c = Cardinality(Low(x))
  BY <1>3
<1>5. ASSUME NEW y \in T, <<y, x>> \in R PROVE FALSE
  <2>1. Low(y) \in SUBSET Low(x) /\ y \in Low(x) /\ y \notin Low(y)
    BY <1>5
  <2>2. IsFiniteSet(Low(x))
    BY FS_Subset
  <2>3. Cardinality(Low(y)) < c /\ Cardinality(Low(y)) \in Nat /\ c \in Nat
    <3> HIDE DEF Low
    <3> QED BY <1>4, <2>1, <2>2, Fewer
  <2>4. c <= Cardinality(Low(y))
    <3> HIDE DEF Low
    <3> QED BY <1>3
  <2> QED BY <2>3, <2>4
<1> QED BY <1>5

(* In a strict total order of a finite set, the number of elements below one
   is its place, and every place is taken.                                 *)
LEMMA Ranks ==
    ASSUME NEW T, IsFiniteSet(T), NEW R,
           \A x \in T : <<x, x>> \notin R,
           \A x, y, z \in T : <<x, y>> \in R /\ <<y, z>> \in R => <<x, z>> \in R,
           \A x, y \in T : x = y \/ <<x, y>> \in R \/ <<y, x>> \in R
    PROVE  LET rank(x) == Cardinality({y \in T : <<y, x>> \in R}) IN
           /\ \A x \in T : rank(x) \in 0..(Cardinality(T) - 1)
           /\ \A x, y \in T : <<x, y>> \in R <=> rank(x) < rank(y)
           /\ \A n \in 0..(Cardinality(T) - 1) : \E x \in T : rank(x) = n
<1> DEFINE Low(x) == {y \in T : <<y, x>> \in R}
           rank(x) == Cardinality(Low(x))
           N == Cardinality(T)
<1>1. \A x \in T : Low(x) \in SUBSET T /\ IsFiniteSet(Low(x)) /\ x \notin Low(x)
  BY FS_Subset
<1>2. \A x \in T : rank(x) \in Nat /\ rank(x) < N /\ N \in Nat
  <2> HIDE DEF Low
  <2> QED BY <1>1, Fewer
<1>3. ASSUME NEW x \in T, NEW y \in T, <<x, y>> \in R
      PROVE  rank(x) < rank(y)
  <2>1. Low(x) \in SUBSET Low(y) /\ x \in Low(y) /\ x \notin Low(x)
    BY <1>3
  <2> HIDE DEF Low
  <2> QED BY <1>1, <2>1, Fewer
<1> HIDE DEF Low, N
<1>4. \A x, y \in T : <<x, y>> \in R <=> rank(x) < rank(y)
  <2> TAKE x, y \in T
  <2>1. rank(x) \in Nat /\ rank(y) \in Nat
    BY <1>2
  <2>2. <<x, y>> \in R => rank(x) < rank(y)
    BY <1>3
  <2>3. <<y, x>> \in R => rank(y) < rank(x)
    BY <1>3
  <2> HIDE DEF rank
  <2> QED BY <2>1, <2>2, <2>3
<1>5. \A x \in T : rank(x) \in 0..(N - 1)
  BY <1>2
<1> HIDE DEF rank
<1> DEFINE f == [x \in T |-> rank(x)]
<1>6. N \in Nat /\ IsFiniteSet(0..(N - 1)) /\ Cardinality(0..(N - 1)) = N
  <2>1. N \in Nat
    BY FS_CardinalityType DEF N
  <2>2. 0 \in Int /\ N - 1 \in Int
    BY <2>1
  <2>3. /\ IsFiniteSet(0..(N - 1))
        /\ Cardinality(0..(N - 1)) = IF 0 > N - 1 THEN 0 ELSE N - 1 - 0 + 1
    BY <2>2, FS_Interval
  <2> QED BY <2>1, <2>3
<1>7. f \in Injection(T, 0..(N - 1))
  <2>1. f \in [T -> 0..(N - 1)]
    BY <1>5
  <2>2. \A x, y \in T : rank(x) = rank(y) => x = y
    BY <1>2, <1>4
  <2> QED BY <2>1, <2>2 DEF Injection, IsInjective
<1>8. f \in Surjection(T, 0..(N - 1))
  <2> HIDE DEF f
  <2> QED BY <1>6, <1>7, FS_Injection DEF N
<1>9. \A n \in 0..(N - 1) : \E x \in T : rank(x) = n
  BY <1>8 DEF Surjection
<1> QED BY <1>4, <1>5, <1>9 DEF rank, Low, N

-----------------------------------------------------------------------------
(* Scenes *)

Contours == Seq([name: Id \X Nat, nodes: Nat])

Spaces == {"tilted", "upright"}
Anchor == [node: Nat, target: Id, at: Spaces]

Made(contours, space, anchors, parent, order) ==
    [contours |-> contours, space |-> space, anchors |-> anchors,
     parent |-> parent, order |-> order]

(* An object, with a valid key, whose parent is an id that was given. *)
Formed(o, ids) ==
    /\ o = Made(o.contours, o.space, o.anchors, o.parent, o.order)
    /\ o.contours \in Contours /\ o.space \in Spaces
    /\ o.anchors \in Seq(Anchor)
    /\ o.parent \in ids \cup {NoParent}
    /\ o.order \in Key

(* The objects of a scene, `ids' being the ids that were given. *)
Scene(objs, ids) ==
    /\ objs = [p \in DOMAIN objs |-> objs[p]]
    /\ DOMAIN objs \subseteq ids
    /\ \A p \in DOMAIN objs : Formed(objs[p], ids)

(* A key is a sequence of numbers. *)
LEMMA KeyIsSequence ==
    ASSUME NEW k \in Key
    PROVE  k \in Seq(Int) /\ ValidKey(k) /\ k # Open
BY DEF Key, ValidKey, Open

(* There are finitely many ids. *)
LEMMA IdsAreFinite ==
    ASSUME NEW S \in SUBSET Id
    PROVE  IsFiniteSet(S) /\ Cardinality(S) \in Nat /\ S \in SUBSET Nat /\ 0 \notin S
<1>1. IsFiniteSet(Id)
  <2>1. 1 \in Int /\ MaxId \in Int
    BY BoundAssumption
  <2> QED BY <2>1, FS_Interval DEF Id
<1>2. IsFiniteSet(S) /\ Cardinality(S) \in Nat
  BY <1>1, FS_Subset, FS_CardinalityType
<1>3. S \in SUBSET Nat /\ 0 \notin S
  BY BoundAssumption DEF Id
<1> QED BY <1>2, <1>3

(* What is made of each element of a sequence. *)
LEMMA MadeOfEach ==
    ASSUME NEW U, NEW s \in Seq(U), NEW t, t = [n \in DOMAIN s |-> t[n]],
           \A n \in 1..Len(s) : t[n] \in U
    PROVE  t \in Seq(U)
<1>1. DOMAIN s = 1..Len(s) /\ Len(s) \in Nat
  BY LenProperties
<1>2. t \in [1..Len(s) -> U]
  BY <1>1
<1> QED BY <1>1, <1>2, SequenceOf

(* The anchors that are retained are some of the anchors. *)
LEMMA RetainedFits ==
    ASSUME NEW anchors \in Seq(Anchor), NEW ids
    PROVE  Retained(anchors, ids) \in Seq(Anchor)
<1> DEFINE N == Len(anchors)
           S == Seq(Anchor)
           in(n) == anchors[n].target \in ids
           F == [e \in S \X (1..N) |->
                    IF in(e[2]) THEN Append(e[1], anchors[e[2]]) ELSE e[1]]
           Solves(g) == g = [n \in 0..N |-> IF n = 0 THEN <<>>
                               ELSE IF in(n) THEN Append(g[n - 1], anchors[n])
                               ELSE g[n - 1]]
           kept == CHOOSE g : Solves(g)
<1>1. N \in Nat /\ <<>> \in S /\ \A n \in 1..N : anchors[n] \in Anchor
  BY ElementOfSeq, LenProperties
<1>2. Retained(anchors, ids) = kept[N]
  BY DEF Retained
<1> HIDE DEF N, Solves, in
<1>3. \A q \in S, n \in 1..N : Append(q, anchors[n]) \in S
  BY <1>1
<1>4. F \in [S \X (1..N) -> S]
  BY <1>3
<1> HIDE DEF S
<1>5. \A q \in S, n \in 1..N : F[q, n] = IF in(n) THEN Append(q, anchors[n]) ELSE q
  OBVIOUS
<1> HIDE DEF F
<1>6. PICK g : Iterates(g, S, <<>>, N, F)
  BY <1>1, <1>4, Iterate
<1>7. Solves(g)
  <2>1. g \in [0..N -> S] /\ g[0] = <<>> /\ \A n \in 1..N : g[n] = F[g[n - 1], n]
    BY <1>6 DEF Iterates
  <2>2. ASSUME NEW n \in 1..N
        PROVE  g[n] = IF in(n) THEN Append(g[n - 1], anchors[n]) ELSE g[n - 1]
    <3>1. n - 1 \in 0..N
      BY <1>1
    <3> QED BY <1>5, <2>1, <3>1
  <2>3. \A n \in 0..N : n = 0 \/ n \in 1..N
    BY <1>1
  <2>4. g = [n \in 0..N |-> g[n]]
    BY <2>1
  <2>5. \A n \in 0..N : g[n] = IF n = 0 THEN <<>>
                               ELSE IF in(n) THEN Append(g[n - 1], anchors[n])
                               ELSE g[n - 1]
    BY <2>1, <2>2, <2>3
  <2> QED BY <2>4, <2>5 DEF Solves
<1>8. Solves(kept)
  BY <1>7
<1> HIDE DEF kept
<1>9. /\ kept[0] = <<>>
      /\ \A n \in 1..N : kept[n] = IF in(n) THEN Append(kept[n - 1], anchors[n])
                                   ELSE kept[n - 1]
  <2>1. 0 \in 0..N /\ \A n \in 1..N : n \in 0..N /\ n # 0
    BY <1>1
  <2>2. \A n \in 0..N : kept[n] = IF n = 0 THEN <<>>
                                  ELSE IF in(n) THEN Append(kept[n - 1], anchors[n])
                                  ELSE kept[n - 1]
    BY <1>8 DEF Solves
  <2> QED BY <2>1, <2>2
<1>10. \A n \in 1..N : kept[n - 1] \in S => kept[n] \in S
  BY <1>3, <1>9
<1>11. \A n \in 0..N : kept[n] \in S
  BY <1>1, <1>9, <1>10, Steady
<1>12. kept[N] \in S
  BY <1>1, <1>11
<1> QED BY <1>2, <1>12 DEF S

(* Some object has no key of a lower one, and some no key of a higher one. *)
LEMMA LowAndTop ==
    ASSUME NEW ids \in SUBSET Id, NEW objs, Scene(objs, ids), DOMAIN objs # {}
    PROVE  /\ \E p \in DOMAIN objs :
                 \A q \in DOMAIN objs : ~Before(objs[q].order, objs[p].order)
           /\ \E p \in DOMAIN objs :
                 \A q \in DOMAIN objs : ~Before(objs[p].order, objs[q].order)
<1> DEFINE T == DOMAIN objs
           R == {e \in T \X T : Before(objs[e[1]].order, objs[e[2]].order)}
           Q == {e \in T \X T : Before(objs[e[2]].order, objs[e[1]].order)}
<1>1. IsFiniteSet(T)
  BY IdsAreFinite DEF Scene
<1>2. \A p \in T : objs[p].order \in Seq(Int)
  BY KeyIsSequence DEF Scene, Formed
<1>3. \A p \in T : ~Before(objs[p].order, objs[p].order)
  BY <1>2, BeforeIsStrict
<1>4. \A p, q, r \in T :
         Before(objs[p].order, objs[q].order) /\ Before(objs[q].order, objs[r].order)
         => Before(objs[p].order, objs[r].order)
  BY <1>2, BeforeIsTransitive
<1> HIDE DEF T
<1>5. \A p, q \in T : /\ <<p, q>> \in R <=> Before(objs[p].order, objs[q].order)
                      /\ <<p, q>> \in Q <=> Before(objs[q].order, objs[p].order)
  OBVIOUS
<1> HIDE DEF R, Q
<1>6. \E p \in T : \A q \in T : <<q, p>> \notin R
  <2>1. \A p \in T : <<p, p>> \notin R
    BY <1>3, <1>5
  <2>2. \A p, q, r \in T : <<p, q>> \in R /\ <<q, r>> \in R => <<p, r>> \in R
    BY <1>4, <1>5
  <2>3. T # {}
    BY DEF T
  <2> QED BY <1>1, <2>1, <2>2, <2>3, Lowest
<1>7. \E p \in T : \A q \in T : <<q, p>> \notin Q
  <2>1. \A p \in T : <<p, p>> \notin Q
    BY <1>3, <1>5
  <2>2. \A p, q, r \in T : <<p, q>> \in Q /\ <<q, r>> \in Q => <<p, r>> \in Q
    BY <1>4, <1>5
  <2>3. T # {}
    BY DEF T
  <2> QED BY <1>1, <2>1, <2>2, <2>3, Lowest
<1> QED BY <1>5, <1>6, <1>7 DEF T

(* The next key is a key above the scene. *)
LEMMA NextKeyFits ==
    ASSUME NEW ids \in SUBSET Id, NEW objs, Scene(objs, ids)
    PROVE  /\ NextOrderKey(objs) \in Key
           /\ \A p \in DOMAIN objs : Before(objs[p].order, NextOrderKey(objs))
<1> DEFINE top == CHOOSE p \in DOMAIN objs :
                    \A q \in DOMAIN objs : ~Before(objs[p].order, objs[q].order)
           k == NextOrderKey(objs)
<1>1. k = IF DOMAIN objs = {} THEN FirstKey ELSE KeyBetween(objs[top].order, Open)
  BY DEF NextOrderKey
<1>2. CASE DOMAIN objs = {}
  BY <1>1, <1>2, FirstKeyFits
<1>3. CASE DOMAIN objs # {}
  <2>1. top \in DOMAIN objs /\ \A q \in DOMAIN objs : ~Before(objs[top].order, objs[q].order)
    BY <1>3, LowAndTop
  <2> HIDE DEF top, k
  <2>2. \A p \in DOMAIN objs : objs[p].order \in Key /\ objs[p].order \in Seq(Int)
    BY KeyIsSequence DEF Scene, Formed
  <2>3. k \in Key /\ k \in Seq(Int) /\ Before(objs[top].order, k)
    BY <1>1, <1>3, <2>1, <2>2, KeysBetween, KeyIsSequence
  <2>4. ASSUME NEW p \in DOMAIN objs PROVE Before(objs[p].order, k)
    <3>1. objs[p].order = objs[top].order \/ Before(objs[p].order, objs[top].order)
      BY <2>1, <2>2, BeforeIsTotal
    <3> QED BY <2>1, <2>2, <2>3, <3>1, BeforeIsTransitive
  <2> QED BY <2>3, <2>4 DEF k
<1> QED BY <1>2, <1>3

(* The back key is a key below the scene, unless the smallest is all there
   is below.                                                               *)
LEMMA BackKeyFits ==
    ASSUME NEW ids \in SUBSET Id, NEW objs, Scene(objs, ids)
    PROVE  /\ \A p \in DOMAIN objs : Before(BackOrderKey(objs), objs[p].order)
           /\ \/ BackOrderKey(objs) \in Key
              \/ /\ ~ValidKey(BackOrderKey(objs))
                 /\ \E p \in DOMAIN objs :
                       objs[p].order = IncrementInteger(SmallestInteger)
<1> DEFINE low == CHOOSE p \in DOMAIN objs :
                    \A q \in DOMAIN objs : ~Before(objs[q].order, objs[p].order)
           k == BackOrderKey(objs)
<1>1. k = IF DOMAIN objs = {} THEN FirstKey ELSE KeyBetween(Open, objs[low].order)
  BY DEF BackOrderKey
<1>2. CASE DOMAIN objs = {}
  BY <1>1, <1>2, FirstKeyFits
<1>3. CASE DOMAIN objs # {}
  <2>1. low \in DOMAIN objs /\ \A q \in DOMAIN objs : ~Before(objs[q].order, objs[low].order)
    BY <1>3, LowAndTop
  <2> HIDE DEF low, k
  <2>2. \A p \in DOMAIN objs : objs[p].order \in Key /\ objs[p].order \in Seq(Int)
    BY KeyIsSequence DEF Scene, Formed
  <2>3. objs[low].order # Open /\ ValidKey(objs[low].order)
    BY <2>1, <2>2, KeyIsSequence
  <2>4. k = KeyBelow(objs[low].order)
    BY <1>1, <1>3, <2>3 DEF KeyBetween
  <2>5. /\ Before(k, objs[low].order)
        /\ \/ k \in Key
           \/ /\ k = SmallestInteger
              /\ objs[low].order = IncrementInteger(SmallestInteger)
    BY <2>1, <2>2, <2>4, KeyBelowFits
  <2>6. k \in Seq(Int)
    BY <2>5, KeyIsSequence, SmallestIsWhole, WholeNumbers
  <2>7. k = SmallestInteger => ~ValidKey(k)
    BY DEF ValidKey
  <2>8. ASSUME NEW p \in DOMAIN objs PROVE Before(k, objs[p].order)
    <3>1. objs[p].order = objs[low].order \/ Before(objs[low].order, objs[p].order)
      BY <2>1, <2>2, BeforeIsTotal
    <3> QED BY <2>1, <2>2, <2>5, <2>6, <3>1, BeforeIsTransitive
  <2> QED BY <2>1, <2>5, <2>7, <2>8 DEF k
<1> QED BY <1>2, <1>3

(* In a set of keys that are all of a scene, the properties of KeysFit. *)
LEMMA SceneKeysFit ==
    ASSUME used \in SUBSET Id, Scene(objects, used)
    PROVE  KeysFit
<1> DEFINE orders == {objects[p].order : p \in DOMAIN objects}
<1>1. \A a \in orders : a \in Key
  BY DEF Scene, Formed
<1>2. /\ NextOrderKey(objects) \in Key
      /\ \A a \in orders : Before(a, NextOrderKey(objects))
  BY NextKeyFits
<1>3. /\ \A a \in orders : Before(BackOrderKey(objects), a)
      /\ \/ BackOrderKey(objects) \in Key
         \/ IncrementInteger(SmallestInteger) \in orders
  BY BackKeyFits
<1> HIDE DEF orders
<1>4. \A a, b \in orders : Before(a, b) =>
         LET k == KeyBetween(a, b) IN
         ValidKey(k) /\ Before(a, k) /\ Before(k, b)
  BY <1>1, KeysBetween, KeyIsSequence
<1>5. IncrementInteger(SmallestInteger) \notin orders =>
         /\ ValidKey(BackOrderKey(objects))
         /\ \A a \in orders : Before(BackOrderKey(objects), a)
  BY <1>3, KeyIsSequence
<1>6. /\ ValidKey(NextOrderKey(objects))
      /\ \A a \in orders : ValidKey(a) /\ Before(a, NextOrderKey(objects))
  BY <1>1, <1>2, KeyIsSequence
<1> QED BY <1>4, <1>5, <1>6 DEF KeysFit, orders

-----------------------------------------------------------------------------
(* The paint order *)

Rank(objs, S, p) == Cardinality({q \in S : Under(objs, q, p)})

Ranked(objs, S, N) ==
    /\ N = Cardinality(S) /\ N \in Nat
    /\ \A p \in S : Rank(objs, S, p) \in 0..(N - 1)
    /\ \A p, q \in S : Under(objs, p, q) <=> Rank(objs, S, p) < Rank(objs, S, q)
    /\ \A p, q \in S : Rank(objs, S, p) = Rank(objs, S, q) => p = q
    /\ \A n \in 0..(N - 1) : \E p \in S : Rank(objs, S, p) = n

(* s has the N objects of S, each at its place. *)
InOrder(objs, S, N, s) ==
    /\ N \in Nat /\ s \in [1..N -> S] /\ Len(s) = N
    /\ \A n \in 1..N : Rank(objs, S, s[n]) = n - 1
    /\ \A p \in S : \E n \in 1..N : s[n] = p

(* Every object of a set has a place in the paint order, and every place an
   object.                                                                 *)
LEMMA PaintRanks ==
    ASSUME NEW ids \in SUBSET Id, NEW objs, Scene(objs, ids),
           NEW S, S \subseteq DOMAIN objs
    PROVE  Ranked(objs, S, Cardinality(S))
<1> DEFINE R == {e \in S \X S : Under(objs, e[1], e[2])}
           rank(p) == Cardinality({q \in S : <<q, p>> \in R})
<1>1. S \in SUBSET Id
  BY DEF Scene
<1>2. IsFiniteSet(S) /\ Cardinality(S) \in Nat /\ S \in SUBSET Nat
  BY <1>1, IdsAreFinite
<1>3. \A p \in S : objs[p].order \in Seq(Int) /\ p \in Nat
  BY <1>2, KeyIsSequence DEF Scene, Formed
<1>4. \A p, q \in S : <<p, q>> \in R <=> Under(objs, p, q)
  OBVIOUS
<1> HIDE DEF R
<1>5. \A p \in S : <<p, p>> \notin R
  BY <1>3, <1>4, BeforeIsStrict DEF Under
<1>6. \A p, q \in S : p = q \/ <<p, q>> \in R \/ <<q, p>> \in R
  <2> TAKE p, q \in S
  <2>1. CASE objs[p].order = objs[q].order
    BY <1>3, <1>4, <2>1 DEF Under
  <2>2. CASE objs[p].order # objs[q].order
    BY <1>3, <1>4, <2>2, BeforeIsTotal DEF Under
  <2> QED BY <2>1, <2>2
<1>7. \A p, q, r \in S : <<p, q>> \in R /\ <<q, r>> \in R => <<p, r>> \in R
  <2> TAKE p, q, r \in S
  <2> HAVE <<p, q>> \in R /\ <<q, r>> \in R
  <2>1. Under(objs, p, q) /\ Under(objs, q, r)
    BY <1>4
  <2>2. Before(objs[p].order, objs[q].order) /\ Before(objs[q].order, objs[r].order)
        => Before(objs[p].order, objs[r].order)
    BY <1>3, BeforeIsTransitive
  <2>3. p < q /\ q < r => p < r
    BY <1>3
  <2>4. Under(objs, p, r)
    BY <2>1, <2>2, <2>3 DEF Under
  <2> QED BY <1>4, <2>4
<1>8. /\ \A p \in S : rank(p) \in 0..(Cardinality(S) - 1)
      /\ \A p, q \in S : <<p, q>> \in R <=> rank(p) < rank(q)
      /\ \A n \in 0..(Cardinality(S) - 1) : \E p \in S : rank(p) = n
  BY <1>2, <1>5, <1>6, <1>7, Ranks
<1>9. \A p \in S : rank(p) = Rank(objs, S, p)
  <2> TAKE p \in S
  <2>1. {q \in S : <<q, p>> \in R} = {q \in S : Under(objs, q, p)}
    BY <1>4
  <2> QED BY <2>1 DEF Rank
<1> HIDE DEF rank
<1>10. \A p, q \in S : Rank(objs, S, p) = Rank(objs, S, q) => p = q
  <2> TAKE p, q \in S
  <2>1. rank(p) \in Nat /\ rank(q) \in Nat
    BY <1>2, <1>8
  <2>2. ~(rank(p) < rank(q)) /\ ~(rank(q) < rank(p)) => p = q
    BY <1>6, <1>8
  <2> QED BY <1>9, <2>1, <2>2
<1>11. /\ \A p \in S : Rank(objs, S, p) \in 0..(Cardinality(S) - 1)
       /\ \A n \in 0..(Cardinality(S) - 1) : \E p \in S : Rank(objs, S, p) = n
  BY <1>8, <1>9
<1>12. \A p, q \in S : Under(objs, p, q) <=> Rank(objs, S, p) < Rank(objs, S, q)
  BY <1>4, <1>8, <1>9
<1> QED BY <1>2, <1>10, <1>11, <1>12 DEF Ranked

(* The objects of a set in paint order: all of them, each at its place. *)
LEMMA PaintedInOrder ==
    ASSUME NEW ids \in SUBSET Id, NEW objs, Scene(objs, ids),
           NEW S, S \subseteq DOMAIN objs
    PROVE  InOrder(objs, S, Cardinality(S), Painted(objs, S))
<1> DEFINE N == Cardinality(S)
           s == Painted(objs, S)
           place(n) == CHOOSE p \in S : Cardinality({q \in S : Under(objs, q, p)}) = n - 1
<1>0. Ranked(objs, S, N)
  BY PaintRanks
<1>1. s = [n \in 1..N |-> place(n)]
  BY DEF Painted
<1>2. N \in Nat
  BY <1>0 DEF Ranked
<1>3. ASSUME NEW n \in 1..N PROVE place(n) \in S /\ Rank(objs, S, place(n)) = n - 1
  <2>1. n - 1 \in 0..(N - 1)
    BY <1>2
  <2>2. \E p \in S : Rank(objs, S, p) = n - 1
    BY <1>0, <2>1 DEF Ranked
  <2>3. \E p \in S : Cardinality({q \in S : Under(objs, q, p)}) = n - 1
    BY <2>2 DEF Rank
  <2> QED BY <2>3 DEF Rank
<1> HIDE DEF place, s, N
<1>4. s \in [1..N -> S] /\ \A n \in 1..N : s[n] = place(n)
  BY <1>1, <1>3
<1>5. Len(s) = N
  BY <1>2, <1>4, SequenceOf
<1>6. ASSUME NEW p \in S PROVE \E n \in 1..N : s[n] = p
  <2>1. Rank(objs, S, p) \in 0..(N - 1)
    BY <1>0 DEF Ranked
  <2>2. PICK n \in 1..N : n - 1 = Rank(objs, S, p)
    <3>1. \A r \in 0..(N - 1) : \E n \in 1..N : n - 1 = r
      <4> TAKE r \in 0..(N - 1)
      <4>1. r + 1 \in 1..N /\ r + 1 - 1 = r
        BY <1>2
      <4> QED BY <4>1
    <3> QED BY <2>1, <3>1
  <2>3. s[n] \in S /\ Rank(objs, S, s[n]) = Rank(objs, S, p)
    BY <1>3, <1>4, <2>2
  <2>4. s[n] = p
    BY <1>0, <2>3 DEF Ranked
  <2> QED BY <2>4
<1> QED BY <1>2, <1>3, <1>4, <1>5, <1>6 DEF s, N, InOrder

(* Two scenes that agree on what is under what paint alike. *)
LEMMA PaintedAlike ==
    ASSUME NEW ids \in SUBSET Id, NEW objs, Scene(objs, ids),
           NEW all \in SUBSET Id, NEW after, Scene(after, all),
           NEW S, S \subseteq DOMAIN objs, S \subseteq DOMAIN after,
           \A p, q \in S : Under(objs, p, q) <=> Under(after, p, q)
    PROVE  Painted(after, S) = Painted(objs, S)
<1> DEFINE N == Cardinality(S)
           s == Painted(objs, S)
           t == Painted(after, S)
<1>1. \A p \in S : Rank(after, S, p) = Rank(objs, S, p)
  <2> TAKE p \in S
  <2>1. {q \in S : Under(objs, q, p)} = {q \in S : Under(after, q, p)}
    OBVIOUS
  <2> QED BY <2>1 DEF Rank
<1>2. InOrder(objs, S, N, s) /\ InOrder(after, S, N, t) /\ Ranked(objs, S, N)
  BY PaintedInOrder, PaintRanks
<1> HIDE DEF s, t, N
<1>3. /\ s \in [1..N -> S] /\ \A n \in 1..N : Rank(objs, S, s[n]) = n - 1
      /\ t \in [1..N -> S] /\ \A n \in 1..N : Rank(after, S, t[n]) = n - 1
  BY <1>2 DEF InOrder
<1>4. ASSUME NEW n \in 1..N PROVE t[n] = s[n]
  <2>1. s[n] \in S /\ t[n] \in S /\ Rank(objs, S, t[n]) = Rank(objs, S, s[n])
    BY <1>1, <1>3
  <2> QED BY <1>2, <2>1 DEF Ranked
<1>5. t = s
  <2>1. s = [n \in 1..N |-> s[n]] /\ t = [n \in 1..N |-> t[n]]
    BY <1>3
  <2> QED BY <1>4, <2>1
<1> QED BY <1>5 DEF s, t

-----------------------------------------------------------------------------
(* Flat node indices *)

(* A contour more adds its nodes (subpath_offsets). *)
LEMMA OffsetSteps ==
    ASSUME NEW contours \in Contours
    PROVE  LET N == Len(contours) IN
           /\ N \in Nat /\ \A n \in 1..N : contours[n] \in [name: Id \X Nat, nodes: Nat]
           /\ \A n \in 1..(N + 1) : Offset(contours, n) \in Nat
           /\ Offset(contours, 1) = 0
           /\ \A n \in 1..N :
                 Offset(contours, n + 1) = Offset(contours, n) + contours[n].nodes
<1> DEFINE N == Len(contours)
           F == [e \in Nat \X (1..N) |-> e[1] + contours[e[2]].nodes]
<1>1. N \in Nat /\ \A n \in 1..N : contours[n] \in [name: Id \X Nat, nodes: Nat]
  BY ElementOfSeq, LenProperties DEF Contours
<1> HIDE DEF N
<1>2. \A n \in 1..N : contours[n].nodes \in Nat
  BY <1>1
<1>3. F \in [Nat \X (1..N) -> Nat]
  BY <1>2
<1>4. \A x \in Nat, n \in 1..N : F[x, n] = x + contours[n].nodes
  OBVIOUS
<1> HIDE DEF F
<1>5. PICK g : Iterates(g, Nat, 0, N, F)
  BY <1>1, <1>3, Iterate
<1>6. g \in [0..N -> Nat] /\ g[0] = 0 /\ \A n \in 1..N : g[n] = F[g[n - 1], n]
  BY <1>5 DEF Iterates
<1>7. \A n \in 1..N : g[n] = g[n - 1] + contours[n].nodes
  <2> TAKE n \in 1..N
  <2>1. n - 1 \in 0..N
    BY <1>1
  <2> QED BY <1>4, <1>6, <2>1
<1>8. ASSUME NEW n \in 1..(N + 1) PROVE Offset(contours, n) = g[n - 1]
  <2> DEFINE Solves(f) == f = [m \in 1..n |-> IF m = 1 THEN 0
                                             ELSE f[m - 1] + contours[m - 1].nodes]
             sum == CHOOSE f : Solves(f)
             f == [m \in 1..n |-> g[m - 1]]
             Good == {m \in 0..(n - 1) : sum[m + 1] = g[m]}
  <2>1. Offset(contours, n) = sum[n]
    BY DEF Offset
  <2>2. n \in Nat /\ n - 1 \in Nat /\ n - 1 \in 0..N /\ 1 \in 1..n
    BY <1>1
  <2>3. \A m \in 1..n : m # 1 => /\ m - 1 \in 1..n /\ m - 1 \in 1..N
                                 /\ m - 1 - 1 = m - 2 /\ m - 1 \in 0..N
    BY <1>1, <2>2
  <2>4. ASSUME NEW m \in 1..n
        PROVE  f[m] = IF m = 1 THEN 0 ELSE f[m - 1] + contours[m - 1].nodes
    <3>1. CASE m = 1
      <4>1. f[m] = g[0]
        BY <3>1
      <4> QED BY <1>6, <3>1, <4>1
    <3>2. CASE m # 1
      <4>1. f[m] = g[m - 1] /\ f[m - 1] = g[m - 1 - 1]
        BY <2>3, <3>2
      <4> QED BY <1>7, <2>3, <3>2, <4>1
    <3> QED BY <3>1, <3>2
  <2>5. Solves(f)
    <3>1. f = [m \in 1..n |-> f[m]]
      OBVIOUS
    <3> HIDE DEF f
    <3> QED BY <2>4, <3>1
  <2>6. Solves(sum)
    <3> HIDE DEF Solves, f
    <3> QED BY <2>5
  <2> HIDE DEF sum, f
  <2>7. \A m \in 1..n : sum[m] = IF m = 1 THEN 0 ELSE sum[m - 1] + contours[m - 1].nodes
    BY <2>6
  <2>8. 0 \in Good
    <3>1. sum[1] = 0 /\ 0 + 1 = 1 /\ 0 \in 0..(n - 1)
      BY <2>2, <2>7
    <3> QED BY <1>6, <3>1
  <2>9. ASSUME NEW m \in 1..(n - 1), m - 1 \in Good PROVE m \in Good
    <3>1. sum[m - 1 + 1] = g[m - 1] /\ m - 1 + 1 = m
      BY <2>9
    <3>2. /\ m + 1 \in 1..n /\ m + 1 # 1 /\ m + 1 - 1 = m /\ m \in 1..N
          /\ m \in 0..(n - 1)
      BY <1>1, <2>2
    <3>3. sum[m + 1] = sum[m] + contours[m].nodes
      BY <2>7, <3>2
    <3>4. sum[m + 1] = g[m]
      BY <1>7, <3>1, <3>2, <3>3
    <3> QED BY <3>2, <3>4
  <2> HIDE DEF Good
  <2>10. \A m \in 0..(n - 1) : m \in Good
    BY <2>2, <2>8, <2>9, AllReached
  <2>11. n - 1 \in 0..(n - 1) /\ n - 1 + 1 = n
    BY <2>2
  <2> QED BY <2>1, <2>10, <2>11 DEF Good
<1>9. /\ \A n \in 1..(N + 1) : Offset(contours, n) \in Nat
      /\ Offset(contours, 1) = 0
      /\ \A n \in 1..N :
            Offset(contours, n + 1) = Offset(contours, n) + contours[n].nodes
  <2>1. \A n \in 1..(N + 1) : n - 1 \in 0..N
    BY <1>1
  <2>2. 1 \in 1..(N + 1) /\ 1 - 1 = 0
    BY <1>1
  <2>3. \A n \in 1..N : n \in 1..(N + 1) /\ n + 1 \in 1..(N + 1) /\ n + 1 - 1 = n
    BY <1>1
  <2>4. \A n \in 1..(N + 1) : g[n - 1] \in Nat
    BY <1>6, <2>1
  <2>5. /\ \A n \in 1..(N + 1) : Offset(contours, n) = g[n - 1]
        /\ Offset(contours, 1) = g[0]
    BY <1>8, <2>2
  <2>6. ASSUME NEW n \in 1..N
        PROVE  Offset(contours, n + 1) = Offset(contours, n) + contours[n].nodes
    <3>1. Offset(contours, n + 1) = g[n] /\ Offset(contours, n) = g[n - 1]
      BY <2>3, <2>5
    <3> QED BY <1>7, <3>1
  <2> QED BY <1>6, <2>4, <2>5, <2>6
<1> QED BY <1>1, <1>9 DEF N

(* The offsets do not fall. *)
LEMMA OffsetGrows ==
    ASSUME NEW contours \in Contours,
           NEW i \in 1..(Len(contours) + 1), NEW j \in 1..(Len(contours) + 1), i <= j
    PROVE  Offset(contours, i) <= Offset(contours, j)
<1> DEFINE N == Len(contours)
           Good == {k \in 0..(j - i) : Offset(contours, i) <= Offset(contours, i + k)}
<1>1. /\ N \in Nat /\ \A n \in 1..N : contours[n].nodes \in Nat
      /\ \A n \in 1..(N + 1) : Offset(contours, n) \in Nat
      /\ \A n \in 1..N :
            Offset(contours, n + 1) = Offset(contours, n) + contours[n].nodes
  BY OffsetSteps
<1> HIDE DEF N
<1>2. i \in 1..(N + 1) /\ j \in 1..(N + 1) /\ j - i \in Nat
  BY <1>1 DEF N
<1>3. 0 \in Good
  <2>1. i + 0 = i /\ Offset(contours, i) \in Nat /\ 0 \in 0..(j - i)
    BY <1>1, <1>2
  <2> QED BY <2>1
<1>4. ASSUME NEW k \in 1..(j - i), k - 1 \in Good PROVE k \in Good
  <2>1. Offset(contours, i) <= Offset(contours, i + (k - 1))
    BY <1>4
  <2>2. /\ i + (k - 1) \in 1..N /\ i + (k - 1) + 1 = i + k /\ i + k \in 1..(N + 1)
        /\ i + (k - 1) \in 1..(N + 1) /\ k \in 0..(j - i)
    BY <1>1, <1>2
  <2>3. Offset(contours, i + k)
          = Offset(contours, i + (k - 1)) + contours[i + (k - 1)].nodes
    BY <1>1, <2>2
  <2>4. /\ Offset(contours, i) \in Nat /\ Offset(contours, i + (k - 1)) \in Nat
        /\ contours[i + (k - 1)].nodes \in Nat
    BY <1>1, <1>2, <2>2
  <2>5. Offset(contours, i) <= Offset(contours, i + k)
    BY <2>1, <2>3, <2>4
  <2> QED BY <2>2, <2>5
<1> HIDE DEF Good
<1>5. \A k \in 0..(j - i) : k \in Good
  BY <1>2, <1>3, <1>4, AllReached
<1>6. j - i \in 0..(j - i) /\ i + (j - i) = j
  BY <1>1, <1>2
<1> QED BY <1>5, <1>6 DEF Good

(* A node of a contour is owned by that contour alone. *)
LEMMA OwnerIs ==
    ASSUME NEW contours \in Contours, NEW n \in 1..Len(contours),
           NEW local \in Nat, local < contours[n].nodes
    PROVE  OwnersOf(contours, Offset(contours, n) + local) = {n}
<1> DEFINE N == Len(contours)
           flat == Offset(contours, n) + local
<1>1. /\ N \in Nat /\ \A k \in 1..N : contours[k].nodes \in Nat
      /\ \A k \in 1..(N + 1) : Offset(contours, k) \in Nat
      /\ \A k \in 1..N :
            Offset(contours, k + 1) = Offset(contours, k) + contours[k].nodes
      /\ DOMAIN contours = 1..N
  BY OffsetSteps, LenProperties DEF Contours
<1> HIDE DEF N
<1>2. n \in 1..N /\ n \in 1..(N + 1) /\ n + 1 \in 1..(N + 1)
  BY <1>1 DEF N
<1>3. Offset(contours, n) <= flat /\ flat < Offset(contours, n + 1) /\ flat \in Nat
  <2>1. Offset(contours, n) \in Nat /\ contours[n].nodes \in Nat
    BY <1>1, <1>2
  <2>2. Offset(contours, n + 1) = Offset(contours, n) + contours[n].nodes
    BY <1>1, <1>2
  <2> QED BY <2>1, <2>2
<1>4. ASSUME NEW k \in 1..N, k # n
      PROVE  ~(Offset(contours, k) <= flat /\ flat < Offset(contours, k + 1))
  <2>1. k \in 1..(N + 1) /\ k + 1 \in 1..(N + 1)
    BY <1>1
  <2>2. /\ Offset(contours, k) \in Nat /\ Offset(contours, k + 1) \in Nat
        /\ Offset(contours, n) \in Nat /\ Offset(contours, n + 1) \in Nat
    BY <1>1, <1>2, <2>1
  <2>3. CASE k < n
    <3>1. k + 1 <= n
      BY <1>1, <1>2, <2>3
    <3>2. Offset(contours, k + 1) <= Offset(contours, n)
      BY <1>2, <2>1, <3>1, OffsetGrows DEF N
    <3> HIDE DEF flat
    <3> QED BY <1>3, <2>2, <3>2
  <2>4. CASE n < k
    <3>1. n + 1 <= k
      BY <1>1, <1>2, <2>4
    <3>2. Offset(contours, n + 1) <= Offset(contours, k)
      BY <1>2, <2>1, <3>1, OffsetGrows DEF N
    <3> HIDE DEF flat
    <3> QED BY <1>3, <2>2, <3>2
  <2> QED BY <1>1, <1>2, <1>4, <2>3, <2>4
<1> HIDE DEF flat
<1>5. OwnersOf(contours, flat) = {n}
  BY <1>1, <1>2, <1>3, <1>4 DEF OwnersOf
<1> QED BY <1>5 DEF flat

(* An index that is owned is a node of its owner. *)
LEMMA OwnedIs ==
    ASSUME NEW contours \in Contours, NEW flat \in Nat, NEW n \in OwnersOf(contours, flat)
    PROVE  /\ n \in 1..Len(contours)
           /\ flat - Offset(contours, n) \in Nat
           /\ flat - Offset(contours, n) < contours[n].nodes
           /\ OwnersOf(contours, flat) = {n}
<1> DEFINE N == Len(contours)
           local == flat - Offset(contours, n)
<1>1. /\ N \in Nat /\ \A k \in 1..N : contours[k].nodes \in Nat
      /\ \A k \in 1..(N + 1) : Offset(contours, k) \in Nat
      /\ \A k \in 1..N :
            Offset(contours, k + 1) = Offset(contours, k) + contours[k].nodes
      /\ DOMAIN contours = 1..N
  BY OffsetSteps, LenProperties DEF Contours
<1> HIDE DEF N
<1>2. n \in 1..N /\ Offset(contours, n) <= flat /\ flat < Offset(contours, n + 1)
  BY <1>1 DEF OwnersOf
<1>3. n \in 1..(N + 1)
  BY <1>1, <1>2
<1>4. /\ Offset(contours, n) \in Nat /\ contours[n].nodes \in Nat
      /\ Offset(contours, n + 1) = Offset(contours, n) + contours[n].nodes
  BY <1>1, <1>2, <1>3
<1>5. local \in Nat /\ local < contours[n].nodes /\ Offset(contours, n) + local = flat
  BY <1>2, <1>4
<1> HIDE DEF local
<1>6. OwnersOf(contours, Offset(contours, n) + local) = {n}
  BY <1>2, <1>5, OwnerIs DEF N
<1> QED BY <1>2, <1>5, <1>6 DEF local, N

(* The first N elements of s are found in u, behind i others. *)
Stands(s, N, u, i) ==
    i + N <= Len(u) /\ N <= Len(s) /\ \A k \in 1..N : u[i + k] = s[k]

(* What u adds behind those, s adds as well. *)
Along(s, m, u, i) == Offset(u, i + 1 + m) = Offset(u, i + 1) + Offset(s, 1 + m)

(* Where some contours are found among others, the offsets run alike. *)
LEMMA OffsetAlong ==
    ASSUME NEW u \in Contours, NEW s \in Contours, NEW i \in Nat, NEW N \in Nat,
           Stands(s, N, u, i), NEW m \in 0..N
    PROVE  Along(s, m, u, i)
<1> DEFINE Good == {k \in 0..N : Offset(u, i + 1 + k) = Offset(u, i + 1) + Offset(s, 1 + k)}
<1>0. i + N <= Len(u) /\ N <= Len(s) /\ \A k \in 1..N : u[i + k] = s[k]
  BY DEF Stands
<1>1. /\ Len(u) \in Nat /\ \A n \in 1..Len(u) : u[n].nodes \in Nat
      /\ \A n \in 1..(Len(u) + 1) : Offset(u, n) \in Nat
      /\ \A n \in 1..Len(u) : Offset(u, n + 1) = Offset(u, n) + u[n].nodes
  BY OffsetSteps
<1>2. /\ Len(s) \in Nat /\ Offset(s, 1) = 0
      /\ \A n \in 1..(Len(s) + 1) : Offset(s, n) \in Nat
      /\ \A n \in 1..Len(s) : Offset(s, n + 1) = Offset(s, n) + s[n].nodes
  BY OffsetSteps
<1>3. 0 \in Good
  <2>1. /\ 0 \in 0..N /\ i + 1 + 0 = i + 1 /\ 1 + 0 = 1
        /\ i + 1 \in 1..(Len(u) + 1)
    BY <1>0, <1>1
  <2>2. Offset(u, i + 1) \in Nat
    BY <1>1, <2>1
  <2>3. Offset(u, i + 1) = Offset(u, i + 1) + Offset(s, 1)
    BY <1>2, <2>2
  <2> QED BY <2>1, <2>3
<1>4. ASSUME NEW k \in 1..N, k - 1 \in Good PROVE k \in Good
  <2>1. Offset(u, i + 1 + (k - 1)) = Offset(u, i + 1) + Offset(s, 1 + (k - 1))
    BY <1>4
  <2>2. /\ i + 1 + (k - 1) = i + k /\ 1 + (k - 1) = k
        /\ i + k \in 1..Len(u) /\ k \in 1..Len(s) /\ k \in 0..N
        /\ i + k + 1 = i + 1 + k /\ k + 1 = 1 + k
        /\ i + 1 \in 1..(Len(u) + 1) /\ k \in 1..(Len(s) + 1)
    BY <1>0, <1>1, <1>2
  <2>3. /\ Offset(u, i + 1 + k) = Offset(u, i + k) + u[i + k].nodes
        /\ Offset(s, 1 + k) = Offset(s, k) + s[k].nodes
        /\ u[i + k] = s[k]
    BY <1>0, <1>1, <1>2, <2>2
  <2>4. Offset(u, i + 1) \in Nat /\ Offset(s, k) \in Nat /\ u[i + k].nodes \in Nat
    BY <1>1, <1>2, <2>2
  <2>5. Offset(u, i + k) = Offset(u, i + 1) + Offset(s, k)
    BY <2>1, <2>2
  <2>6. Offset(u, i + 1 + k) = Offset(u, i + 1) + Offset(s, 1 + k)
    BY <2>3, <2>4, <2>5
  <2> QED BY <2>2, <2>6
<1> HIDE DEF Good
<1>5. \A k \in 0..N : k \in Good
  BY <1>3, <1>4, AllReached
<1> QED BY <1>5 DEF Good, Along

-----------------------------------------------------------------------------
(* What an op changes *)

(* The ids an op gives, the ids of objects it may take away, and the ids of
   the objects it writes, anchors aside.                                   *)
Given(op) ==
    IF op.kind = "insert" THEN {op.id}
    ELSE IF op.kind = "split" THEN Range(op.new_ids) ELSE {}

Taken(op) ==
    IF op.kind \in {"delete", "split"} THEN {op.id}
    ELSE IF op.kind = "merge" THEN Range(op.ids) ELSE {}

Written(op) ==
    IF op.kind = "split" THEN {op.id} \cup Range(op.new_ids)
    ELSE IF op.kind = "merge" THEN Range(op.ids) ELSE {op.id}

(* An op whose operands are what they have to be where `ids' were given. *)
Fits(op, ids) ==
    \/ op.kind = "insert" /\ op.id \in Id \ ids /\ Formed(op.object, ids)
    \/ op.kind \in {"delete", "canonicalize"}
    \/ op.kind = "set-anchor" /\ op.anchors \in Seq(Anchor)
    \/ op.kind = "set-shape" /\ op.contours \in Contours /\ op.space \in Spaces
    \/ op.kind = "reorder" /\ op.order \in Key
    \/ op.kind = "reparent" /\ op.order \in Key /\ op.parent \in ids \cup {NoParent}
    \/ /\ op.kind = "split"
       /\ op.peel \in Seq(Nat) /\ \E n \in Nat : op.new_ids \in [1..n -> Id \ ids]
    \/ op.kind = "merge" /\ \E n \in Nat : op.ids \in [1..n -> Id]

(* b is a, with anchors of its own. *)
ButAnchors(a, b) ==
    \E anchors : b = Made(a.contours, a.space, anchors, a.parent, a.order)

(* An op gives and takes no more than that, writes no more than that, and
   leaves well-formed objects; only Reparent moves an object.              *)
Effect(objs, op, after, ids) ==
    /\ after = [p \in DOMAIN after |-> after[p]]
    /\ DOMAIN after \subseteq DOMAIN objs \cup Given(op)
    /\ (DOMAIN objs \ Taken(op)) \cup Given(op) \subseteq DOMAIN after
    /\ \A p \in DOMAIN after : Formed(after[p], ids)
    /\ \A p \in DOMAIN after \ Given(op) :
          op.kind # "reparent" => after[p].parent = objs[p].parent
    /\ \A p \in DOMAIN objs \ Written(op) :
          p \in DOMAIN after /\ ButAnchors(objs[p], after[p])

(* What became of an object, one component being written. *)
LEMMA FormedExcept ==
    ASSUME NEW o, NEW ids, Formed(o, ids), NEW v
    PROVE  /\ [o EXCEPT !.contours = v] = Made(v, o.space, o.anchors, o.parent, o.order)
           /\ [o EXCEPT !.space = v] = Made(o.contours, v, o.anchors, o.parent, o.order)
           /\ [o EXCEPT !.anchors = v] = Made(o.contours, o.space, v, o.parent, o.order)
           /\ [o EXCEPT !.order = v] = Made(o.contours, o.space, o.anchors, o.parent, v)
BY DEF Formed, Made

(* The components of an object. *)
LEMMA MadeIs ==
    ASSUME NEW c, NEW s, NEW a, NEW p, NEW k
    PROVE  LET o == Made(c, s, a, p, k) IN
           /\ o.contours = c /\ o.space = s /\ o.anchors = a
           /\ o.parent = p /\ o.order = k
BY DEF Made

(* An object does not differ from itself. *)
LEMMA ButAnchorsSame ==
    ASSUME NEW o, NEW ids, Formed(o, ids)
    PROVE  ButAnchors(o, o)
BY DEF ButAnchors, Formed

(* With anchors of its own it is as well formed. *)
LEMMA ButAnchorsFormed ==
    ASSUME NEW o, NEW ids, Formed(o, ids), NEW v \in Seq(Anchor)
    PROVE  LET b == [o EXCEPT !.anchors = v] IN
           Formed(b, ids) /\ b.parent = o.parent /\ ButAnchors(o, b)
<1> DEFINE b == [o EXCEPT !.anchors = v]
<1>1. b = Made(o.contours, o.space, v, o.parent, o.order)
  BY FormedExcept
<1> HIDE DEF b
<1>2. /\ b.contours = o.contours /\ b.space = o.space /\ b.anchors = v
      /\ b.parent = o.parent /\ b.order = o.order
  BY <1>1, MadeIs
<1>3. Formed(b, ids)
  BY <1>1, <1>2 DEF Formed
<1>4. ButAnchors(o, b)
  BY <1>1 DEF ButAnchors
<1> QED BY <1>2, <1>3, <1>4 DEF b

(* What an op that is accepted returns. *)
LEMMA DoneIs ==
    ASSUME NEW objs, NEW inverse
    PROVE  Done(objs, inverse).ok = TRUE /\ Done(objs, inverse).objs = objs /\ Err.ok = FALSE
BY DEF Done, Err

(* Insert *)
LEMMA InsertEffect ==
    ASSUME NEW ids \in SUBSET Id, NEW objs, Scene(objs, ids), NEW op,
           op.kind = "insert", Fits(op, ids), ApplyInner(objs, op).ok
    PROVE  Effect(objs, op, ApplyInner(objs, op).objs, ids)
<1> DEFINE after == [p \in DOMAIN objs \cup {op.id} |->
                        IF p = op.id THEN op.object ELSE objs[p]]
           inverse == <<Delete(op.id)>>
<1>1. ApplyInner(objs, op) = IF op.id \in DOMAIN objs THEN Err ELSE Done(after, inverse)
  BY DEF ApplyInner, ApplyInsert
<1>2. op.id \notin DOMAIN objs /\ ApplyInner(objs, op).objs = after
  <2> HIDE DEF after, inverse
  <2> QED BY <1>1, DoneIs
<1>3. op.id \in Id \ ids /\ Formed(op.object, ids)
  BY DEF Fits
<1>4. \A p \in DOMAIN objs : Formed(objs[p], ids) /\ ButAnchors(objs[p], objs[p])
  BY ButAnchorsSame DEF Scene
<1>5. Given(op) = {op.id} /\ Taken(op) = {} /\ Written(op) = {op.id}
  BY DEF Given, Taken, Written
<1>6. Effect(objs, op, after, ids)
  BY <1>2, <1>3, <1>4, <1>5 DEF Effect
<1> QED BY <1>2, <1>6

(* Delete *)
LEMMA DeleteEffect ==
    ASSUME NEW ids \in SUBSET Id, NEW objs, Scene(objs, ids), NEW op,
           op.kind = "delete", ApplyInner(objs, op).ok
    PROVE  Effect(objs, op, ApplyInner(objs, op).objs, ids)
<1> DEFINE rest == [p \in DOMAIN objs \ {op.id} |-> objs[p]]
           anchors(p) == Retained(rest[p].anchors, Id \ {op.id})
           after == [p \in DOMAIN rest |-> [rest[p] EXCEPT !.anchors = anchors(p)]]
           inverse == <<Insert(op.id, objs[op.id])>> \o RestoreAnchors(rest, {op.id})
<1>1. ApplyInner(objs, op) = IF op.id \notin DOMAIN objs THEN Err ELSE Done(after, inverse)
  BY DEF ApplyInner, ApplyDelete
<1>2. op.id \in DOMAIN objs /\ ApplyInner(objs, op).objs = after
  <2> HIDE DEF after, inverse
  <2> QED BY <1>1, DoneIs
<1> HIDE DEF anchors
<1>3. DOMAIN rest = DOMAIN objs \ {op.id} /\ \A p \in DOMAIN rest : rest[p] = objs[p]
  OBVIOUS
<1> HIDE DEF rest
<1>4. \A p \in DOMAIN rest : after[p] = [objs[p] EXCEPT !.anchors = anchors(p)]
  BY <1>3
<1>5. after = [p \in DOMAIN after |-> after[p]] /\ DOMAIN after = DOMAIN rest
  OBVIOUS
<1> HIDE DEF after
<1>6. ASSUME NEW p \in DOMAIN after
      PROVE  /\ Formed(after[p], ids) /\ after[p].parent = objs[p].parent
             /\ ButAnchors(objs[p], after[p])
  <2>1. Formed(objs[p], ids) /\ after[p] = [objs[p] EXCEPT !.anchors = anchors(p)]
    BY <1>3, <1>4, <1>5 DEF Scene
  <2>2. anchors(p) \in Seq(Anchor)
    <3>1. p \in DOMAIN rest /\ rest[p] = objs[p] /\ objs[p].anchors \in Seq(Anchor)
      BY <1>3, <1>5, <2>1 DEF Formed
    <3> QED BY <3>1, RetainedFits DEF anchors
  <2> QED BY <2>1, <2>2, ButAnchorsFormed
<1>7. Given(op) = {} /\ Taken(op) = {op.id} /\ Written(op) = {op.id}
  BY DEF Given, Taken, Written
<1>8. Effect(objs, op, after, ids)
  BY <1>2, <1>3, <1>5, <1>6, <1>7 DEF Effect
<1> QED BY <1>2, <1>8

(* An object, some of its components written. *)
Reshaped(o, contours, space) == [o EXCEPT !.contours = contours, !.space = space]
Moved(o, parent, order) == [o EXCEPT !.parent = parent, !.order = order]
Restacked(o, order) == [o EXCEPT !.order = order]

(* The other components stay. *)
LEMMA WrittenIs ==
    ASSUME NEW o, NEW ids, Formed(o, ids), NEW v, NEW w
    PROVE  /\ Reshaped(o, v, w) = Made(v, w, o.anchors, o.parent, o.order)
           /\ Moved(o, v, w) = Made(o.contours, o.space, o.anchors, v, w)
           /\ Restacked(o, v) = Made(o.contours, o.space, o.anchors, o.parent, v)
<1> DEFINE c == o.contours
           s == o.space
           a == o.anchors
           p == o.parent
           k == o.order
<1>1. o = Made(c, s, a, p, k)
  BY DEF Formed
<1> HIDE DEF c, s, a, p, k
<1>2. Reshaped(Made(c, s, a, p, k), v, w) = Made(v, w, a, p, k)
  <2>1. [Made(c, s, a, p, k) EXCEPT !.contours = v] = Made(v, s, a, p, k)
    BY DEF Made
  <2>2. [Made(v, s, a, p, k) EXCEPT !.space = w] = Made(v, w, a, p, k)
    BY DEF Made
  <2> QED BY <2>1, <2>2 DEF Reshaped
<1>3. Moved(Made(c, s, a, p, k), v, w) = Made(c, s, a, v, w)
  <2>1. [Made(c, s, a, p, k) EXCEPT !.parent = v] = Made(c, s, a, v, k)
    BY DEF Made
  <2>2. [Made(c, s, a, v, k) EXCEPT !.order = w] = Made(c, s, a, v, w)
    BY DEF Made
  <2> QED BY <2>1, <2>2 DEF Moved
<1>4. Restacked(Made(c, s, a, p, k), v) = Made(c, s, a, p, v)
  BY DEF Made, Restacked
<1> QED BY <1>1, <1>2, <1>3, <1>4 DEF c, s, a, p, k

(* The ops that write one object, whole. *)
LEMMA OneWritten ==
    ASSUME NEW ids \in SUBSET Id, NEW objs, Scene(objs, ids),
           NEW op, op.id \in DOMAIN objs,
           op.kind \notin {"insert", "delete", "split", "merge"},
           NEW o, Formed(o, ids),
           op.kind # "reparent" => o.parent = objs[op.id].parent,
           NEW after, after = [objs EXCEPT ![op.id] = o]
    PROVE  Effect(objs, op, after, ids)
<1>1. Given(op) = {} /\ Taken(op) = {} /\ Written(op) = {op.id}
  BY DEF Given, Taken, Written
<1>2. /\ DOMAIN after = DOMAIN objs /\ after = [p \in DOMAIN after |-> after[p]]
      /\ \A p \in DOMAIN objs : after[p] = IF p = op.id THEN o ELSE objs[p]
  <2>1. objs = [p \in DOMAIN objs |-> objs[p]]
    BY DEF Scene
  <2> QED BY <2>1
<1>3. \A p \in DOMAIN objs : Formed(objs[p], ids) /\ ButAnchors(objs[p], objs[p])
  BY ButAnchorsSame DEF Scene
<1> QED BY <1>1, <1>2, <1>3 DEF Effect

(* SetShape *)
LEMMA SetShapeEffect ==
    ASSUME NEW ids \in SUBSET Id, NEW objs, Scene(objs, ids), NEW op,
           op.kind = "set-shape", Fits(op, ids), ApplyInner(objs, op).ok
    PROVE  Effect(objs, op, ApplyInner(objs, op).objs, ids)
<1> DEFINE after == [objs EXCEPT ![op.id].contours = op.contours,
                                 ![op.id].space = op.space]
           inverse == <<SetShape(op.id, objs[op.id].contours, objs[op.id].space)>>
           o == objs[op.id]
           b == Made(op.contours, op.space, o.anchors, o.parent, o.order)
<1>1. ApplyInner(objs, op) = IF op.id \notin DOMAIN objs THEN Err ELSE Done(after, inverse)
  BY DEF ApplyInner, ApplySetShape
<1>2. op.id \in DOMAIN objs /\ ApplyInner(objs, op).objs = after
  <2> HIDE DEF after, inverse
  <2> QED BY <1>1, DoneIs
<1>3. Formed(o, ids)
  BY <1>2 DEF Scene
<1>4. after = [objs EXCEPT ![op.id] = b]
  <2>2. Reshaped(o, op.contours, op.space) = b
    <3> HIDE DEF o
    <3> QED BY <1>3, WrittenIs
  <2>3. after = [objs EXCEPT ![op.id] = Reshaped(o, op.contours, op.space)]
    BY <1>2 DEF Reshaped
  <2> QED BY <2>2, <2>3
<1>5. Formed(b, ids) /\ b.parent = o.parent
  <2>1. op.contours \in Contours /\ op.space \in Spaces
    BY DEF Fits
  <2> QED BY <1>3, <2>1, MadeIs DEF Formed
<1> HIDE DEF after, b
<1> QED BY <1>2, <1>4, <1>5, OneWritten

(* SetAnchor *)
LEMMA SetAnchorEffect ==
    ASSUME NEW ids \in SUBSET Id, NEW objs, Scene(objs, ids), NEW op,
           op.kind = "set-anchor", Fits(op, ids), ApplyInner(objs, op).ok
    PROVE  Effect(objs, op, ApplyInner(objs, op).objs, ids)
<1> DEFINE anchors == Retained(op.anchors, DOMAIN objs)
           after == [objs EXCEPT ![op.id].anchors = anchors]
           inverse == <<SetAnchor(op.id, objs[op.id].anchors)>>
           b == [objs[op.id] EXCEPT !.anchors = anchors]
<1>1. ApplyInner(objs, op) = IF op.id \notin DOMAIN objs THEN Done(objs, <<>>)
                             ELSE Done(after, inverse)
  BY DEF ApplyInner, ApplySetAnchor
<1>2. CASE op.id \in DOMAIN objs
  <2>1. ApplyInner(objs, op).objs = after
    <3> HIDE DEF after, inverse
    <3> QED BY <1>1, <1>2, DoneIs
  <2>2. Formed(objs[op.id], ids) /\ anchors \in Seq(Anchor)
    <3>1. op.anchors \in Seq(Anchor)
      BY DEF Fits
    <3> QED BY <1>2, <3>1, RetainedFits DEF Scene
  <2> HIDE DEF anchors
  <2>3. after = [objs EXCEPT ![op.id] = b]
    BY <1>2
  <2>4. Formed(b, ids) /\ b.parent = objs[op.id].parent
    BY <2>2, ButAnchorsFormed
  <2> HIDE DEF after, b
  <2> QED BY <1>2, <2>1, <2>3, <2>4, OneWritten
<1>3. CASE op.id \notin DOMAIN objs
  <2>1. ApplyInner(objs, op).objs = objs
    <3> HIDE DEF after, inverse
    <3> QED BY <1>1, <1>3, DoneIs
  <2>2. Given(op) = {} /\ Taken(op) = {}
    BY DEF Given, Taken
  <2>3. \A p \in DOMAIN objs : Formed(objs[p], ids) /\ ButAnchors(objs[p], objs[p])
    BY ButAnchorsSame DEF Scene
  <2>4. objs = [p \in DOMAIN objs |-> objs[p]]
    BY DEF Scene
  <2>5. Effect(objs, op, objs, ids)
    BY <2>2, <2>3, <2>4 DEF Effect
  <2> QED BY <2>1, <2>5
<1> QED BY <1>2, <1>3

(* Reorder *)
LEMMA ReorderEffect ==
    ASSUME NEW ids \in SUBSET Id, NEW objs, Scene(objs, ids), NEW op,
           op.kind = "reorder", Fits(op, ids), ApplyInner(objs, op).ok
    PROVE  Effect(objs, op, ApplyInner(objs, op).objs, ids)
<1> DEFINE after == [objs EXCEPT ![op.id].order = op.order]
           inverse == <<Reorder(op.id, objs[op.id].order)>>
           o == objs[op.id]
           b == Made(o.contours, o.space, o.anchors, o.parent, op.order)
<1>1. ApplyInner(objs, op) = IF op.id \notin DOMAIN objs THEN Err ELSE Done(after, inverse)
  BY DEF ApplyInner, ApplyReorder
<1>2. op.id \in DOMAIN objs /\ ApplyInner(objs, op).objs = after
  <2> HIDE DEF after, inverse
  <2> QED BY <1>1, DoneIs
<1>3. Formed(o, ids)
  BY <1>2 DEF Scene
<1>4. after = [objs EXCEPT ![op.id] = b]
  <2>1. Restacked(o, op.order) = b
    <3> HIDE DEF o
    <3> QED BY <1>3, WrittenIs
  <2>2. after = [objs EXCEPT ![op.id] = Restacked(o, op.order)]
    BY <1>2 DEF Restacked
  <2> QED BY <2>1, <2>2
<1>5. Formed(b, ids) /\ b.parent = o.parent
  <2>1. op.order \in Key
    BY DEF Fits
  <2> QED BY <1>3, <2>1, MadeIs DEF Formed
<1> HIDE DEF after, b
<1> QED BY <1>2, <1>4, <1>5, OneWritten

(* Reparent *)
LEMMA ReparentEffect ==
    ASSUME NEW ids \in SUBSET Id, NEW objs, Scene(objs, ids), NEW op,
           op.kind = "reparent", Fits(op, ids), ApplyInner(objs, op).ok
    PROVE  LET o == objs[op.id]
               b == Made(o.contours, o.space, o.anchors, op.parent, op.order)
           IN  /\ op.id \in DOMAIN objs
               /\ op.parent # NoParent => ~WouldCycle(objs, op.id, op.parent)
               /\ ApplyInner(objs, op).objs = [objs EXCEPT ![op.id] = b]
               /\ Effect(objs, op, ApplyInner(objs, op).objs, ids)
<1> DEFINE after == [objs EXCEPT ![op.id].parent = op.parent,
                                 ![op.id].order = op.order]
           inverse == <<Reparent(op.id, objs[op.id].parent, objs[op.id].order)>>
           o == objs[op.id]
           b == Made(o.contours, o.space, o.anchors, op.parent, op.order)
<1>1. ApplyInner(objs, op) =
        IF \/ op.id \notin DOMAIN objs
           \/ op.parent # NoParent /\ WouldCycle(objs, op.id, op.parent) THEN Err
        ELSE Done(after, inverse)
  BY DEF ApplyInner, ApplyReparent
<1>2. /\ op.id \in DOMAIN objs
      /\ op.parent # NoParent => ~WouldCycle(objs, op.id, op.parent)
      /\ ApplyInner(objs, op).objs = after
  <2> HIDE DEF after, inverse
  <2> QED BY <1>1, DoneIs
<1>3. Formed(o, ids)
  BY <1>2 DEF Scene
<1>4. after = [objs EXCEPT ![op.id] = b]
  <2>2. Moved(o, op.parent, op.order) = b
    <3> HIDE DEF o
    <3> QED BY <1>3, WrittenIs
  <2>3. after = [objs EXCEPT ![op.id] = Moved(o, op.parent, op.order)]
    BY <1>2 DEF Moved
  <2> QED BY <2>2, <2>3
<1>5. Formed(b, ids)
  <2>1. op.order \in Key /\ op.parent \in ids \cup {NoParent}
    BY DEF Fits
  <2> QED BY <1>3, <2>1, MadeIs DEF Formed
<1> HIDE DEF after, b
<1>6. Effect(objs, op, after, ids)
  BY <1>2, <1>4, <1>5, OneWritten
<1> QED BY <1>2, <1>4, <1>6 DEF b

(* An anchor on an object that is made upright, and the anchors of p. *)
Rehomed(op, a) ==
    IF a.target = op.id /\ a.at = "tilted" THEN [a EXCEPT !.at = "upright"] ELSE a

RehomedAnchors(objs, op, p) ==
    [n \in DOMAIN objs[p].anchors |-> Rehomed(op, objs[p].anchors[n])]

UprightIn(objs, op, after) ==
    /\ DOMAIN after = DOMAIN objs /\ after = [p \in DOMAIN after |-> after[p]]
    /\ after[op.id] = [objs[op.id] EXCEPT !.space = "upright"]
    /\ \A p \in DOMAIN objs \ {op.id} :
          after[p] = [objs[p] EXCEPT !.anchors = RehomedAnchors(objs, op, p)]

(* Canonicalize makes an object upright that was not. *)
LEMMA CanonicalizeGives ==
    ASSUME NEW objs, NEW op, op.kind = "canonicalize", ApplyInner(objs, op).ok,
           objs = [p \in DOMAIN objs |-> objs[p]]
    PROVE  /\ op.id \in DOMAIN objs
           /\ objs[op.id].space = "upright" => ApplyInner(objs, op).objs = objs
           /\ objs[op.id].space # "upright" =>
                 UprightIn(objs, op, ApplyInner(objs, op).objs)
<1> DEFINE rehomed(a) == Rehomed(op, a)
           mapped == MapAnchors(objs, DOMAIN objs \ {op.id}, rehomed)
           after == [mapped EXCEPT ![op.id].space = "upright"]
           inverse == <<SetShape(op.id, objs[op.id].contours, "tilted")>>
                      \o RestoreAnchors(objs, {op.id})
           moved(p) == RehomedAnchors(objs, op, p)
           upright == objs[op.id].space = "upright"
<1>1. ApplyInner(objs, op) = IF op.id \notin DOMAIN objs THEN Err
                             ELSE IF upright THEN Done(objs, <<>>)
                             ELSE Done(after, inverse)
  BY DEF ApplyInner, ApplyCanonicalize, Rehomed
<1>2. /\ op.id \in DOMAIN objs
      /\ ApplyInner(objs, op).objs = IF upright THEN objs ELSE after
  <2> HIDE DEF after, inverse, upright
  <2>1. op.id \in DOMAIN objs
    BY <1>1, DoneIs
  <2>2. /\ upright => ApplyInner(objs, op) = Done(objs, <<>>)
        /\ ~upright => ApplyInner(objs, op) = Done(after, inverse)
    BY <1>1, <2>1
  <2>3. Done(objs, <<>>).objs = objs /\ Done(after, inverse).objs = after
    BY DoneIs
  <2>4. CASE upright
    BY <2>1, <2>2, <2>3, <2>4
  <2>5. CASE ~upright
    BY <2>1, <2>2, <2>3, <2>5
  <2> QED BY <2>4, <2>5
<1>3. mapped = [p \in DOMAIN objs |-> IF p \in DOMAIN objs \ {op.id}
                  THEN [objs[p] EXCEPT !.anchors = moved(p)] ELSE objs[p]]
  BY DEF MapAnchors, RehomedAnchors
<1> HIDE DEF moved, mapped
<1>4. /\ DOMAIN after = DOMAIN objs /\ after = [p \in DOMAIN after |-> after[p]]
      /\ after[op.id] = [objs[op.id] EXCEPT !.space = "upright"]
      /\ \A p \in DOMAIN objs \ {op.id} :
            after[p] = [objs[p] EXCEPT !.anchors = moved(p)]
  BY <1>2, <1>3
<1> HIDE DEF after
<1>5. UprightIn(objs, op, after)
  BY <1>4 DEF UprightIn, moved
<1> QED BY <1>2, <1>5

(* Canonicalize *)
LEMMA CanonicalizeEffect ==
    ASSUME NEW ids \in SUBSET Id, NEW objs, Scene(objs, ids), NEW op,
           op.kind = "canonicalize", ApplyInner(objs, op).ok
    PROVE  Effect(objs, op, ApplyInner(objs, op).objs, ids)
<1> DEFINE after == ApplyInner(objs, op).objs
           o == objs[op.id]
           b == Made(o.contours, "upright", o.anchors, o.parent, o.order)
           moved(p) == RehomedAnchors(objs, op, p)
<1>1. Given(op) = {} /\ Taken(op) = {} /\ Written(op) = {op.id}
  BY DEF Given, Taken, Written
<1>2. \A p \in DOMAIN objs : Formed(objs[p], ids) /\ ButAnchors(objs[p], objs[p])
  BY ButAnchorsSame DEF Scene
<1>3. objs = [p \in DOMAIN objs |-> objs[p]]
  BY DEF Scene
<1>4. /\ op.id \in DOMAIN objs
      /\ o.space = "upright" => after = objs
      /\ o.space # "upright" => UprightIn(objs, op, after)
  BY <1>3, CanonicalizeGives
<1> HIDE DEF after
<1>5. CASE o.space = "upright"
  BY <1>1, <1>2, <1>3, <1>4, <1>5 DEF Effect, after
<1>6. CASE o.space # "upright"
  <2>1. /\ DOMAIN after = DOMAIN objs /\ after = [p \in DOMAIN after |-> after[p]]
        /\ after[op.id] = [o EXCEPT !.space = "upright"]
        /\ \A p \in DOMAIN objs \ {op.id} :
              after[p] = [objs[p] EXCEPT !.anchors = moved(p)]
    BY <1>4, <1>6 DEF UprightIn
  <2> HIDE DEF moved
  <2>2. after[op.id] = b /\ Formed(b, ids) /\ b.parent = o.parent
    <3>1. Formed(o, ids)
      BY <1>2, <1>4
    <3>2. [o EXCEPT !.space = "upright"] = b
      BY <3>1, FormedExcept
    <3>3. "upright" \in Spaces
      BY DEF Spaces
    <3>4. b.parent = o.parent /\ b = Made(b.contours, b.space, b.anchors, b.parent, b.order)
      BY MadeIs
    <3>5. Formed(b, ids)
      BY <3>1, <3>3, <3>4, MadeIs DEF Formed
    <3> QED BY <2>1, <3>2, <3>4, <3>5
  <2> HIDE DEF b
  <2>3. ASSUME NEW p \in DOMAIN objs, p # op.id
        PROVE  /\ Formed(after[p], ids) /\ after[p].parent = objs[p].parent
               /\ ButAnchors(objs[p], after[p])
    <3>1. Formed(objs[p], ids) /\ after[p] = [objs[p] EXCEPT !.anchors = moved(p)]
      BY <1>2, <2>1, <2>3
    <3>2. moved(p) \in Seq(Anchor)
      <4>1. objs[p].anchors \in Seq(Anchor)
        BY <3>1 DEF Formed
      <4>2. \A n \in 1..Len(objs[p].anchors) : objs[p].anchors[n] \in Anchor
        BY <4>1, ElementOfSeq
      <4>3. \A a \in Anchor : Rehomed(op, a) \in Anchor
        BY DEF Anchor, Spaces, Rehomed
      <4>4. /\ moved(p) = [n \in DOMAIN objs[p].anchors |-> moved(p)[n]]
            /\ \A n \in 1..Len(objs[p].anchors) : moved(p)[n] \in Anchor
        BY <4>1, <4>2, <4>3, LenProperties DEF moved, RehomedAnchors
      <4> QED BY <4>1, <4>4, MadeOfEach
    <3> QED BY <3>1, <3>2, ButAnchorsFormed
  <2>4. Effect(objs, op, after, ids)
    BY <1>1, <2>1, <2>2, <2>3 DEF Effect
  <2> QED BY <2>4 DEF after
<1> QED BY <1>5, <1>6

-----------------------------------------------------------------------------
(* Split and Merge *)

(* An element more, behind. *)
LEMMA AppendHas ==
    ASSUME NEW U, NEW q \in Seq(U), NEW x \in U
    PROVE  Range(q) \cup {x} \subseteq Range(Append(q, x))
<1> DEFINE s == Append(q, x)
           N == Len(q)
<1>1. /\ s \in Seq(U) /\ Len(s) = N + 1
      /\ \A i \in 1..N : s[i] = q[i]
      /\ s[N + 1] = x
  BY AppendProperties
<1>2. DOMAIN q = 1..N /\ N \in Nat /\ DOMAIN s = 1..(N + 1)
  BY <1>1, LenProperties
<1> HIDE DEF s, N
<1>3. N + 1 \in DOMAIN s /\ \A i \in 1..N : i \in DOMAIN s
  BY <1>2
<1>4. Range(q) \cup {x} \subseteq Range(s)
  BY <1>1, <1>2, <1>3 DEF Range
<1> QED BY <1>4 DEF s

(* The contours that stay are those that do not leave. *)
LEMMA KeptIs ==
    ASSUME NEW contours \in Contours, NEW op
    PROVE  LET kept == Kept(contours, op) IN
           /\ kept \in Seq(1..Len(contours))
           /\ \A n \in 1..Len(contours) :
                 n \notin Range(Peel(contours, op)) => n \in Range(kept)
<1> DEFINE N == Len(contours)
           S == Seq(1..N)
           gone == Range(Peel(contours, op))
           F == [e \in S \X (1..N) |->
                    IF e[2] \in gone THEN e[1] ELSE Append(e[1], e[2])]
           Solves(g) == g = [n \in 0..N |-> IF n = 0 THEN <<>>
                               ELSE IF n \in gone THEN g[n - 1]
                               ELSE Append(g[n - 1], n)]
           kept == CHOOSE g : Solves(g)
<1>1. N \in Nat /\ <<>> \in S
  BY LenProperties DEF Contours
<1>2. Kept(contours, op) = kept[N]
  BY DEF Kept
<1> HIDE DEF gone, N, Solves
<1>3. \A q \in S, n \in 1..N : Append(q, n) \in S
  OBVIOUS
<1>4. F \in [S \X (1..N) -> S]
  BY <1>3
<1> HIDE DEF S
<1>5. \A q \in S, n \in 1..N : F[q, n] = IF n \in gone THEN q ELSE Append(q, n)
  OBVIOUS
<1> HIDE DEF F
<1>6. PICK g : Iterates(g, S, <<>>, N, F)
  BY <1>1, <1>4, Iterate
<1>7. Solves(g)
  <2>1. g \in [0..N -> S] /\ g[0] = <<>> /\ \A n \in 1..N : g[n] = F[g[n - 1], n]
    BY <1>6 DEF Iterates
  <2>2. ASSUME NEW n \in 1..N
        PROVE  g[n] = IF n \in gone THEN g[n - 1] ELSE Append(g[n - 1], n)
    <3>1. n - 1 \in 0..N
      BY <1>1
    <3> QED BY <1>5, <2>1, <3>1
  <2>3. \A n \in 0..N : n = 0 \/ n \in 1..N
    BY <1>1
  <2>4. g = [n \in 0..N |-> g[n]]
    BY <2>1
  <2>5. \A n \in 0..N : g[n] = IF n = 0 THEN <<>>
                               ELSE IF n \in gone THEN g[n - 1]
                               ELSE Append(g[n - 1], n)
    BY <2>1, <2>2, <2>3
  <2> QED BY <2>4, <2>5 DEF Solves
<1>8. Solves(kept)
  BY <1>7
<1> HIDE DEF kept
<1>9. /\ kept[0] = <<>>
      /\ \A n \in 1..N : kept[n] = IF n \in gone THEN kept[n - 1]
                                   ELSE Append(kept[n - 1], n)
  <2>1. 0 \in 0..N /\ \A n \in 1..N : n \in 0..N /\ n # 0
    BY <1>1
  <2>2. \A n \in 0..N : kept[n] = IF n = 0 THEN <<>>
                                  ELSE IF n \in gone THEN kept[n - 1]
                                  ELSE Append(kept[n - 1], n)
    BY <1>8 DEF Solves
  <2> QED BY <2>1, <2>2
<1>10. \A n \in 1..N : kept[n - 1] \in S => kept[n] \in S
  BY <1>3, <1>9
<1>11. \A n \in 0..N : kept[n] \in S
  <2>1. kept[0] \in S /\ N \in Nat
    BY <1>1, <1>9
  <2> QED BY <1>10, <2>1, Steady
<1>12. \A n \in 0..N : kept[n] \in Seq(1..N)
  BY <1>11 DEF S
<1> DEFINE Good == {m \in 0..N : \A n \in 1..m : n \notin gone => n \in Range(kept[m])}
<1>13. 0 \in Good
  BY <1>1
<1>14. ASSUME NEW m \in 1..N, m - 1 \in Good PROVE m \in Good
  <2>1. m - 1 \in 0..N /\ m \in 0..N /\ \A n \in 1..m : n = m \/ n \in 1..(m - 1)
    BY <1>1
  <2>2. \A n \in 1..(m - 1) : n \notin gone => n \in Range(kept[m - 1])
    BY <1>14
  <2>3. m \notin gone => Range(kept[m - 1]) \cup {m} \subseteq Range(kept[m])
    <3>1. kept[m - 1] \in Seq(1..N)
      BY <1>12, <2>1
    <3>2. m \notin gone => kept[m] = Append(kept[m - 1], m)
      BY <1>9
    <3> QED BY <3>1, <3>2, AppendHas
  <2>4. m \in gone => kept[m] = kept[m - 1]
    BY <1>9
  <2>5. \A n \in 1..m : n \notin gone => n \in Range(kept[m])
    BY <2>1, <2>2, <2>3, <2>4
  <2> QED BY <2>1, <2>5
<1> HIDE DEF Good
<1>15. \A m \in 0..N : m \in Good
  BY <1>1, <1>13, <1>14, AllReached
<1>16. \A n \in 1..N : n \notin gone => n \in Range(kept[N])
  <2>1. N \in Good
    BY <1>1, <1>15
  <2> QED BY <2>1 DEF Good
<1>17. N \in 0..N
  BY <1>1
<1> QED BY <1>2, <1>12, <1>16, <1>17 DEF N, gone

(* They are some of the contours. *)
LEMMA KeptFits ==
    ASSUME NEW contours \in Contours, NEW op
    PROVE  LET kept == Kept(contours, op)
               rest == Pick(contours, kept)
           IN  /\ rest \in Contours /\ Len(rest) = Len(kept)
               /\ \A n \in 1..Len(kept) : rest[n] = contours[kept[n]]
<1> DEFINE N == Len(contours)
           k == Kept(contours, op)
           q == Pick(contours, k)
<1>1. k \in Seq(1..N)
  BY KeptIs
<1> HIDE DEF k
<1>2. \A n \in 1..Len(k) : k[n] \in 1..N
  BY <1>1, ElementOfSeq
<1>3. \A n \in 1..N : contours[n] \in [name: Id \X Nat, nodes: Nat]
  BY ElementOfSeq DEF N, Contours
<1>4. DOMAIN k = 1..Len(k) /\ Len(k) \in Nat
  BY <1>1, LenProperties
<1>5. q = [n \in 1..Len(k) |-> contours[k[n]]]
  BY <1>4 DEF Pick
<1>6. q \in [1..Len(k) -> [name: Id \X Nat, nodes: Nat]]
  BY <1>2, <1>3, <1>5
<1> HIDE DEF q
<1>7. q \in Contours /\ Len(q) = Len(k)
  BY <1>4, <1>6, SequenceOf DEF Contours
<1> QED BY <1>5, <1>7 DEF k, q

(* The contours that leave are among the contours. *)
LEMMA PeelFits ==
    ASSUME NEW contours \in Contours, NEW op, op.peel \in Seq(Nat),
           Range(op.peel) \subseteq DOMAIN contours
    PROVE  /\ Peel(contours, op) \in Seq(1..Len(contours))
           /\ Len(Peel(contours, op)) \in Nat
           /\ \A k \in 1..Len(Peel(contours, op)) :
                 contours[Peel(contours, op)[k]] \in [name: Id \X Nat, nodes: Nat]
<1> DEFINE D == DOMAIN contours
           peel == Peel(contours, op)
<1>1. D = 1..Len(contours) /\ Len(contours) \in Nat
  BY LenProperties DEF Contours
<1>2. \A n \in D : contours[n] \in [name: Id \X Nat, nodes: Nat]
  BY <1>1, ElementOfSeq DEF Contours
<1>3. peel = IF op.peel = <<>> THEN [n \in D |-> n] ELSE op.peel
  BY DEF Peel
<1> HIDE DEF D, peel
<1>4. CASE op.peel = <<>>
  <2>1. peel \in [1..Len(contours) -> D]
    BY <1>1, <1>3, <1>4
  <2>2. peel \in Seq(D) /\ Len(peel) = Len(contours)
    BY <1>1, <2>1, SequenceOf
  <2> QED BY <1>1, <1>2, <2>1, <2>2 DEF peel, D
<1>5. CASE op.peel # <<>>
  <2>1. peel \in Seq(Nat) /\ peel = op.peel
    BY <1>3, <1>5
  <2>2. DOMAIN peel = 1..Len(peel) /\ Len(peel) \in Nat
    BY <2>1, LenProperties
  <2>3. \A k \in 1..Len(peel) : peel[k] \in D
    BY <2>1, <2>2 DEF Range, D
  <2>4. peel \in Seq(D)
    <3>1. peel \in [1..Len(peel) -> D]
      BY <2>1, <2>2, <2>3
    <3> QED BY <2>2, <3>1, SequenceOf
  <2> QED BY <1>1, <1>2, <2>2, <2>3, <2>4 DEF peel, D
<1> QED BY <1>4, <1>5

(* Where an anchor on contour n of a split object goes. *)
Landed(contours, op, a, n) ==
    LET peel == Peel(contours, op)
        kept == Kept(contours, op)
        local == a.node - Offset(contours, n)
    IN  IF n \in Range(peel)
        THEN [a EXCEPT !.target = op.new_ids[SelectInSeq(peel, LAMBDA m : m = n)],
                       !.node = local]
        ELSE [a EXCEPT !.node = local
                + Offset(Pick(contours, kept), SelectInSeq(kept, LAMBDA m : m = n))]

(* It is on the same node of that contour, in the contour's new object or at
   the contour's new place among those that stay.                          *)
LEMMA LandedIs ==
    ASSUME NEW contours \in Contours, NEW op, op.peel \in Seq(Nat),
           Range(op.peel) \subseteq DOMAIN contours,
           op.new_ids \in Seq(Id), Len(op.new_ids) = Len(Peel(contours, op)),
           NEW a \in Anchor, NEW n \in OwnersOf(contours, a.node)
    PROVE  LET peel == Peel(contours, op)
               kept == Kept(contours, op)
               local == a.node - Offset(contours, n)
               b == Landed(contours, op, a, n)
           IN  /\ b \in Anchor
               /\ \/ \E k \in 1..Len(op.new_ids) :
                        peel[k] = n /\ b.target = op.new_ids[k] /\ b.node = local
                  \/ \E k \in 1..Len(kept) :
                        /\ kept[k] = n /\ b.target = a.target
                        /\ b.node = local + Offset(Pick(contours, kept), k)
<1> DEFINE peel == Peel(contours, op)
           kept == Kept(contours, op)
           rest == Pick(contours, kept)
           local == a.node - Offset(contours, n)
           b == Landed(contours, op, a, n)
           i == SelectInSeq(peel, LAMBDA m : m = n)
           j == SelectInSeq(kept, LAMBDA m : m = n)
<1>1. b = IF n \in Range(peel)
          THEN [a EXCEPT !.target = op.new_ids[i], !.node = local]
          ELSE [a EXCEPT !.node = local + Offset(rest, j)]
  BY DEF Landed
<1>2. a = [node |-> a.node, target |-> a.target, at |-> a.at] /\ a \in Anchor
  BY DEF Anchor
<1>3. a.node \in Nat /\ a.target \in Id /\ a.at \in Spaces
  BY DEF Anchor
<1>4. n \in 1..Len(contours) /\ local \in Nat
  BY <1>3, OwnedIs
<1>5. peel \in Seq(1..Len(contours))
  BY PeelFits
<1>6. /\ kept \in Seq(1..Len(contours)) /\ rest \in Contours /\ Len(rest) = Len(kept)
      /\ n \notin Range(peel) => n \in Range(kept)
  BY <1>4, KeptIs, KeptFits
<1>7. CASE n \in Range(peel)
  <2>1. i \in 1..Len(peel) /\ peel[i] = n
    BY <1>5, <1>7, PlaceOf
  <2>2. op.new_ids[i] \in Id
    BY <2>1, ElementOfSeq
  <2>3. b = [a EXCEPT !.target = op.new_ids[i], !.node = local]
    BY <1>1, <1>7
  <2> HIDE DEF peel, local, b, i
  <2>4. b \in Anchor /\ b.target = op.new_ids[i] /\ b.node = local
    BY <1>2, <1>4, <2>2, <2>3 DEF Anchor
  <2>5. i \in 1..Len(op.new_ids)
    BY <2>1 DEF peel
  <2> QED BY <2>1, <2>4, <2>5 DEF peel, local, b
<1>8. CASE n \notin Range(peel)
  <2>1. j \in 1..Len(kept) /\ kept[j] = n
    BY <1>6, <1>8, PlaceOf
  <2>2. Offset(rest, j) \in Nat
    <3>1. Len(rest) \in Nat /\ \A m \in 1..(Len(rest) + 1) : Offset(rest, m) \in Nat
      BY <1>6, OffsetSteps
    <3> QED BY <1>6, <2>1, <3>1
  <2>3. b = [a EXCEPT !.node = local + Offset(rest, j)]
    BY <1>1, <1>8
  <2> HIDE DEF kept, local, b, j, rest
  <2>4. local + Offset(rest, j) \in Nat
    BY <1>4, <2>2
  <2>5. b \in Anchor /\ b.target = a.target /\ b.node = local + Offset(rest, j)
    BY <1>2, <2>3, <2>4 DEF Anchor
  <2> QED BY <2>1, <2>5 DEF kept, local, b, rest
<1> QED BY <1>7, <1>8

(* What an anchor becomes when an object is split. *)
LEMMA FollowSplitIs ==
    ASSUME NEW contours, NEW op, NEW a
    PROVE  LET b == FollowSplit(contours, op, a) IN
           /\ a.target # op.id \/ OwnersOf(contours, a.node) = {} => b = a
           /\ a.target = op.id /\ OwnersOf(contours, a.node) # {} =>
                 \E n \in OwnersOf(contours, a.node) : b = Landed(contours, op, a, n)
<1> DEFINE n == CHOOSE n \in OwnersOf(contours, a.node) : TRUE
<1>1. FollowSplit(contours, op, a) =
        IF a.target # op.id \/ OwnersOf(contours, a.node) = {} THEN a
        ELSE Landed(contours, op, a, n)
  BY DEF FollowSplit, Landed
<1>2. OwnersOf(contours, a.node) # {} => n \in OwnersOf(contours, a.node)
  OBVIOUS
<1> QED BY <1>1, <1>2

(* A piece of an object. *)
Piece(o, contours, order) ==
    [o EXCEPT !.contours = contours, !.order = order, !.anchors = <<>>]

(* It has no anchors, and the space and parent of the whole. *)
LEMMA PieceIs ==
    ASSUME NEW o, NEW ids, Formed(o, ids), NEW v, NEW w
    PROVE  Piece(o, v, w) = Made(v, o.space, <<>>, o.parent, w)
<1> DEFINE c == o.contours
           s == o.space
           a == o.anchors
           p == o.parent
           k == o.order
<1>1. o = Made(c, s, a, p, k)
  BY DEF Formed
<1> HIDE DEF c, s, a, p, k
<1>2. [Made(c, s, a, p, k) EXCEPT !.contours = v] = Made(v, s, a, p, k)
  BY DEF Made
<1>3. [Made(v, s, a, p, k) EXCEPT !.order = w] = Made(v, s, a, p, w)
  BY DEF Made
<1>4. [Made(v, s, a, p, w) EXCEPT !.anchors = <<>>] = Made(v, s, <<>>, p, w)
  BY DEF Made
<1>5. Piece(o, v, w) = Made(v, s, <<>>, p, w)
  BY <1>1, <1>2, <1>3, <1>4 DEF Piece
<1> QED BY <1>5 DEF s, p

(* What stays of an object that is split, what an id it is given has of it,
   and what becomes of the anchors of an object p.                         *)
Remains(objs, op) == Pick(objs[op.id].contours, Kept(objs[op.id].contours, op))

PieceAt(objs, op, p) ==
    LET source == objs[op.id]
        peel == Peel(source.contours, op)
        k == SelectInSeq(op.new_ids, LAMBDA i : i = p)
    IN  Piece(source, <<source.contours[peel[k]]>>, KeysAbove(source.order, Len(peel))[k])

SplitAnchors(objs, op, p) ==
    [n \in DOMAIN objs[p].anchors |->
        FollowSplit(objs[op.id].contours, op, objs[p].anchors[n])]

SplitInto(objs, op, after) ==
    LET rest == Remains(objs, op)
        gone == IF rest = <<>> THEN {op.id} ELSE {}
    IN  /\ DOMAIN after = (DOMAIN objs \ gone) \cup Range(op.new_ids)
        /\ after = [p \in DOMAIN after |-> after[p]]
        /\ \A p \in Range(op.new_ids) : after[p] = PieceAt(objs, op, p)
        /\ \A p \in DOMAIN after :
              p = op.id => after[p] = [objs[op.id] EXCEPT !.contours = rest]
        /\ \A p \in DOMAIN objs : p # op.id =>
              /\ p \in DOMAIN after
              /\ after[p] = [objs[p] EXCEPT !.anchors = SplitAnchors(objs, op, p)]

(* A Split that is accepted has its operands, *)
LEMMA SplitTakes ==
    ASSUME NEW ids \in SUBSET Id, NEW objs, Scene(objs, ids), NEW op,
           op.kind = "split", Fits(op, ids), ApplyInner(objs, op).ok
    PROVE  LET contours == objs[op.id].contours IN
           /\ op.id \in DOMAIN objs /\ Formed(objs[op.id], ids)
           /\ contours \in Contours
           /\ op.peel \in Seq(Nat) /\ Range(op.peel) \subseteq DOMAIN contours
           /\ op.new_ids \in Seq(Id) /\ Range(op.new_ids) \cap DOMAIN objs = {}
           /\ Len(op.new_ids) = Len(Peel(contours, op))
           /\ ApplyInner(objs, op) = ApplySplit(objs, op)
<1>1. ApplyInner(objs, op) = IF SplitFails(objs, op) THEN Err ELSE ApplySplit(objs, op)
  BY DEF ApplyInner
<1>2. ~SplitFails(objs, op) /\ ApplyInner(objs, op) = ApplySplit(objs, op)
  BY <1>1, DoneIs
<1>3. PICK n \in Nat : op.new_ids \in [1..n -> Id \ ids]
  BY DEF Fits
<1>4. op.peel \in Seq(Nat) /\ op.new_ids \in Seq(Id)
  BY <1>3, SequenceOf DEF Fits
<1>5. /\ op.id \in DOMAIN objs /\ Range(op.peel) \subseteq DOMAIN objs[op.id].contours
      /\ Len(op.new_ids) = Len(Peel(objs[op.id].contours, op))
      /\ Range(op.new_ids) \cap DOMAIN objs = {}
  BY <1>2 DEF SplitFails
<1>6. Formed(objs[op.id], ids) /\ objs[op.id].contours \in Contours
  BY <1>5 DEF Scene, Formed
<1> QED BY <1>2, <1>4, <1>5, <1>6

(* and makes these objects of them. *)
LEMMA SplitGives ==
    ASSUME NEW ids \in SUBSET Id, NEW objs, Scene(objs, ids), NEW op,
           op.kind = "split", Fits(op, ids), ApplyInner(objs, op).ok
    PROVE  SplitInto(objs, op, ApplyInner(objs, op).objs)
<1> DEFINE source == objs[op.id]
           contours == source.contours
           peel == Peel(contours, op)
           rest == Pick(contours, Kept(contours, op))
           orders == KeysAbove(source.order, Len(peel))
           place(p) == SelectInSeq(op.new_ids, LAMBDA i : i = p)
           piece(k) == [source EXCEPT !.contours = <<contours[peel[k]]>>,
                                      !.order = orders[k], !.anchors = <<>>]
           follow(a) == FollowSplit(contours, op, a)
           peers == MapAnchors(objs, DOMAIN objs \ {op.id}, follow)
           gone == IF rest = <<>> THEN {op.id} ELSE {}
           produced == Range(op.new_ids)
           after == [p \in (DOMAIN objs \ gone) \cup produced |->
                        IF p \in produced THEN piece(place(p))
                        ELSE IF p = op.id THEN [source EXCEPT !.contours = rest]
                        ELSE peers[p]]
           inverse == [k \in DOMAIN op.new_ids |-> Delete(op.new_ids[k])]
                      \o (IF rest = <<>> THEN <<>> ELSE <<Delete(op.id)>>)
                      \o <<Insert(op.id, source)>>
                      \o RestoreAnchors(objs, {op.id})
           moved(p) == [n \in DOMAIN objs[p].anchors |-> follow(objs[p].anchors[n])]
<1>1. ApplyInner(objs, op) = Done(after, inverse)
  <2>1. ApplyInner(objs, op) = ApplySplit(objs, op)
    BY SplitTakes
  <2> QED BY <2>1 DEF ApplySplit
<1>2. ApplyInner(objs, op).objs = after
  <2> HIDE DEF after, inverse
  <2> QED BY <1>1, DoneIs
<1>3. produced \cap DOMAIN objs = {} /\ op.id \in DOMAIN objs
  BY SplitTakes
<1>4. \A p : piece(place(p)) = PieceAt(objs, op, p)
  BY DEF PieceAt, Piece
<1>5. peers = [p \in DOMAIN objs |-> IF p \in DOMAIN objs \ {op.id}
                 THEN [objs[p] EXCEPT !.anchors = moved(p)] ELSE objs[p]]
  BY DEF MapAnchors
<1>6. rest = Remains(objs, op) /\ \A p : moved(p) = SplitAnchors(objs, op, p)
  BY DEF Remains, SplitAnchors
<1> HIDE DEF moved, peers, rest, place, piece
<1>7. /\ DOMAIN after = (DOMAIN objs \ gone) \cup produced
      /\ after = [p \in DOMAIN after |-> after[p]]
      /\ \A p \in produced : after[p] = piece(place(p))
      /\ \A p \in DOMAIN after : p = op.id => after[p] = [source EXCEPT !.contours = rest]
      /\ \A p \in DOMAIN objs : p # op.id =>
            p \in DOMAIN after /\ after[p] = [objs[p] EXCEPT !.anchors = moved(p)]
  BY <1>3, <1>5
<1> HIDE DEF after
<1>8. SplitInto(objs, op, after)
  BY <1>4, <1>6, <1>7 DEF SplitInto
<1> QED BY <1>2, <1>8
(* Split *)
LEMMA SplitEffect ==
    ASSUME NEW ids \in SUBSET Id, NEW objs, Scene(objs, ids), NEW op,
           op.kind = "split", Fits(op, ids), ApplyInner(objs, op).ok
    PROVE  Effect(objs, op, ApplyInner(objs, op).objs, ids)
<1> DEFINE source == objs[op.id]
           contours == source.contours
           peel == Peel(contours, op)
           rest == Remains(objs, op)
           orders == KeysAbove(source.order, Len(peel))
           place(p) == SelectInSeq(op.new_ids, LAMBDA i : i = p)
           gone == IF rest = <<>> THEN {op.id} ELSE {}
           produced == Range(op.new_ids)
           after == ApplyInner(objs, op).objs
           moved(p) == SplitAnchors(objs, op, p)
<1>1. /\ op.id \in DOMAIN objs /\ Formed(source, ids) /\ contours \in Contours
      /\ op.peel \in Seq(Nat) /\ Range(op.peel) \subseteq DOMAIN contours
      /\ op.new_ids \in Seq(Id) /\ Len(op.new_ids) = Len(peel)
      /\ produced \cap DOMAIN objs = {}
  BY SplitTakes
<1>2. source.order \in Key
  BY <1>1 DEF Formed
<1>3. /\ Len(peel) \in Nat
      /\ \A k \in 1..Len(peel) : contours[peel[k]] \in [name: Id \X Nat, nodes: Nat]
  BY <1>1, PeelFits
<1>4. rest \in Contours
  BY <1>1, KeptFits DEF Remains
<1>5. \A a \in Anchor : FollowSplit(contours, op, a) \in Anchor
  <2> TAKE a \in Anchor
  <2>1. \A i \in OwnersOf(contours, a.node) : Landed(contours, op, a, i) \in Anchor
    BY <1>1, LandedIs
  <2> HIDE DEF contours
  <2> QED BY <2>1, FollowSplitIs
<1>6. ASSUME NEW p \in DOMAIN objs PROVE moved(p) \in Seq(Anchor)
  <2>1. objs[p].anchors \in Seq(Anchor)
    BY DEF Scene, Formed
  <2>2. \A i \in 1..Len(objs[p].anchors) : objs[p].anchors[i] \in Anchor
    BY <2>1, ElementOfSeq
  <2>3. /\ moved(p) = [i \in DOMAIN objs[p].anchors |-> moved(p)[i]]
        /\ \A i \in 1..Len(objs[p].anchors) : moved(p)[i] \in Anchor
    BY <1>5, <2>1, <2>2, LenProperties DEF SplitAnchors
  <2> QED BY <2>1, <2>3, MadeOfEach
<1>7. orders \in [1..Len(peel) -> Key]
  BY <1>2, <1>3, KeysAboveFit
<1>8. \A p \in produced : place(p) \in 1..Len(peel)
  BY <1>1, PlaceOf
<1>9. \A p : PieceAt(objs, op, p)
                = Piece(source, <<contours[peel[place(p)]]>>, orders[place(p)])
  BY DEF PieceAt
<1>10. /\ DOMAIN after = (DOMAIN objs \ gone) \cup produced
       /\ after = [p \in DOMAIN after |-> after[p]]
       /\ \A p \in produced : after[p] = PieceAt(objs, op, p)
       /\ \A p \in DOMAIN after : p = op.id => after[p] = [source EXCEPT !.contours = rest]
       /\ \A p \in DOMAIN objs : p # op.id =>
             p \in DOMAIN after /\ after[p] = [objs[p] EXCEPT !.anchors = moved(p)]
  <2>1. SplitInto(objs, op, after)
    BY SplitGives
  <2> HIDE DEF after, moved
  <2> QED BY <2>1 DEF SplitInto, moved
<1> HIDE DEF moved, rest, orders, place, peel
<1>11. /\ Given(op) = produced /\ Taken(op) = {op.id}
       /\ Written(op) = {op.id} \cup produced
  BY DEF Given, Taken, Written
<1>12. DOMAIN after \subseteq DOMAIN objs \cup produced /\ gone \subseteq {op.id}
  BY <1>10
<1> HIDE DEF after, gone, produced
<1>13. ASSUME NEW p \in produced
       PROVE  Formed(after[p], ids)
  <2> DEFINE k == place(p)
             c == <<contours[peel[k]]>>
             none == <<>>
             b == Made(c, source.space, none, source.parent, orders[k])
  <2>1. k \in 1..Len(peel)
    BY <1>8
  <2> HIDE DEF k
  <2>2. c \in Contours /\ orders[k] \in Key /\ none \in Seq(Anchor)
    BY <1>3, <1>7, <2>1 DEF Contours
  <2>3. after[p] = b
    <3> HIDE DEF source, c
    <3> QED BY <1>1, <1>9, <1>10, PieceIs DEF k, c
  <2>4. Formed(b, ids)
    <3> HIDE DEF source, c, none
    <3> QED BY <1>1, <2>2, MadeIs DEF Formed
  <2> QED BY <2>3, <2>4
<1>14. ASSUME NEW p \in DOMAIN after, p = op.id
       PROVE  Formed(after[p], ids) /\ after[p].parent = objs[p].parent
  <2> DEFINE b == Made(rest, source.space, source.anchors, source.parent, source.order)
  <2>1. after[p] = b
    <3>1. after[p] = [source EXCEPT !.contours = rest]
      BY <1>10, <1>14
    <3> HIDE DEF source
    <3> QED BY <1>1, <3>1, FormedExcept
  <2>2. Formed(b, ids) /\ b.parent = source.parent
    <3> HIDE DEF source
    <3> QED BY <1>1, <1>4, MadeIs DEF Formed
  <2> QED BY <1>14, <2>1, <2>2
<1>15. ASSUME NEW p \in DOMAIN objs, p # op.id
       PROVE  /\ p \in DOMAIN after /\ Formed(after[p], ids)
              /\ after[p].parent = objs[p].parent /\ ButAnchors(objs[p], after[p])
  <2>1. Formed(objs[p], ids)
    BY DEF Scene
  <2>2. p \in DOMAIN after /\ after[p] = [objs[p] EXCEPT !.anchors = moved(p)]
    BY <1>10, <1>15
  <2>3. moved(p) \in Seq(Anchor)
    BY <1>6
  <2> QED BY <2>1, <2>2, <2>3, ButAnchorsFormed
<1>16. Effect(objs, op, after, ids)
  <2>1. (DOMAIN objs \ Taken(op)) \cup Given(op) \subseteq DOMAIN after
    BY <1>10, <1>11, <1>12
  <2>2. \A p \in DOMAIN after : p \in produced \/ p = op.id \/ p \in DOMAIN objs
    BY <1>12
  <2>3. \A p \in DOMAIN after : Formed(after[p], ids)
    BY <1>13, <1>14, <1>15, <2>2
  <2>4. \A p \in DOMAIN after \ produced : after[p].parent = objs[p].parent
    BY <1>14, <1>15, <2>2
  <2> QED BY <1>10, <1>11, <1>12, <1>15, <2>1, <2>3, <2>4 DEF Effect
<1> QED BY <1>16 DEF after

(* The first k of some sequences, put end to end. *)
Flat(q, k) == FlattenSeq([m \in 1..k |-> q[m]])

(* One sequence more goes behind those before it. *)
LEMMA FlatSteps ==
    ASSUME NEW U, NEW N \in Nat, NEW q \in [1..N -> Seq(U)]
    PROVE  /\ \A k \in 0..N : Flat(q, k) \in Seq(U)
           /\ \A k \in 1..N : Flat(q, k) = Flat(q, k - 1) \o q[k]
<1> DEFINE S == Seq(U)
           F == [e \in S \X (1..N) |-> IF e[2] = 1 THEN q[e[2]] ELSE e[1] \o q[e[2]]]
<1>1. /\ <<>> \in S /\ q \in [1..N -> S]
      /\ \A s, t \in S : s \o t \in S
      /\ \A s \in S : <<>> \o s = s
  BY ConcatEmptySeq
<1> HIDE DEF S
<1>2. F \in [S \X (1..N) -> S]
  BY <1>1
<1>3. \A s \in S, n \in 1..N : F[s, n] = IF n = 1 THEN q[n] ELSE s \o q[n]
  OBVIOUS
<1> HIDE DEF F
<1>4. PICK g : Iterates(g, S, <<>>, N, F)
  BY <1>1, <1>2, Iterate
<1>5. /\ g \in [0..N -> S] /\ g[0] = <<>>
      /\ \A n \in 1..N : g[n] = IF n = 1 THEN q[n] ELSE g[n - 1] \o q[n]
  <2>1. g \in [0..N -> S] /\ g[0] = <<>> /\ \A n \in 1..N : g[n] = F[g[n - 1], n]
    BY <1>4 DEF Iterates
  <2>2. \A n \in 1..N : n - 1 \in 0..N
    OBVIOUS
  <2>3. \A n \in 1..N : g[n - 1] \in S
    BY <2>1, <2>2
  <2> QED BY <1>3, <2>1, <2>3
<1>6. Flat(q, 0) = g[0]
  <2> DEFINE r == [m \in 1..0 |-> q[m]]
  <2>1. r \in [1..0 -> U]
    OBVIOUS
  <2> HIDE DEF r
  <2>2. r \in Seq(U) /\ Len(r) = 0
    <3>1. 0 \in Nat
      OBVIOUS
    <3> QED BY <2>1, <3>1, SequenceOf
  <2>3. r = <<>>
    BY <2>2, EmptySeq
  <2>4. FlattenSeq(r) = r
    BY <2>2 DEF FlattenSeq
  <2> QED BY <1>5, <2>3, <2>4 DEF Flat, r
<1>7. ASSUME NEW k \in 1..N PROVE Flat(q, k) = g[k]
  <2> DEFINE r == [m \in 1..k |-> q[m]]
             Solves(f) == f = [i \in 1..k |-> IF i = 1 THEN r[i] ELSE f[i - 1] \o r[i]]
             flatten == CHOOSE f : Solves(f)
             f == [i \in 1..k |-> g[i]]
  <2>1. Len(r) = k /\ \A i \in 1..k : r[i] = q[i] /\ i \in 1..N
    <3>1. \A i \in 1..k : i \in 1..N
      OBVIOUS
    <3>2. r \in [1..k -> Seq(U)] /\ k \in Nat
      BY <3>1
    <3> HIDE DEF r
    <3>3. Len(r) = k
      BY <3>2, SequenceOf
    <3> QED BY <3>1, <3>3 DEF r
  <2>2. FlattenSeq(r) = flatten[k]
    <3> HIDE DEF r
    <3> QED BY <2>1 DEF FlattenSeq
  <2> HIDE DEF r
  <2>3. ASSUME NEW i \in 1..k
        PROVE  f[i] = IF i = 1 THEN r[i] ELSE f[i - 1] \o r[i]
    <3>1. i # 1 => i - 1 \in 1..k
      OBVIOUS
    <3>2. f[i] = g[i] /\ (i # 1 => f[i - 1] = g[i - 1])
      BY <3>1
    <3> HIDE DEF f
    <3> QED BY <1>5, <2>1, <3>2
  <2>4. Solves(f)
    <3>1. f = [i \in 1..k |-> f[i]]
      OBVIOUS
    <3> HIDE DEF f
    <3> QED BY <2>3, <3>1
  <2>5. Solves(flatten)
    <3> HIDE DEF Solves, f
    <3> QED BY <2>4
  <2> HIDE DEF flatten, f
  <2>6. \A i \in 1..k : flatten[i] = IF i = 1 THEN r[i] ELSE flatten[i - 1] \o r[i]
    BY <2>5
  <2> DEFINE Good == {i \in 0..k : i = 0 \/ flatten[i] = g[i]}
  <2>7. 0 \in Good
    OBVIOUS
  <2>8. ASSUME NEW i \in 1..k, i - 1 \in Good PROVE i \in Good
    <3>1. i \in 0..k /\ i \in 1..N
      OBVIOUS
    <3>2. i = 1 \/ flatten[i - 1] = g[i - 1]
      BY <2>8
    <3>3. flatten[i] = g[i]
      BY <1>5, <2>1, <2>6, <3>1, <3>2
    <3> QED BY <3>1, <3>3
  <2> HIDE DEF Good
  <2>9. \A i \in 0..k : i \in Good
    <3>1. k \in Nat
      OBVIOUS
    <3> QED BY <2>7, <2>8, <3>1, AllReached
  <2>10. k \in 0..k /\ k # 0
    OBVIOUS
  <2>11. flatten[k] = g[k]
    BY <2>9, <2>10 DEF Good
  <2> QED BY <2>2, <2>11 DEF Flat, r
<1>8. \A k \in 0..N : Flat(q, k) = g[k]
  <2>1. \A k \in 0..N : k = 0 \/ k \in 1..N
    OBVIOUS
  <2> QED BY <1>6, <1>7, <2>1
<1>9. ASSUME NEW k \in 1..N PROVE Flat(q, k) = Flat(q, k - 1) \o q[k]
  <2>1. k - 1 \in 0..N /\ (k = 1 => k - 1 = 0)
    OBVIOUS
  <2>2. Flat(q, k) = g[k] /\ Flat(q, k - 1) = g[k - 1] /\ q[k] \in S
    BY <1>1, <1>7, <1>8, <2>1
  <2>3. k = 1 => g[k - 1] \o q[k] = q[k]
    BY <1>1, <1>5, <2>1, <2>2
  <2> QED BY <1>5, <2>2, <2>3
<1> QED BY <1>5, <1>8, <1>9 DEF S

(* t begins with s. *)
Begins(s, t) == Len(s) <= Len(t) /\ \A i \in 1..Len(s) : t[i] = s[i]

(* What comes first stays first. *)
LEMMA FlatBegins ==
    ASSUME NEW U, NEW N \in Nat, NEW q \in [1..N -> Seq(U)],
           NEW k \in 0..N, NEW j \in k..N
    PROVE  Begins(Flat(q, k), Flat(q, j))
<1> DEFINE s == Flat(q, k)
           Good == {d \in 0..(j - k) : Begins(s, Flat(q, k + d))}
<1>1. /\ \A n \in 0..N : Flat(q, n) \in Seq(U) /\ Len(Flat(q, n)) \in Nat
      /\ \A n \in 1..N : Flat(q, n) = Flat(q, n - 1) \o q[n]
  BY FlatSteps, LenProperties
<1> HIDE DEF s
<1>2. s \in Seq(U) /\ Len(s) \in Nat
  BY <1>1 DEF s
<1>3. 0 \in Good
  <2>1. 0 \in 0..(j - k) /\ k + 0 = k
    OBVIOUS
  <2>2. Begins(s, s)
    BY <1>2 DEF Begins
  <2> QED BY <2>1, <2>2 DEF s
<1>4. ASSUME NEW d \in 1..(j - k), d - 1 \in Good PROVE d \in Good
  <2> DEFINE was == Flat(q, k + (d - 1))
             is == Flat(q, k + d)
             more == q[k + d]
  <2>1. /\ k + (d - 1) \in 0..N /\ k + d \in 1..N /\ k + d - 1 = k + (d - 1)
        /\ d \in 0..(j - k)
    OBVIOUS
  <2>2. Begins(s, was)
    BY <1>4
  <2>3. was \in Seq(U) /\ Len(was) \in Nat /\ more \in Seq(U) /\ Len(more) \in Nat
    BY <1>1, <2>1, LenProperties
  <2>4. is = was \o more
    BY <1>1, <2>1
  <2> HIDE DEF was, is, more
  <2>5. Len(is) = Len(was) + Len(more) /\ \A i \in 1..Len(was) : is[i] = was[i]
    BY <2>3, <2>4, Joined, JoinedParts
  <2>6. Begins(s, is)
    <3>1. Len(s) <= Len(was) /\ \A i \in 1..Len(s) : was[i] = s[i]
      BY <2>2 DEF Begins
    <3>2. Len(s) <= Len(is) /\ \A i \in 1..Len(s) : i \in 1..Len(was)
      BY <1>2, <2>3, <2>5, <3>1
    <3> QED BY <2>5, <3>1, <3>2 DEF Begins
  <2> QED BY <2>1, <2>6 DEF is
<1> HIDE DEF Good
<1>5. \A d \in 0..(j - k) : d \in Good
  <2>1. j - k \in Nat
    OBVIOUS
  <2> QED BY <1>3, <1>4, <2>1, AllReached
<1>6. j - k \in 0..(j - k) /\ k + (j - k) = j
  OBVIOUS
<1>7. Begins(s, Flat(q, k + (j - k)))
  BY <1>5, <1>6 DEF Good
<1> QED BY <1>6, <1>7 DEF s

(* The sequence `all' begins with `before', and `this' behind it. *)
Found(all, before, this) ==
    /\ Len(before) + Len(this) <= Len(all)
    /\ \A m \in 1..Len(before) : all[m] = before[m]
    /\ \A m \in 1..Len(this) : all[Len(before) + m] = this[m]

(* Each sequence is found behind those before it. *)
LEMMA FlatHas ==
    ASSUME NEW U, NEW N \in Nat, NEW q \in [1..N -> Seq(U)], NEW k \in 1..N
    PROVE  Found(Flat(q, N), Flat(q, k - 1), q[k])
<1> DEFINE all == Flat(q, N)
           before == Flat(q, k - 1)
           upto == Flat(q, k)
           this == q[k]
<1>1. k - 1 \in 0..N /\ k \in 0..N /\ N \in k..N
  OBVIOUS
<1>2. before \in Seq(U) /\ this \in Seq(U) /\ upto = before \o this
  BY <1>1, FlatSteps
<1>3. Begins(upto, all)
  BY <1>1, FlatBegins
<1> HIDE DEF all, before, upto, this
<1>4. Len(before) \in Nat /\ Len(this) \in Nat
  BY <1>2, LenProperties
<1>5. /\ Len(upto) = Len(before) + Len(this)
      /\ \A m \in 1..Len(before) : upto[m] = before[m]
      /\ \A m \in 1..Len(this) : upto[Len(before) + m] = this[m]
  BY <1>2, Joined, JoinedParts
<1>6. Len(upto) <= Len(all) /\ \A m \in 1..Len(upto) : all[m] = upto[m]
  BY <1>3 DEF Begins
<1>7. /\ \A m \in 1..Len(before) : m \in 1..Len(upto)
      /\ \A m \in 1..Len(this) : Len(before) + m \in 1..Len(upto)
  BY <1>4, <1>5
<1>8. Found(all, before, this)
  BY <1>4, <1>5, <1>6, <1>7 DEF Found
<1> QED BY <1>8 DEF all, before, this

(* The merged objects, the survivor first, are as many as the ids, and all
   of them.                                                                *)
LEMMA MergedFits ==
    ASSUME NEW D, NEW op, op.ids \in Seq(D), Survivor(op) \in Range(op.ids)
    PROVE  /\ Merged(op) \in [1..Len(op.ids) -> D]
           /\ Range(op.ids) \subseteq Range(Merged(op))
<1> DEFINE s == op.ids
           N == Len(s)
           x == Survivor(op)
           k == SelectInSeq(s, LAMBDA i : i = x)
           a == SubSeq(s, 1, k - 1)
           b == SubSeq(s, k + 1, N)
<1>1. s \in Seq(D) /\ N \in Nat /\ DOMAIN s = 1..N /\ x \in Range(s)
  BY LenProperties
<1>2. k \in 1..N /\ s[k] = x
  BY <1>1, PlaceOf
<1>3. Merged(op) = <<x>> \o (a \o b)
  BY DEF Merged, RemoveAt
<1> HIDE DEF s, N, x, k
<1>4. x \in D
  BY <1>1, <1>2, ElementOfSeq DEF N
<1>5. k \in Nat \ {0} /\ k - 1 \in 0..N /\ k + 1 \in Nat \ {0} /\ N \in 0..N /\ k <= N
  BY <1>1, <1>2
<1>6. a \in Seq(D) /\ Len(a) = k - 1 /\ \A i \in 1..(k - 1) : a[i] = s[i]
  <2>1. /\ a \in Seq(D) /\ Len(a) = IF 1 <= k - 1 THEN k - 1 - 1 + 1 ELSE 0
        /\ \A i \in 1..Len(a) : a[i] = s[1 + i - 1]
    BY <1>1, <1>5, Stretch DEF N
  <2>2. Len(a) = k - 1 /\ \A i \in 1..(k - 1) : 1 + i - 1 = i
    BY <1>5, <2>1
  <2> QED BY <2>1, <2>2
<1>7. b \in Seq(D) /\ Len(b) = N - k /\ \A i \in 1..(N - k) : b[i] = s[k + i]
  <2>1. /\ b \in Seq(D) /\ Len(b) = IF k + 1 <= N THEN N - (k + 1) + 1 ELSE 0
        /\ \A i \in 1..Len(b) : b[i] = s[k + 1 + i - 1]
    BY <1>1, <1>5, Stretch DEF N
  <2>2. Len(b) = N - k /\ \A i \in 1..(N - k) : k + 1 + i - 1 = k + i
    BY <1>1, <1>5, <2>1
  <2> QED BY <2>1, <2>2
<1> HIDE DEF a, b
<1>8. a \o b \in Seq(D) /\ Len(a \o b) = Len(a) + Len(b)
  BY <1>6, <1>7, Joined
<1>9. <<x>> \in Seq(D) /\ Len(<<x>>) = 1
  BY <1>4
<1>10. /\ <<x>> \o (a \o b) \in Seq(D)
       /\ Len(<<x>> \o (a \o b)) = Len(<<x>>) + Len(a \o b)
  BY <1>8, <1>9, Joined
<1> DEFINE t == a \o b
           m == <<x>> \o t
<1>11. m \in Seq(D) /\ Len(m) = N /\ m = Merged(op) /\ Len(t) = N - 1
  <2>1. t \in Seq(D) /\ Len(t) = k - 1 + (N - k)
    BY <1>6, <1>7, <1>8
  <2>2. Len(t) = N - 1
    BY <1>1, <1>5, <2>1
  <2>3. m \in Seq(D) /\ Len(m) = 1 + Len(t) /\ m = Merged(op)
    BY <1>3, <1>9, <1>10
  <2> HIDE DEF t, m
  <2> QED BY <1>1, <2>2, <2>3
<1>12. \A i \in 1..1 : m[i] = <<x>>[i]
  BY <1>8, <1>9, JoinedParts
<1>13. m[1] = x
  BY <1>12
<1>14. /\ \A i \in 1..(N - 1) : m[1 + i] = t[i]
       /\ \A i \in 1..(k - 1) : t[i] = a[i]
       /\ \A i \in 1..(N - k) : t[k - 1 + i] = b[i]
  <2>1. \A i \in 1..Len(t) : m[Len(<<x>>) + i] = t[i]
    BY <1>8, <1>9, JoinedParts
  <2>2. /\ \A i \in 1..Len(a) : t[i] = a[i]
        /\ \A i \in 1..Len(b) : t[Len(a) + i] = b[i]
    BY <1>6, <1>7, JoinedParts
  <2> QED BY <1>6, <1>7, <1>9, <1>11, <2>1, <2>2
<1> HIDE DEF t, m
<1>15. ASSUME NEW i \in 1..N PROVE \E j \in 1..N : m[j] = s[i]
  <2>1. i < k \/ i = k \/ k < i
    BY <1>1, <1>2
  <2>2. CASE i < k
    <3>1. i \in 1..(k - 1) /\ i \in 1..(N - 1) /\ 1 + i \in 1..N
      BY <1>1, <1>2, <2>2
    <3>2. m[1 + i] = s[i]
      BY <1>6, <1>14, <3>1
    <3> QED BY <3>1, <3>2
  <2>3. CASE i = k
    <3>1. 1 \in 1..N
      BY <1>1, <1>2
    <3> QED BY <1>2, <1>13, <2>3, <3>1
  <2>4. CASE k < i
    <3>1. /\ i - k \in 1..(N - k) /\ k - 1 + (i - k) = i - 1 /\ k + (i - k) = i
          /\ i - 1 \in 1..(N - 1) /\ 1 + (i - 1) = i
      BY <1>1, <1>2, <2>4
    <3>2. t[i - 1] = b[i - k] /\ b[i - k] = s[i]
      BY <1>7, <1>14, <3>1
    <3>3. m[i] = t[i - 1]
      BY <1>14, <3>1
    <3> QED BY <3>2, <3>3
  <2> QED BY <2>1, <2>2, <2>3, <2>4
<1>16. DOMAIN m = 1..N /\ m \in [1..N -> D]
  BY <1>11, LenProperties
<1>17. ASSUME NEW y \in Range(s) PROVE y \in Range(m)
  <2>1. PICK i \in 1..N : s[i] = y
    BY <1>1 DEF Range
  <2>2. PICK j \in 1..N : m[j] = s[i]
    BY <1>15
  <2> QED BY <1>16, <2>1, <2>2 DEF Range
<1> QED BY <1>11, <1>16, <1>17 DEF N, s

(* The contours of each merged object are found behind those of the objects
   before it.                                                              *)
LEMMA MergedHas ==
    ASSUME NEW ids, NEW objs, Scene(objs, ids), NEW op,
           op.ids \in Seq(DOMAIN objs), Survivor(op) \in Range(op.ids)
    PROVE  LET N == Len(op.ids) IN
           /\ N \in Nat /\ Merged(op) \in [1..N -> DOMAIN objs]
           /\ Range(op.ids) \subseteq Range(Merged(op))
           /\ \A k \in 0..N : MergedContours(objs, op, k) \in Contours
           /\ \A k \in 1..N : Found(MergedContours(objs, op, N),
                                    MergedContours(objs, op, k - 1),
                                    objs[Merged(op)[k]].contours)
<1> DEFINE N == Len(op.ids)
           U == [name: Id \X Nat, nodes: Nat]
           q == [m \in 1..N |-> objs[Merged(op)[m]].contours]
<1>1. /\ N \in Nat /\ Merged(op) \in [1..N -> DOMAIN objs]
      /\ Range(op.ids) \subseteq Range(Merged(op))
  BY MergedFits, LenProperties
<1> HIDE DEF N
<1>2. q \in [1..N -> Seq(U)]
  <2>1. \A p \in DOMAIN objs : objs[p].contours \in Seq(U)
    BY DEF Scene, Formed, Contours
  <2> HIDE DEF U
  <2> QED BY <1>1, <2>1
<1>3. \A k \in 0..N : MergedContours(objs, op, k) = Flat(q, k)
  <2> TAKE k \in 0..N
  <2>1. \A m \in 1..k : m \in 1..N
    BY <1>1
  <2>2. [m \in 1..k |-> q[m]] = [m \in 1..k |-> objs[Merged(op)[m]].contours]
    BY <2>1
  <2> QED BY <2>2 DEF MergedContours, Flat
<1>4. \A k \in 1..N : q[k] = objs[Merged(op)[k]].contours
  OBVIOUS
<1> HIDE DEF q, U
<1>5. \A k \in 0..N : MergedContours(objs, op, k) \in Seq(U)
  <2>1. \A k \in 0..N : Flat(q, k) \in Seq(U)
    BY <1>1, <1>2, FlatSteps
  <2> QED BY <1>3, <2>1
<1>6. ASSUME NEW k \in 1..N
      PROVE  Found(MergedContours(objs, op, N), MergedContours(objs, op, k - 1),
                   objs[Merged(op)[k]].contours)
  <2>1. k - 1 \in 0..N /\ N \in 0..N
    BY <1>1
  <2>2. /\ MergedContours(objs, op, k - 1) = Flat(q, k - 1)
        /\ MergedContours(objs, op, N) = Flat(q, N)
        /\ objs[Merged(op)[k]].contours = q[k]
    BY <1>3, <1>4, <2>1
  <2>3. Found(Flat(q, N), Flat(q, k - 1), q[k])
    BY <1>1, <1>2, FlatHas
  <2> QED BY <2>2, <2>3
<1> QED BY <1>1, <1>5, <1>6 DEF N, U, Contours

(* An anchor, its node and its target written. *)
Shifted(a, node, target) == [a EXCEPT !.node = node, !.target = target]

(* It is an anchor, whose `at' stays. *)
LEMMA ShiftedIs ==
    ASSUME NEW a \in Anchor, NEW x \in Nat, NEW y \in Id
    PROVE  LET b == Shifted(a, x, y) IN
           b \in Anchor /\ b.target = y /\ b.node = x
<1> DEFINE i == a.node
           t == a.target
           c == a.at
           At(n, p) == [node |-> n, target |-> p, at |-> c]
<1>1. a = At(i, t) /\ c \in Spaces
  BY DEF Anchor
<1> HIDE DEF i, t, c
<1>2. [At(i, t) EXCEPT !.node = x] = At(x, t)
  OBVIOUS
<1>3. [At(x, t) EXCEPT !.target = y] = At(x, y)
  OBVIOUS
<1>4. Shifted(a, x, y) = At(x, y)
  <2> HIDE DEF At
  <2> QED BY <1>1, <1>2, <1>3 DEF Shifted
<1>5. At(x, y) \in Anchor
  BY <1>1 DEF Anchor
<1> QED BY <1>4, <1>5

(* What an anchor becomes when objects are merged. *)
LEMMA FollowMergeIs ==
    ASSUME NEW ids, NEW objs, Scene(objs, ids), NEW op,
           op.ids \in Seq(DOMAIN objs), Survivor(op) \in Range(op.ids), Survivor(op) \in Id,
           NEW a \in Anchor
    PROVE  LET b == FollowMerge(objs, op, a)
           IN  /\ b \in Anchor
               /\ a.target \notin Range(op.ids) => b = a \/ a.target \in Range(Merged(op))
               /\ a.target \in Range(Merged(op)) =>
                     \E k \in 1..Len(op.ids) :
                        /\ Merged(op)[k] = a.target /\ b.target = Survivor(op)
                        /\ b.node = a.node + NodeCount(MergedContours(objs, op, k - 1))
<1> DEFINE N == Len(op.ids)
           merged == Merged(op)
           k == SelectInSeq(merged, LAMBDA i : i = a.target)
           n == NodeCount(MergedContours(objs, op, k - 1))
           b == FollowMerge(objs, op, a)
<1>1. /\ N \in Nat /\ merged \in [1..N -> DOMAIN objs]
      /\ \A j \in 0..N : MergedContours(objs, op, j) \in Contours
  BY MergedHas
<1>2. merged \in Seq(DOMAIN objs) /\ Len(merged) = N
  <2> HIDE DEF N, merged
  <2> QED BY <1>1, SequenceOf
<1>3. b = IF k = 0 THEN a ELSE Shifted(a, a.node + n, Survivor(op))
  BY DEF FollowMerge, Shifted
<1>4. a = [node |-> a.node, target |-> a.target, at |-> a.at] /\ a \in Anchor
      /\ a.node \in Nat
  BY DEF Anchor
<1>5. CASE a.target \in Range(merged)
  <2>1. k \in 1..N /\ merged[k] = a.target
    BY <1>2, <1>5, PlaceOf
  <2>2. k - 1 \in 0..N /\ k # 0
    BY <1>1, <2>1
  <2>3. n \in Nat
    <3> DEFINE c == MergedContours(objs, op, k - 1)
    <3>1. c \in Contours
      BY <1>1, <2>2
    <3> HIDE DEF c
    <3>2. Len(c) \in Nat /\ \A m \in 1..(Len(c) + 1) : Offset(c, m) \in Nat
      BY <3>1, OffsetSteps
    <3>3. Len(c) + 1 \in 1..(Len(c) + 1)
      BY <3>2
    <3> QED BY <3>2, <3>3 DEF NodeCount, c
  <2>4. b = Shifted(a, a.node + n, Survivor(op))
    BY <1>3, <2>2
  <2> HIDE DEF b, n, k, merged, N
  <2>4a. a.node + n \in Nat
    BY <1>4, <2>3
  <2>5. b \in Anchor /\ b.target = Survivor(op) /\ b.node = a.node + n
    BY <2>4, <2>4a, ShiftedIs
  <2> QED BY <1>5, <2>1, <2>5 DEF b, n, merged, N
<1>6. CASE a.target \notin Range(merged)
  <2>1. k = 0
    <3> DEFINE I == {i \in 1..Len(merged) : merged[i] = a.target}
    <3>1. DOMAIN merged = 1..Len(merged)
      BY <1>2, LenProperties
    <3>2. I = {}
      BY <1>6, <3>1 DEF Range
    <3>3. k = IF I = {} THEN 0 ELSE Min(I)
      BY DEF SelectInSeq
    <3> HIDE DEF I, k
    <3> QED BY <3>2, <3>3
  <2>2. b = a
    BY <1>3, <2>1
  <2> HIDE DEF b, k, merged
  <2> QED BY <1>4, <1>6, <2>2 DEF b, merged
<1> QED BY <1>5, <1>6

(* What becomes of the anchors of an object p when others are merged, and of
   the objects.                                                            *)
MergeAnchors(objs, op, p) ==
    [n \in DOMAIN objs[p].anchors |-> FollowMerge(objs, op, objs[p].anchors[n])]

MergeInto(objs, op, after) ==
    LET s == Survivor(op) IN
    /\ DOMAIN after = (DOMAIN objs \ Range(op.ids)) \cup {s}
    /\ after = [p \in DOMAIN after |-> after[p]]
    /\ \A p \in DOMAIN after :
          LET o == [objs[p] EXCEPT !.anchors = MergeAnchors(objs, op, p)]
              joined == MergedContours(objs, op, Len(op.ids))
          IN  after[p] = IF p = s THEN [o EXCEPT !.contours = joined] ELSE o

(* A Merge that is accepted has its operands, *)
LEMMA MergeTakes ==
    ASSUME NEW ids \in SUBSET Id, NEW objs, Scene(objs, ids), NEW op,
           op.kind = "merge", Fits(op, ids), ApplyInner(objs, op).ok
    PROVE  /\ op.ids \in Seq(DOMAIN objs) /\ Range(op.ids) \subseteq DOMAIN objs
           /\ Survivor(op) \in Range(op.ids) /\ Survivor(op) \in Id
           /\ ApplyInner(objs, op) = ApplyMerge(objs, op)
<1> DEFINE all == Range(op.ids)
<1>1. ApplyInner(objs, op) = IF MergeFails(objs, op) THEN Err ELSE ApplyMerge(objs, op)
  BY DEF ApplyInner
<1>2. ~MergeFails(objs, op) /\ ApplyInner(objs, op) = ApplyMerge(objs, op)
  BY <1>1, DoneIs
<1>3. /\ op.ids # <<>> /\ all \subseteq DOMAIN objs
      /\ op.into # NoParent => op.into \in all
  BY <1>2 DEF MergeFails
<1>4. PICK N \in Nat : op.ids \in [1..N -> Id]
  BY DEF Fits
<1>5. Len(op.ids) = N /\ N # 0 /\ op.ids \in Seq(DOMAIN objs)
  <2>1. op.ids \in Seq(Id) /\ Len(op.ids) = N /\ DOMAIN op.ids = 1..N
    BY <1>4, SequenceOf
  <2>2. \A n \in 1..N : op.ids[n] \in DOMAIN objs
    BY <1>3, <2>1 DEF Range
  <2>3. op.ids \in [1..N -> DOMAIN objs]
    BY <1>4, <2>2
  <2>4. op.ids \in Seq(DOMAIN objs)
    BY <2>3, SequenceOf
  <2>5. N # 0
    BY <1>3, <2>1
  <2> QED BY <2>1, <2>4, <2>5
<1>6. Survivor(op) \in all
  <2>1. 1 \in DOMAIN op.ids
    BY <1>4, <1>5
  <2>2. op.ids[1] \in all
    BY <2>1 DEF Range
  <2> QED BY <1>3, <2>2 DEF Survivor
<1>7. Survivor(op) \in Id
  BY <1>3, <1>6 DEF Scene
<1> QED BY <1>2, <1>3, <1>5, <1>6, <1>7

(* and makes these objects of them. *)
LEMMA MergeGives ==
    ASSUME NEW ids \in SUBSET Id, NEW objs, Scene(objs, ids), NEW op,
           op.kind = "merge", Fits(op, ids), ApplyInner(objs, op).ok
    PROVE  MergeInto(objs, op, ApplyInner(objs, op).objs)
<1> DEFINE s == Survivor(op)
           all == Range(op.ids)
           kept == (DOMAIN objs \ all) \cup {s}
           follow(a) == FollowMerge(objs, op, a)
           peers == MapAnchors(objs, kept, follow)
           joined == MergedContours(objs, op, Len(op.ids))
           after == [p \in kept |-> IF p # s THEN peers[p]
                                    ELSE [peers[p] EXCEPT !.contours = joined]]
           inverse == <<Delete(s)>>
                      \o [n \in DOMAIN op.ids |-> Insert(op.ids[n], objs[op.ids[n]])]
                      \o RestoreAnchors(objs, all)
           moved(p) == MergeAnchors(objs, op, p)
<1>1. ApplyInner(objs, op) = Done(after, inverse)
  <2>1. ApplyInner(objs, op) = ApplyMerge(objs, op)
    BY MergeTakes
  <2> QED BY <2>1 DEF ApplyMerge
<1>2. ApplyInner(objs, op).objs = after
  <2> HIDE DEF after, inverse
  <2> QED BY <1>1, DoneIs
<1>3. kept \subseteq DOMAIN objs
  BY MergeTakes
<1>4. peers = [p \in DOMAIN objs |-> IF p \in kept
                 THEN [objs[p] EXCEPT !.anchors = moved(p)] ELSE objs[p]]
  BY DEF MapAnchors, MergeAnchors
<1> HIDE DEF moved, peers, joined
<1>5. /\ DOMAIN after = kept /\ after = [p \in DOMAIN after |-> after[p]]
      /\ \A p \in kept : after[p] = IF p # s THEN peers[p]
                                    ELSE [peers[p] EXCEPT !.contours = joined]
  OBVIOUS
<1>6. \A p \in kept : peers[p] = [objs[p] EXCEPT !.anchors = moved(p)]
  BY <1>3, <1>4
<1> HIDE DEF after
<1>7. MergeInto(objs, op, after)
  <2> HIDE DEF s
  <2> QED BY <1>5, <1>6 DEF MergeInto, moved, joined, s
<1> QED BY <1>2, <1>7

(* Merge *)
LEMMA MergeEffect ==
    ASSUME NEW ids \in SUBSET Id, NEW objs, Scene(objs, ids), NEW op,
           op.kind = "merge", Fits(op, ids), ApplyInner(objs, op).ok
    PROVE  Effect(objs, op, ApplyInner(objs, op).objs, ids)
<1> DEFINE s == Survivor(op)
           all == Range(op.ids)
           kept == (DOMAIN objs \ all) \cup {s}
           joined == MergedContours(objs, op, Len(op.ids))
           after == ApplyInner(objs, op).objs
           moved(p) == MergeAnchors(objs, op, p)
           with(p) == [objs[p] EXCEPT !.anchors = moved(p)]
<1>1. /\ op.ids \in Seq(DOMAIN objs) /\ all \subseteq DOMAIN objs
      /\ s \in all /\ s \in Id
  BY MergeTakes
<1>2. joined \in Contours
  <2>1. Len(op.ids) \in 0..Len(op.ids)
    BY <1>1, LenProperties
  <2>2. \A k \in 0..Len(op.ids) : MergedContours(objs, op, k) \in Contours
    BY <1>1, MergedHas
  <2> QED BY <2>1, <2>2
<1>3. \A a \in Anchor : FollowMerge(objs, op, a) \in Anchor
  BY <1>1, FollowMergeIs
<1>4. ASSUME NEW p \in DOMAIN objs PROVE moved(p) \in Seq(Anchor)
  <2>1. objs[p].anchors \in Seq(Anchor)
    BY DEF Scene, Formed
  <2>2. \A n \in 1..Len(objs[p].anchors) : objs[p].anchors[n] \in Anchor
    BY <2>1, ElementOfSeq
  <2>3. /\ moved(p) = [n \in DOMAIN objs[p].anchors |-> moved(p)[n]]
        /\ \A n \in 1..Len(objs[p].anchors) : moved(p)[n] \in Anchor
    BY <1>3, <2>1, <2>2, LenProperties DEF MergeAnchors
  <2> QED BY <2>1, <2>3, MadeOfEach
<1>5. kept \subseteq DOMAIN objs
  BY <1>1
<1>6. /\ DOMAIN after = kept /\ after = [p \in DOMAIN after |-> after[p]]
      /\ \A p \in kept : after[p] = IF p = s THEN [with(p) EXCEPT !.contours = joined]
                                    ELSE with(p)
  <2>1. MergeInto(objs, op, after)
    BY MergeGives
  <2> HIDE DEF after, moved
  <2> QED BY <2>1 DEF MergeInto, moved
<1> HIDE DEF after, moved, joined, s
<1>7. ASSUME NEW p \in kept
      PROVE  /\ Formed(after[p], ids) /\ after[p].parent = objs[p].parent
             /\ p # s => ButAnchors(objs[p], after[p])
  <2> DEFINE o == with(p)
             b == Made(joined, o.space, o.anchors, o.parent, o.order)
  <2>1. Formed(objs[p], ids) /\ moved(p) \in Seq(Anchor)
    BY <1>4, <1>5 DEF Scene
  <2>2. Formed(o, ids) /\ o.parent = objs[p].parent /\ ButAnchors(objs[p], o)
    BY <2>1, ButAnchorsFormed
  <2>3. CASE p # s
    BY <1>6, <2>2, <2>3
  <2>4. CASE p = s
    <3>1. after[p] = [o EXCEPT !.contours = joined]
      BY <1>6, <2>4
    <3> HIDE DEF o
    <3>2. after[p] = b
      BY <2>2, <3>1, FormedExcept
    <3>3. Formed(b, ids) /\ b.parent = o.parent
      BY <1>2, <2>2, MadeIs DEF Formed
    <3> QED BY <2>2, <2>4, <3>2, <3>3
  <2> QED BY <2>3, <2>4
<1>8. Given(op) = {} /\ Taken(op) = all /\ Written(op) = all
  BY DEF Given, Taken, Written
<1>9. \A p \in DOMAIN objs \ all : p \in kept /\ p # s
  BY <1>1
<1> HIDE DEF all
<1>10. Effect(objs, op, after, ids)
  BY <1>5, <1>6, <1>7, <1>8, <1>9 DEF Effect
<1> QED BY <1>10 DEF after

(* Every op that is accepted has its effect. *)
LEMMA OpEffect ==
    ASSUME NEW ids \in SUBSET Id, NEW objs, Scene(objs, ids), NEW op,
           Fits(op, ids), ApplyInner(objs, op).ok
    PROVE  Effect(objs, op, ApplyInner(objs, op).objs, ids)
<1>1. op.kind \in {"insert", "delete", "canonicalize", "set-anchor", "set-shape",
                   "reorder", "reparent", "split", "merge"}
  BY DEF Fits
<1>2. CASE op.kind = "insert"
  BY <1>2, InsertEffect
<1>3. CASE op.kind = "delete"
  BY <1>3, DeleteEffect
<1>4. CASE op.kind = "canonicalize"
  BY <1>4, CanonicalizeEffect
<1>5. CASE op.kind = "set-anchor"
  BY <1>5, SetAnchorEffect
<1>6. CASE op.kind = "set-shape"
  BY <1>6, SetShapeEffect
<1>7. CASE op.kind = "reorder"
  BY <1>7, ReorderEffect
<1>8. CASE op.kind = "reparent"
  BY <1>8, ReparentEffect
<1>9. CASE op.kind = "split"
  BY <1>9, SplitEffect
<1>10. CASE op.kind = "merge"
  BY <1>10, MergeEffect
<1> QED BY <1>1, <1>2, <1>3, <1>4, <1>5, <1>6, <1>7, <1>8, <1>9, <1>10

-----------------------------------------------------------------------------
(* Nobody is above itself *)

(* up has, step by step, the parents above p. *)
Climbs(objs, up, p, M) ==
    /\ M \in Nat /\ up \in [0..M -> Nat] /\ up[0] = p
    /\ \A n \in 1..M : up[n] = Parent(objs, up[n - 1])

(* Chain climbs. *)
LEMMA ChainClimbs ==
    ASSUME NEW ids \in SUBSET Id, NEW objs, Scene(objs, ids), NEW p \in Nat
    PROVE  Climbs(objs, Chain(objs, p), p, Cardinality(DOMAIN objs) + 1)
<1> DEFINE M == Cardinality(DOMAIN objs) + 1
           F == [e \in Nat \X (1..M) |-> Parent(objs, e[1])]
           Solves(g) == g = [n \in 0..(Cardinality(DOMAIN objs) + 1) |->
                               IF n = 0 THEN p ELSE Parent(objs, g[n - 1])]
           up == CHOOSE g : Solves(g)
<1>1. M \in Nat
  BY IdsAreFinite DEF Scene
<1>2. \A q \in Nat : Parent(objs, q) \in Nat
  <2>1. ids \in SUBSET Nat
    BY IdsAreFinite
  <2>2. \A q \in DOMAIN objs : objs[q].parent \in Nat
    BY <2>1 DEF Scene, Formed, NoParent
  <2> QED BY <2>2 DEF Parent, NoParent
<1>3. Chain(objs, p) = up
  BY DEF Chain
<1>4. \A g : Solves(g) <=> g = [n \in 0..M |-> IF n = 0 THEN p ELSE Parent(objs, g[n - 1])]
  OBVIOUS
<1> HIDE DEF M, Solves
<1>5. F \in [Nat \X (1..M) -> Nat]
  BY <1>2
<1>6. \A q \in Nat, n \in 1..M : F[q, n] = Parent(objs, q)
  OBVIOUS
<1> HIDE DEF F
<1>7. PICK g : Iterates(g, Nat, p, M, F)
  BY <1>1, <1>5, Iterate
<1>8. Solves(g)
  <2>1. g \in [0..M -> Nat] /\ g[0] = p /\ \A n \in 1..M : g[n] = F[g[n - 1], n]
    BY <1>7 DEF Iterates
  <2>2. \A n \in 1..M : g[n] = Parent(objs, g[n - 1])
    <3> TAKE n \in 1..M
    <3>1. n - 1 \in 0..M
      BY <1>1
    <3> QED BY <1>6, <2>1, <3>1
  <2>3. \A n \in 0..M : n = 0 \/ n \in 1..M
    BY <1>1
  <2>4. g = [n \in 0..M |-> g[n]]
    BY <2>1
  <2>5. \A n \in 0..M : g[n] = IF n = 0 THEN p ELSE Parent(objs, g[n - 1])
    BY <2>1, <2>2, <2>3
  <2> QED BY <1>4, <2>4, <2>5
<1>9. Solves(up)
  BY <1>8
<1> HIDE DEF up
<1>10. up = [n \in 0..M |-> IF n = 0 THEN p ELSE Parent(objs, up[n - 1])]
  BY <1>4, <1>9
<1>11. \A n \in 0..M : up[n] = IF n = 0 THEN p ELSE Parent(objs, up[n - 1])
  BY <1>10
<1>12. 0 \in 0..M /\ \A n \in 1..M : n \in 0..M /\ n # 0
  BY <1>1
<1>13. up[0] = p /\ \A n \in 1..M : up[n] = Parent(objs, up[n - 1])
  BY <1>11, <1>12
<1>14. \A n \in 0..M : up[n] \in Nat
  <2>1. \A n \in 1..M : up[n - 1] \in Nat => up[n] \in Nat
    BY <1>2, <1>13
  <2> QED BY <1>1, <1>13, <2>1, Steady
<1>15. up \in [0..M -> Nat]
  BY <1>10, <1>14
<1> QED BY <1>1, <1>3, <1>13, <1>15 DEF Climbs, M

(* An op leaves nobody above itself: it gives ids that nobody has for a
   parent, and Reparent looks up the chain of the new parent.              *)
LEMMA OpRooted ==
    ASSUME NEW ids \in SUBSET Id, NEW objs, Scene(objs, ids), Rooted(objs), NEW op,
           Fits(op, ids), ApplyInner(objs, op).ok
    PROVE  Rooted(ApplyInner(objs, op).objs)
<1> DEFINE after == ApplyInner(objs, op).objs
<1>1. Effect(objs, op, after, ids)
  BY OpEffect
<1>2. 0 \notin ids /\ DOMAIN objs \subseteq ids /\ 0 \notin DOMAIN objs
  BY IdsAreFinite DEF Scene
<1>3. \A p \in DOMAIN objs : objs[p].parent \in ids \cup {0}
  BY DEF Scene, Formed, NoParent
<1>4. CASE op.kind # "reparent"
  <2>1. \A p \in Given(op) : p \notin ids /\ p # 0
    <3>1. op.kind = "insert" => op.id \in Id \ ids
      BY DEF Fits
    <3>2. op.kind = "split" => \E n \in Nat : op.new_ids \in [1..n -> Id \ ids]
      BY DEF Fits
    <3>3. 0 \notin Id
      BY DEF Id
    <3> QED BY <3>1, <3>2, <3>3 DEF Given, Range
  <2>2. \A p \in DOMAIN after : after[p].parent \in ids \cup {0}
    BY <1>1 DEF Effect, Formed, NoParent
  <2>3. \A p \in DOMAIN after \ Given(op) :
           p \in DOMAIN objs /\ after[p].parent = objs[p].parent
    BY <1>1, <1>4 DEF Effect
  <2>4. ASSUME NEW S, S \subseteq DOMAIN after, S # {}
        PROVE  \E p \in S : after[p].parent \notin S
    <3> DEFINE T == S \ Given(op)
    <3>1. T \subseteq DOMAIN objs
      BY <2>3, <2>4
    <3>2. 0 \notin S
      BY <1>2, <2>1, <2>3, <2>4
    <3>3. \A p \in S : after[p].parent \in S => after[p].parent \in T
      BY <2>1, <2>2, <2>4, <3>2
    <3>4. CASE T = {}
      BY <2>4, <3>3, <3>4
    <3>5. CASE T # {}
      <4>1. PICK p \in T : objs[p].parent \notin T
        BY <3>1, <3>5 DEF Rooted
      <4>2. p \in S /\ after[p].parent = objs[p].parent
        BY <2>3, <2>4, <4>1
      <4> QED BY <3>3, <4>1, <4>2
    <3> QED BY <3>4, <3>5
  <2> HIDE DEF after
  <2> QED BY <2>4 DEF Rooted, after
<1>5. CASE op.kind = "reparent"
  <2> DEFINE o == objs[op.id]
             b == Made(o.contours, o.space, o.anchors, op.parent, op.order)
  <2>1. /\ op.id \in DOMAIN objs
        /\ op.parent # NoParent => ~WouldCycle(objs, op.id, op.parent)
        /\ after = [objs EXCEPT ![op.id] = b]
    BY <1>5, ReparentEffect
  <2>2. b.parent = op.parent
    BY MadeIs
  <2> HIDE DEF b
  <2>3. /\ DOMAIN after = DOMAIN objs
        /\ \A p \in DOMAIN objs :
              after[p].parent = IF p = op.id THEN op.parent ELSE objs[p].parent
    BY <2>1, <2>2
  <2> HIDE DEF after
  <2>4. ASSUME NEW S, S \subseteq DOMAIN objs, S # {},
               \A p \in S : after[p].parent \in S
        PROVE  FALSE
    <3>1. op.id \in S
      <4> SUFFICES ASSUME op.id \notin S PROVE FALSE
        OBVIOUS
      <4>1. \A p \in S : objs[p].parent \in S
        BY <2>3, <2>4
      <4> QED BY <2>4, <4>1 DEF Rooted
    <3>2. op.parent \in S /\ op.parent # 0 /\ op.parent \in Nat
      <4>1. op.parent \in S
        BY <2>1, <2>3, <2>4, <3>1
      <4>2. op.parent \in ids
        BY <1>2, <2>4, <4>1
      <4> QED BY <1>2, <4>1, <4>2, IdsAreFinite
    <3> DEFINE M == Cardinality(DOMAIN objs) + 1
               up == Chain(objs, op.parent)
    <3>3. Climbs(objs, up, op.parent, M)
      BY <3>2, ChainClimbs
    <3>4. ~(op.id \in Range(up)) /\ up[M] = NoParent
      BY <2>1, <3>2 DEF WouldCycle, NoParent
    <3> HIDE DEF M, up
    <3>5. /\ M \in Nat /\ up \in [0..M -> Nat] /\ up[0] = op.parent
          /\ \A n \in 1..M : up[n] = Parent(objs, up[n - 1])
      BY <3>3 DEF Climbs
    <3>6. ASSUME NEW n \in 1..M, up[n - 1] \in S PROVE up[n] \in S
      <4>1. n - 1 \in 0..M
        BY <3>5
      <4>2. up[n - 1] # op.id
        BY <3>4, <3>5, <4>1 DEF Range
      <4>3. up[n] = objs[up[n - 1]].parent
        BY <2>4, <3>5, <3>6 DEF Parent
      <4> QED BY <2>3, <2>4, <3>6, <4>2, <4>3
    <3>7. \A n \in 0..M : up[n] \in S
      BY <3>2, <3>5, <3>6, Steady
    <3>8. up[M] \in S
      BY <3>5, <3>7
    <3> QED BY <1>2, <2>4, <3>4, <3>8 DEF NoParent
  <2> QED BY <2>3, <2>4 DEF Rooted, after
<1> QED BY <1>4, <1>5

(* Where nobody is above itself, no chain of parents comes back. *)
LEMMA RootedChains ==
    ASSUME used \in SUBSET Id, Scene(objects, used), Rooted(objects)
    PROVE  NoParentLoop
<1> SUFFICES ASSUME NEW p \in DOMAIN objects,
                    p \in Range(Chain(objects, objects[p].parent))
             PROVE  FALSE
  BY DEF NoParentLoop
<1> DEFINE M == Cardinality(DOMAIN objects) + 1
           up == Chain(objects, objects[p].parent)
<1>1. 0 \notin DOMAIN objects /\ objects[p].parent \in Nat
  <2>1. 0 \notin used /\ used \in SUBSET Nat
    BY IdsAreFinite
  <2> QED BY <2>1 DEF Scene, Formed, NoParent
<1>2. Climbs(objects, up, objects[p].parent, M)
  BY <1>1, ChainClimbs
<1> HIDE DEF M, up
<1>3. /\ M \in Nat /\ DOMAIN up = 0..M /\ up[0] = objects[p].parent
      /\ \A n \in 1..M : up[n] = Parent(objects, up[n - 1])
  BY <1>2 DEF Climbs
<1>4. PICK n \in 0..M : up[n] = p
  BY <1>3 DEF Range, up
<1> DEFINE Out == {n - k : k \in {k \in 0..n : up[k] \notin DOMAIN objects}}
<1>5. Out = {}
  <2> SUFFICES ASSUME Out # {} PROVE FALSE
    OBVIOUS
  <2>1. PICK d \in Out : \A e \in Out : d <= e
    <3>1. Out \in SUBSET Nat
      OBVIOUS
    <3> HIDE DEF Out
    <3> QED BY <3>1, LeastExists
  <2>2. PICK k \in 0..n : up[k] \notin DOMAIN objects /\ d = n - k
    BY <2>1
  <2>3. k # n
    BY <1>4, <2>2
  <2>4. k + 1 \in 1..M /\ k + 1 \in 0..n /\ k + 1 - 1 = k
    BY <1>3, <2>2, <2>3
  <2>5. up[k + 1] = 0
    <3>1. up[k + 1] = Parent(objects, up[k])
      BY <1>3, <2>4
    <3> QED BY <2>2, <3>1 DEF Parent, NoParent
  <2>6. n - (k + 1) \in Out
    BY <1>1, <2>4, <2>5
  <2>7. d <= n - (k + 1)
    <3> HIDE DEF Out
    <3> QED BY <2>1, <2>6
  <2> QED BY <2>2, <2>7
<1>6. \A k \in 0..n : up[k] \in DOMAIN objects
  BY <1>5
<1> DEFINE S == {up[k] : k \in 0..n}
<1>7. S \subseteq DOMAIN objects /\ up[0] \in S
  BY <1>4, <1>6
<1>8. ASSUME NEW k \in 0..n PROVE objects[up[k]].parent \in S
  <2>1. CASE k = n
    BY <1>3, <1>4, <1>7, <2>1
  <2>2. CASE k # n
    <3>1. k + 1 \in 1..M /\ k + 1 \in 0..n /\ k + 1 - 1 = k
      BY <1>3, <2>2
    <3>2. up[k + 1] = objects[up[k]].parent
      <4>1. up[k + 1] = Parent(objects, up[k])
        BY <1>3, <3>1
      <4> QED BY <1>6, <4>1 DEF Parent
    <3> QED BY <3>1, <3>2
  <2> QED BY <2>1, <2>2
<1>9. \A q \in S : objects[q].parent \in S
  BY <1>8
<1> HIDE DEF S
<1> QED BY <1>7, <1>9 DEF Rooted

-----------------------------------------------------------------------------
(* Batches *)

(* What differs in its anchors from what differs in its anchors does so. *)
LEMMA ButAnchorsJoin ==
    ASSUME NEW a, NEW b, NEW c, ButAnchors(a, b), ButAnchors(b, c)
    PROVE  ButAnchors(a, c)
<1>1. PICK v : b = Made(a.contours, a.space, v, a.parent, a.order)
  BY DEF ButAnchors
<1>2. PICK w : c = Made(b.contours, b.space, w, b.parent, b.order)
  BY DEF ButAnchors
<1>3. /\ b.contours = a.contours /\ b.space = a.space
      /\ b.parent = a.parent /\ b.order = a.order
  BY <1>1, MadeIs
<1> QED BY <1>2, <1>3 DEF ButAnchors

(* What one op keeps of a scene. *)
Keeps(objs, op, after, ids) ==
    /\ Scene(after, ids \cup Given(op)) /\ Rooted(after) /\ Given(op) \subseteq Id \ ids
    /\ DOMAIN after \subseteq DOMAIN objs \cup Given(op)
    /\ (DOMAIN objs \ Taken(op)) \cup Given(op) \subseteq DOMAIN after
    /\ \A p \in DOMAIN objs \ Written(op) :
          p \in DOMAIN after /\ ButAnchors(objs[p], after[p])

(* Every op that fits and is accepted keeps that (apply_inner). *)
LEMMA OpKeeps ==
    ASSUME NEW ids \in SUBSET Id, NEW objs, Scene(objs, ids), Rooted(objs), NEW op,
           Fits(op, ids), ApplyInner(objs, op).ok
    PROVE  Keeps(objs, op, ApplyInner(objs, op).objs, ids)
<1> DEFINE after == ApplyInner(objs, op).objs
<1>1. Effect(objs, op, after, ids) /\ Rooted(after)
  BY OpEffect, OpRooted
<1> HIDE DEF after
<1>2. Given(op) \subseteq Id \ ids
  <2>1. op.kind = "insert" => op.id \in Id \ ids
    BY DEF Fits
  <2>2. op.kind = "split" => \E n \in Nat : op.new_ids \in [1..n -> Id \ ids]
    BY DEF Fits
  <2> QED BY <2>1, <2>2 DEF Given, Range
<1>3. \A p \in DOMAIN after : Formed(after[p], ids \cup Given(op))
  BY <1>1 DEF Effect, Formed
<1>4. DOMAIN after \subseteq ids \cup Given(op)
  BY <1>1 DEF Effect, Scene
<1>5. Scene(after, ids \cup Given(op))
  BY <1>1, <1>3, <1>4 DEF Effect, Scene
<1>6. Keeps(objs, op, after, ids)
  BY <1>1, <1>2, <1>5 DEF Effect, Keeps
<1> QED BY <1>6 DEF after

(* An op of a Batch is applied to what the ones before it made. *)
LEMMA ThenIs ==
    ASSUME NEW v, NEW op, Then(v, op).ok
    PROVE  /\ v.ok /\ ApplyInner(v.objs, op).ok
           /\ Then(v, op).objs = ApplyInner(v.objs, op).objs
<1> DEFINE r == ApplyInner(v.objs, op)
<1>1. Then(v, op) = IF v.ok THEN IF r.ok THEN Done(r.objs, r.inverse \o v.inverse)
                                 ELSE Err
                    ELSE Err
  BY DEF Then, Undoable
<1> HIDE DEF r
<1>2. v.ok /\ r.ok
  BY <1>1, DoneIs
<1>3. Then(v, op) = Done(r.objs, r.inverse \o v.inverse)
  BY <1>1, <1>2
<1>4. Then(v, op).objs = r.objs
  BY <1>3, DoneIs
<1> QED BY <1>2, <1>4 DEF r

(* s has the scenes that the first N ops make, one after the other. *)
Runs(s, objs, ops, N, after) ==
    /\ s[0] = objs /\ s[N] = after
    /\ \A n \in 1..N : /\ ApplyInner(s[n - 1], ops[n]).ok
                       /\ s[n] = ApplyInner(s[n - 1], ops[n]).objs

(* A Batch that is accepted applies its ops one after the other. *)
LEMMA BatchRuns ==
    ASSUME NEW objs, NEW ops, Len(ops) \in Nat, ApplyBatch(objs, ops).ok
    PROVE  \E s : Runs(s, objs, ops, Len(ops), ApplyBatch(objs, ops).objs)
<1> DEFINE N == Len(ops)
           base == Done(objs, <<>>)
           next(v, n) == Then(v, ops[n])
           Solves(g, m) == g = [n \in 0..m |-> IF n = 0 THEN base
                                               ELSE next(g[n - 1], n)]
           Bad == {m \in Nat : ~\E g : Solves(g, m)}
           result == CHOOSE g : Solves(g, N)
<1>1. ApplyBatch(objs, ops) = result[N]
  BY DEF ApplyBatch
<1> HIDE DEF next, base
<1>2. Bad = {}
  <2> SUFFICES ASSUME Bad # {} PROVE FALSE
    OBVIOUS
  <2>1. PICK m \in Bad : \A x \in Bad : m <= x
    <3>1. Bad \in SUBSET Nat
      OBVIOUS
    <3> HIDE DEF Bad
    <3> QED BY <3>1, LeastExists
  <2>2. m \in Nat /\ ~\E g : Solves(g, m)
    BY <2>1
  <2>3. m # 0
    <3>1. Solves([n \in 0..0 |-> base], 0)
      OBVIOUS
    <3> HIDE DEF Solves
    <3> QED BY <2>2, <3>1
  <2>4. PICK g : Solves(g, m - 1)
    <3>1. m - 1 \in Nat /\ ~(m <= m - 1)
      BY <2>2, <2>3
    <3>2. m - 1 \notin Bad
      <4> HIDE DEF Bad
      <4> QED BY <2>1, <3>1
    <3> HIDE DEF Solves
    <3> QED BY <3>1, <3>2
  <2> DEFINE h == [n \in 0..m |-> IF n = 0 THEN base ELSE next(g[n - 1], n)]
  <2>5. ASSUME NEW n \in 0..m, n # 0
        PROVE  h[n - 1] = g[n - 1]
    <3>1. n - 1 \in 0..(m - 1) /\ n - 1 \in 0..m
      BY <2>2, <2>5
    <3>2. g[n - 1] = IF n - 1 = 0 THEN base ELSE next(g[n - 1 - 1], n - 1)
      BY <2>4, <3>1
    <3>3. h[n - 1] = IF n - 1 = 0 THEN base ELSE next(g[n - 1 - 1], n - 1)
      BY <3>1
    <3> QED BY <3>2, <3>3
  <2>6. Solves(h, m)
    BY <2>5
  <2> HIDE DEF Solves
  <2> QED BY <2>2, <2>6
<1>3. Solves(result, N)
  <2>1. \E g : Solves(g, N)
    <3> HIDE DEF Solves, N
    <3>1. N \in Nat
      BY DEF N
    <3> QED BY <1>2, <3>1
  <2> HIDE DEF Solves
  <2> QED BY <2>1
<1> HIDE DEF result, N
<1>4. N \in Nat
  BY DEF N
<1>5. result[0] = base /\ \A n \in 1..N : result[n] = next(result[n - 1], n)
  <2>1. 0 \in 0..N /\ \A n \in 1..N : n \in 0..N /\ n # 0
    BY <1>4
  <2>2. \A n \in 0..N : result[n] = IF n = 0 THEN base ELSE next(result[n - 1], n)
    BY <1>3
  <2> QED BY <2>1, <2>2
<1>6. ASSUME NEW n \in 1..N, result[n].ok
      PROVE  /\ result[n - 1].ok /\ ApplyInner(result[n - 1].objs, ops[n]).ok
             /\ result[n].objs = ApplyInner(result[n - 1].objs, ops[n]).objs
  BY <1>5, <1>6, ThenIs DEF next
<1> DEFINE Wrong == {d \in 0..N : ~result[N - d].ok}
<1>7. Wrong = {}
  <2> SUFFICES ASSUME Wrong # {} PROVE FALSE
    OBVIOUS
  <2>1. PICK d \in Wrong : \A e \in Wrong : d <= e
    <3>1. Wrong \in SUBSET Nat
      OBVIOUS
    <3> HIDE DEF Wrong
    <3> QED BY <3>1, LeastExists
  <2>2. d \in 0..N /\ ~result[N - d].ok
    BY <2>1
  <2>3. d # 0
    <3>1. N - 0 = N
      BY <1>4
    <3> QED BY <1>1, <2>2, <3>1
  <2>4. d - 1 \in 0..N /\ ~(d <= d - 1)
    BY <1>4, <2>2, <2>3
  <2>5. d - 1 \notin Wrong
    <3> HIDE DEF Wrong
    <3> QED BY <2>1, <2>4
  <2>6. result[N - (d - 1)].ok
    BY <2>4, <2>5
  <2>7. N - (d - 1) \in 1..N /\ N - (d - 1) - 1 = N - d
    BY <1>4, <2>2, <2>3
  <2> QED BY <1>6, <2>2, <2>6, <2>7
<1>8. \A n \in 0..N : result[n].ok
  <2> TAKE n \in 0..N
  <2>1. N - n \in 0..N /\ N - (N - n) = n
    BY <1>4
  <2>2. N - n \notin Wrong
    <3> HIDE DEF Wrong
    <3> QED BY <1>7
  <2> QED BY <2>1, <2>2
<1> DEFINE s == [n \in 0..N |-> result[n].objs]
<1>9. s[0] = objs /\ s[N] = ApplyBatch(objs, ops).objs
  <2>1. 0 \in 0..N /\ N \in 0..N
    BY <1>4
  <2> QED BY <1>1, <1>5, <2>1, DoneIs DEF base
<1>10. ASSUME NEW n \in 1..N
       PROVE  /\ ApplyInner(s[n - 1], ops[n]).ok
              /\ s[n] = ApplyInner(s[n - 1], ops[n]).objs
  <2>1. n \in 0..N /\ n - 1 \in 0..N
    BY <1>4
  <2>2. s[n - 1] = result[n - 1].objs /\ s[n] = result[n].objs /\ result[n].ok
    BY <1>8, <2>1
  <2> HIDE DEF s
  <2> QED BY <1>6, <2>2
<1> HIDE DEF s
<1>11. Runs(s, objs, ops, N, ApplyBatch(objs, ops).objs)
  BY <1>9, <1>10 DEF Runs
<1> QED BY <1>11 DEF N

(* The ids that the first n ops give. *)
GivenBy(ops, n) == UNION {Given(ops[m]) : m \in 1..n}

(* A Batch each of whose ops finds its operands, the ids given by those
   before it among them, and takes away none of these.                     *)
FitsAll(ops, ids) ==
    /\ Len(ops) \in Nat /\ DOMAIN ops = 1..Len(ops)
    /\ \A n \in 1..Len(ops) : /\ Fits(ops[n], ids \cup GivenBy(ops, n - 1))
                              /\ Taken(ops[n]) \subseteq ids

(* The scene that a Batch leaves. *)
Outcome(objs, ops, after, ids) ==
    /\ Scene(after, ids \cup DOMAIN after) /\ Rooted(after)
    /\ ids \cup DOMAIN after \subseteq Id
    /\ DOMAIN after \subseteq DOMAIN objs \cup GivenBy(ops, Len(ops))
    /\ \A p \in DOMAIN objs : (\A n \in 1..Len(ops) : p \notin Written(ops[n])) =>
          p \in DOMAIN after /\ ButAnchors(objs[p], after[p])

(* And the scene after its first n ops. *)
Reached(objs, ops, n, now, ids) ==
    /\ ids \cup GivenBy(ops, n) \in SUBSET Id
    /\ Scene(now, ids \cup GivenBy(ops, n)) /\ Rooted(now)
    /\ GivenBy(ops, n) \subseteq DOMAIN now /\ GivenBy(ops, n) \cap ids = {}
    /\ DOMAIN now \subseteq DOMAIN objs \cup GivenBy(ops, n)
    /\ \A p \in DOMAIN objs : (\A m \in 1..n : p \notin Written(ops[m])) =>
          p \in DOMAIN now /\ ButAnchors(objs[p], now[p])

(* A Batch that fits reaches a well-formed scene with each of its ops. *)
LEMMA BatchTrace ==
    ASSUME NEW ids \in SUBSET Id, NEW objs, Scene(objs, ids), Rooted(objs),
           NEW ops, FitsAll(ops, ids), ApplyBatch(objs, ops).ok
    PROVE  \E s : /\ Runs(s, objs, ops, Len(ops), ApplyBatch(objs, ops).objs)
                  /\ \A n \in 0..Len(ops) : Reached(objs, ops, n, s[n], ids)
<1> DEFINE N == Len(ops)
           after == ApplyBatch(objs, ops).objs
           all(n) == ids \cup GivenBy(ops, n)
           Clean(p, n) == \A m \in 1..n : p \notin Written(ops[m])
<1>1. N \in Nat
  BY DEF FitsAll
<1>2. PICK s : Runs(s, objs, ops, N, after)
  BY <1>1, BatchRuns
<1>3. /\ s[0] = objs /\ s[N] = after
      /\ \A n \in 1..N : /\ ApplyInner(s[n - 1], ops[n]).ok
                         /\ s[n] = ApplyInner(s[n - 1], ops[n]).objs
  BY <1>2 DEF Runs
<1> HIDE DEF N, after
<1> DEFINE Good(n) ==
             /\ all(n) \in SUBSET Id /\ Scene(s[n], all(n)) /\ Rooted(s[n])
             /\ GivenBy(ops, n) \subseteq DOMAIN s[n] /\ GivenBy(ops, n) \cap ids = {}
             /\ DOMAIN s[n] \subseteq DOMAIN objs \cup GivenBy(ops, n)
             /\ \A p \in DOMAIN objs : Clean(p, n) =>
                   p \in DOMAIN s[n] /\ ButAnchors(objs[p], s[n][p])
           Bad == {n \in 0..N : ~Good(n)}
<1>4. Good(0)
  <2>1. GivenBy(ops, 0) = {} /\ all(0) = ids
    BY DEF GivenBy
  <2>2. \A p \in DOMAIN objs : ButAnchors(objs[p], objs[p])
    BY ButAnchorsSame DEF Scene
  <2> QED BY <1>3, <2>1, <2>2
<1>5. ASSUME NEW n \in 1..N, Good(n - 1) PROVE Good(n)
  <2> DEFINE op == ops[n]
             was == s[n - 1]
             is == s[n]
             before == all(n - 1)
  <2>1. Fits(op, before) /\ Taken(op) \subseteq ids
    BY DEF FitsAll, N
  <2>2. ApplyInner(was, op).ok /\ is = ApplyInner(was, op).objs
    BY <1>3
  <2>3. /\ before \in SUBSET Id /\ Scene(was, before) /\ Rooted(was)
        /\ GivenBy(ops, n - 1) \subseteq DOMAIN was /\ GivenBy(ops, n - 1) \cap ids = {}
        /\ DOMAIN was \subseteq DOMAIN objs \cup GivenBy(ops, n - 1)
        /\ \A p \in DOMAIN objs : Clean(p, n - 1) =>
              p \in DOMAIN was /\ ButAnchors(objs[p], was[p])
    BY <1>5
  <2>4. 1..n = 1..(n - 1) \cup {n}
    BY <1>1
  <2>5. GivenBy(ops, n) = GivenBy(ops, n - 1) \cup Given(op)
    BY <2>4 DEF GivenBy
  <2>6. all(n) = before \cup Given(op) /\ ids \subseteq before
    BY <2>5
  <2>7. \A p : Clean(p, n) => Clean(p, n - 1) /\ p \notin Written(op)
    BY <2>4
  <2> HIDE DEF Clean, all, op, was, is, before
  <2>8. Keeps(was, op, is, before)
    BY <2>1, <2>2, <2>3, OpKeeps
  <2>9. /\ Scene(is, before \cup Given(op)) /\ Rooted(is)
        /\ Given(op) \subseteq Id \ before
        /\ DOMAIN is \subseteq DOMAIN was \cup Given(op)
        /\ (DOMAIN was \ Taken(op)) \cup Given(op) \subseteq DOMAIN is
        /\ \A p \in DOMAIN was \ Written(op) :
              p \in DOMAIN is /\ ButAnchors(was[p], is[p])
    BY <2>8 DEF Keeps
  <2>10. all(n) \in SUBSET Id /\ Scene(is, all(n)) /\ Rooted(is)
    BY <2>3, <2>6, <2>9
  <2>11. /\ GivenBy(ops, n) \subseteq DOMAIN is /\ GivenBy(ops, n) \cap ids = {}
         /\ DOMAIN is \subseteq DOMAIN objs \cup GivenBy(ops, n)
    BY <2>1, <2>3, <2>5, <2>6, <2>9
  <2>12. ASSUME NEW p \in DOMAIN objs, Clean(p, n)
         PROVE  p \in DOMAIN is /\ ButAnchors(objs[p], is[p])
    <3>1. p \in DOMAIN was /\ p \notin Written(op) /\ ButAnchors(objs[p], was[p])
      BY <2>3, <2>7, <2>12
    <3>2. p \in DOMAIN is /\ ButAnchors(was[p], is[p])
      BY <2>9, <3>1
    <3>3. ButAnchors(objs[p], is[p])
      BY <3>1, <3>2, ButAnchorsJoin
    <3> QED BY <3>2, <3>3
  <2> QED BY <2>10, <2>11, <2>12 DEF is
<1>6. Bad = {}
  <2> HIDE DEF Good
  <2> SUFFICES ASSUME Bad # {} PROVE FALSE
    OBVIOUS
  <2>1. Bad \in SUBSET Nat
    OBVIOUS
  <2>2. PICK n \in Bad : \A m \in Bad : n <= m
    <3> HIDE DEF Bad
    <3> QED BY <2>1, LeastExists
  <2>3. n \in 1..N /\ n - 1 \in 0..N /\ ~(n <= n - 1)
    BY <1>1, <1>4, <2>2
  <2>4. n - 1 \notin Bad
    <3> HIDE DEF Bad
    <3> QED BY <2>2, <2>3
  <2> QED BY <1>5, <2>2, <2>3, <2>4
<1>7. \A n \in 0..N : Good(n)
  <2> HIDE DEF Good
  <2> QED BY <1>6
<1>8. \A n \in 0..N : Reached(objs, ops, n, s[n], ids)
  BY <1>7 DEF Reached
<1> QED BY <1>2, <1>8 DEF N, after

(* So does the whole of it (the Batch arm of apply_inner). *)
LEMMA BatchKeeps ==
    ASSUME NEW ids \in SUBSET Id, NEW objs, Scene(objs, ids), Rooted(objs),
           NEW ops, FitsAll(ops, ids), ApplyBatch(objs, ops).ok
    PROVE  Outcome(objs, ops, ApplyBatch(objs, ops).objs, ids)
<1> DEFINE N == Len(ops)
           after == ApplyBatch(objs, ops).objs
<1>1. PICK s : /\ Runs(s, objs, ops, N, after)
               /\ \A n \in 0..N : Reached(objs, ops, n, s[n], ids)
  BY BatchTrace
<1>2. N \in 0..N
  BY DEF FitsAll
<1> HIDE DEF N, after
<1>3. Reached(objs, ops, N, after, ids)
  BY <1>1, <1>2 DEF Runs
<1>4. ids \cup DOMAIN after = ids \cup GivenBy(ops, N)
  BY <1>3 DEF Reached, Scene
<1>5. Outcome(objs, ops, after, ids)
  BY <1>3, <1>4 DEF Reached, Outcome, N
<1> QED BY <1>5 DEF after

-----------------------------------------------------------------------------
(* What the shell authors *)

(* A Batch of one op. *)
LEMMA OneFits ==
    ASSUME NEW ids, NEW op, Fits(op, ids), Taken(op) \subseteq ids
    PROVE  FitsAll(<<op>>, ids)
<1>1. Len(<<op>>) = 1 /\ DOMAIN <<op>> = 1..1 /\ <<op>>[1] = op
  OBVIOUS
<1>2. \A n \in 1..1 : n = 1 /\ n - 1 = 0
  OBVIOUS
<1>3. ids \cup GivenBy(<<op>>, 0) = ids
  BY DEF GivenBy
<1> QED BY <1>1, <1>2, <1>3 DEF FitsAll

(* Ops that give no ids and take none that are not there. *)
LEMMA ListFits ==
    ASSUME NEW ids, NEW N \in Nat, NEW ops, DOMAIN ops = 1..N, Len(ops) = N,
           \A n \in 1..N : /\ \A all : ids \subseteq all => Fits(ops[n], all)
                           /\ Taken(ops[n]) \subseteq ids
    PROVE  FitsAll(ops, ids)
<1>1. \A n \in 1..N : Fits(ops[n], ids \cup GivenBy(ops, n - 1))
  OBVIOUS
<1> QED BY <1>1 DEF FitsAll

(* Two lists one after the other. *)
LEMMA ListsJoined ==
    ASSUME NEW m \in Nat, NEW n \in Nat, NEW s, NEW t,
           s = [k \in 1..m |-> s[k]], t = [k \in 1..n |-> t[k]]
    PROVE  /\ Len(s \o t) = m + n /\ DOMAIN (s \o t) = 1..(m + n)
           /\ \A k \in 1..(m + n) : (s \o t)[k] = IF k <= m THEN s[k] ELSE t[k - m]
<1> DEFINE U == {s[k] : k \in 1..m} \cup {t[k] : k \in 1..n}
<1>1. s \in [1..m -> U] /\ t \in [1..n -> U]
  OBVIOUS
<1> HIDE DEF U
<1>2. s \in Seq(U) /\ Len(s) = m /\ t \in Seq(U) /\ Len(t) = n
  BY <1>1, SequenceOf
<1>3. /\ s \o t \in Seq(U) /\ Len(s \o t) = m + n
      /\ \A k \in 1..(m + n) : (s \o t)[k] = IF k <= m THEN s[k] ELSE t[k - m]
  <2>1. /\ s \o t \in Seq(U) /\ Len(s \o t) = Len(s) + Len(t)
        /\ \A k \in 1..(Len(s) + Len(t)) :
              (s \o t)[k] = IF k <= Len(s) THEN s[k] ELSE t[k - Len(s)]
    BY <1>2, Joined, ZenonT(30)
  <2> QED BY <1>2, <2>1
<1>4. DOMAIN (s \o t) = 1..(m + n)
  BY <1>3, LenProperties
<1> QED BY <1>3, <1>4

(* The lists of different objects. *)
LEMMA OrdersIs ==
    ASSUME NEW S, NEW lengths, lengths \subseteq Nat, NEW q \in Orders(S, lengths)
    PROVE  \E n \in Nat : q \in [1..n -> S]
BY DEF Orders, Injection

(* Fresh ids are different ids that were never given. *)
LEMMA FreshIs ==
    ASSUME NEW n \in Nat, NEW q \in Fresh(n)
    PROVE  /\ q \in [1..n -> Id \ used]
           /\ \A i, j \in 1..n : q[i] = q[j] => i = j
<1>1. /\ q \in [1..n -> Id \ used]
      /\ \A i \in 1..n : \A free \in Id \ used :
            free < q[i] <=> free \in {q[m] : m \in 1..(i - 1)}
  BY DEF Fresh
<1>2. Id \subseteq Nat
  BY BoundAssumption DEF Id
<1>3. ASSUME NEW i \in 1..n, NEW j \in 1..n, i < j PROVE q[i] # q[j]
  <2>1. i \in 1..(j - 1)
    BY <1>3
  <2>2. q[i] < q[j] /\ q[i] \in Nat
    BY <1>1, <1>2, <2>1
  <2> QED BY <2>2
<1>4. \A i, j \in 1..n : i = j \/ i < j \/ j < i
  OBVIOUS
<1> QED BY <1>1, <1>3, <1>4

(* A new object is well formed. *)
LEMMA NewFits ==
    ASSUME NEW ids, NEW id \in Id, NEW order \in Key
    PROVE  Formed(NewObject(id, order), ids)
<1> DEFINE c == <<Contour(id, 1, 4)>>
           none == <<>>
           b == Made(c, "upright", none, NoParent, order)
<1>1. NewObject(id, order) = b
  BY DEF NewObject, Made
<1>2. c \in Contours /\ none \in Seq(Anchor) /\ "upright" \in Spaces
  BY DEF Contours, Contour, Spaces
<1> HIDE DEF c, none
<1>3. /\ b.contours = c /\ b.space = "upright" /\ b.anchors = none
      /\ b.parent = NoParent /\ b.order = order
  BY MadeIs
<1>4. b = Made(b.contours, b.space, b.anchors, b.parent, b.order)
  <2> HIDE DEF b
  <2> QED BY <1>3 DEF b
<1> HIDE DEF b
<1>5. Formed(b, ids)
  BY <1>2, <1>3, <1>4 DEF Formed
<1> QED BY <1>1, <1>5 DEF b

(* Split *)
LEMMA SplitFits ==
    ASSUME used \in SUBSET Id, Scene(objects, used), NEW ops \in SplitEdits
    PROVE  FitsAll(ops, used)
<1> DEFINE count(id, peel) == IF peel = <<>> THEN Len(objects[id].contours) ELSE Len(peel)
<1>1. PICK id \in Here, peel \in Orders(1..3, 0..2) : \E q \in Fresh(count(id, peel)) :
         ops = <<Split(id, q, peel)>>
  BY DEF SplitEdits
<1>2. PICK q \in Fresh(count(id, peel)) : ops = <<Split(id, q, peel)>>
  BY <1>1
<1>3. peel \in Seq(Nat) /\ Len(peel) \in Nat
  <2>1. PICK n \in Nat : peel \in [1..n -> 1..3]
    <3>1. 0..2 \subseteq Nat
      OBVIOUS
    <3> QED BY <3>1, OrdersIs
  <2>2. peel \in [1..n -> Nat]
    BY <2>1
  <2> QED BY <2>2, SequenceOf
<1>4. count(id, peel) \in Nat
  <2>1. objects[id].contours \in Contours
    BY DEF Here, Scene, Formed
  <2>2. Len(objects[id].contours) \in Nat
    BY <2>1, LenProperties DEF Contours
  <2> QED BY <1>3, <2>2
<1> HIDE DEF count
<1>5. q \in [1..count(id, peel) -> Id \ used]
  BY <1>4, FreshIs
<1> DEFINE op == Split(id, q, peel)
<1>6. op.kind = "split" /\ op.id = id /\ op.new_ids = q /\ op.peel = peel
  BY DEF Split
<1> HIDE DEF op
<1>7. Fits(op, used)
  BY <1>3, <1>4, <1>5, <1>6 DEF Fits
<1>8. Taken(op) \subseteq used
  BY <1>6 DEF Taken, Here, Scene
<1>9. FitsAll(<<op>>, used)
  BY <1>7, <1>8, OneFits
<1> QED BY <1>2, <1>9 DEF op

(* Merge *)
LEMMA MergeFits ==
    ASSUME used \in SUBSET Id, Scene(objects, used), NEW ops \in MergeEdits
    PROVE  FitsAll(ops, used)
<1>1. PICK ids \in Orders(DOMAIN objects, 1..3) : \E into \in Range(ids) \cup {NoParent} :
         ops = <<Merge(ids, into)>>
  BY DEF MergeEdits
<1>2. PICK into : ops = <<Merge(ids, into)>>
  BY <1>1
<1>3. PICK n \in Nat : ids \in [1..n -> DOMAIN objects]
  <2>1. 1..3 \subseteq Nat
    OBVIOUS
  <2> QED BY <2>1, OrdersIs
<1>4. DOMAIN objects \subseteq used /\ used \subseteq Id
  BY DEF Scene
<1> DEFINE op == Merge(ids, into)
<1>5. op.kind = "merge" /\ op.ids = ids
  BY DEF Merge
<1> HIDE DEF op
<1>6. ids \in [1..n -> Id]
  BY <1>3, <1>4
<1>7. Fits(op, used)
  BY <1>5, <1>6 DEF Fits
<1>8. Taken(op) \subseteq used
  BY <1>3, <1>4, <1>5 DEF Taken, Range
<1>9. FitsAll(<<op>>, used)
  BY <1>7, <1>8, OneFits
<1> QED BY <1>2, <1>9 DEF op

(* Canonicalize, Delete, and an anchor more *)
LEMMA PlainFits ==
    ASSUME used \in SUBSET Id, Scene(objects, used),
           NEW ops \in CanonicalizeEdits \cup DeleteEdits \cup BindEdits
    PROVE  FitsAll(ops, used)
<1>1. ASSUME NEW id \in DOMAIN objects PROVE FitsAll(<<Canonicalize(id)>>, used)
  <2> DEFINE op == Canonicalize(id)
  <2>1. op.kind = "canonicalize" /\ op.id = id
    BY DEF Canonicalize
  <2> HIDE DEF op
  <2>2. FitsAll(<<op>>, used)
    BY <2>1, OneFits DEF Fits, Taken
  <2> QED BY <2>2 DEF op
<1>2. ASSUME NEW id \in DOMAIN objects PROVE FitsAll(<<Delete(id)>>, used)
  <2> DEFINE op == Delete(id)
  <2>1. op.kind = "delete" /\ op.id = id
    BY DEF Delete
  <2> HIDE DEF op
  <2>2. FitsAll(<<op>>, used)
    BY <2>1, OneFits DEF Fits, Taken, Scene
  <2> QED BY <2>2 DEF op
<1>3. ASSUME NEW id, NEW anchors \in Seq(Anchor)
      PROVE  FitsAll(<<SetAnchor(id, anchors)>>, used)
  <2> DEFINE op == SetAnchor(id, anchors)
  <2>1. op.kind = "set-anchor" /\ op.id = id /\ op.anchors = anchors
    BY DEF SetAnchor
  <2> HIDE DEF op
  <2>2. FitsAll(<<op>>, used)
    BY <2>1, OneFits DEF Fits, Taken
  <2> QED BY <2>2 DEF op
<1>4. CASE ops \in CanonicalizeEdits
  BY <1>1, <1>4 DEF CanonicalizeEdits
<1>5. CASE ops \in DeleteEdits
  BY <1>2, <1>5 DEF DeleteEdits
<1>6. CASE ops \in BindEdits
  <2> DEFINE more(b) == [node |-> b.node, target |-> b.target,
                         at |-> objects[b.target].space]
  <2>1. PICK b \in [id: Here, node: {0, 3}, target: Here] :
           ops = <<SetAnchor(b.id, Append(objects[b.id].anchors, more(b)))>>
    BY <1>6 DEF BindEdits
  <2>2. b.id \in DOMAIN objects /\ b.node \in Nat /\ b.target \in DOMAIN objects
    BY DEF Here
  <2>3. objects[b.target].space \in Spaces /\ objects[b.id].anchors \in Seq(Anchor)
    BY <2>2 DEF Scene, Formed
  <2>4. more(b) \in Anchor
    BY <2>2, <2>3 DEF Anchor, Scene
  <2> HIDE DEF more
  <2>5. Append(objects[b.id].anchors, more(b)) \in Seq(Anchor)
    BY <2>3, <2>4
  <2> QED BY <1>3, <2>1, <2>5
<1> QED BY <1>4, <1>5, <1>6

(* A Reparent to an id that was given, with a key, fits. *)
LEMMA ReparentFits ==
    ASSUME NEW ids, NEW id, NEW parent \in ids \cup {NoParent}, NEW order \in Key
    PROVE  /\ \A all : ids \subseteq all => Fits(Reparent(id, parent, order), all)
           /\ Taken(Reparent(id, parent, order)) = {}
           /\ Given(Reparent(id, parent, order)) = {}
<1> DEFINE op == Reparent(id, parent, order)
<1>1. op.kind = "reparent" /\ op.parent = parent /\ op.order = order
  BY DEF Reparent
<1> HIDE DEF op
<1>2. \A all : ids \subseteq all => Fits(op, all)
  BY <1>1 DEF Fits
<1>3. Taken(op) = {} /\ Given(op) = {}
  BY <1>1 DEF Taken, Given
<1> QED BY <1>2, <1>3 DEF op

(* So does a Reorder with a key. *)
LEMMA ReorderFits ==
    ASSUME NEW id, NEW order \in Key
    PROVE  /\ \A all : Fits(Reorder(id, order), all)
           /\ Taken(Reorder(id, order)) = {}
<1> DEFINE op == Reorder(id, order)
<1>1. op.kind = "reorder" /\ op.order = order
  BY DEF Reorder
<1> HIDE DEF op
<1>2. \A all : Fits(op, all)
  BY <1>1 DEF Fits
<1>3. Taken(op) = {}
  BY <1>1 DEF Taken
<1> QED BY <1>2, <1>3 DEF op

(* And an Insert of a well-formed object with a new id. *)
LEMMA InsertFits ==
    ASSUME NEW ids, NEW id \in Id \ ids, NEW object, Formed(object, ids)
    PROVE  /\ Fits(Insert(id, object), ids)
           /\ Taken(Insert(id, object)) = {} /\ Given(Insert(id, object)) = {id}
<1> DEFINE op == Insert(id, object)
<1>1. op.kind = "insert" /\ op.id = id /\ op.object = object
  BY DEF Insert
<1> HIDE DEF op
<1>2. Fits(op, ids)
  BY <1>1 DEF Fits
<1>3. Taken(op) = {} /\ Given(op) = {id}
  BY <1>1 DEF Taken, Given
<1> QED BY <1>2, <1>3 DEF op

(* Reparent and PopOut: up or over, with the key of the object. *)
LEMMA MovesFit ==
    ASSUME used \in SUBSET Id, Scene(objects, used),
           NEW ops \in ReparentEdits \cup PopOutEdits
    PROVE  FitsAll(ops, used)
<1>1. /\ DOMAIN objects \subseteq used
      /\ \A p \in DOMAIN objects : /\ objects[p].order \in Key
                                   /\ objects[p].parent \in used \cup {NoParent}
  BY DEF Scene, Formed
<1>2. ASSUME NEW id \in DOMAIN objects, NEW p \in used \cup {NoParent}
      PROVE  FitsAll(<<Reparent(id, p, objects[id].order)>>, used)
  <2>1. objects[id].order \in Key
    BY <1>1
  <2>2. /\ Fits(Reparent(id, p, objects[id].order), used)
        /\ Taken(Reparent(id, p, objects[id].order)) \subseteq used
    BY <2>1, ReparentFits
  <2> QED BY <2>2, OneFits
<1>3. CASE ops \in ReparentEdits
  BY <1>1, <1>2, <1>3 DEF ReparentEdits
<1>4. CASE ops \in PopOutEdits
  <2>1. PICK id \in DOMAIN objects : ops = PopOutOps(objects, id)
    BY <1>4 DEF PopOutEdits
  <2>2. Parent(objects, objects[id].parent) \in used \cup {NoParent}
    BY <1>1 DEF Parent
  <2>3. ops = <<Reparent(id, Parent(objects, objects[id].parent), objects[id].order)>>
    BY <2>1 DEF PopOutOps
  <2> QED BY <1>2, <2>2, <2>3
<1> QED BY <1>3, <1>4

(* The elements of a comprehension over 1..N. *)
LEMMA ListOf ==
    ASSUME NEW N \in Nat, NEW t, t = [n \in 1..N |-> t[n]]
    PROVE  DOMAIN t = 1..N /\ Len(t) = N
<1> DEFINE U == {t[n] : n \in 1..N}
<1>1. t \in [1..N -> U]
  OBVIOUS
<1> HIDE DEF U
<1> QED BY <1>1, SequenceOf

(* Insert on top *)
LEMMA InsertsFit ==
    ASSUME used \in SUBSET Id, Scene(objects, used), NEW ops \in InsertEdits
    PROVE  FitsAll(ops, used)
<1>1. PICK q \in Fresh(1) :
         ops = <<Insert(q[1], NewObject(q[1], NextOrderKey(objects)))>>
  BY DEF InsertEdits
<1>2. q[1] \in Id \ used
  <2>1. q \in [1..1 -> Id \ used]
    BY FreshIs
  <2> QED BY <2>1
<1>3. NextOrderKey(objects) \in Key
  BY NextKeyFits
<1>4. Formed(NewObject(q[1], NextOrderKey(objects)), used)
  BY <1>2, <1>3, NewFits
<1> DEFINE op == Insert(q[1], NewObject(q[1], NextOrderKey(objects)))
<1>5. Fits(op, used) /\ Taken(op) = {}
  BY <1>2, <1>4, InsertFits
<1> HIDE DEF op
<1>6. FitsAll(<<op>>, used)
  BY <1>5, OneFits
<1> QED BY <1>1, <1>6 DEF op

(* Duplicate: different new ids, and keys above the scene. *)
LEMMA DuplicatesFit ==
    ASSUME used \in SUBSET Id, Scene(objects, used), NEW ops \in DuplicateEdits
    PROVE  FitsAll(ops, used)
<1>1. PICK ids \in Orders(DOMAIN objects, 1..2) :
         \E q \in Fresh(Len(ids)) : ops = DuplicateOps(objects, ids, q)
  BY DEF DuplicateEdits
<1>2. PICK q \in Fresh(Len(ids)) : ops = DuplicateOps(objects, ids, q)
  BY <1>1
<1>3. PICK N \in Nat : ids \in [1..N -> DOMAIN objects]
  <2>1. 1..2 \subseteq Nat
    OBVIOUS
  <2> QED BY <2>1, OrdersIs
<1>4. Len(ids) = N /\ DOMAIN ids = 1..N
  BY <1>3, SequenceOf
<1>5. q \in [1..N -> Id \ used] /\ \A i, j \in 1..N : q[i] = q[j] => i = j
  BY <1>2, <1>4, FreshIs
<1> DEFINE next == NextOrderKey(objects)
           keys == KeysAbove(next, Len(ids))
           order(n) == IF n = 1 THEN next ELSE keys[n - 1]
           copy(n) == [objects[ids[n]] EXCEPT !.order = order(n)]
<1>6. \A n \in 1..N : order(n) \in Key
  <2>1. next \in Key
    BY NextKeyFits
  <2>2. keys \in [1..N -> Key]
    BY <1>4, <2>1, KeysAboveFit
  <2> HIDE DEF next, keys
  <2>3. \A n \in 1..N : n = 1 \/ n - 1 \in 1..N
    OBVIOUS
  <2> QED BY <2>1, <2>2, <2>3
<1>7. ops = [n \in 1..N |-> Insert(q[n], copy(n))]
  BY <1>2, <1>4 DEF DuplicateOps
<1> HIDE DEF order
<1>8. ASSUME NEW n \in 1..N, NEW all, used \subseteq all
      PROVE  Formed(copy(n), all)
  <2> DEFINE o == objects[ids[n]]
             b == Made(o.contours, o.space, o.anchors, o.parent, order(n))
  <2>1. Formed(o, used)
    BY <1>3 DEF Scene
  <2>2. copy(n) = b
    <3>1. copy(n) = Restacked(o, order(n))
      BY DEF Restacked
    <3> HIDE DEF o
    <3> QED BY <2>1, <3>1, WrittenIs
  <2>3. Formed(b, all)
    <3>1. order(n) \in Key
      BY <1>6
    <3> HIDE DEF o
    <3> QED BY <1>8, <2>1, <3>1, MadeIs DEF Formed
  <2> QED BY <2>2, <2>3
<1> HIDE DEF copy
<1>9. \A n \in 1..N : ops[n] = Insert(q[n], copy(n))
  BY <1>7
<1>10. DOMAIN ops = 1..N /\ Len(ops) = N
  <2>1. ops = [n \in 1..N |-> ops[n]]
    BY <1>7
  <2> QED BY <2>1, ListOf
<1>11. \A n \in 1..N : Given(ops[n]) = {q[n]} /\ Taken(ops[n]) = {}
  <2> TAKE n \in 1..N
  <2>1. q[n] \in Id \ used /\ Formed(copy(n), used)
    BY <1>5, <1>8
  <2> QED BY <1>9, <2>1, InsertFits
<1>12. ASSUME NEW n \in 1..N
       PROVE  Fits(ops[n], used \cup GivenBy(ops, n - 1))
  <2> DEFINE all == used \cup GivenBy(ops, n - 1)
  <2>1. q[n] \notin GivenBy(ops, n - 1)
    <3>1. \A m \in 1..(n - 1) : m \in 1..N /\ m # n
      OBVIOUS
    <3>2. \A m \in 1..(n - 1) : q[n] \notin Given(ops[m])
      BY <1>5, <1>11, <3>1
    <3> QED BY <3>2 DEF GivenBy
  <2>2. q[n] \in Id \ all /\ used \subseteq all
    BY <1>5, <2>1
  <2> HIDE DEF all
  <2>3. Formed(copy(n), all)
    BY <1>8, <2>2
  <2>4. Fits(ops[n], all)
    BY <1>9, <2>2, <2>3, InsertFits
  <2> QED BY <2>4 DEF all
<1> QED BY <1>10, <1>11, <1>12 DEF FitsAll

(* Restack: one valid key for all. *)
LEMMA RestacksFit ==
    ASSUME used \in SUBSET Id, Scene(objects, used), NEW ops \in RestackEdits
    PROVE  FitsAll(ops, used)
<1>1. PICK ids \in Orders(DOMAIN objects, 1..2),
           key \in {k \in {NextOrderKey(objects), BackOrderKey(objects)} : ValidKey(k)} :
         ops = [n \in DOMAIN ids |-> Reorder(ids[n], key)]
  BY DEF RestackEdits
<1>2. PICK N \in Nat : ids \in [1..N -> DOMAIN objects]
  <2>1. 1..2 \subseteq Nat
    OBVIOUS
  <2> QED BY <2>1, OrdersIs
<1>3. key \in Key
  BY NextKeyFits, BackKeyFits
<1>4. ops = [n \in 1..N |-> Reorder(ids[n], key)]
  BY <1>1, <1>2
<1>5. DOMAIN ops = 1..N /\ Len(ops) = N
  <2>1. ops = [n \in 1..N |-> ops[n]]
    BY <1>4
  <2> QED BY <2>1, ListOf
<1>6. \A n \in 1..N : (\A all : Fits(ops[n], all)) /\ Taken(ops[n]) = {}
  BY <1>3, <1>4, ReorderFits
<1> QED BY <1>5, <1>6, ListFits

(* A step: two objects swap their keys. *)
LEMMA StepsFit ==
    ASSUME used \in SUBSET Id, Scene(objects, used), NEW ops \in StepEdits
    PROVE  FitsAll(ops, used)
<1>0. PICK id \in Here :
         \E other \in UNION {Neighbours(objects, id, f) : f \in BOOLEAN} :
            ops = StepOps(objects, id, other)
  BY DEF StepEdits
<1>1. PICK other \in UNION {Neighbours(objects, id, f) : f \in BOOLEAN} :
         ops = StepOps(objects, id, other)
  BY <1>0
<1>2. other \in DOMAIN objects /\ id \in DOMAIN objects
  BY DEF Neighbours, Here
<1>3. objects[other].order \in Key /\ objects[id].order \in Key
  BY <1>2 DEF Scene, Formed
<1> DEFINE a == Reorder(id, objects[other].order)
           b == Reorder(other, objects[id].order)
<1>4. /\ \A all : Fits(a, all) /\ Fits(b, all)
      /\ Taken(a) = {} /\ Taken(b) = {}
  BY <1>3, ReorderFits
<1>5. ops = <<a, b>>
  BY <1>1 DEF StepOps
<1> HIDE DEF a, b
<1>6. DOMAIN ops = 1..2 /\ Len(ops) = 2 /\ ops[1] = a /\ ops[2] = b
  BY <1>5
<1>7. \A n \in 1..2 : n = 1 \/ n = 2
  OBVIOUS
<1>8. \A n \in 1..2 : (\A all : Fits(ops[n], all)) /\ Taken(ops[n]) = {}
  BY <1>4, <1>6, <1>7
<1> QED BY <1>6, <1>8, ListFits

(* An op that fits wherever `ids' were given and takes nothing away. *)
Settles(op, ids) == (\A all : ids \subseteq all => Fits(op, all)) /\ Taken(op) = {}

(* A Reparent to an id that was given, with a key, settles. *)
LEMMA ReparentSettles ==
    ASSUME NEW ids, NEW id, NEW parent \in ids \cup {NoParent}, NEW order \in Key
    PROVE  Settles(Reparent(id, parent, order), ids)
BY ReparentFits DEF Settles

(* Ungroup: the children to the parent of the frame, and the frame away. *)
LEMMA UngroupsFit ==
    ASSUME used \in SUBSET Id, Scene(objects, used), NEW ops \in UngroupEdits
    PROVE  FitsAll(ops, used)
<1>1. PICK frame \in DOMAIN objects : ops = UngroupOps(objects, frame)
  BY DEF UngroupEdits
<1> DEFINE S == Children(objects, frame)
           children == Painted(objects, S)
           N == Cardinality(S)
           moves == [n \in DOMAIN children |->
                       Reparent(children[n], objects[frame].parent,
                                objects[children[n]].order)]
           away == <<Delete(frame)>>
<1>2. ops = moves \o away
  BY <1>1 DEF UngroupOps
<1>3. S \subseteq DOMAIN objects
  BY DEF Children
<1>4. N \in Nat /\ children \in [1..N -> S]
  <2>1. InOrder(objects, S, N, children)
    <3> HIDE DEF S
    <3> QED BY <1>3, PaintedInOrder
  <2> HIDE DEF S, N, children
  <2> QED BY <2>1 DEF InOrder
<1> HIDE DEF S, children, N
<1>5. /\ objects[frame].parent \in used \cup {NoParent} /\ frame \in used
      /\ \A p \in S : objects[p].order \in Key
  BY <1>3 DEF Scene, Formed
<1>6. moves = [n \in 1..N |-> moves[n]]
  BY <1>4
<1>7. ASSUME NEW n \in 1..N
      PROVE  /\ \A all : used \subseteq all => Fits(moves[n], all)
             /\ Taken(moves[n]) = {}
  <2>1. moves[n] = Reparent(children[n], objects[frame].parent, objects[children[n]].order)
    BY <1>4
  <2>2. objects[children[n]].order \in Key
    BY <1>4, <1>5
  <2> HIDE DEF moves
  <2>3. Settles(moves[n], used)
    BY <1>5, <2>1, <2>2, ReparentSettles
  <2> QED BY <2>3 DEF Settles
<1>8. away = [n \in 1..1 |-> away[n]] /\ away[1] = Delete(frame)
  OBVIOUS
<1>9. (\A all : Fits(Delete(frame), all)) /\ Taken(Delete(frame)) = {frame}
  <2>1. Delete(frame).kind = "delete" /\ Delete(frame).id = frame
    BY DEF Delete
  <2> QED BY <2>1 DEF Fits, Taken
<1> HIDE DEF moves, away
<1>10. /\ Len(ops) = N + 1 /\ DOMAIN ops = 1..(N + 1)
       /\ \A k \in 1..(N + 1) : ops[k] = IF k <= N THEN moves[k] ELSE away[k - N]
  BY <1>2, <1>4, <1>6, <1>8, ListsJoined
<1>11. ASSUME NEW k \in 1..(N + 1)
       PROVE  /\ \A all : used \subseteq all => Fits(ops[k], all)
              /\ Taken(ops[k]) \subseteq used
  <2>1. \/ k \in 1..N
        \/ ~(k <= N) /\ k - N = 1
    BY <1>4
  <2>2. CASE k \in 1..N
    <3>1. k <= N
      BY <1>4, <2>2
    <3>2. ops[k] = moves[k]
      BY <1>10, <3>1
    <3> QED BY <1>7, <2>2, <3>2
  <2>3. CASE ~(k <= N) /\ k - N = 1
    BY <1>5, <1>8, <1>9, <1>10, <2>3
  <2> QED BY <2>1, <2>2, <2>3
<1>12. N + 1 \in Nat
  BY <1>4
<1> QED BY <1>10, <1>11, <1>12, ListFits

(* N keys, each above the one before. *)
Stacks(keys, N) ==
    /\ \A n \in 1..N : keys[n] \in Key
    /\ \A n \in 1..(N - 1) : Before(keys[n], keys[n + 1])

(* The keys of a group's members stack. *)
LEMMA GroupKeys ==
    ASSUME NEW N \in Nat, N >= 1
    PROVE  Stacks(<<FirstKey>> \o KeysAbove(FirstKey, N - 1), N)
<1> DEFINE above == KeysAbove(FirstKey, N - 1)
           keys == <<FirstKey>> \o above
<1>1. N - 1 \in Nat /\ FirstKey \in Key
  BY FirstKeyFits
<1>2. /\ above \in [1..(N - 1) -> Key]
      /\ N - 1 >= 1 => Before(FirstKey, above[1])
      /\ \A n \in 1..(N - 1 - 1) : Before(above[n], above[n + 1])
  BY <1>1, KeysAboveFit
<1> HIDE DEF above
<1>3. /\ <<FirstKey>> \in Seq(Key) /\ Len(<<FirstKey>>) = 1 /\ <<FirstKey>>[1] = FirstKey
      /\ above \in Seq(Key) /\ Len(above) = N - 1
  BY <1>1, <1>2, SequenceOf
<1>4. \A k \in 1..(1 + (N - 1)) : keys[k] = IF k <= 1 THEN <<FirstKey>>[k] ELSE above[k - 1]
  BY <1>3, Joined
<1> HIDE DEF keys
<1>5. 1 + (N - 1) = N /\ 1 \in 1..N
  OBVIOUS
<1>6. keys[1] = FirstKey /\ \A k \in 2..N : k - 1 \in 1..(N - 1) /\ keys[k] = above[k - 1]
  <2>1. 1 <= 1 /\ \A k \in 2..N : k \in 1..N /\ ~(k <= 1) /\ k - 1 \in 1..(N - 1)
    OBVIOUS
  <2> QED BY <1>3, <1>4, <1>5, <2>1
<1>7. \A n \in 1..N : keys[n] \in Key
  <2>1. \A n \in 1..N : n = 1 \/ n \in 2..N
    OBVIOUS
  <2> QED BY <1>1, <1>2, <1>6, <2>1
<1>8. ASSUME NEW n \in 1..(N - 1) PROVE Before(keys[n], keys[n + 1])
  <2>1. n + 1 \in 2..N /\ n + 1 - 1 = n
    OBVIOUS
  <2>2. keys[n + 1] = above[n]
    BY <1>6, <2>1
  <2>3. CASE n = 1
    BY <1>2, <1>6, <2>2, <2>3
  <2>4. CASE n # 1
    <3>1. n \in 2..N /\ n - 1 \in 1..(N - 1 - 1) /\ n - 1 + 1 = n
      BY <2>4
    <3>2. keys[n] = above[n - 1] /\ Before(above[n - 1], above[n])
      BY <1>2, <1>6, <3>1
    <3> QED BY <2>2, <3>2
  <2> QED BY <2>3, <2>4
<1> QED BY <1>7, <1>8 DEF keys, above, Stacks

(* The ops of a group: the frame, then each of its N members, in paint order,
   into it.                                                                *)
Groups(ops, objs, S, frame, members, keys, N) ==
    /\ N \in Nat /\ N >= 2 /\ InOrder(objs, S, N, members) /\ Stacks(keys, N)
    /\ Len(ops) = 1 + N /\ DOMAIN ops = 1..(1 + N)
    /\ ops[1] = Insert(frame, NewObject(frame, NextOrderKey(objs)))
    /\ \A n \in 1..N : ops[1 + n] = Reparent(members[n], frame, keys[n])

(* Every group the shell authors is that list, for some frame and keys. *)
LEMMA GroupEditIs ==
    ASSUME used \in SUBSET Id, Scene(objects, used), NEW ops \in GroupEdits
    PROVE  \E S \in SUBSET DOMAIN objects, frame \in Id \ used :
              \E members, keys, N : Groups(ops, objects, S, frame, members, keys, N)
<1>1. PICK S \in SUBSET DOMAIN objects, q \in Fresh(1) :
         Cardinality(S) >= 2 /\ ops = GroupOps(objects, S, q[1])
  BY DEF GroupEdits
<1> DEFINE frame == q[1]
           members == Painted(objects, S)
           N == Cardinality(S)
           keys == <<FirstKey>> \o KeysAbove(FirstKey, Len(members) - 1)
           first == <<Insert(frame, NewObject(frame, NextOrderKey(objects)))>>
           moves == [n \in DOMAIN members |-> Reparent(members[n], frame, keys[n])]
<1>2. ops = first \o moves
  BY <1>1 DEF GroupOps
<1>3. frame \in Id \ used
  <2>1. q \in [1..1 -> Id \ used]
    BY FreshIs
  <2> QED BY <2>1
<1>4. /\ N \in Nat /\ N >= 2 /\ InOrder(objects, S, N, members)
      /\ members \in [1..N -> S] /\ Len(members) = N
  <2>1. S \subseteq DOMAIN objects
    OBVIOUS
  <2>2. InOrder(objects, S, N, members)
    BY <2>1, PaintedInOrder
  <2> HIDE DEF N, members
  <2> QED BY <1>1, <2>2 DEF InOrder, N
<1>5. Stacks(keys, N)
  <2>1. N >= 1 /\ keys = <<FirstKey>> \o KeysAbove(FirstKey, N - 1)
    BY <1>4
  <2> HIDE DEF N, keys
  <2> QED BY <1>4, <2>1, GroupKeys
<1>6. /\ first = [n \in 1..1 |-> first[n]]
      /\ first[1] = Insert(frame, NewObject(frame, NextOrderKey(objects)))
  OBVIOUS
<1> HIDE DEF N, members, keys, first, frame
<1>7. /\ moves = [n \in 1..N |-> moves[n]]
      /\ \A n \in 1..N : moves[n] = Reparent(members[n], frame, keys[n])
  BY <1>4
<1> HIDE DEF moves
<1>8. /\ Len(ops) = 1 + N /\ DOMAIN ops = 1..(1 + N)
      /\ \A k \in 1..(1 + N) : ops[k] = IF k <= 1 THEN first[k] ELSE moves[k - 1]
  BY <1>2, <1>4, <1>6, <1>7, ListsJoined
<1>9. ops[1] = first[1] /\ \A n \in 1..N : ops[1 + n] = moves[n]
  <2>1. 1 \in 1..(1 + N)
    BY <1>4
  <2>2. \A n \in 1..N : 1 + n \in 1..(1 + N) /\ ~(1 + n <= 1) /\ 1 + n - 1 = n
    BY <1>4
  <2> QED BY <1>8, <2>1, <2>2
<1>10. Groups(ops, objects, S, frame, members, keys, N)
  BY <1>4, <1>5, <1>6, <1>7, <1>8, <1>9 DEF Groups
<1> QED BY <1>3, <1>10

(* Group: every member goes into a frame that the first op gave. *)
LEMMA GroupsFit ==
    ASSUME used \in SUBSET Id, Scene(objects, used), NEW ops \in GroupEdits
    PROVE  FitsAll(ops, used)
<1>0. PICK S \in SUBSET DOMAIN objects, frame \in Id \ used :
         \E members, keys, N : Groups(ops, objects, S, frame, members, keys, N)
  BY GroupEditIs
<1>1. PICK members, keys, N : Groups(ops, objects, S, frame, members, keys, N)
  BY <1>0
<1>2. /\ N \in Nat /\ Len(ops) = 1 + N /\ DOMAIN ops = 1..(1 + N)
      /\ ops[1] = Insert(frame, NewObject(frame, NextOrderKey(objects)))
      /\ \A n \in 1..N : ops[1 + n] = Reparent(members[n], frame, keys[n])
      /\ \A n \in 1..N : keys[n] \in Key
  BY <1>1 DEF Groups, Stacks
<1>3. Fits(ops[1], used) /\ Given(ops[1]) = {frame} /\ Taken(ops[1]) = {}
  <2>1. Formed(NewObject(frame, NextOrderKey(objects)), used)
    BY NextKeyFits, NewFits
  <2> QED BY <1>2, <2>1, InsertFits
<1>4. ASSUME NEW n \in 1..N
      PROVE  Settles(ops[1 + n], {frame})
  <2>1. frame \in {frame} \cup {NoParent} /\ keys[n] \in Key
    BY <1>2
  <2>2. Settles(Reparent(members[n], frame, keys[n]), {frame})
    BY <2>1, ReparentSettles
  <2> QED BY <1>2, <2>2
<1>5. ASSUME NEW k \in 1..(1 + N)
      PROVE  /\ Fits(ops[k], used \cup GivenBy(ops, k - 1))
             /\ Taken(ops[k]) \subseteq used
  <2>1. CASE k = 1
    <3>1. GivenBy(ops, 0) = {} /\ k - 1 = 0
      BY <2>1 DEF GivenBy
    <3> QED BY <1>3, <2>1, <3>1
  <2>2. CASE k # 1
    <3>1. k - 1 \in 1..N /\ 1 \in 1..(k - 1) /\ 1 + (k - 1) = k
      BY <1>2, <2>2
    <3>2. frame \in GivenBy(ops, k - 1)
      BY <1>3, <3>1 DEF GivenBy
    <3>3. Settles(ops[k], {frame})
      BY <1>4, <3>1
    <3> QED BY <3>2, <3>3 DEF Settles
  <2> QED BY <2>1, <2>2
<1>6. 1 + N \in Nat
  BY <1>2
<1> QED BY <1>2, <1>5, <1>6 DEF FitsAll

(* Whatever the shell authors finds its operands. *)
LEMMA EditsFit ==
    ASSUME used \in SUBSET Id, Scene(objects, used), menu \subseteq Kinds,
           NEW ops \in Edits
    PROVE  FitsAll(ops, used)
<1>1. PICK kind \in menu : ops \in EditsOf(kind)
  BY DEF Edits
<1>2. kind \in Kinds
  OBVIOUS
<1>3. CASE kind \in {"split", "merge", "insert", "duplicate", "restack", "step"}
  <2>1. \/ ops \in SplitEdits \/ ops \in MergeEdits \/ ops \in InsertEdits
        \/ ops \in DuplicateEdits \/ ops \in RestackEdits \/ ops \in StepEdits
    BY <1>1, <1>3 DEF EditsOf
  <2> QED BY <2>1, SplitFits, MergeFits, InsertsFit, DuplicatesFit, RestacksFit, StepsFit
<1>4. CASE kind \in {"canonicalize", "delete", "bind", "reparent", "pop-out",
                     "group", "ungroup"}
  <2>1. \/ ops \in CanonicalizeEdits \cup DeleteEdits \cup BindEdits
        \/ ops \in ReparentEdits \cup PopOutEdits
        \/ ops \in GroupEdits \/ ops \in UngroupEdits
    BY <1>1, <1>4 DEF EditsOf
  <2> QED BY <2>1, PlainFits, MovesFit, GroupsFit, UngroupsFit
<1> QED BY <1>2, <1>3, <1>4 DEF Kinds

-----------------------------------------------------------------------------
(* The inductive invariant *)

(* Objects are well formed, their ids and their parents were given, and
   nobody is above itself.                                                 *)
SceneInv ==
    /\ used \in SUBSET Id
    /\ Scene(objects, used)
    /\ Rooted(objects)
    /\ menu \subseteq Kinds

(* What an edit that is not rejected leaves. *)
LEMMA AppliedIs ==
    ASSUME SceneInv, NEW e \in Applied
    PROVE  /\ e.ops \in Edits /\ FitsAll(e.ops, used)
           /\ e.r = ApplyBatch(objects, e.ops) /\ e.r.ok
           /\ Outcome(objects, e.ops, e.r.objs, used)
<1>1. PICK ops \in Edits : e = [ops |-> ops, r |-> ApplyBatch(objects, ops)]
  BY DEF Applied
<1>2. e.ops = ops /\ e.r = ApplyBatch(objects, ops) /\ e.r.ok
  BY <1>1 DEF Applied
<1>3. FitsAll(ops, used)
  BY EditsFit DEF SceneInv
<1>4. Outcome(objects, ops, ApplyBatch(objects, ops).objs, used)
  BY <1>2, <1>3, BatchKeeps DEF SceneInv
<1> QED BY <1>2, <1>3, <1>4

(* A loaded scene satisfies the invariant. *)
LEMMA SceneInit == Init => SceneInv
<1> SUFFICES ASSUME Init PROVE SceneInv
  OBVIOUS
<1>1. PICK start \in Starts : objects = start.objects /\ menu = start.menu
  BY DEF Init
<1> DEFINE ids == DOMAIN objects
<1>2. used = ids
  BY DEF Init
<1>3. /\ ids \subseteq Id /\ objects \in [ids -> Object(ids)]
      /\ \A p \in ids : ValidKey(objects[p].order)
      /\ Rooted(objects) /\ menu \subseteq Kinds
  BY <1>1, StartsAssumption
<1>4. ASSUME NEW p \in ids PROVE Formed(objects[p], ids)
  <2> DEFINE o == objects[p]
  <2>1. o \in Object(ids) /\ ValidKey(o.order)
    BY <1>3
  <2> HIDE DEF o, ids
  <2>2. o = Made(o.contours, o.space, o.anchors, o.parent, o.order)
    BY <2>1 DEF Object, Made
  <2>3. /\ o.contours \in Contours /\ o.space \in Spaces /\ o.anchors \in Seq(Anchor)
        /\ o.parent \in ids \cup {NoParent} /\ o.order \in Seq(Int)
    BY <2>1 DEF Object, Contours, Spaces, Anchor
  <2>4. Formed(o, ids)
    BY <2>1, <2>2, <2>3 DEF Formed, Key
  <2> QED BY <2>4 DEF o
<1>5. objects = [p \in ids |-> objects[p]]
  BY <1>3
<1>6. Scene(objects, used)
  BY <1>2, <1>4, <1>5 DEF Scene
<1> QED BY <1>2, <1>3, <1>6 DEF SceneInv

(* Every edit keeps it. *)
LEMMA SceneNext == SceneInv /\ [Next]_vars => SceneInv'
<1> SUFFICES ASSUME SceneInv, [Next]_vars PROVE SceneInv'
  OBVIOUS
<1>1. CASE Edit
  <2>1. PICK e \in Applied : objects' = e.r.objs /\ used' = used \cup DOMAIN e.r.objs
    BY <1>1 DEF Edit
  <2>2. menu' = menu
    BY <1>1 DEF Edit
  <2>3. Outcome(objects, e.ops, e.r.objs, used)
    BY AppliedIs
  <2>4. Outcome(objects, e.ops, objects', used)
    BY <2>1, <2>3
  <2>5. /\ Scene(objects', used \cup DOMAIN objects') /\ Rooted(objects')
        /\ used \cup DOMAIN objects' \subseteq Id
    BY <2>4 DEF Outcome
  <2>6. used' = used \cup DOMAIN objects'
    BY <2>1
  <2> QED BY <2>2, <2>5, <2>6 DEF SceneInv
<1>2. CASE UNCHANGED vars
  BY <1>2 DEF vars, SceneInv
<1> QED BY <1>1, <1>2 DEF Next

(* The scene of the kernel is well formed after every edit. *)
THEOREM SceneInductive == Spec => []SceneInv
BY SceneInit, SceneNext, PTL DEF Spec

(* The keys that are made for a scene (fractional.rs: next_order_key,
   back_order_key, generate_key_between) are valid and fit where they go.  *)
THEOREM KeysAlwaysFit == Spec => []KeysFit
<1>1. SceneInv => KeysFit
  BY SceneKeysFit DEF SceneInv
<1> QED BY <1>1, SceneInductive, PTL

(* No object is above itself (would_cycle in apply.rs). *)
THEOREM ParentsNeverLoop == Spec => []NoParentLoop
<1>1. SceneInv => NoParentLoop
  BY RootedChains DEF SceneInv
<1> QED BY <1>1, SceneInductive, PTL

-----------------------------------------------------------------------------
(* What the store persists *)

(* What the ops of a Batch give and write is among its target_ids. *)
LEMMA TargetsWritten ==
    ASSUME NEW ops, NEW n \in DOMAIN ops, NEW p, p # NoParent,
           p \in Given(ops[n]) \cup Written(ops[n])
    PROVE  p \in TargetIds(ops)
<1> DEFINE op == ops[n]
           t == CASE op.kind = "merge" -> Range(op.ids) \cup ({op.into} \ {NoParent})
                  [] op.kind = "split" -> {op.id} \cup Range(op.new_ids)
                  [] op.kind = "insert" -> {op.id, op.object.parent} \ {NoParent}
                  [] op.kind = "reparent" -> {op.id, op.parent} \ {NoParent}
                  [] OTHER -> {op.id}
<1>1. p \in t
  <2> HIDE DEF op
  <2>1. p \in Given(op) \cup Written(op)
    BY DEF op
  <2>2. CASE op.kind \in {"merge", "split"}
    BY <2>1, <2>2 DEF Given, Written
  <2>3. CASE op.kind \in {"insert", "reparent"}
    BY <2>1, <2>3 DEF Given, Written
  <2>4. CASE op.kind \notin {"merge", "split", "insert", "reparent"}
    BY <2>1, <2>4 DEF Given, Written
  <2> QED BY <2>2, <2>3, <2>4
<1> QED BY <1>1 DEF TargetIds

(* Objects that differ in their anchors are the same without them. *)
LEMMA SameButAnchors ==
    ASSUME NEW a, NEW b, NEW ids, NEW all, Formed(a, ids), Formed(b, all), ButAnchors(a, b)
    PROVE  [a EXCEPT !.anchors = <<>>] = [b EXCEPT !.anchors = <<>>]
<1>1. PICK v : b = Made(a.contours, a.space, v, a.parent, a.order)
  BY DEF ButAnchors
<1>2. /\ b.contours = a.contours /\ b.space = a.space
      /\ b.parent = a.parent /\ b.order = a.order
  BY <1>1, MadeIs
<1>3. /\ [a EXCEPT !.anchors = <<>>] = Made(a.contours, a.space, <<>>, a.parent, a.order)
      /\ [b EXCEPT !.anchors = <<>>] = Made(b.contours, b.space, <<>>, b.parent, b.order)
  BY FormedExcept
<1> QED BY <1>2, <1>3

(* What an edit changes is among its target_ids (ObjectOp::target_ids), the
   ids the store persists, save the anchors of peers.                      *)
THEOREM TargetsAlwaysCover == Spec => []TargetsCoverChanges
<1>1. ASSUME SceneInv PROVE TargetsCoverChanges
  <2> SUFFICES ASSUME NEW e \in Applied,
                      NEW p \in (DOMAIN objects \cup DOMAIN e.r.objs) \ TargetIds(e.ops)
               PROVE  /\ p \in DOMAIN objects \cap DOMAIN e.r.objs
                      /\ [objects[p] EXCEPT !.anchors = <<>>]
                           = [e.r.objs[p] EXCEPT !.anchors = <<>>]
    BY DEF TargetsCoverChanges
  <2> DEFINE ops == e.ops
             after == e.r.objs
  <2>1. FitsAll(ops, used) /\ Outcome(objects, ops, after, used)
    BY <1>1, AppliedIs
  <2> HIDE DEF ops, after
  <2>2. /\ DOMAIN ops = 1..Len(ops) /\ used \cup DOMAIN after \subseteq Id
        /\ Scene(after, used \cup DOMAIN after)
        /\ DOMAIN after \subseteq DOMAIN objects \cup GivenBy(ops, Len(ops))
        /\ (\A n \in 1..Len(ops) : p \notin Written(ops[n])) /\ p \in DOMAIN objects =>
              p \in DOMAIN after /\ ButAnchors(objects[p], after[p])
    BY <2>1 DEF FitsAll, Outcome
  <2>3. p # NoParent
    <3>1. p \in Id
      BY <1>1, <2>2 DEF SceneInv, Scene, after
    <3> QED BY <3>1 DEF NoParent, Id
  <2>4. \A n \in 1..Len(ops) : p \notin Given(ops[n]) /\ p \notin Written(ops[n])
    BY <2>2, <2>3, TargetsWritten DEF ops
  <2>5. p \in DOMAIN objects
    BY <2>2, <2>4 DEF GivenBy, after
  <2>6. p \in DOMAIN after /\ ButAnchors(objects[p], after[p])
    BY <2>2, <2>4, <2>5
  <2>7. Formed(objects[p], used) /\ Formed(after[p], used \cup DOMAIN after)
    BY <1>1, <2>2, <2>5, <2>6 DEF SceneInv, Scene
  <2>8. [objects[p] EXCEPT !.anchors = <<>>] = [after[p] EXCEPT !.anchors = <<>>]
    BY <2>6, <2>7, SameButAnchors
  <2> QED BY <2>5, <2>6, <2>8 DEF after
<1> QED BY <1>1, SceneInductive, PTL

-----------------------------------------------------------------------------
(* What a group does to the paint order *)

(* Keys that stack are in order. *)
LEMMA StacksInOrder ==
    ASSUME NEW N \in Nat, NEW keys, Stacks(keys, N)
    PROVE  \A i, j \in 1..N : i < j => Before(keys[i], keys[j])
<1> SUFFICES ASSUME NEW i \in 1..N,
                    NEW c \in 1..N, i < c, ~Before(keys[i], keys[c])
             PROVE  FALSE
  OBVIOUS
<1> DEFINE Bad == {j \in 1..N : i < j /\ ~Before(keys[i], keys[j])}
<1>1. PICK j \in Bad : \A k \in Bad : j <= k
  <2>1. Bad \in SUBSET Nat /\ Bad # {}
    OBVIOUS
  <2> HIDE DEF Bad
  <2> QED BY <2>1, LeastExists
<1>2. j \in 2..N /\ j - 1 \in 1..(N - 1) /\ j - 1 \in 1..N /\ ~(j <= j - 1) /\ j - 1 + 1 = j
  BY <1>1
<1>3. /\ \A n \in 1..N : keys[n] \in Seq(Int)
      /\ Before(keys[j - 1], keys[j])
  <2>1. Before(keys[j - 1], keys[j - 1 + 1])
    BY <1>2 DEF Stacks
  <2>2. \A n \in 1..N : keys[n] \in Seq(Int)
    BY KeyIsSequence DEF Stacks
  <2> QED BY <1>2, <2>1, <2>2
<1>4. CASE i = j - 1
  BY <1>1, <1>3, <1>4
<1>5. CASE i # j - 1
  <2>1. i < j - 1
    BY <1>1, <1>2, <1>5
  <2>2. j - 1 \notin Bad
    <3> HIDE DEF Bad
    <3> QED BY <1>1, <1>2
  <2>3. Before(keys[i], keys[j - 1])
    BY <1>2, <2>1, <2>2
  <2>4. Before(keys[i], keys[j])
    BY <1>2, <1>3, <2>3, BeforeIsTransitive
  <2> QED BY <1>1, <2>4
<1> QED BY <1>4, <1>5

Reordered(objs, op, after) ==
    /\ op.id \in DOMAIN objs /\ DOMAIN after = DOMAIN objs
    /\ \A p \in DOMAIN objs :
          after[p].order = IF p = op.id THEN op.order ELSE objs[p].order

(* Reparent writes the key of one object. *)
LEMMA ReparentOrders ==
    ASSUME NEW ids \in SUBSET Id, NEW objs, Scene(objs, ids), NEW op,
           op.kind = "reparent", Fits(op, ids), ApplyInner(objs, op).ok
    PROVE  Reordered(objs, op, ApplyInner(objs, op).objs)
<1> DEFINE after == ApplyInner(objs, op).objs
           o == objs[op.id]
           b == Made(o.contours, o.space, o.anchors, op.parent, op.order)
<1>1. op.id \in DOMAIN objs /\ after = [objs EXCEPT ![op.id] = b]
  BY ReparentEffect
<1>2. b.order = op.order
  BY MadeIs
<1> HIDE DEF after, b
<1>3. DOMAIN after = DOMAIN objs /\ \A p \in DOMAIN objs :
         after[p].order = IF p = op.id THEN op.order ELSE objs[p].order
  BY <1>1, <1>2
<1> QED BY <1>1, <1>3 DEF after, Reordered

(* After a group its members have its keys. *)
LEMMA GroupWritesKeys ==
    ASSUME SceneInv, NEW ops, FitsAll(ops, used), ApplyBatch(objects, ops).ok,
           NEW S \in SUBSET DOMAIN objects, NEW frame, NEW members, NEW keys, NEW N,
           Groups(ops, objects, S, frame, members, keys, N)
    PROVE  LET after == ApplyBatch(objects, ops).objs IN
           \A m \in 1..N : members[m] \in DOMAIN after /\ after[members[m]].order = keys[m]
<1> DEFINE after == ApplyBatch(objects, ops).objs
<1>1. PICK s : /\ Runs(s, objects, ops, Len(ops), after)
               /\ \A n \in 0..Len(ops) : Reached(objects, ops, n, s[n], used)
  BY BatchTrace DEF SceneInv
<1>2. /\ N \in Nat /\ Len(ops) = 1 + N /\ InOrder(objects, S, N, members)
      /\ \A n \in 1..N : ops[1 + n] = Reparent(members[n], frame, keys[n])
  BY <1>1 DEF Groups
<1> HIDE DEF after
<1>3. \A i, j \in 1..N : members[i] = members[j] => i = j
  BY <1>2 DEF InOrder
<1> DEFINE Right(n) == \A m \in 1..n : /\ members[m] \in DOMAIN s[1 + n]
                                       /\ s[1 + n][members[m]].order = keys[m]
           Bad == {n \in 0..N : ~Right(n)}
<1>4. ASSUME NEW n \in 1..N, Right(n - 1) PROVE Right(n)
  <2> DEFINE op == ops[1 + n]
             was == s[n]
             is == s[1 + n]
             all == used \cup GivenBy(ops, n)
  <2>1. /\ 1 + n \in 1..Len(ops) /\ 1 + n - 1 = n /\ n \in 0..Len(ops)
        /\ 1 + (n - 1) = n
    BY <1>2
  <2>2. /\ op = Reparent(members[n], frame, keys[n])
        /\ op.kind = "reparent" /\ op.id = members[n] /\ op.order = keys[n]
    BY <1>2 DEF Reparent
  <2>3. ApplyInner(was, op).ok /\ is = ApplyInner(was, op).objs
    BY <1>1, <2>1 DEF Runs
  <2>4. Fits(op, all)
    BY <2>1 DEF FitsAll
  <2>5. all \in SUBSET Id /\ Scene(was, all)
    BY <1>1, <2>1 DEF Reached
  <2>6. \A m \in 1..(n - 1) : members[m] \in DOMAIN was /\ was[members[m]].order = keys[m]
    BY <1>4, <2>1
  <2> HIDE DEF op, was, is, all
  <2>7. /\ members[n] \in DOMAIN was /\ DOMAIN is = DOMAIN was
        /\ \A p \in DOMAIN was :
              is[p].order = IF p = members[n] THEN keys[n] ELSE was[p].order
    <3>1. Reordered(was, op, is)
      <4>1. op.kind = "reparent" /\ ApplyInner(was, op).ok
        BY <2>2, <2>3
      <4>2. Reordered(was, op, ApplyInner(was, op).objs)
        BY <2>4, <2>5, <4>1, ReparentOrders
      <4> QED BY <2>3, <4>2
    <3> QED BY <2>2, <3>1 DEF Reordered
  <2>8. ASSUME NEW m \in 1..n
        PROVE  members[m] \in DOMAIN is /\ is[members[m]].order = keys[m]
    <3>1. CASE m = n
      BY <2>7, <3>1
    <3>2. CASE m # n
      <4>1. m \in 1..(n - 1) /\ m \in 1..N /\ members[m] # members[n]
        BY <1>2, <1>3, <3>2
      <4> QED BY <2>6, <2>7, <4>1
    <3> QED BY <3>1, <3>2
  <2> QED BY <2>8 DEF is
<1>5. Bad = {}
  <2> SUFFICES ASSUME Bad # {} PROVE FALSE
    OBVIOUS
  <2>1. Bad \in SUBSET Nat /\ Right(0)
    OBVIOUS
  <2> HIDE DEF Right
  <2>2. PICK n \in Bad : \A m \in Bad : n <= m
    <3> HIDE DEF Bad
    <3> QED BY <2>1, LeastExists
  <2>3. n \in 1..N /\ n - 1 \in 0..N /\ ~(n <= n - 1)
    BY <1>2, <2>1, <2>2
  <2>4. n - 1 \notin Bad
    <3> HIDE DEF Bad
    <3> QED BY <2>2, <2>3
  <2> QED BY <1>4, <2>2, <2>3, <2>4
<1>6. Right(N)
  <2>1. N \in 0..N
    BY <1>2
  <2> HIDE DEF Right
  <2> QED BY <1>5, <2>1
<1>7. s[1 + N] = after
  BY <1>1, <1>2 DEF Runs
<1>8. \A m \in 1..N : members[m] \in DOMAIN after /\ after[members[m]].order = keys[m]
  BY <1>6, <1>7
<1> QED BY <1>8 DEF after

(* A group stacks its members as they were stacked (group_ops). *)
LEMMA GroupStacks ==
    ASSUME SceneInv, NEW e \in Applied, e.ops \in GroupEdits
    PROVE  LET members == {e.ops[n].id : n \in 2..Len(e.ops)} IN
           Painted(e.r.objs, members) = Painted(objects, members)
<1> DEFINE ops == e.ops
           after == e.r.objs
           all == used \cup DOMAIN after
<1>1. /\ FitsAll(ops, used) /\ e.r = ApplyBatch(objects, ops) /\ e.r.ok
      /\ Outcome(objects, ops, after, used)
  BY AppliedIs
<1>1a. PICK S \in SUBSET DOMAIN objects, frame \in Id \ used :
         \E members, keys, N : Groups(ops, objects, S, frame, members, keys, N)
  BY GroupEditIs DEF SceneInv
<1>2. PICK members, keys, N : Groups(ops, objects, S, frame, members, keys, N)
  BY <1>1a
<1>3. \A m \in 1..N : members[m] \in DOMAIN after /\ after[members[m]].order = keys[m]
  BY <1>1, <1>2, GroupWritesKeys
<1>4. all \in SUBSET Id /\ Scene(after, all)
  BY <1>1 DEF Outcome
<1> HIDE DEF ops, after, all
<1>5. /\ N \in Nat /\ InOrder(objects, S, N, members) /\ Stacks(keys, N)
      /\ Len(ops) = 1 + N
      /\ \A n \in 1..N : ops[1 + n] = Reparent(members[n], frame, keys[n])
  BY <1>2 DEF Groups
<1>6. /\ members \in [1..N -> S] /\ \A p \in S : \E n \in 1..N : members[n] = p
      /\ \A n \in 1..N : Rank(objects, S, members[n]) = n - 1
  BY <1>5 DEF InOrder
<1>7. {ops[n].id : n \in 2..Len(ops)} = S
  <2>1. \A n \in 1..N : ops[1 + n].id = members[n]
    <3> TAKE n \in 1..N
    <3>1. ops[1 + n] = Reparent(members[n], frame, keys[n])
      BY <1>5
    <3>2. Reparent(members[n], frame, keys[n]).id = members[n]
      BY DEF Reparent
    <3> QED BY <3>1, <3>2
  <2>2. \A n \in 1..N : 1 + n \in 2..Len(ops)
    BY <1>5
  <2>3. \A n \in 2..Len(ops) : n - 1 \in 1..N /\ 1 + (n - 1) = n
    BY <1>5
  <2>4. ASSUME NEW n \in 2..Len(ops) PROVE ops[n].id \in S
    BY <1>6, <2>1, <2>3
  <2>5. ASSUME NEW p \in S PROVE \E n \in 2..Len(ops) : ops[n].id = p
    <3>1. PICK n \in 1..N : members[n] = p
      BY <1>6
    <3> QED BY <2>1, <2>2, <3>1
  <2> QED BY <2>4, <2>5
<1>8. S \subseteq DOMAIN objects /\ S \subseteq DOMAIN after
  BY <1>3, <1>6
<1>9. ASSUME NEW i \in 1..N, NEW j \in 1..N
      PROVE  Under(objects, members[i], members[j]) <=> i < j
  <2>1. Ranked(objects, S, Cardinality(S))
    BY <1>8, PaintRanks DEF SceneInv
  <2>2. members[i] \in S /\ members[j] \in S
    BY <1>6
  <2>3. Under(objects, members[i], members[j]) <=>
          Rank(objects, S, members[i]) < Rank(objects, S, members[j])
    BY <2>1, <2>2 DEF Ranked
  <2> QED BY <1>6, <2>3
<1>10. ASSUME NEW i \in 1..N, NEW j \in 1..N
       PROVE  Under(after, members[i], members[j]) <=> i < j
  <2>1. keys[i] \in Seq(Int) /\ keys[j] \in Seq(Int)
    BY <1>5, KeyIsSequence DEF Stacks
  <2>2. /\ i < j => Before(keys[i], keys[j])
        /\ j < i => Before(keys[j], keys[i])
    BY <1>5, StacksInOrder
  <2>3. Under(after, members[i], members[j]) <=>
          \/ Before(keys[i], keys[j])
          \/ keys[i] = keys[j] /\ members[i] < members[j]
    BY <1>3 DEF Under
  <2>4. CASE i < j
    BY <2>2, <2>3, <2>4
  <2>5. CASE i = j
    <3>1. members[i] \in Nat
      <4>1. members[i] \in used
        BY <1>6, <1>8 DEF SceneInv, Scene
      <4> QED BY <4>1, IdsAreFinite DEF SceneInv
    <3>2. ~Before(keys[i], keys[j])
      BY <2>1, <2>5, BeforeIsStrict
    <3> QED BY <2>3, <2>5, <3>1, <3>2
  <2>6. CASE j < i
    <3>1. keys[i] # keys[j] /\ ~Before(keys[i], keys[j])
      BY <2>1, <2>2, <2>6, BeforeIsStrict
    <3> QED BY <2>3, <2>6, <3>1
  <2> QED BY <2>4, <2>5, <2>6
<1>11. \A p, q \in S : Under(objects, p, q) <=> Under(after, p, q)
  <2> TAKE p, q \in S
  <2>1. PICK i \in 1..N : members[i] = p
    BY <1>6
  <2>2. PICK j \in 1..N : members[j] = q
    BY <1>6
  <2> QED BY <1>9, <1>10, <2>1, <2>2
<1>12. Painted(after, S) = Painted(objects, S)
  BY <1>4, <1>8, <1>11, PaintedAlike DEF SceneInv
<1> QED BY <1>7, <1>12 DEF ops, after

(* Grouping does not change how the members are stacked. *)
THEOREM GroupsKeepStacking == Spec => []GroupKeepsStacking
<1>1. SceneInv => GroupKeepsStacking
  BY GroupStacks DEF GroupKeepsStacking
<1> QED BY <1>1, SceneInductive, PTL
-----------------------------------------------------------------------------
(* Where the anchors of peers go *)

(* A node of a contour is what an anchor with its index names. *)
LEMMA NamedIs ==
    ASSUME NEW c \in Contours, NEW objs, NEW a, objs[a.target].contours = c,
           NEW n \in 1..Len(c), NEW local \in Nat, local < c[n].nodes,
           a.node = Offset(c, n) + local
    PROVE  Named(objs, a) = {<<c[n].name, local>>}
<1>1. Named(objs, a) = {<<c[m].name, a.node - Offset(c, m)>> : m \in OwnersOf(c, a.node)}
  BY DEF Named
<1>2. OwnersOf(c, a.node) = {n}
  BY OwnerIs
<1>3. a.node - Offset(c, n) = local
  <2>1. Len(c) \in Nat /\ \A m \in 1..(Len(c) + 1) : Offset(c, m) \in Nat
    BY OffsetSteps
  <2>2. Offset(c, n) \in Nat
    BY <2>1
  <2> QED BY <2>2
<1> QED BY <1>1, <1>2, <1>3

(* What an anchor names is a node of one contour. *)
LEMMA NamedOnce ==
    ASSUME NEW c \in Contours, NEW objs, NEW a \in Anchor, objs[a.target].contours = c,
           NEW n \in OwnersOf(c, a.node)
    PROVE  LET local == a.node - Offset(c, n) IN
           /\ n \in 1..Len(c) /\ local \in Nat /\ local < c[n].nodes
           /\ Named(objs, a) = {<<c[n].name, local>>}
           /\ a.node = Offset(c, n) + local
<1> DEFINE local == a.node - Offset(c, n)
<1>1. a.node \in Nat
  BY DEF Anchor
<1>2. n \in 1..Len(c) /\ local \in Nat /\ local < c[n].nodes
  BY <1>1, OwnedIs
<1>3. a.node = Offset(c, n) + local
  <2>1. Len(c) \in Nat /\ \A m \in 1..(Len(c) + 1) : Offset(c, m) \in Nat
    BY OffsetSteps
  <2>2. Offset(c, n) \in Nat
    BY <1>2, <2>1
  <2> QED BY <1>1, <2>2
<1>4. Named(objs, a) = {<<c[n].name, local>>}
  <2> HIDE DEF local
  <2> QED BY <1>2, <1>3, NamedIs
<1> QED BY <1>2, <1>3, <1>4

(* An anchor whose target keeps its contours names what it named. *)
LEMMA NamedAlike ==
    ASSUME NEW objs, NEW after, NEW a,
           after[a.target].contours = objs[a.target].contours
    PROVE  Named(after, a) = Named(objs, a)
BY DEF Named

(* An anchor stays: it names, in what is made, what it named. *)
NamesOn(objs, after, a, b) ==
    b.target \in DOMAIN after /\ Named(after, b) = Named(objs, a)

(* Split (FollowSplit) *)
LEMMA SplitStays ==
    ASSUME NEW ids \in SUBSET Id, NEW objs, Scene(objs, ids), NEW op,
           op.kind = "split", Fits(op, ids), ApplyInner(objs, op).ok,
           \A i, j \in 1..Len(op.new_ids) : op.new_ids[i] = op.new_ids[j] => i = j,
           NEW a \in Anchor, a.target \in DOMAIN objs, Named(objs, a) # {}
    PROVE  NamesOn(objs, ApplyInner(objs, op).objs, a,
                   FollowSplit(objs[op.id].contours, op, a))
<1> DEFINE contours == objs[op.id].contours
           peel == Peel(contours, op)
           kept == Kept(contours, op)
           rest == Remains(objs, op)
           after == ApplyInner(objs, op).objs
           b == FollowSplit(contours, op, a)
<1>1. /\ op.id \in DOMAIN objs /\ Formed(objs[op.id], ids) /\ contours \in Contours
      /\ op.peel \in Seq(Nat) /\ Range(op.peel) \subseteq DOMAIN contours
      /\ op.new_ids \in Seq(Id) /\ Len(op.new_ids) = Len(peel)
  BY SplitTakes
<1>2. SplitInto(objs, op, after)
  BY SplitGives
<1> HIDE DEF after
<1>3. CASE a.target # op.id
  <2>1. b = a
    BY <1>3, FollowSplitIs
  <2>2. /\ a.target \in DOMAIN after
        /\ after[a.target]
             = [objs[a.target] EXCEPT !.anchors = SplitAnchors(objs, op, a.target)]
    BY <1>2, <1>3 DEF SplitInto
  <2>3. after[a.target].contours = objs[a.target].contours
    <3>1. Formed(objs[a.target], ids)
      BY DEF Scene
    <3> QED BY <2>2, <3>1, FormedExcept, MadeIs
  <2>4. Named(after, a) = Named(objs, a)
    BY <2>3, NamedAlike
  <2> HIDE DEF b
  <2>5. NamesOn(objs, after, a, b)
    BY <2>1, <2>2, <2>4 DEF NamesOn
  <2> QED BY <2>5 DEF after, b
<1>4. CASE a.target = op.id
  <2>1. OwnersOf(contours, a.node) # {}
    BY <1>4 DEF Named
  <2>2. PICK n \in OwnersOf(contours, a.node) : b = Landed(contours, op, a, n)
    <3> HIDE DEF contours
    <3> QED BY <1>4, <2>1, FollowSplitIs
  <2> DEFINE local == a.node - Offset(contours, n)
             name == contours[n].name
  <2>3. /\ n \in 1..Len(contours) /\ local \in Nat /\ local < contours[n].nodes
        /\ Named(objs, a) = {<<name, local>>}
    BY <1>1, <1>4, NamedOnce
  <2>4. /\ b \in Anchor
        /\ \/ \E k \in 1..Len(op.new_ids) :
                 peel[k] = n /\ b.target = op.new_ids[k] /\ b.node = local
           \/ \E k \in 1..Len(kept) :
                 /\ kept[k] = n /\ b.target = a.target
                 /\ b.node = local + Offset(Pick(contours, kept), k)
    BY <1>1, <2>2, LandedIs
  <2> HIDE DEF local, b
  <2>5. ASSUME NEW k \in 1..Len(op.new_ids), peel[k] = n,
               b.target = op.new_ids[k], b.node = local
        PROVE  NamesOn(objs, after, a, b)
    <3> DEFINE p == op.new_ids[k]
               place == SelectInSeq(op.new_ids, LAMBDA i : i = p)
               one == <<contours[n]>>
    <3>1. p \in Range(op.new_ids)
      <4>1. DOMAIN op.new_ids = 1..Len(op.new_ids)
        BY <1>1, LenProperties
      <4> QED BY <4>1 DEF Range
    <3>2. place = k
      <4>1. place \in 1..Len(op.new_ids) /\ op.new_ids[place] = p
        BY <1>1, <3>1, PlaceOf
      <4> HIDE DEF place
      <4> QED BY <4>1
    <3>3. p \in DOMAIN after /\ after[p] = PieceAt(objs, op, p)
      BY <1>2, <3>1 DEF SplitInto
    <3>4. after[p] = Piece(objs[op.id], <<contours[peel[place]]>>,
                           KeysAbove(objs[op.id].order, Len(peel))[place])
      BY <3>3 DEF PieceAt
    <3> HIDE DEF place, p
    <3>5. after[p].contours = one
      <4> DEFINE key == KeysAbove(objs[op.id].order, Len(peel))[k]
      <4>1. after[p] = Piece(objs[op.id], one, key)
        BY <2>5, <3>2, <3>4
      <4> HIDE DEF one, key
      <4> QED BY <1>1, <4>1, PieceIs, MadeIs
    <3>6. /\ one \in Contours /\ Len(one) = 1 /\ one[1] = contours[n]
          /\ Offset(one, 1) = 0
      <4>1. contours[n] \in [name: Id \X Nat, nodes: Nat]
        BY <1>1, <2>3, OffsetSteps
      <4>2. one \in Contours
        BY <4>1 DEF Contours
      <4> QED BY <4>2, OffsetSteps
    <3> HIDE DEF one
    <3>7. b.target = p /\ b.node = Offset(one, 1) + local /\ 1 \in 1..Len(one)
      BY <2>3, <2>5, <3>6 DEF p
    <3>8. Named(after, b) = {<<one[1].name, local>>}
      <4>1. /\ after[b.target].contours = one /\ local \in Nat
            /\ local < one[1].nodes
        BY <2>3, <3>5, <3>6, <3>7
      <4> QED BY <3>6, <3>7, <4>1, NamedIs
    <3> QED BY <2>3, <3>3, <3>6, <3>7, <3>8 DEF NamesOn
  <2>6. ASSUME NEW k \in 1..Len(kept), kept[k] = n, b.target = a.target,
               b.node = local + Offset(Pick(contours, kept), k)
        PROVE  NamesOn(objs, after, a, b)
    <3>1. /\ rest = Pick(contours, kept) /\ rest \in Contours /\ Len(rest) = Len(kept)
          /\ rest[k] = contours[n]
      BY <1>1, <2>6, KeptFits DEF Remains
    <3> HIDE DEF rest
    <3>2. rest # <<>>
      BY <3>1
    <3>3. op.id \in DOMAIN after /\ after[op.id] = [objs[op.id] EXCEPT !.contours = rest]
      BY <1>1, <1>2, <3>2 DEF SplitInto, rest
    <3>4. after[op.id].contours = rest
      BY <1>1, <3>3, FormedExcept, MadeIs
    <3>5. Offset(rest, k) \in Nat /\ k \in 1..Len(rest)
      <4>1. Len(rest) \in Nat /\ \A m \in 1..(Len(rest) + 1) : Offset(rest, m) \in Nat
        BY <3>1, OffsetSteps
      <4> QED BY <3>1, <4>1
    <3>6. b.target = op.id /\ b.node = Offset(rest, k) + local
      BY <1>4, <2>3, <2>6, <3>1, <3>5
    <3>7. Named(after, b) = {<<rest[k].name, local>>}
      <4>1. after[b.target].contours = rest /\ local \in Nat /\ local < rest[k].nodes
        BY <2>3, <2>4, <3>1, <3>4, <3>6
      <4> HIDE DEF local, b
      <4> QED BY <3>1, <3>5, <3>6, <4>1, NamedIs
    <3> QED BY <2>3, <3>1, <3>3, <3>6, <3>7 DEF NamesOn
  <2>7. NamesOn(objs, after, a, b)
    BY <2>4, <2>5, <2>6
  <2> QED BY <2>7 DEF after, b
<1> QED BY <1>3, <1>4

(* A node of a contour that is found behind other contours is as many nodes
   further as they have.                                                   *)
LEMMA NodesBehind ==
    ASSUME NEW all \in Contours, NEW before \in Contours, NEW this \in Contours,
           Found(all, before, this), NEW n \in 1..Len(this)
    PROVE  LET i == Len(before) IN
           /\ i + n \in 1..Len(all) /\ all[i + n] = this[n]
           /\ Offset(all, i + n) = NodeCount(before) + Offset(this, n)
<1> DEFINE i == Len(before)
<1>1. /\ i \in Nat /\ Len(this) \in Nat /\ Len(all) \in Nat
      /\ Offset(all, 1) = 0 /\ Offset(before, i + 1) \in Nat
  <2>1. \A m \in 1..(i + 1) : Offset(before, m) \in Nat
    BY OffsetSteps
  <2>2. i \in Nat /\ Len(this) \in Nat /\ Len(all) \in Nat /\ Offset(all, 1) = 0
    BY OffsetSteps
  <2> QED BY <2>1, <2>2
<1>2. /\ i + Len(this) <= Len(all)
      /\ \A m \in 1..i : all[m] = before[m]
      /\ \A m \in 1..Len(this) : all[i + m] = this[m]
  BY DEF Found
<1>3. Offset(all, i + 1) = Offset(before, i + 1)
  <2>1. Stands(before, i, all, 0) /\ 0 \in Nat /\ i \in 0..i
    BY <1>1, <1>2 DEF Stands
  <2>2. Offset(all, 0 + 1 + i) = Offset(all, 0 + 1) + Offset(before, 1 + i)
    <3> HIDE DEF i
    <3>1. Along(before, i, all, 0)
      BY <1>1, <2>1, OffsetAlong
    <3> QED BY <3>1 DEF Along
  <2>3. 0 + 1 + i = i + 1 /\ 0 + 1 = 1 /\ 1 + i = i + 1
    BY <1>1
  <2>4. Offset(all, i + 1) = 0 + Offset(before, i + 1)
    BY <1>1, <2>2, <2>3
  <2> QED BY <1>1, <2>4
<1>4. Offset(all, i + n) = Offset(all, i + 1) + Offset(this, n)
  <2> DEFINE N == Len(this)
             m == n - 1
  <2>1. Stands(this, N, all, i) /\ N \in Nat
    BY <1>1, <1>2 DEF Stands
  <2>2. m \in 0..N /\ i \in Nat
    BY <1>1
  <2>3. Offset(all, i + 1 + m) = Offset(all, i + 1) + Offset(this, 1 + m)
    <3> HIDE DEF i, N, m
    <3>1. Along(this, m, all, i)
      BY <2>1, <2>2, OffsetAlong
    <3> QED BY <3>1 DEF Along
  <2>4. i + 1 + m = i + n /\ 1 + m = n
    BY <1>1
  <2> QED BY <2>3, <2>4
<1>5. i + n \in 1..Len(all) /\ all[i + n] = this[n]
  BY <1>1, <1>2
<1>6. NodeCount(before) = Offset(before, i + 1)
  BY DEF NodeCount
<1> QED BY <1>3, <1>4, <1>5, <1>6

(* Merge (FollowMerge) *)
LEMMA MergeStays ==
    ASSUME NEW ids \in SUBSET Id, NEW objs, Scene(objs, ids), NEW op,
           op.kind = "merge", Fits(op, ids), ApplyInner(objs, op).ok,
           NEW a \in Anchor, a.target \in DOMAIN objs, Named(objs, a) # {}
    PROVE  NamesOn(objs, ApplyInner(objs, op).objs, a, FollowMerge(objs, op, a))
<1> DEFINE s == Survivor(op)
           N == Len(op.ids)
           merged == Merged(op)
           joined == MergedContours(objs, op, N)
           after == ApplyInner(objs, op).objs
           b == FollowMerge(objs, op, a)
           with(p) == [objs[p] EXCEPT !.anchors = MergeAnchors(objs, op, p)]
<1>1. /\ op.ids \in Seq(DOMAIN objs) /\ Range(op.ids) \subseteq DOMAIN objs
      /\ s \in Range(op.ids) /\ s \in Id
  BY MergeTakes
<1>2. /\ DOMAIN after = (DOMAIN objs \ Range(op.ids)) \cup {s}
      /\ \A p \in DOMAIN after :
            after[p] = IF p = s THEN [with(p) EXCEPT !.contours = joined] ELSE with(p)
  <2>1. MergeInto(objs, op, after)
    BY MergeGives
  <2> HIDE DEF after
  <2> QED BY <2>1 DEF MergeInto
<1> HIDE DEF after
<1>3. /\ N \in Nat /\ merged \in [1..N -> DOMAIN objs]
      /\ Range(op.ids) \subseteq Range(merged)
      /\ \A k \in 0..N : MergedContours(objs, op, k) \in Contours
      /\ \A k \in 1..N : Found(joined, MergedContours(objs, op, k - 1),
                               objs[merged[k]].contours)
  BY <1>1, MergedHas
<1>4. \A p \in DOMAIN objs : Formed(objs[p], ids) /\ objs[p].contours \in Contours
  BY DEF Scene, Formed
<1>5. CASE a.target \notin Range(merged)
  <2>1. a.target \notin Range(op.ids)
    BY <1>3, <1>5
  <2>2. b = a
    BY <1>1, <1>5, <2>1, FollowMergeIs
  <2>3. a.target \in DOMAIN after /\ after[a.target] = with(a.target)
    BY <1>1, <1>2, <2>1
  <2>4. after[a.target].contours = objs[a.target].contours
    BY <1>4, <2>3, FormedExcept, MadeIs
  <2>5. Named(after, a) = Named(objs, a)
    BY <2>4, NamedAlike
  <2> HIDE DEF b
  <2>6. NamesOn(objs, after, a, b)
    BY <2>2, <2>3, <2>5 DEF NamesOn
  <2> QED BY <2>6 DEF after, b
<1>6. CASE a.target \in Range(merged)
  <2>1. PICK k \in 1..N :
           /\ merged[k] = a.target /\ b.target = s
           /\ b.node = a.node + NodeCount(MergedContours(objs, op, k - 1))
    BY <1>1, <1>6, FollowMergeIs
  <2> DEFINE before == MergedContours(objs, op, k - 1)
             this == objs[a.target].contours
  <2>2. /\ joined \in Contours /\ before \in Contours /\ this \in Contours
        /\ Found(joined, before, this)
    <3>1. N \in 0..N /\ k - 1 \in 0..N
      BY <1>3
    <3> QED BY <1>3, <1>4, <2>1, <3>1
  <2>3. s \in DOMAIN after /\ after[s].contours = joined
    <3> DEFINE o == with(s)
               m == MergeAnchors(objs, op, s)
    <3>1. s \in DOMAIN after /\ after[s] = [o EXCEPT !.contours = joined]
      BY <1>2
    <3>2. s \in DOMAIN objs /\ Formed(objs[s], ids)
      BY <1>1, <1>4
    <3> HIDE DEF joined
    <3>3. o = Made(objs[s].contours, objs[s].space, m, objs[s].parent, objs[s].order)
      <4> HIDE DEF m
      <4> QED BY <3>2, FormedExcept DEF m
    <3>4. [o EXCEPT !.contours = joined]
            = Made(joined, objs[s].space, m, objs[s].parent, objs[s].order)
      <4> HIDE DEF o
      <4> QED BY <3>3 DEF Made
    <3> HIDE DEF o, m
    <3> QED BY <3>1, <3>4, MadeIs
  <2> HIDE DEF before, this, joined, b
  <2>4. OwnersOf(this, a.node) # {}
    BY DEF Named, this
  <2>5. PICK n \in OwnersOf(this, a.node) : TRUE
    BY <2>4
  <2> DEFINE local == a.node - Offset(this, n)
             i == Len(before)
  <2>6. /\ n \in 1..Len(this) /\ local \in Nat /\ local < this[n].nodes
        /\ Named(objs, a) = {<<this[n].name, local>>}
        /\ a.node = Offset(this, n) + local
    BY <2>2, NamedOnce DEF this
  <2>7. /\ i + n \in 1..Len(joined) /\ joined[i + n] = this[n]
        /\ Offset(joined, i + n) = NodeCount(before) + Offset(this, n)
    BY <2>2, <2>6, NodesBehind
  <2>8. NodeCount(before) \in Nat /\ Offset(this, n) \in Nat
    <3>1. /\ i \in Nat /\ \A m \in 1..(i + 1) : Offset(before, m) \in Nat
          /\ Len(this) \in Nat /\ \A m \in 1..(Len(this) + 1) : Offset(this, m) \in Nat
      BY <2>2, OffsetSteps
    <3> QED BY <2>6, <3>1 DEF NodeCount
  <2> HIDE DEF local, i
  <2>9. b.node = Offset(joined, i + n) + local
    <3>1. b.node = a.node + NodeCount(before)
      BY <2>1 DEF before
    <3> QED BY <2>6, <2>7, <2>8, <3>1
  <2>10. Named(after, b) = {<<joined[i + n].name, local>>}
    <3>1. after[b.target].contours = joined /\ local < joined[i + n].nodes
      BY <2>1, <2>3, <2>6, <2>7
    <3> QED BY <2>2, <2>6, <2>7, <2>9, <3>1, NamedIs
  <2>11. NamesOn(objs, after, a, b)
    BY <2>1, <2>3, <2>6, <2>7, <2>10 DEF NamesOn
  <2> QED BY <2>11 DEF after, b
<1> QED BY <1>5, <1>6

(* Canonicalize *)
LEMMA CanonicalizeStays ==
    ASSUME NEW ids \in SUBSET Id, NEW objs, Scene(objs, ids), NEW op,
           op.kind = "canonicalize", ApplyInner(objs, op).ok,
           NEW p \in DOMAIN objs, p # op.id, NEW n \in DOMAIN objs[p].anchors,
           objs[p].anchors[n].target = op.id,
           objs[p].anchors[n].at = objs[op.id].space
    PROVE  LET after == ApplyInner(objs, op).objs IN
           after[p].anchors[n].at = after[op.id].space
<1> DEFINE after == ApplyInner(objs, op).objs
           a == objs[p].anchors[n]
<1>1. /\ op.id \in DOMAIN objs
      /\ objs[op.id].space = "upright" => after = objs
      /\ objs[op.id].space # "upright" => UprightIn(objs, op, after)
  BY CanonicalizeGives DEF Scene
<1> HIDE DEF after
<1>2. CASE objs[op.id].space = "upright"
  BY <1>1, <1>2 DEF after
<1>3. CASE objs[op.id].space # "upright"
  <2>1. /\ after[op.id] = [objs[op.id] EXCEPT !.space = "upright"]
        /\ after[p] = [objs[p] EXCEPT !.anchors = RehomedAnchors(objs, op, p)]
    BY <1>1, <1>3 DEF UprightIn
  <2>2. Formed(objs[op.id], ids) /\ Formed(objs[p], ids)
    BY <1>1 DEF Scene
  <2>3. after[op.id].space = "upright" /\ after[p].anchors = RehomedAnchors(objs, op, p)
    BY <2>1, <2>2, FormedExcept, MadeIs
  <2>4. a \in Anchor
    <3>1. objs[p].anchors \in Seq(Anchor)
      BY <2>2 DEF Formed
    <3>2. n \in 1..Len(objs[p].anchors)
      BY <3>1, LenProperties
    <3> QED BY <3>1, <3>2, ElementOfSeq
  <2>5. a.target = op.id /\ a.at = "tilted"
    <3>1. objs[op.id].space \in Spaces
      BY <2>2 DEF Formed
    <3> QED BY <1>3, <3>1 DEF Spaces
  <2>6. after[p].anchors[n] = Rehomed(op, a)
    BY <2>3 DEF RehomedAnchors
  <2> HIDE DEF a
  <2>7. Rehomed(op, a) = [a EXCEPT !.at = "upright"]
    BY <2>5 DEF Rehomed
  <2>8. [a EXCEPT !.at = "upright"].at = "upright"
    BY <2>4 DEF Anchor
  <2>9. after[p].anchors[n].at = after[op.id].space
    BY <2>3, <2>6, <2>7, <2>8
  <2> QED BY <2>9 DEF after
<1> QED BY <1>2, <1>3

(* An edit that splits, merges or makes upright does nothing else, and the
   ids it gives are different.                                             *)
Rewrites == {"split", "merge", "canonicalize"}

Alone(ops) ==
    \E op : /\ ops = <<op>>
            /\ op.kind = "split" =>
                 \A i, j \in 1..Len(op.new_ids) : op.new_ids[i] = op.new_ids[j] => i = j

(* The first op of an Ungroup moves a child, or takes the frame away. *)
LEMMA UngroupBegins ==
    ASSUME used \in SUBSET Id, Scene(objects, used), NEW ops \in UngroupEdits
    PROVE  ops[1].kind \notin Rewrites
<1>1. PICK frame \in DOMAIN objects : ops = UngroupOps(objects, frame)
  BY DEF UngroupEdits
<1> DEFINE S == Children(objects, frame)
           children == Painted(objects, S)
           N == Cardinality(S)
           move(n) == Reparent(children[n], objects[frame].parent,
                               objects[children[n]].order)
           moves == [n \in DOMAIN children |-> move(n)]
           away == <<Delete(frame)>>
<1>2. ops = moves \o away
  BY <1>1 DEF UngroupOps
<1>3. N \in Nat /\ DOMAIN children = 1..N
  <2>1. S \subseteq DOMAIN objects
    BY DEF Children
  <2>2. InOrder(objects, S, N, children)
    <3> HIDE DEF S
    <3> QED BY <2>1, PaintedInOrder
  <2> HIDE DEF S, N, children
  <2> QED BY <2>2 DEF InOrder
<1> HIDE DEF S, children, N
<1>4. /\ \A n : move(n).kind = "reparent"
      /\ Delete(frame).kind = "delete"
  BY DEF Reparent, Delete
<1> HIDE DEF move
<1>5. /\ moves = [n \in 1..N |-> moves[n]] /\ \A n \in 1..N : moves[n] = move(n)
      /\ away = [n \in 1..1 |-> away[n]] /\ away[1] = Delete(frame)
  BY <1>3
<1> HIDE DEF moves, away
<1>6. \A k \in 1..(N + 1) : ops[k] = IF k <= N THEN moves[k] ELSE away[k - N]
  BY <1>2, <1>3, <1>5, ListsJoined
<1>7. ops[1] = IF N = 0 THEN away[1] ELSE moves[1]
  <2>1. 1 \in 1..(N + 1) /\ (1 <= N <=> N # 0) /\ (N = 0 => 1 - N = 1)
    BY <1>3
  <2> QED BY <1>6, <2>1
<1>8. ops[1].kind \in {"delete", "reparent"}
  <2>1. N # 0 => 1 \in 1..N
    BY <1>3
  <2> QED BY <1>4, <1>5, <1>7, <2>1
<1> QED BY <1>8 DEF Rewrites

(* Nor does that of any other edit. *)
LEMMA OthersBegin ==
    ASSUME used \in SUBSET Id, Scene(objects, used),
           NEW ops, \/ ops \in DeleteEdits \cup BindEdits \cup ReparentEdits
                    \/ ops \in PopOutEdits \cup InsertEdits \cup DuplicateEdits
                    \/ ops \in RestackEdits \cup StepEdits
                    \/ ops \in GroupEdits \cup UngroupEdits
    PROVE  ops[1].kind \notin Rewrites
<1>1. /\ \A id : Delete(id).kind = "delete"
      /\ \A id, anchors : SetAnchor(id, anchors).kind = "set-anchor"
      /\ \A id, p, order : Reparent(id, p, order).kind = "reparent"
      /\ \A id, object : Insert(id, object).kind = "insert"
      /\ \A id, order : Reorder(id, order).kind = "reorder"
  BY DEF Delete, SetAnchor, Reparent, Insert, Reorder
<1>2. SUFFICES ASSUME ops[1].kind \notin {"delete", "set-anchor", "reparent", "insert",
                                          "reorder"},
                      ops \notin UngroupEdits
               PROVE  FALSE
  BY UngroupBegins DEF Rewrites
<1>3. CASE ops \in DeleteEdits
  BY <1>1, <1>2, <1>3 DEF DeleteEdits
<1>4. CASE ops \in BindEdits
  <2>1. PICK id, anchors : ops = <<SetAnchor(id, anchors)>>
    BY <1>4 DEF BindEdits
  <2> QED BY <1>1, <1>2, <2>1
<1>5. CASE ops \in ReparentEdits \cup PopOutEdits
  <2>1. PICK id, p, order : ops = <<Reparent(id, p, order)>>
    BY <1>5 DEF ReparentEdits, PopOutEdits, PopOutOps
  <2> QED BY <1>1, <1>2, <2>1
<1>6. CASE ops \in InsertEdits
  <2>1. PICK id, object : ops = <<Insert(id, object)>>
    BY <1>6 DEF InsertEdits
  <2> QED BY <1>1, <1>2, <2>1
<1>7. ASSUME NEW S, NEW q \in Orders(S, 1..2) PROVE 1 \in DOMAIN q
  <2>1. PICK n \in (1..2) \cap 0..Cardinality(S) : q \in Injection(1..n, S)
    BY DEF Orders
  <2>2. DOMAIN q = 1..n
    BY <2>1 DEF Injection
  <2> QED BY <2>2
<1>8. CASE ops \in DuplicateEdits
  <2>1. PICK ids \in Orders(DOMAIN objects, 1..2) :
           \E q \in Fresh(Len(ids)) : ops = DuplicateOps(objects, ids, q)
    BY <1>8 DEF DuplicateEdits
  <2>2. PICK q : ops = DuplicateOps(objects, ids, q)
    BY <2>1
  <2>3. \E object : ops[1] = Insert(q[1], object)
    BY <1>7, <2>2 DEF DuplicateOps
  <2> QED BY <1>1, <1>2, <2>3
<1>9. CASE ops \in RestackEdits
  <2>1. PICK ids \in Orders(DOMAIN objects, 1..2) :
           \E key : ops = [n \in DOMAIN ids |-> Reorder(ids[n], key)]
    BY <1>9 DEF RestackEdits
  <2>2. PICK key : ops = [n \in DOMAIN ids |-> Reorder(ids[n], key)]
    BY <2>1
  <2>3. ops[1] = Reorder(ids[1], key)
    BY <1>7, <2>2
  <2> QED BY <1>1, <1>2, <2>3
<1>10. CASE ops \in StepEdits
  <2>1. PICK id, other : ops = StepOps(objects, id, other)
    BY <1>10 DEF StepEdits
  <2>2. ops[1] = Reorder(id, objects[other].order)
    BY <2>1 DEF StepOps
  <2> QED BY <1>1, <1>2, <2>2
<1>11. CASE ops \in GroupEdits
  <2>1. PICK S \in SUBSET DOMAIN objects, frame \in Id \ used :
           \E members, keys, N : Groups(ops, objects, S, frame, members, keys, N)
    BY <1>11, GroupEditIs
  <2>2. ops[1] = Insert(frame, NewObject(frame, NextOrderKey(objects)))
    BY <2>1 DEF Groups
  <2> QED BY <1>1, <1>2, <2>2
<1> QED BY <1>2, <1>3, <1>4, <1>5, <1>6, <1>8, <1>9, <1>10, <1>11

(* The ops of an edit that begins with a rewrite. *)
LEMMA RewritesAlone ==
    ASSUME SceneInv, NEW ops \in Edits, ops[1].kind \in Rewrites
    PROVE  Alone(ops)
<1>1. PICK kind \in menu : ops \in EditsOf(kind)
  BY DEF Edits
<1>2. used \in SUBSET Id /\ Scene(objects, used) /\ kind \in Kinds
  BY DEF SceneInv
<1>3. \/ ops \in SplitEdits \/ ops \in MergeEdits \/ ops \in CanonicalizeEdits
      \/ ops \in DeleteEdits \cup BindEdits \cup ReparentEdits
      \/ ops \in PopOutEdits \cup InsertEdits \cup DuplicateEdits
      \/ ops \in RestackEdits \cup StepEdits
      \/ ops \in GroupEdits \cup UngroupEdits
  BY <1>1, <1>2 DEF Kinds, EditsOf
<1>4. ops \in SplitEdits \cup MergeEdits \cup CanonicalizeEdits
  BY <1>2, <1>3, OthersBegin
<1>5. CASE ops \in CanonicalizeEdits
  <2>1. PICK id : ops = <<Canonicalize(id)>>
    BY <1>5 DEF CanonicalizeEdits
  <2>2. Canonicalize(id).kind # "split"
    BY DEF Canonicalize
  <2> QED BY <2>1, <2>2 DEF Alone
<1>6. CASE ops \in MergeEdits
  <2>1. PICK ids, into : ops = <<Merge(ids, into)>>
    BY <1>6 DEF MergeEdits
  <2>2. Merge(ids, into).kind # "split"
    BY DEF Merge
  <2> QED BY <2>1, <2>2 DEF Alone
<1>7. CASE ops \in SplitEdits
  <2> DEFINE count(id, peel) == IF peel = <<>> THEN Len(objects[id].contours) ELSE Len(peel)
  <2>1. PICK id \in Here, peel \in Orders(1..3, 0..2) : \E q \in Fresh(count(id, peel)) :
           ops = <<Split(id, q, peel)>>
    BY <1>7 DEF SplitEdits
  <2>2. PICK q \in Fresh(count(id, peel)) : ops = <<Split(id, q, peel)>>
    BY <2>1
  <2>3. count(id, peel) \in Nat
    <3>1. objects[id].contours \in Contours
      BY <1>2 DEF Here, Scene, Formed
    <3>2. Len(objects[id].contours) \in Nat
      BY <3>1, LenProperties DEF Contours
    <3>3. PICK n \in Nat : peel \in [1..n -> 1..3]
      <4>1. 0..2 \subseteq Nat
        OBVIOUS
      <4> QED BY <4>1, OrdersIs
    <3>4. Len(peel) \in Nat
      BY <3>3, SequenceOf
    <3> QED BY <3>2, <3>4
  <2> HIDE DEF count
  <2>4. /\ q \in [1..count(id, peel) -> Id \ used]
        /\ \A i, j \in 1..count(id, peel) : q[i] = q[j] => i = j
    BY <2>3, FreshIs
  <2>5. Len(q) = count(id, peel)
    BY <2>3, <2>4, SequenceOf
  <2>6. Split(id, q, peel).new_ids = q
    BY DEF Split
  <2> QED BY <2>2, <2>4, <2>5, <2>6 DEF Alone
<1> QED BY <1>4, <1>5, <1>6, <1>7

(* A Batch of one op. *)
LEMMA BatchOfOne ==
    ASSUME NEW objs, NEW op, ApplyBatch(objs, <<op>>).ok
    PROVE  /\ ApplyInner(objs, op).ok
           /\ ApplyBatch(objs, <<op>>).objs = ApplyInner(objs, op).objs
<1> DEFINE ops == <<op>>
           after == ApplyBatch(objs, ops).objs
<1>1. Len(ops) = 1 /\ ops[1] = op
  OBVIOUS
<1>2. ApplyBatch(objs, ops).ok /\ Len(ops) \in Nat
  OBVIOUS
<1> HIDE DEF ops
<1>3. PICK s : Runs(s, objs, ops, Len(ops), after)
  BY <1>2, BatchRuns
<1>4. /\ s[0] = objs /\ s[1] = after
      /\ \A n \in 1..1 : /\ ApplyInner(s[n - 1], ops[n]).ok
                         /\ s[n] = ApplyInner(s[n - 1], ops[n]).objs
  BY <1>1, <1>3 DEF Runs
<1>5. ApplyInner(s[1 - 1], ops[1]).ok /\ s[1] = ApplyInner(s[1 - 1], ops[1]).objs
  BY <1>4
<1>6. 1 - 1 = 0
  OBVIOUS
<1>7. ApplyInner(objs, op).ok /\ after = ApplyInner(objs, op).objs
  BY <1>1, <1>4, <1>5, <1>6
<1> QED BY <1>7 DEF ops
(* The anchors of the peers follow a Split. *)
SplitMoves(objs, op, after) ==
    \A p \in DOMAIN objs \cap DOMAIN after : p # op.id =>
        \A n \in DOMAIN objs[p].anchors :
            after[p].anchors[n]
              = FollowSplit(objs[op.id].contours, op, objs[p].anchors[n])

(* They do, *)
LEMMA PeersFollowSplit ==
    ASSUME NEW ids \in SUBSET Id, NEW objs, Scene(objs, ids), NEW op, Fits(op, ids),
           op.kind = "split", ApplyInner(objs, op).ok
    PROVE  SplitMoves(objs, op, ApplyInner(objs, op).objs)
<1> DEFINE after == ApplyInner(objs, op).objs
<1>1. SplitInto(objs, op, after)
  BY SplitGives
<1> HIDE DEF after
<1>2. ASSUME NEW p \in DOMAIN objs, p # op.id, NEW n \in DOMAIN objs[p].anchors
      PROVE  after[p].anchors[n]
               = FollowSplit(objs[op.id].contours, op, objs[p].anchors[n])
  <2>1. after[p] = [objs[p] EXCEPT !.anchors = SplitAnchors(objs, op, p)]
    BY <1>1, <1>2 DEF SplitInto
  <2>2. Formed(objs[p], ids)
    BY DEF Scene
  <2>3. after[p].anchors = SplitAnchors(objs, op, p)
    BY <2>1, <2>2, FormedExcept, MadeIs
  <2> QED BY <2>3 DEF SplitAnchors
<1>3. SplitMoves(objs, op, after)
  BY <1>2 DEF SplitMoves
<1> QED BY <1>3 DEF after

(* All anchors follow a Merge. *)
MergeMoves(objs, op, after) ==
    \A p \in DOMAIN objs \cap DOMAIN after : \A n \in DOMAIN objs[p].anchors :
        after[p].anchors[n] = FollowMerge(objs, op, objs[p].anchors[n])

(* and so do these. *)
LEMMA PeersFollowMerge ==
    ASSUME NEW ids \in SUBSET Id, NEW objs, Scene(objs, ids), NEW op, Fits(op, ids),
           op.kind = "merge", ApplyInner(objs, op).ok
    PROVE  MergeMoves(objs, op, ApplyInner(objs, op).objs)
<1> DEFINE after == ApplyInner(objs, op).objs
           joined == MergedContours(objs, op, Len(op.ids))
<1>1. MergeInto(objs, op, after)
  BY MergeGives
<1> HIDE DEF after
<1>2. ASSUME NEW p \in DOMAIN objs \cap DOMAIN after, NEW n \in DOMAIN objs[p].anchors
      PROVE  after[p].anchors[n] = FollowMerge(objs, op, objs[p].anchors[n])
  <2> DEFINE m == MergeAnchors(objs, op, p)
             o == [objs[p] EXCEPT !.anchors = m]
  <2>1. after[p] = IF p = Survivor(op) THEN [o EXCEPT !.contours = joined] ELSE o
    BY <1>1 DEF MergeInto
  <2> HIDE DEF m, joined
  <2>2. Formed(objs[p], ids)
    BY DEF Scene
  <2>3. o = Made(objs[p].contours, objs[p].space, m, objs[p].parent, objs[p].order)
    BY <2>2, FormedExcept
  <2> HIDE DEF o
  <2>4. [o EXCEPT !.contours = joined]
          = Made(joined, objs[p].space, m, objs[p].parent, objs[p].order)
    BY <2>3 DEF Made
  <2>5. after[p].anchors = m
    BY <2>1, <2>3, <2>4, MadeIs
  <2> QED BY <2>5 DEF m, MergeAnchors
<1>3. MergeMoves(objs, op, after)
  BY <1>2 DEF MergeMoves
<1> QED BY <1>3 DEF after

(* An edit that rewrites a target leaves the anchors of its peers in place. *)
LEMMA EditStays ==
    ASSUME SceneInv, NEW e \in Applied, e.ops[1].kind \in Rewrites,
           NEW p \in Peers(e.ops[1], e.r.objs), NEW n \in DOMAIN objects[p].anchors
    PROVE  Stays(e.ops[1], e.r.objs, objects[p].anchors[n], e.r.objs[p].anchors[n])
<1>1. used \in SUBSET Id /\ Scene(objects, used)
  BY DEF SceneInv
<1>2. /\ e.ops \in Edits /\ FitsAll(e.ops, used)
      /\ e.r = ApplyBatch(objects, e.ops) /\ e.r.ok
  BY AppliedIs
<1>3. Alone(e.ops)
  BY <1>2, RewritesAlone
<1>4. PICK op : /\ e.ops = <<op>>
                /\ op.kind = "split" =>
                     \A i, j \in 1..Len(op.new_ids) :
                        op.new_ids[i] = op.new_ids[j] => i = j
  BY <1>3 DEF Alone
<1>5. e.ops[1] = op /\ Len(e.ops) = 1
  BY <1>4
<1> DEFINE after == ApplyInner(objects, op).objs
           a == objects[p].anchors[n]
           b == after[p].anchors[n]
<1>6. ApplyBatch(objects, <<op>>).ok /\ e.r.objs = ApplyBatch(objects, <<op>>).objs
  BY <1>2, <1>4
<1>7. ApplyInner(objects, op).ok /\ e.r.objs = after
  BY <1>6, BatchOfOne
<1>8. Fits(op, used)
  <2>1. Fits(e.ops[1], used \cup GivenBy(e.ops, 1 - 1))
    <3>1. 1 \in 1..Len(e.ops)
      BY <1>5
    <3> QED BY <1>2, <3>1 DEF FitsAll
  <2>2. GivenBy(e.ops, 1 - 1) = {}
    BY DEF GivenBy
  <2>3. used \cup {} = used
    OBVIOUS
  <2> QED BY <1>5, <2>1, <2>2, <2>3
<1>9. p \in DOMAIN objects \cap DOMAIN after /\ (op.kind # "merge" => p # op.id)
  BY <1>5, <1>7 DEF Peers
<1>10. a \in Anchor
  <2>1. objects[p].anchors \in Seq(Anchor)
    BY <1>1, <1>9 DEF Scene, Formed
  <2>2. n \in 1..Len(objects[p].anchors)
    BY <2>1, LenProperties
  <2> QED BY <2>1, <2>2, ElementOfSeq
<1>11. CASE op.kind = "canonicalize"
  <2>1. a.target = op.id /\ a.at = objects[op.id].space => b.at = after[op.id].space
    BY <1>1, <1>7, <1>9, <1>11, CanonicalizeStays
  <2> HIDE DEF after, a, b
  <2>2. Stays(op, after, a, b)
    BY <1>11, <2>1 DEF Stays
  <2> QED BY <1>5, <1>7, <2>2 DEF after, a, b
<1>12. CASE op.kind \in {"split", "merge"}
  <2>1. ASSUME a.target \in DOMAIN objects, Named(objects, a) # {}
        PROVE  NamesOn(objects, after, a, b)
    <3>1. CASE op.kind = "split"
      <4>1. SplitMoves(objects, op, after)
        BY <1>1, <1>7, <1>8, <3>1, PeersFollowSplit
      <4>2. NamesOn(objects, after, a, FollowSplit(objects[op.id].contours, op, a))
        <5> HIDE DEF a, b
        <5> QED BY <1>1, <1>4, <1>7, <1>8, <1>10, <2>1, <3>1, SplitStays
      <4> HIDE DEF after
      <4>3. b = FollowSplit(objects[op.id].contours, op, a)
        BY <1>9, <3>1, <4>1 DEF SplitMoves
      <4> HIDE DEF a, b
      <4> QED BY <4>2, <4>3
    <3>2. CASE op.kind = "merge"
      <4>1. MergeMoves(objects, op, after)
        BY <1>1, <1>7, <1>8, <3>2, PeersFollowMerge
      <4>2. NamesOn(objects, after, a, FollowMerge(objects, op, a))
        <5> HIDE DEF a, b
        <5> QED BY <1>1, <1>7, <1>8, <1>10, <2>1, <3>2, MergeStays
      <4> HIDE DEF after
      <4>3. b = FollowMerge(objects, op, a)
        BY <1>9, <4>1 DEF MergeMoves
      <4> HIDE DEF a, b
      <4> QED BY <4>2, <4>3
    <3> QED BY <1>12, <3>1, <3>2
  <2> HIDE DEF after, a, b
  <2>2. Stays(op, after, a, b)
    BY <1>12, <2>1 DEF Stays, NamesOn
  <2> QED BY <1>5, <1>7, <2>2 DEF after, a, b
<1>13. op.kind \in {"split", "merge", "canonicalize"}
  BY <1>5 DEF Rewrites
<1> QED BY <1>11, <1>12, <1>13

(* The anchor of a peer stays where it is when its target is rewritten: Split
   and Merge keep it on the contour and the node that its index names
   (subpath_offsets, apply.rs:363), and Canonicalize re-expresses an `at' that
   was in the target's space.                                              *)
THEOREM AnchorsAlwaysStay == Spec => []AnchorsStay
<1>1. SceneInv => AnchorsStay
  BY EditStays DEF AnchorsStay, Rewrites
<1> QED BY <1>1, SceneInductive, PTL

=============================================================================
