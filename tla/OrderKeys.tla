----------------------------- MODULE OrderKeys ------------------------------
(***************************************************************************)
(* Fractional order keys (scene-core/src/fractional.rs) as functions.  A   *)
(* key is a sequence of numbers: a head, the digits of an integer whose    *)
(* number the head gives, and the digits of a fraction.  Heads 0..Widths-1 *)
(* stand for 'A'..'Z', Widths..2*Widths-1 for 'a'..'z'; a digit stands for *)
(* itself, so that the byte order of the strings is the lexical order of   *)
(* the sequences.  The code has 62 digits and 26 widths.                   *)
(***************************************************************************)
EXTENDS Integers, SequencesExt

CONSTANTS Digits,   \* number of digits, at least 2
          Widths    \* number of integer widths of a sign

ASSUME KeyAssumption ==
    Digits \in Nat /\ Digits >= 2 /\ Widths \in Nat /\ Widths >= 1

Open == <<>>        \* None, as a bound

Failed == <<-1>>    \* an Err of generate_key_between

(* cmp_keys: the plain order of strings. *)
Before(a, b) ==
    \/ IsStrictPrefix(a, b)
    \/ \E n \in DOMAIN a \cap DOMAIN b :
          a[n] < b[n] /\ \A m \in 1..(n - 1) : a[m] = b[m]

(* get_integer_length, get_integer_part *)
IntegerLength(head) ==
    IF head >= Widths THEN head - Widths + 2 ELSE Widths - head + 1

IntegerPart(k) == SubSeq(k, 1, IntegerLength(k[1]))
Fraction(k) == SubSeq(k, IntegerLength(k[1]) + 1, Len(k))

SmallestInteger == [n \in 1..(Widths + 1) |-> 0]

(* validate_order_key *)
ValidKey(k) ==
    /\ k # <<>> /\ k # SmallestInteger
    /\ k[1] \in 0..(2 * Widths - 1)
    /\ Len(k) >= IntegerLength(k[1])
    /\ \A n \in 2..Len(k) : k[n] \in 0..(Digits - 1)
    /\ Fraction(k) # <<>> => Last(k) # 0

-----------------------------------------------------------------------------

(* midpoint with an open upper end: the digits up to the first that leaves
   room above it, and the digit halfway to the top.                        *)
MidpointAbove(a) ==
    LET digit(n) == IF n \in DOMAIN a THEN a[n] ELSE 0
        n == CHOOSE m \in 1..(Len(a) + 1) :
               /\ Digits - digit(m) > 1
               /\ \A l \in 1..(m - 1) : Digits - digit(l) <= 1
    IN  SubSeq(a, 1, n - 1) \o <<(digit(n) + Digits + 1) \div 2>>

(* midpoint of the fractions a and b, a before b: past the common prefix
   (a is padded with zeros) halfway, or the first digit of b when b goes
   on, or a's digit and what is above the rest of a.                       *)
Midpoint(a, b) ==
    LET digit(n) == IF n \in DOMAIN a THEN a[n] ELSE 0
        n == CHOOSE m \in DOMAIN b :
               /\ digit(m) # b[m]
               /\ \A l \in 1..(m - 1) : digit(l) = b[l]
        prefix == SubSeq(b, 1, n - 1)
    IN  IF b[n] - digit(n) > 1
          THEN Append(prefix, (digit(n) + b[n] + 1) \div 2)
        ELSE IF Len(b) > n THEN Append(prefix, b[n])
        ELSE Append(prefix, digit(n)) \o MidpointAbove(SubSeq(a, n + 1, Len(a)))

(* increment_integer: carry through the top digits, then the next width. *)
M_IncrementInteger(x) ==
    LET top == {n \in 2..Len(x) : \A m \in n..Len(x) : x[m] = Digits - 1}
        n == Len(x) - Cardinality(top)
    IN  IF n > 1
          THEN [m \in DOMAIN x |->
                  IF m = n THEN x[m] + 1 ELSE IF m > n THEN 0 ELSE x[m]]
        ELSE IF x[1] = 2 * Widths - 1 THEN Failed
        ELSE <<x[1] + 1>> \o [m \in 1..(Len(x) - 1) |-> 0]

IncrementInteger(x) ==
    LET top == {n \in 2..Len(x) : \A m \in n..Len(x) : x[m] = Digits - 1}
        n == Len(x) - Cardinality(top)
    IN  IF n > 1
          THEN [m \in DOMAIN x |->
                  IF m = n THEN x[m] + 1 ELSE IF m > n THEN 0 ELSE x[m]]
        ELSE IF x[1] = 2 * Widths - 1 THEN Failed
        ELSE <<x[1] + 1>> \o [m \in 1..(IntegerLength(x[1] + 1) - 1) |-> 0]

(* decrement_integer: borrow through the zeros, then the previous width. *)
DecrementInteger(x) ==
    LET zeros == {n \in 2..Len(x) : \A m \in n..Len(x) : x[m] = 0}
        n == Len(x) - Cardinality(zeros)
    IN  IF n > 1
          THEN [m \in DOMAIN x |->
                  IF m = n THEN x[m] - 1
                  ELSE IF m > n THEN Digits - 1 ELSE x[m]]
        ELSE IF x[1] = 0 THEN Failed
        ELSE <<x[1] - 1>>
             \o [m \in 1..(IntegerLength(x[1] - 1) - 1) |-> Digits - 1]

FirstKey == <<Widths, 0>>

KeyBelow(b) ==
    LET ib == IntegerPart(b) IN
    IF ib = SmallestInteger THEN ib \o Midpoint(<<>>, Fraction(b))
    ELSE IF Before(ib, b) THEN ib
    ELSE DecrementInteger(ib)

KeyAbove(a) ==
    LET next == IncrementInteger(IntegerPart(a)) IN
    IF next = Failed THEN IntegerPart(a) \o MidpointAbove(Fraction(a)) ELSE next

KeyInside(a, b) ==
    LET ia == IntegerPart(a)
        next == IncrementInteger(ia)
    IN  IF ia = IntegerPart(b) THEN ia \o Midpoint(Fraction(a), Fraction(b))
        ELSE IF next = Failed THEN Failed
        ELSE IF Before(next, b) THEN next
        ELSE ia \o MidpointAbove(Fraction(a))

(* generate_key_between *)
KeyBetween(a, b) ==
    IF \/ a # Open /\ ~ValidKey(a)
       \/ b # Open /\ ~ValidKey(b)
       \/ a # Open /\ b # Open /\ ~Before(a, b) THEN Failed
    ELSE IF a = Open /\ b = Open THEN FirstKey
    ELSE IF a = Open THEN KeyBelow(b)
    ELSE IF b = Open THEN KeyAbove(a)
    ELSE KeyInside(a, b)

(* n keys above a, each above the one before; generate_n_keys_between with
   no upper bound, and the order keys of the pieces of a Split.            *)
KeysAbove(a, n) ==
    LET key[m \in 0..n] == IF m = 0 THEN a ELSE KeyBetween(key[m - 1], Open)
    IN  [m \in 1..n |-> key[m]]

=============================================================================
