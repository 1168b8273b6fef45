-------------------------- MODULE ObjectOpsProofs ---------------------------
(***************************************************************************)
(* What an object operation leaves alone, for any scene and any op: the    *)
(* objects apply_object_op changes are the target_ids, anchors aside, and  *)
(* an op with nothing to undo changes none.  The server persists by the    *)
(* first and skips persisting by the second (object_store.rs).  A field of *)
(* an object changes only by an op that writes it or inserts the object,   *)
(* which is what a client's engine goes by (sync_engine.rs).               *)
(* A comment comes to an object only by an op that brings it, and goes     *)
(* only by a Delete of the object or a SetComments.                        *)
(*                                                                         *)
(* The fold over a Batch is a recursion over the subsets of its positions; *)
(* ApplySteps turns it into one over the positions.                        *)
(***************************************************************************)
EXTENDS ObjectOps, TLAPS, FiniteSetTheorems, SequenceTheorems,
        WellFoundedInduction

(* A set of natural numbers that is not empty has a least one. *)
LEMMA LeastExists ==
    ASSUME NEW T \in SUBSET Nat, T # {}
    PROVE  \E x \in T : \A y \in T : x <= y
<1>1. \E x \in T : \A y \in T : ~(<<y, x>> \in OpToRel(<, Nat))
  BY NatLessThanWellFounded, WFMin
<1>2. PICK x \in T : \A y \in T : ~(<<y, x>> \in OpToRel(<, Nat))
  BY <1>1
<1>3. \A y \in T : ~(y < x)
  BY <1>2, Zenon DEF OpToRel
<1> QED BY <1>3

(* Min of a set of numbers is its least. *)
LEMMA MinOf ==
    ASSUME NEW T \in SUBSET Nat, T # {}
    PROVE  Min(T) \in T /\ \A y \in T : Min(T) <= y
<1>1. \E x \in T : \A y \in T : x <= y
  BY LeastExists
<1> QED BY <1>1 DEF Min

(* Max of a bounded set of numbers is its greatest. *)
LEMMA MaxOf ==
    ASSUME NEW T \in SUBSET Nat, T # {}, NEW b \in Nat, \A y \in T : y <= b
    PROVE  Max(T) \in T /\ \A y \in T : y <= Max(T)
<1> DEFINE U == {m \in Nat : \A y \in T : y <= m}
<1>1. U \in SUBSET Nat /\ b \in U
  OBVIOUS
<1>2. PICK m \in U : \A x \in U : m <= x
  BY <1>1, LeastExists
<1>3. m \in Nat /\ \A y \in T : y \in Nat /\ y <= m
  BY <1>2
<1>4. m \in T
  <2> SUFFICES ASSUME m \notin T PROVE FALSE
    OBVIOUS
  <2>1. PICK t \in T : TRUE
    OBVIOUS
  <2>2. m - 1 \in Nat /\ \A y \in T : y <= m - 1
    BY <1>3, <2>1
  <2>3. m - 1 \in U
    BY <2>2
  <2> HIDE DEF U
  <2> QED BY <1>2, <1>3, <2>3
<1>5. \E x \in T : \A y \in T : x >= y
  BY <1>3, <1>4
<1>6. Max(T) \in T /\ \A y \in T : Max(T) >= y
  BY <1>5 DEF Max
<1> QED BY <1>6

(* The values of a finite sequence are finitely many. *)
LEMMA RangeFinite ==
    ASSUME NEW S, NEW q \in Seq(S)
    PROVE  IsFiniteSet(Range(q))
<1>1. IsFiniteSet(1..Len(q)) /\ DOMAIN q = 1..Len(q)
  BY FS_Interval
<1>2. q \in Surjection(1..Len(q), Range(q))
  BY <1>1 DEF Surjection, Range
<1> QED BY <1>1, <1>2, FS_Surjection

(* A list is one of what it holds. *)
LEMMA IsListOfRange ==
    ASSUME NEW U, NEW q \in Seq(U)
    PROVE  q \in Seq(Range(q))
<1>1. \E R : R = Range(q) /\ q \in Seq(R)
  <2>1. PICK R : R = Range(q)
    OBVIOUS
  <2>2. /\ Len(q) \in Nat /\ q = [i \in 1..Len(q) |-> q[i]]
        /\ \A i \in 1..Len(q) : q[i] \in R
    BY <2>1 DEF Range
  <2>3. [i \in 1..Len(q) |-> q[i]] \in Seq(R)
    BY <2>2
  <2> QED BY <2>1, <2>2, <2>3
<1> QED BY <1>1

(* What two lists hold is what they hold end to end. *)
LEMMA RangeConcat ==
    ASSUME NEW U, NEW s \in Seq(U), NEW t \in Seq(U)
    PROVE  /\ s \o t \in Seq(U)
           /\ Range(s) \subseteq Range(s \o t) /\ Range(t) \subseteq Range(s \o t)
<1>1. /\ Len(s) \in Nat /\ Len(t) \in Nat /\ Len(s \o t) = Len(s) + Len(t)
      /\ DOMAIN s = 1..Len(s) /\ DOMAIN t = 1..Len(t)
      /\ DOMAIN (s \o t) = 1..Len(s) + Len(t)
  OBVIOUS
<1>2. ASSUME NEW i \in DOMAIN s PROVE s[i] \in Range(s \o t)
  <2>1. i \in DOMAIN (s \o t) /\ (s \o t)[i] = s[i]
    BY <1>1
  <2> QED BY <2>1 DEF Range
<1>3. ASSUME NEW i \in DOMAIN t PROVE t[i] \in Range(s \o t)
  <2>1. Len(s) + i \in DOMAIN (s \o t) /\ (s \o t)[Len(s) + i] = t[i]
    BY <1>1
  <2> QED BY <2>1 DEF Range
<1>4. Range(s) \subseteq Range(s \o t) /\ Range(t) \subseteq Range(s \o t)
  <2> DEFINE R == Range(s \o t)
  <2> HIDE DEF R
  <2>1. /\ \A i \in DOMAIN s : s[i] \in R
        /\ \A i \in DOMAIN t : t[i] \in R
    BY <1>2, <1>3 DEF R
  <2>2. Range(s) \subseteq R /\ Range(t) \subseteq R
    BY <2>1 DEF Range
  <2> QED BY <2>2 DEF R
<1> QED BY <1>4

(* The lists that FlattenSeq puts end to end make a list that holds what each
   of them holds.                                                          *)
LEMMA FlattenIsSeq ==
    ASSUME NEW U, NEW q \in Seq(Seq(U)), q # <<>>
    PROVE  /\ FlattenSeq(q) \in Seq(U)
           /\ \A n \in DOMAIN q : Range(q[n]) \subseteq Range(FlattenSeq(q))
<1> DEFINE N == Len(q)
<1> DEFINE Good(m) == {g \in [1..m -> Seq(U)] :
              \A i \in 1..m : g[i] = IF i = 1 THEN q[i] ELSE g[i - 1] \o q[i]}
<1> DEFINE Bad == {m \in Nat : m <= N /\ Good(m) = {}}
<1>1. N \in Nat /\ N >= 1 /\ \A i \in 1..N : q[i] \in Seq(U)
  OBVIOUS
<1>2. Bad = {}
  <2> SUFFICES ASSUME Bad # {} PROVE FALSE
    OBVIOUS
  <2>1. PICK m \in Bad : \A x \in Bad : m <= x
    BY LeastExists
  <2>2. m # 0
    <3>1. [i \in 1..0 |-> <<>>] \in Good(0)
      OBVIOUS
    <3> QED BY <2>1, <3>1
  <2>3. m - 1 \in Nat /\ m - 1 <= N /\ m - 1 \notin Bad /\ m \in 1..N
    <3>1. m \in Nat /\ m <= N /\ m # 0
      BY <2>1, <2>2
    <3>2. m - 1 \notin Bad
      <4> HIDE DEF Bad
      <4> QED BY <2>1, <3>1
    <3> HIDE DEF Bad
    <3> QED BY <1>1, <3>1, <3>2
  <2>4. PICK g \in [1..m - 1 -> Seq(U)] :
           \A i \in 1..m - 1 : g[i] = IF i = 1 THEN q[i] ELSE g[i - 1] \o q[i]
    BY <2>3
  <2> DEFINE v == IF m = 1 THEN q[m] ELSE g[m - 1] \o q[m]
  <2>5. v \in Seq(U)
    BY <1>1, <2>3, <2>4
  <2> HIDE DEF v
  <2> DEFINE h == [i \in 1..m |-> IF i = m THEN v ELSE g[i]]
  <2>6. h \in [1..m -> Seq(U)]
    BY <2>3, <2>4, <2>5
  <2>7. ASSUME NEW i \in 1..m
        PROVE  h[i] = IF i = 1 THEN q[i] ELSE h[i - 1] \o q[i]
    <3>1. CASE i = m
      BY <2>3, <3>1 DEF v
    <3>2. CASE i # m
      <4>1. i \in 1..m - 1 /\ (i # 1 => i - 1 \in 1..m - 1)
        BY <2>3, <3>2
      <4>2. h[i] = g[i] /\ (i # 1 => h[i - 1] = g[i - 1])
        BY <2>3, <3>2, <4>1
      <4> QED BY <2>4, <4>1, <4>2
    <3> QED BY <3>1, <3>2
  <2>8. h \in Good(m)
    <3> HIDE DEF h
    <3> QED BY <2>6, <2>7
  <2> QED BY <2>1, <2>8
<1>3. PICK g \in [1..N -> Seq(U)] :
         \A i \in 1..N : g[i] = IF i = 1 THEN q[i] ELSE g[i - 1] \o q[i]
  <2>1. Good(N) # {}
    <3> HIDE DEF Good
    <3> QED BY <1>1, <1>2
  <2> QED BY <2>1
<1> DEFINE flatten == CHOOSE f : f = [i \in 1..Len(q) |->
                        IF i = 1 THEN q[i] ELSE f[i - 1] \o q[i]]
<1>4. g = [i \in 1..Len(q) |-> IF i = 1 THEN q[i] ELSE g[i - 1] \o q[i]]
  BY <1>3
<1>5. flatten = [i \in 1..Len(q) |->
                   IF i = 1 THEN q[i] ELSE flatten[i - 1] \o q[i]]
  <2>1. \E f : f = [i \in 1..Len(q) |-> IF i = 1 THEN q[i] ELSE f[i - 1] \o q[i]]
    BY <1>4
  <2> QED BY <2>1
<1> DEFINE Right(i) == /\ flatten[i] \in Seq(U)
                       /\ \A n \in 1..i : Range(q[n]) \subseteq Range(flatten[i])
<1>6. Right(N)
  <2> HIDE DEF flatten
  <2> DEFINE Wrong == {i \in 1..N : ~Right(i)}
  <2> SUFFICES ASSUME Wrong # {} PROVE FALSE
    <3> HIDE DEF Right
    <3> QED BY <1>1
  <2>1. PICK i \in Wrong : \A x \in Wrong : i <= x
    <3>1. Wrong \in SUBSET Nat
      OBVIOUS
    <3> HIDE DEF Wrong
    <3> QED BY <3>1, LeastExists
  <2>2. i \in 1..N /\ ~Right(i)
    BY <2>1
  <2>3. ASSUME i # 1 PROVE Right(i - 1)
    <3>1. i - 1 \in 1..N /\ ~(i <= i - 1)
      BY <1>1, <2>2, <2>3
    <3> HIDE DEF Right
    <3> QED BY <2>1, <3>1
  <2>4. flatten[i] = IF i = 1 THEN q[i] ELSE flatten[i - 1] \o q[i]
    BY <1>5, <2>2
  <2>5. CASE i = 1
    BY <1>1, <2>2, <2>4, <2>5
  <2>6. CASE i # 1
    <3>1. /\ flatten[i - 1] \in Seq(U)
          /\ \A n \in 1..i - 1 : Range(q[n]) \subseteq Range(flatten[i - 1])
      BY <2>3, <2>6
    <3>2. q[i] \in Seq(U) /\ flatten[i] = flatten[i - 1] \o q[i]
      BY <1>1, <2>2, <2>4, <2>6
    <3>3. /\ flatten[i] \in Seq(U)
          /\ Range(flatten[i - 1]) \subseteq Range(flatten[i])
          /\ Range(q[i]) \subseteq Range(flatten[i])
      BY <3>1, <3>2, RangeConcat
    <3>4. ASSUME NEW n \in 1..i PROVE Range(q[n]) \subseteq Range(flatten[i])
      <4>1. n = i \/ n \in 1..i - 1
        BY <1>1, <2>2
      <4> QED BY <3>1, <3>3, <4>1
    <3> QED BY <2>2, <3>3, <3>4
  <2> QED BY <2>5, <2>6
<1>7. FlattenSeq(q) = flatten[N]
  BY <1>1 DEF FlattenSeq
<1>8. DOMAIN q = 1..N
  OBVIOUS
<1> HIDE DEF flatten
<1> QED BY <1>6, <1>7, <1>8

-----------------------------------------------------------------------------

(* An op is one thing to do, or a Batch of a finite list of things. *)
Listed(op) == op.kind = "batch" => op.ops \in Seq(Range(op.ops))
Steps(op) == IF op.kind = "batch" THEN op.ops ELSE <<op>>

(* The scenes a and b have the same object at o or none, anchors aside. *)
Bare(object) == [object EXCEPT !.anchors = {}]
Alike(a, b, o) == /\ o \in DOMAIN a <=> o \in DOMAIN b
                  /\ o \in DOMAIN a => Bare(a[o]) = Bare(b[o])

(* The target_ids of an op are a list with the id of all it does. *)
LEMMA TargetsListed ==
    ASSUME NEW op, Listed(op)
    PROVE  /\ \E U : TargetIds(op) \in Seq(U)
           /\ \A n \in DOMAIN Steps(op) : Steps(op)[n].id \in Range(TargetIds(op))
<1> DEFINE of(o) == CASE o.kind = "insert" /\ o.object.parent # NoParent ->
                           <<o.id, o.object.parent>>
                      [] o.kind = "reparent" /\ o.parent # NoParent ->
                           <<o.id, o.parent>>
                      [] OTHER -> <<o.id>>
           ids(o) == {o.id, o.object.parent, o.parent}
<1>1. \A o : of(o) \in Seq(ids(o)) /\ o.id \in Range(of(o))
  <2> TAKE o
  <2>1. of(o) \in {<<o.id, o.object.parent>>, <<o.id, o.parent>>, <<o.id>>}
    OBVIOUS
  <2>2. \A x, y \in ids(o) : /\ <<x, y>> \in Seq(ids(o)) /\ <<x>> \in Seq(ids(o))
                             /\ 1 \in DOMAIN <<x, y>> /\ <<x, y>>[1] = x
                             /\ 1 \in DOMAIN <<x>> /\ <<x>>[1] = x
    <3> HIDE DEF ids
    <3> QED OBVIOUS
  <2>3. o.id \in ids(o) /\ o.object.parent \in ids(o) /\ o.parent \in ids(o)
    OBVIOUS
  <2> HIDE DEF of, ids
  <2>4. of(o) \in Seq(ids(o)) /\ 1 \in DOMAIN of(o) /\ of(o)[1] = o.id
    BY <2>1, <2>2, <2>3
  <2> QED BY <2>4 DEF Range
<1>2. CASE op.kind # "batch"
  <2>1. TargetIds(op) = of(op) /\ Steps(op) = <<op>>
    BY <1>2 DEF TargetIds, Steps
  <2>2. \A n \in DOMAIN <<op>> : <<op>>[n] = op
    OBVIOUS
  <2> HIDE DEF of
  <2> QED BY <1>1, <2>1, <2>2
<1>3. CASE op.kind = "batch"
  <2> DEFINE q == [n \in DOMAIN op.ops |-> of(op.ops[n])]
             U == UNION {ids(o) : o \in Range(op.ops)}
  <2>1. /\ op.ops \in Seq(Range(op.ops)) /\ Steps(op) = op.ops
        /\ DOMAIN op.ops = 1..Len(op.ops) /\ Len(op.ops) \in Nat
    BY <1>3 DEF Listed, Steps
  <2>2. TargetIds(op) = FlattenSeq(q)
    BY <1>3 DEF TargetIds
  <2>3. \A n \in DOMAIN op.ops : op.ops[n] \in Range(op.ops)
    BY DEF Range
  <2>4. \A o \in Range(op.ops) : of(o) \in Seq(U)
    <3> TAKE o \in Range(op.ops)
    <3>1. ids(o) \subseteq U
      OBVIOUS
    <3> HIDE DEF of, U, ids
    <3> QED BY <1>1, <3>1
  <2> HIDE DEF of, U, ids
  <2>5. q \in Seq(Seq(U)) /\ DOMAIN q = DOMAIN op.ops
    BY <2>1, <2>3, <2>4
  <2>6. \A n \in DOMAIN op.ops : op.ops[n].id \in Range(q[n])
    BY <1>1
  <2>7. CASE q = <<>>
    <3>1. FlattenSeq(q) = q
      BY <2>7 DEF FlattenSeq
    <3>2. DOMAIN op.ops = {}
      BY <2>5, <2>7
    <3> QED BY <2>1, <2>2, <2>5, <3>1, <3>2
  <2>8. CASE q # <<>>
    <3>1. /\ FlattenSeq(q) \in Seq(U)
          /\ \A n \in DOMAIN q : Range(q[n]) \subseteq Range(FlattenSeq(q))
      BY <2>5, <2>8, FlattenIsSeq
    <3> HIDE DEF q
    <3> QED BY <2>1, <2>2, <2>5, <2>6, <3>1
  <2> QED BY <2>7, <2>8
<1> QED BY <1>2, <1>3

-----------------------------------------------------------------------------

(* What an accepted op does, it does to the object it names; of others it
   only takes the anchors.                                                 *)
LEMMA EffectElsewhere ==
    ASSUME NEW objs, NEW op, Accepts(objs, op), ~Degrades(objs, op)
    PROVE  /\ \A o : o # op.id => Alike(Effect(objs, op), objs, o)
           /\ IsFiniteSet(DOMAIN objs) => IsFiniteSet(DOMAIN Effect(objs, op))
<1> DEFINE e == Effect(objs, op)
<1>1. CASE op.kind = "insert"
  <2>1. e = [p \in DOMAIN objs \cup {op.id} |->
               IF p = op.id THEN op.object ELSE objs[p]]
    BY <1>1 DEF Effect, With
  <2>2. IsFiniteSet(DOMAIN objs) => IsFiniteSet(DOMAIN e)
    BY <2>1, FS_AddElement
  <2> HIDE DEF e
  <2> QED BY <2>1, <2>2 DEF Alike, e
<1>2. CASE op.kind = "delete"
  <2>1. e = [p \in DOMAIN objs \ {op.id} |->
               [objs[p] EXCEPT !.anchors = @ \ {op.id}]]
    BY <1>2 DEF Effect, Without
  <2>2. IsFiniteSet(DOMAIN objs) => IsFiniteSet(DOMAIN e)
    BY <2>1, FS_RemoveElement
  <2>3. \A object, X : Bare([object EXCEPT !.anchors = X]) = Bare(object)
    BY DEF Bare
  <2>4. ASSUME NEW o, o # op.id PROVE Alike(e, objs, o)
    <3>1. o \in DOMAIN e <=> o \in DOMAIN objs
      BY <2>1, <2>4
    <3>2. ASSUME o \in DOMAIN e PROVE Bare(e[o]) = Bare(objs[o])
      <4>1. e[o] = [objs[o] EXCEPT !.anchors = objs[o].anchors \ {op.id}]
        BY <2>1, <3>2
      <4> QED BY <2>3, <4>1
    <3> HIDE DEF e
    <3> QED BY <3>1, <3>2 DEF Alike
  <2> QED BY <2>2, <2>4
<1>3. CASE op.kind \notin {"insert", "delete"}
  <2>1. op.kind \in {"set-prop", "set-text", "set-anchor", "add-comment",
                     "set-comments", "reparent"}
    BY <1>3 DEF Accepts
  <2>2. \E v : e = [objs EXCEPT ![op.id] = v]
    BY <2>1 DEF Effect
  <2>3. PICK v : e = [objs EXCEPT ![op.id] = v]
    BY <2>2
  <2> HIDE DEF e
  <2>4. DOMAIN e = DOMAIN objs /\ \A o \in DOMAIN objs : o # op.id => e[o] = objs[o]
    BY <2>3
  <2> QED BY <2>4 DEF Alike, e
<1> QED BY <1>1, <1>2, <1>3

(* SetToSeq makes a list of a finite set. *)
LEMMA SetToSeqIsSeq ==
    ASSUME NEW S, IsFiniteSet(S)
    PROVE  SetToSeq(S) \in Seq(S)
<1> DEFINE n == Cardinality(S)
<1>1. n \in Nat /\ ExistsBijection(1..n, S)
  BY FS_CardinalityType
<1>2. PICK f \in [1..n -> S] : IsInjective(f)
  BY <1>1 DEF ExistsBijection, Bijection, Injection, IsInjective
<1>3. SetToSeq(S) \in [1..n -> S]
  BY <1>2 DEF SetToSeq
<1> QED BY <1>1, <1>3

(* An op that is accepted and does not degrade has something to undo. *)
LEMMA InverseNotEmpty ==
    ASSUME NEW objs, IsFiniteSet(DOMAIN objs), NEW op,
           Accepts(objs, op), ~Degrades(objs, op)
    PROVE  InverseOps(objs, op) \o <<>> # <<>>
<1>1. CASE op.kind = "delete"
  <2> DEFINE P == Peers(objs, op.id)
             S == {SetAnchor(p, objs[p].anchors) : p \in P}
             f == [p \in P |-> SetAnchor(p, objs[p].anchors)]
  <2>1. IsFiniteSet(P)
    <3>1. P \in SUBSET DOMAIN objs
      BY DEF Peers
    <3> QED BY <3>1, FS_Subset
  <2>2. f \in Surjection(P, S)
    BY DEF Surjection
  <2>3. IsFiniteSet(S)
    <3> HIDE DEF P, S, f
    <3> QED BY <2>1, <2>2, FS_Surjection
  <2>4. SetToSeq(S) \in Seq(S)
    <3> HIDE DEF S
    <3> QED BY <2>3, SetToSeqIsSeq
  <2>5. InverseOps(objs, op) = <<Insert(op.id, objs[op.id])>> \o SetToSeq(S)
    BY <1>1 DEF InverseOps
  <2>6. \A x, t : t \in Seq(S) => (<<x>> \o t) \o <<>> # <<>>
    <3> TAKE x, t
    <3> HAVE t \in Seq(S)
    <3> DEFINE U == S \cup {x}
    <3>1. <<x>> \in Seq(U) /\ t \in Seq(U)
      <4>1. S \subseteq U /\ x \in U
        OBVIOUS
      <4> HIDE DEF S, U
      <4> QED BY <4>1
    <3>2. <<>> \in Seq(U)
      OBVIOUS
    <3> HIDE DEF S, U
    <3>3. Len((<<x>> \o t) \o <<>>) = 1 + Len(t) /\ Len(t) \in Nat
      BY <3>1, <3>2
    <3> QED BY <3>3
  <2> HIDE DEF S
  <2> QED BY <2>4, <2>5, <2>6
<1>2. CASE op.kind # "delete"
  <2>1. op.kind \in {"insert", "set-prop", "set-text", "set-anchor",
                     "add-comment", "set-comments", "reparent"}
    BY <1>2 DEF Accepts
  <2>2. \E x : InverseOps(objs, op) = <<x>>
    BY <2>1 DEF InverseOps
  <2> QED BY <2>2
<1> QED BY <1>1, <1>2

-----------------------------------------------------------------------------

(* Applying a list of ops: the fold is what each op makes of the one before. *)
LEMMA ApplySteps ==
    ASSUME NEW U, NEW ops \in Seq(U), NEW objs
    PROVE  \E f : /\ ApplyAll(objs, ops) = f[Len(ops)]
                  /\ f[0] = [ok |-> TRUE, objs |-> objs, inverse |-> <<>>]
                  /\ \A n \in 1..Len(ops) : f[n] = ApplyOne(f[n - 1], ops[n])
<1> DEFINE base == [ok |-> TRUE, objs |-> objs, inverse |-> <<>>]
<1> DEFINE D == DOMAIN ops
           next(v, s) == ApplyOne(v, ops[Max(s)])
           prev(s) == s \ {Max(s)}
           Small(m) == {s \in SUBSET D : Cardinality(s) <= m}
           Solves(g, T) == g = [s \in T |-> IF s = {} THEN base
                                            ELSE next(g[prev(s)], s)]
           Bad == {m \in Nat : ~ \E g : Solves(g, Small(m))}
<1>1. Len(ops) \in Nat /\ D = 1..Len(ops) /\ IsFiniteSet(D)
  BY FS_Interval
<1>2. ASSUME NEW s \in SUBSET D, s # {}
      PROVE  Max(s) \in s /\ \A y \in s : y <= Max(s)
  <2>1. s \in SUBSET Nat /\ \A y \in s : y <= Len(ops)
    BY <1>1
  <2> QED BY <1>1, <1>2, <2>1, MaxOf
<1>3. ASSUME NEW s \in SUBSET D
      PROVE  /\ IsFiniteSet(s) /\ Cardinality(s) \in Nat
             /\ Cardinality(s) <= Cardinality(D) /\ Cardinality(D) \in Nat
             /\ s = {} <=> Cardinality(s) = 0
             /\ s # {} => prev(s) \in SUBSET D
                          /\ Cardinality(prev(s)) = Cardinality(s) - 1
  <2>1. /\ IsFiniteSet(s) /\ Cardinality(s) \in Nat
        /\ Cardinality(s) <= Cardinality(D) /\ Cardinality(D) \in Nat
    BY <1>1, FS_Subset, FS_CardinalityType
  <2>2. s # {} => prev(s) \in SUBSET D /\ Cardinality(prev(s)) = Cardinality(s) - 1
    BY <1>2, <2>1, FS_RemoveElement
  <2> QED BY <2>1, <2>2, FS_EmptySet
<1> HIDE DEF next, prev
<1>4. Bad = {}
  <2> SUFFICES ASSUME Bad # {} PROVE FALSE
    OBVIOUS
  <2>1. PICK m \in Bad : \A x \in Bad : m <= x
    <3>1. Bad \in SUBSET Nat
      OBVIOUS
    <3> HIDE DEF Bad
    <3> QED BY <3>1, LeastExists
  <2>2. m \in Nat /\ ~ \E g : Solves(g, Small(m))
    BY <2>1
  <2>3. m # 0
    <3>1. Small(0) = {{}}
      BY <1>3
    <3>2. Solves([s \in {{}} |-> base], {{}})
      OBVIOUS
    <3> HIDE DEF Small, Solves
    <3> QED BY <2>2, <3>1, <3>2
  <2>4. PICK g : Solves(g, Small(m - 1))
    <3>1. m - 1 \in Nat /\ m - 1 \notin Bad
      <4> HIDE DEF Bad
      <4> QED BY <2>1, <2>2, <2>3
    <3> HIDE DEF Small, Solves
    <3> QED BY <3>1
  <2> DEFINE h == [s \in Small(m) |-> IF s = {} THEN base ELSE next(g[prev(s)], s)]
  <2>5. ASSUME NEW s \in Small(m), s # {}
        PROVE  h[prev(s)] = g[prev(s)]
    <3>1. prev(s) \in Small(m - 1) /\ prev(s) \in Small(m)
      BY <1>3, <2>2, <2>5
    <3> HIDE DEF Small
    <3> QED BY <2>4, <3>1
  <2>6. Solves(h, Small(m))
    <3> HIDE DEF Small
    <3> QED BY <2>5
  <2> QED BY <2>2, <2>6
<1> DEFINE iter == CHOOSE g : Solves(g, SUBSET D)
<1>5. Solves(iter, SUBSET D)
  <2>1. Small(Cardinality(D)) = SUBSET D
    BY <1>3
  <2>2. Cardinality(D) \in Nat
    BY <1>1, FS_CardinalityType
  <2>3. \E g : Solves(g, SUBSET D)
    <3>1. PICK m \in Nat : m = Cardinality(D)
      BY <2>2
    <3>2. \E g : Solves(g, Small(m))
      <4> HIDE DEF Small, Solves
      <4> QED BY <1>4
    <3>3. Small(m) = SUBSET D
      BY <2>1, <3>1
    <3> HIDE DEF Small, Solves
    <3> QED BY <3>2, <3>3
  <2> HIDE DEF Solves
  <2> QED BY <2>3
<1>6. ApplyAll(objs, ops) = iter[D]
  BY DEF ApplyAll, FoldLeft, MapThenFoldSet, next, prev
<1> HIDE DEF iter
<1> DEFINE f == [n \in 0..Len(ops) |-> iter[1..n]]
<1>7. f[0] = base
  <2>1. 1..0 = {} /\ {} \in SUBSET D
    OBVIOUS
  <2> QED BY <1>1, <1>5, <2>1
<1>8. ASSUME NEW n \in 1..Len(ops) PROVE f[n] = ApplyOne(f[n - 1], ops[n])
  <2>1. 1..n \in SUBSET D /\ n \in 1..n /\ 1..n # {}
    <3>1. n \in Nat /\ 1 <= n /\ n <= Len(ops) /\ Len(ops) \in Nat
      BY <1>1
    <3>2. 1..n \subseteq 1..Len(ops) /\ n \in 1..n
      BY <3>1
    <3> HIDE DEF D
    <3> QED BY <1>1, <3>2
  <2>2. Max(1..n) = n
    <3>1. Max(1..n) \in 1..n /\ n <= Max(1..n)
      BY <1>2, <2>1
    <3> QED BY <1>1, <3>1
  <2>3. prev(1..n) = 1..n - 1
    BY <1>1, <2>2 DEF prev
  <2>4. iter[1..n] = next(iter[1..n - 1], 1..n)
    BY <1>5, <2>1, <2>3
  <2> QED BY <1>1, <2>2, <2>4 DEF next
<1>9. ApplyAll(objs, ops) = f[Len(ops)]
  BY <1>1, <1>6
<1> HIDE DEF f
<1> QED BY <1>7, <1>8, <1>9

(* A list of ops changes the objects it names, and finitely many. *)
LEMMA ApplyAllElsewhere ==
    ASSUME NEW U, NEW ops \in Seq(U), NEW objs, IsFiniteSet(DOMAIN objs),
           NEW ids, \A n \in DOMAIN ops : ops[n].id \in ids
    PROVE  LET after == ApplyAll(objs, ops).objs IN
           /\ IsFiniteSet(DOMAIN after)
           /\ \A o : o \notin ids => Alike(after, objs, o)
<1>1. PICK f : /\ ApplyAll(objs, ops) = f[Len(ops)]
               /\ f[0] = [ok |-> TRUE, objs |-> objs, inverse |-> <<>>]
               /\ \A n \in 1..Len(ops) : f[n] = ApplyOne(f[n - 1], ops[n])
  BY ApplySteps
<1> DEFINE Good(n) ==
             /\ f[n] = [ok |-> f[n].ok, objs |-> f[n].objs,
                        inverse |-> f[n].inverse]
             /\ IsFiniteSet(DOMAIN f[n].objs)
             /\ \A o : o \notin ids => Alike(f[n].objs, objs, o)
           Bad == {n \in 0..Len(ops) : ~Good(n)}
<1>2. Len(ops) \in Nat /\ DOMAIN ops = 1..Len(ops)
  OBVIOUS
<1>3. Good(0)
  BY <1>1 DEF Alike
<1>4. ASSUME NEW n \in 1..Len(ops), Good(n - 1) PROVE Good(n)
  <2> DEFINE a == f[n - 1]
             b == f[n]
             op == ops[n]
  <2>1. b = ApplyOne(a, op) /\ op.id \in ids
    BY <1>1, <1>2
  <2>2. /\ a = [ok |-> a.ok, objs |-> a.objs, inverse |-> a.inverse]
        /\ IsFiniteSet(DOMAIN a.objs)
        /\ \A o : o \notin ids => Alike(a.objs, objs, o)
    BY <1>4
  <2> HIDE DEF a, b, op
  <2>3. CASE ~a.ok \/ ~Accepts(a.objs, op)
    <3>1. b = [a EXCEPT !.ok = FALSE]
      BY <2>1, <2>3 DEF ApplyOne
    <3>2. b = [ok |-> FALSE, objs |-> a.objs, inverse |-> a.inverse]
      BY <2>2, <3>1
    <3> QED BY <2>2, <3>2 DEF b
  <2>4. CASE a.ok /\ Accepts(a.objs, op) /\ Degrades(a.objs, op)
    <3>1. b = a
      BY <2>1, <2>4 DEF ApplyOne
    <3> QED BY <2>2, <3>1 DEF b
  <2>5. CASE a.ok /\ Accepts(a.objs, op) /\ ~Degrades(a.objs, op)
    <3>1. b = [ok |-> TRUE, objs |-> Effect(a.objs, op),
               inverse |-> InverseOps(a.objs, op) \o a.inverse]
      BY <2>1, <2>5 DEF ApplyOne
    <3>2. /\ IsFiniteSet(DOMAIN b.objs)
          /\ \A o : o # op.id => Alike(b.objs, a.objs, o)
      BY <2>2, <2>5, <3>1, EffectElsewhere
    <3>3. \A o : o \notin ids => Alike(b.objs, objs, o)
      BY <2>1, <2>2, <3>2 DEF Alike
    <3>4. b = [ok |-> b.ok, objs |-> b.objs, inverse |-> b.inverse]
      BY <3>1
    <3> QED BY <3>2, <3>3, <3>4 DEF b
  <2> QED BY <2>3, <2>4, <2>5
<1>5. Bad = {}
  <2> HIDE DEF Good
  <2> SUFFICES ASSUME Bad # {} PROVE FALSE
    OBVIOUS
  <2>1. PICK n \in Bad : \A x \in Bad : n <= x
    <3>1. Bad \in SUBSET Nat
      OBVIOUS
    <3> HIDE DEF Bad
    <3> QED BY <3>1, LeastExists
  <2>2. n \in 0..Len(ops) /\ ~Good(n) /\ n # 0
    BY <1>3, <2>1
  <2>3. n - 1 \in 0..Len(ops) /\ ~(n <= n - 1)
    BY <1>2, <2>2
  <2>4. Good(n - 1)
    BY <2>1, <2>3
  <2> QED BY <1>2, <1>4, <2>2, <2>4
<1>6. Good(Len(ops))
  <2> HIDE DEF Good
  <2> QED BY <1>2, <1>5
<1> QED BY <1>1, <1>6

(* The objects an op changes are its target_ids, anchors aside. *)
THEOREM ApplyElsewhere ==
    ASSUME NEW objs, IsFiniteSet(DOMAIN objs), NEW op, Listed(op)
    PROVE  LET after == Apply(objs, op).objs IN
           /\ IsFiniteSet(DOMAIN after)
           /\ \A o : o \notin Range(TargetIds(op)) => Alike(after, objs, o)
<1> DEFINE ids == Range(TargetIds(op))
           r == ApplyAll(objs, Steps(op))
<1>1. \E U : Steps(op) \in Seq(U)
  <2>1. CASE op.kind = "batch"
    BY <2>1 DEF Steps, Listed
  <2>2. CASE op.kind # "batch"
    <3>1. Steps(op) = <<op>> /\ <<op>> \in Seq({op})
      BY <2>2 DEF Steps
    <3> QED BY <3>1
  <2> QED BY <2>1, <2>2
<1>2. /\ IsFiniteSet(DOMAIN r.objs)
      /\ \A o : o \notin ids => Alike(r.objs, objs, o)
  <2>1. \A n \in DOMAIN Steps(op) : Steps(op)[n].id \in ids
    BY TargetsListed
  <2> HIDE DEF ids
  <2> QED BY <1>1, <2>1, ApplyAllElsewhere
<1>3. Apply(objs, op).objs = IF r.ok THEN r.objs ELSE objs
  BY DEF Apply, Steps
<1>4. \A o : Alike(objs, objs, o)
  BY DEF Alike
<1> HIDE DEF ids, r
<1> QED BY <1>2, <1>3, <1>4 DEF ids

(* Applying a list of one op. *)
LEMMA OneStep ==
    ASSUME NEW U, NEW ops \in Seq(U), Len(ops) = 1, NEW objs
    PROVE  ApplyAll(objs, ops) =
             ApplyOne([ok |-> TRUE, objs |-> objs, inverse |-> <<>>], ops[1])
<1> DEFINE base == [ok |-> TRUE, objs |-> objs, inverse |-> <<>>]
<1>1. PICK f : /\ ApplyAll(objs, ops) = f[Len(ops)]
               /\ f[0] = base
               /\ \A n \in 1..Len(ops) : f[n] = ApplyOne(f[n - 1], ops[n])
  BY ApplySteps
<1> HIDE DEF base
<1>2. f[1] = ApplyOne(f[0], ops[1])
  BY <1>1
<1> QED BY <1>1, <1>2 DEF base

(* An op with nothing to undo has changed nothing. *)
THEOREM NothingUndone ==
    ASSUME NEW objs, IsFiniteSet(DOMAIN objs), NEW op, Apply(objs, op).noop
    PROVE  Apply(objs, op).objs = objs
<1> DEFINE r == ApplyAll(objs, Steps(op))
           base == [ok |-> TRUE, objs |-> objs, inverse |-> <<>>]
<1>1. /\ Apply(objs, op).objs = IF r.ok THEN r.objs ELSE objs
      /\ r.ok /\ IF op.kind = "batch" THEN Steps(op) = <<>> ELSE r.inverse = <<>>
  BY DEF Apply, Steps
<1>2. CASE op.kind = "batch"
  <2>1. Steps(op) \in Seq({}) /\ Len(Steps(op)) = 0
    BY <1>1, <1>2
  <2>2. r = base
    BY <2>1, ApplySteps
  <2> QED BY <1>1, <2>2
<1>3. CASE op.kind # "batch"
  <2>1. Steps(op) \in Seq({op}) /\ Len(Steps(op)) = 1 /\ Steps(op)[1] = op
    <3>1. <<op>> \in Seq({op}) /\ Len(<<op>>) = 1 /\ <<op>>[1] = op
      OBVIOUS
    <3> QED BY <1>3, <3>1 DEF Steps
  <2>2. r = ApplyOne(base, op)
    <3>1. ApplyAll(objs, Steps(op)) = ApplyOne(base, Steps(op)[1])
      BY <2>1, OneStep
    <3> HIDE DEF base
    <3> QED BY <2>1, <3>1
  <2>3. ASSUME Accepts(objs, op), ~Degrades(objs, op) PROVE FALSE
    <3>1. r = [ok |-> TRUE, objs |-> Effect(objs, op),
               inverse |-> InverseOps(objs, op) \o <<>>]
      BY <2>2, <2>3 DEF ApplyOne
    <3> QED BY <1>1, <1>3, <2>3, <3>1, InverseNotEmpty
  <2>4. r.objs = objs
    <3>1. r = base \/ r = [base EXCEPT !.ok = FALSE]
      BY <2>2, <2>3 DEF ApplyOne
    <3> QED BY <3>1
  <2> QED BY <1>1, <2>4
<1> QED BY <1>2, <1>3

-----------------------------------------------------------------------------

(* The field f of the object o: the op that writes it, whether a list of ops
   does, or inserts the object, and whether the object has such a field.   *)
WriteOf(f) == IF f = "prop" THEN "set-prop" ELSE "set-text"
Writes(op, o, f) == op.id = o /\ op.kind = WriteOf(f)
Inserts(op, o) == op.id = o /\ op.kind = "insert"
HasField(objs, o, f) == o \in DOMAIN objs => f \in DOMAIN objs[o]

(* b is a without o, or has what a has in that field of it. *)
Left(b, a, o, f) == o \in DOMAIN b => o \in DOMAIN a /\ f \in DOMAIN b[o]
Same(b, a, o, f) == o \in DOMAIN b => b[o][f] = a[o][f]

(* No op but an Insert brings an object back, and none but the one that
   writes a field changes it.                                              *)
LEMMA EffectOnField ==
    ASSUME NEW objs, NEW op, Accepts(objs, op), ~Degrades(objs, op),
           NEW o, NEW f \in {"prop", "text"}, HasField(objs, o, f), ~Inserts(op, o)
    PROVE  /\ Left(Effect(objs, op), objs, o, f)
           /\ ~Writes(op, o, f) => Same(Effect(objs, op), objs, o, f)
<1> DEFINE e == Effect(objs, op)
<1>1. CASE op.kind = "insert"
  <2>1. e = [p \in DOMAIN objs \cup {op.id} |->
               IF p = op.id THEN op.object ELSE objs[p]]
    BY <1>1 DEF Effect, With
  <2>2. o # op.id
    BY <1>1 DEF Inserts
  <2> HIDE DEF e
  <2> QED BY <2>1, <2>2 DEF Left, Same, HasField, e
<1>2. CASE op.kind = "delete"
  <2>1. e = [p \in DOMAIN objs \ {op.id} |->
               [objs[p] EXCEPT !.anchors = objs[p].anchors \ {op.id}]]
    BY <1>2 DEF Effect, Without
  <2>2. \A object, X : f \in DOMAIN object =>
          LET bared == [object EXCEPT !.anchors = X] IN
          f \in DOMAIN bared /\ bared[f] = object[f]
    OBVIOUS
  <2>3. o \in DOMAIN e => /\ o \in DOMAIN objs
                          /\ e[o] = [objs[o] EXCEPT !.anchors = objs[o].anchors \ {op.id}]
    BY <2>1
  <2> HIDE DEF e
  <2> QED BY <2>2, <2>3 DEF Left, Same, HasField, e
<1>3. CASE op.kind \notin {"insert", "delete"}
  <2>1. op.kind \in {"set-prop", "set-text", "add-comment", "set-comments",
                     "set-anchor", "reparent"}
    BY <1>3 DEF Accepts
  <2>2. PICK x : \/ op.kind = "set-prop" /\ e = [objs EXCEPT ![op.id].prop = x]
                 \/ op.kind = "set-text" /\ e = [objs EXCEPT ![op.id].text = x]
                 \/ e = [objs EXCEPT ![op.id].comments = x]
                 \/ e = [objs EXCEPT ![op.id].anchors = x]
                 \/ e = [objs EXCEPT ![op.id].parent = x]
    BY <2>1 DEF Effect
  <2> HIDE DEF e
  <2>3. DOMAIN e = DOMAIN objs
    BY <2>2
  <2>4. CASE o # op.id
    <3>1. o \in DOMAIN e => e[o] = objs[o]
      BY <2>2, <2>4
    <3> QED BY <2>3, <3>1 DEF Left, Same, HasField, e
  <2>5. ASSUME o = op.id, o \in DOMAIN objs
        PROVE  /\ DOMAIN e[o] = DOMAIN objs[o]
               /\ ~Writes(op, o, f) => e[o][f] = objs[o][f]
    <3>1. f \in DOMAIN objs[o]
      BY <2>5 DEF HasField
    <3>2. \/ op.kind = "set-prop" /\ e[o] = [objs[o] EXCEPT !.prop = x]
          \/ op.kind = "set-text" /\ e[o] = [objs[o] EXCEPT !.text = x]
          \/ e[o] = [objs[o] EXCEPT !.comments = x]
          \/ e[o] = [objs[o] EXCEPT !.anchors = x]
          \/ e[o] = [objs[o] EXCEPT !.parent = x]
      BY <2>2, <2>5
    <3>3. \/ op.kind = "set-prop" /\ f # "prop" /\ e[o][f] = objs[o][f]
          \/ op.kind = "set-text" /\ f # "text" /\ e[o][f] = objs[o][f]
          \/ op.kind = WriteOf(f)
          \/ e[o][f] = objs[o][f]
      BY <3>1, <3>2 DEF WriteOf
    <3>4. DOMAIN e[o] = DOMAIN objs[o]
      BY <3>2
    <3> QED BY <2>5, <3>3, <3>4 DEF Writes
  <2> QED BY <2>3, <2>4, <2>5 DEF Left, Same, HasField, e
<1> QED BY <1>1, <1>2, <1>3

(* The same of a list of ops. *)
LEMMA ApplyAllOnField ==
    ASSUME NEW U, NEW ops \in Seq(U), NEW objs, NEW o, NEW f \in {"prop", "text"},
           HasField(objs, o, f), \A n \in DOMAIN ops : ~Inserts(ops[n], o)
    PROVE  LET after == ApplyAll(objs, ops).objs IN
           /\ Left(after, objs, o, f)
           /\ (\A n \in DOMAIN ops : ~Writes(ops[n], o, f)) => Same(after, objs, o, f)
<1>1. PICK g : /\ ApplyAll(objs, ops) = g[Len(ops)]
               /\ g[0] = [ok |-> TRUE, objs |-> objs, inverse |-> <<>>]
               /\ \A n \in 1..Len(ops) : g[n] = ApplyOne(g[n - 1], ops[n])
  BY ApplySteps
<1> DEFINE Spared == \A n \in DOMAIN ops : ~Writes(ops[n], o, f)
           Good(n) == /\ g[n] = [ok |-> g[n].ok, objs |-> g[n].objs,
                                 inverse |-> g[n].inverse]
                      /\ Left(g[n].objs, objs, o, f)
                      /\ Spared => Same(g[n].objs, objs, o, f)
           Bad == {n \in 0..Len(ops) : ~Good(n)}
<1>2. Len(ops) \in Nat /\ DOMAIN ops = 1..Len(ops)
  OBVIOUS
<1>3. Good(0)
  BY <1>1 DEF Left, Same, HasField
<1> HIDE DEF Spared
<1>4. ASSUME NEW n \in 1..Len(ops), Good(n - 1) PROVE Good(n)
  <2> DEFINE a == g[n - 1]
             b == g[n]
             op == ops[n]
  <2>1. b = ApplyOne(a, op) /\ ~Inserts(op, o) /\ (Spared => ~Writes(op, o, f))
    BY <1>1, <1>2 DEF Spared
  <2>2. /\ a = [ok |-> a.ok, objs |-> a.objs, inverse |-> a.inverse]
        /\ Left(a.objs, objs, o, f)
        /\ Spared => Same(a.objs, objs, o, f)
    BY <1>4
  <2> HIDE DEF a, b, op
  <2>3. CASE ~a.ok \/ ~Accepts(a.objs, op)
    <3>1. b = [a EXCEPT !.ok = FALSE]
      BY <2>1, <2>3 DEF ApplyOne
    <3>2. b = [ok |-> FALSE, objs |-> a.objs, inverse |-> a.inverse]
      BY <2>2, <3>1
    <3> QED BY <2>2, <3>2 DEF b
  <2>4. CASE a.ok /\ Accepts(a.objs, op) /\ Degrades(a.objs, op)
    <3>1. b = a
      BY <2>1, <2>4 DEF ApplyOne
    <3> QED BY <2>2, <3>1 DEF b
  <2>5. CASE a.ok /\ Accepts(a.objs, op) /\ ~Degrades(a.objs, op)
    <3>1. b = [ok |-> TRUE, objs |-> Effect(a.objs, op),
               inverse |-> InverseOps(a.objs, op) \o a.inverse]
      BY <2>1, <2>5 DEF ApplyOne
    <3>2. HasField(a.objs, o, f)
      BY <2>2 DEF Left, HasField
    <3>3. /\ Left(b.objs, a.objs, o, f)
          /\ ~Writes(op, o, f) => Same(b.objs, a.objs, o, f)
      BY <2>1, <2>5, <3>1, <3>2, EffectOnField
    <3>4. /\ Left(b.objs, objs, o, f)
          /\ Spared => Same(b.objs, objs, o, f)
      BY <2>1, <2>2, <3>3 DEF Left, Same
    <3>5. b = [ok |-> b.ok, objs |-> b.objs, inverse |-> b.inverse]
      BY <3>1
    <3> QED BY <3>4, <3>5 DEF b
  <2> QED BY <2>3, <2>4, <2>5
<1>5. Bad = {}
  <2> HIDE DEF Good
  <2> SUFFICES ASSUME Bad # {} PROVE FALSE
    OBVIOUS
  <2>1. PICK n \in Bad : \A x \in Bad : n <= x
    <3>1. Bad \in SUBSET Nat
      OBVIOUS
    <3> HIDE DEF Bad
    <3> QED BY <3>1, LeastExists
  <2>2. n \in 0..Len(ops) /\ ~Good(n) /\ n # 0
    BY <1>3, <2>1
  <2>3. n - 1 \in 0..Len(ops) /\ ~(n <= n - 1)
    BY <1>2, <2>2
  <2>4. Good(n - 1)
    BY <2>1, <2>3
  <2> QED BY <1>2, <1>4, <2>2, <2>4
<1>6. Good(Len(ops))
  <2> HIDE DEF Good
  <2> QED BY <1>2, <1>5
<1> QED BY <1>1, <1>6 DEF Spared

(* The steps of an op are a list. *)
LEMMA StepsListed ==
    ASSUME NEW op, Listed(op)
    PROVE  \E U : Steps(op) \in Seq(U)
<1>1. CASE op.kind = "batch"
  BY <1>1 DEF Steps, Listed
<1>2. CASE op.kind # "batch"
  <2>1. Steps(op) = <<op>> /\ <<op>> \in Seq({op})
    BY <1>2 DEF Steps
  <2> QED BY <2>1
<1> QED BY <1>1, <1>2

(* They are what the op does. *)
LEMMA StepsDone ==
    ASSUME NEW op, NEW n \in DOMAIN Steps(op)
    PROVE  Steps(op)[n] \in Does(op)
<1>1. CASE op.kind = "batch"
  BY <1>1 DEF Steps, Does, Range
<1>2. CASE op.kind # "batch"
  <2>1. Steps(op) = <<op>> /\ Does(op) = {op}
    BY <1>2 DEF Steps, Does
  <2> QED BY <2>1
<1> QED BY <1>1, <1>2

(* An op that does not insert an object does not bring it back, and changes a
   field of it only where it writes it.                                    *)
THEOREM ApplyOnField ==
    ASSUME NEW op, Listed(op), NEW objs, NEW o, NEW f \in {"prop", "text"},
           HasField(objs, o, f),
           \A n \in DOMAIN Steps(op) : ~Inserts(Steps(op)[n], o)
    PROVE  LET after == Apply(objs, op).objs IN
           /\ Left(after, objs, o, f)
           /\ (\A n \in DOMAIN Steps(op) : ~Writes(Steps(op)[n], o, f))
                => Same(after, objs, o, f)
<1> DEFINE r == ApplyAll(objs, Steps(op))
           Spared == \A n \in DOMAIN Steps(op) : ~Writes(Steps(op)[n], o, f)
<1>1. PICK U : Steps(op) \in Seq(U)
  BY StepsListed
<1>2. /\ Left(r.objs, objs, o, f)
      /\ Spared => Same(r.objs, objs, o, f)
  BY <1>1, ApplyAllOnField
<1>3. Apply(objs, op).objs = IF r.ok THEN r.objs ELSE objs
  BY DEF Apply, Steps
<1>4. Left(objs, objs, o, f) /\ Same(objs, objs, o, f)
  BY DEF Left, Same, HasField
<1> HIDE DEF r, Spared
<1> QED BY <1>2, <1>3, <1>4 DEF Spared

(* An op that writes a field of an object that is there has written it. *)
LEMMA ApplyWrites ==
    ASSUME NEW op, NEW objs, NEW f \in {"prop", "text"}, op.kind = WriteOf(f),
           op.id \in DOMAIN objs, f \in DOMAIN objs[op.id]
    PROVE  Apply(objs, op).objs[op.id][f] = op.value
<1> DEFINE base == [ok |-> TRUE, objs |-> objs, inverse |-> <<>>]
           r == ApplyAll(objs, <<op>>)
<1>1. op.kind \in {"set-prop", "set-text"} /\ op.kind # "batch"
  BY DEF WriteOf
<1>2. Apply(objs, op).objs = IF r.ok THEN r.objs ELSE objs
  BY <1>1 DEF Apply
<1>3. r = ApplyOne(base, op)
  <2>1. <<op>> \in Seq({op}) /\ Len(<<op>>) = 1 /\ <<op>>[1] = op
    OBVIOUS
  <2>2. r = ApplyOne(base, <<op>>[1])
    BY <2>1, OneStep
  <2> HIDE DEF base, r
  <2> QED BY <2>1, <2>2
<1>4. Accepts(objs, op)
  BY <1>1 DEF Accepts
<1> HIDE DEF r
<1>5. CASE Degrades(objs, op)
  <2>1. r = base
    BY <1>3, <1>4, <1>5 DEF ApplyOne
  <2>2. objs[op.id][f] = op.value
    BY <1>1, <1>5 DEF Degrades, WriteOf
  <2> QED BY <1>2, <2>1, <2>2
<1>6. CASE ~Degrades(objs, op)
  <2>1. r.ok /\ r.objs = Effect(objs, op)
    BY <1>3, <1>4, <1>6 DEF ApplyOne
  <2>2. \/ f = "prop" /\ Effect(objs, op) = [objs EXCEPT ![op.id].prop = op.value]
        \/ f = "text" /\ Effect(objs, op) = [objs EXCEPT ![op.id].text = op.value]
    BY <1>1 DEF Effect, WriteOf
  <2>3. Effect(objs, op)[op.id][f] = op.value
    BY <2>2
  <2> QED BY <1>2, <2>1, <2>3
<1> QED BY <1>5, <1>6

-----------------------------------------------------------------------------

(* Lists, as lists of what they hold. *)
ListOf(q) == q \in Seq(Range(q))

(* A list and one more. *)
LEMMA ListAppend ==
    ASSUME NEW q, ListOf(q), NEW x
    PROVE  ListOf(Append(q, x)) /\ Range(Append(q, x)) = Range(q) \cup {x}
<1> DEFINE S == Range(q) \cup {x}
           more == Append(q, x)
<1>1. /\ Len(q) \in Nat /\ DOMAIN q = 1..Len(q)
      /\ \A i \in 1..Len(q) : q[i] \in S
  BY LenProperties, ElementOfSeq DEF ListOf
<1>2. q \in Seq(S)
  <2>1. q = [i \in 1..Len(q) |-> q[i]]
    BY <1>1 DEF ListOf
  <2> HIDE DEF S
  <2> QED BY <1>1, <2>1
<1>3. more \in Seq(S)
  BY <1>2
<1>4. Range(more) = S
  <2>1. /\ DOMAIN more = 1..(Len(q) + 1)
        /\ \A i \in 1..Len(q) : more[i] = q[i]
        /\ more[Len(q) + 1] = x
    BY <1>2, <1>1
  <2> HIDE DEF more
  <2> QED BY <1>1, <2>1 DEF Range
<1>5. ListOf(more)
  <2> HIDE DEF S, more
  <2> QED BY <1>3, IsListOfRange DEF ListOf
<1> QED BY <1>4, <1>5

(* Every object has a list of comments. *)
Commented(objs) ==
    \A o \in DOMAIN objs : "comments" \in DOMAIN objs[o] /\ ListOf(objs[o].comments)

(* An op that is no Batch: its lists are lists; it puts v nowhere. *)
Listing(op) ==
    /\ op.kind = "insert" => "comments" \in DOMAIN op.object /\ ListOf(op.object.comments)
    /\ op.kind = "set-comments" => ListOf(op.value)
Spares(op, v) ==
    /\ op.kind = "insert" => v \notin Range(op.object.comments)
    /\ op.kind = "set-comments" => v \notin Range(op.value)
    /\ op.kind = "add-comment" => op.value # v

(* The comment v has no place in the objects b that it has not in a. *)
NoneNew(b, a, v) ==
    \A o \in DOMAIN b : \A n \in DOMAIN b[o].comments :
        b[o].comments[n] = v =>
            /\ o \in DOMAIN a /\ n \in DOMAIN a[o].comments
            /\ a[o].comments[n] = v

(* An op that takes comments from the object w, and scenes b and a where b
   has every comment of w that a has.                                      *)
Strips(op, w) == op.id = w /\ op.kind \in {"delete", "set-comments"}
NoneLost(b, a, w) ==
    w \in DOMAIN a => /\ w \in DOMAIN b
                      /\ Range(a[w].comments) \subseteq Range(b[w].comments)

(* An op leaves comments lists, puts a comment in no new place unless it
   brings it, and loses none unless it strips its object.                  *)
LEMMA EffectOnComments ==
    ASSUME NEW objs, Commented(objs), NEW op, Listing(op),
           Accepts(objs, op), ~Degrades(objs, op), NEW v, NEW w
    PROVE  /\ Commented(Effect(objs, op))
           /\ Spares(op, v) => NoneNew(Effect(objs, op), objs, v)
           /\ ~Strips(op, w) => NoneLost(Effect(objs, op), objs, w)
<1> DEFINE e == Effect(objs, op)
<1>1. CASE op.kind = "insert"
  <2>1. e = [p \in DOMAIN objs \cup {op.id} |->
               IF p = op.id THEN op.object ELSE objs[p]]
    BY <1>1 DEF Effect, With
  <2> HIDE DEF e
  <2>2. op.id \notin DOMAIN objs
    BY <1>1 DEF Accepts
  <2>3. Commented(e)
    BY <1>1, <2>1 DEF Commented, Listing
  <2>4. ASSUME Spares(op, v) PROVE NoneNew(e, objs, v)
    <3>1. \A n \in DOMAIN op.object.comments : op.object.comments[n] # v
      BY <1>1, <2>4 DEF Spares, Range
    <3> QED BY <2>1, <3>1 DEF NoneNew
  <2>5. NoneLost(e, objs, w)
    BY <2>1, <2>2 DEF NoneLost
  <2> QED BY <2>3, <2>4, <2>5 DEF e
<1>2. CASE op.kind = "delete"
  <2>1. e = [p \in DOMAIN objs \ {op.id} |->
               [objs[p] EXCEPT !.anchors = objs[p].anchors \ {op.id}]]
    BY <1>2 DEF Effect, Without
  <2>2. \A object, X : "comments" \in DOMAIN object =>
          LET bared == [object EXCEPT !.anchors = X] IN
          "comments" \in DOMAIN bared /\ bared.comments = object.comments
    OBVIOUS
  <2>3. \A o \in DOMAIN e : /\ o \in DOMAIN objs
                            /\ e[o] = [objs[o] EXCEPT !.anchors = objs[o].anchors \ {op.id}]
    BY <2>1
  <2> HIDE DEF e
  <2>4. \A o \in DOMAIN e : /\ o \in DOMAIN objs /\ "comments" \in DOMAIN e[o]
                            /\ e[o].comments = objs[o].comments
    BY <2>2, <2>3 DEF Commented
  <2>5. Commented(e) /\ NoneNew(e, objs, v)
    BY <2>4 DEF Commented, NoneNew
  <2>6. ~Strips(op, w) => NoneLost(e, objs, w)
    <3>1. w \in DOMAIN objs /\ w # op.id => w \in DOMAIN e
      BY <2>1 DEF e
    <3> QED BY <1>2, <2>4, <3>1 DEF Strips, NoneLost
  <2> QED BY <2>5, <2>6 DEF e
<1>3. CASE op.kind \in {"set-prop", "set-text", "set-anchor", "reparent"}
  <2>1. PICK x : \/ e = [objs EXCEPT ![op.id].prop = x]
                 \/ e = [objs EXCEPT ![op.id].text = x]
                 \/ e = [objs EXCEPT ![op.id].anchors = x]
                 \/ e = [objs EXCEPT ![op.id].parent = x]
    BY <1>3 DEF Effect
  <2> HIDE DEF e
  <2>2. DOMAIN e = DOMAIN objs
    BY <2>1
  <2>3. ASSUME NEW o \in DOMAIN objs
        PROVE  "comments" \in DOMAIN e[o] /\ e[o].comments = objs[o].comments
    <3>1. CASE o # op.id
      <4>1. e[o] = objs[o]
        BY <2>1, <3>1
      <4> QED BY <4>1 DEF Commented
    <3>2. CASE o = op.id
      <4>1. \/ e[o] = [objs[o] EXCEPT !.prop = x]
            \/ e[o] = [objs[o] EXCEPT !.text = x]
            \/ e[o] = [objs[o] EXCEPT !.anchors = x]
            \/ e[o] = [objs[o] EXCEPT !.parent = x]
        BY <2>1, <3>2
      <4> QED BY <4>1 DEF Commented
    <3> QED BY <3>1, <3>2
  <2> QED BY <2>2, <2>3 DEF Commented, NoneNew, NoneLost, e
<1>4. CASE op.kind \in {"add-comment", "set-comments"}
  <2> DEFINE cs == IF op.kind = "add-comment"
                   THEN Append(objs[op.id].comments, op.value) ELSE op.value
  <2>1. op.id \in DOMAIN objs /\ e = [objs EXCEPT ![op.id].comments = cs]
    BY <1>4 DEF Effect, Accepts
  <2>2. ListOf(objs[op.id].comments) /\ "comments" \in DOMAIN objs[op.id]
    BY <2>1 DEF Commented
  <2>3. ListOf(cs)
    BY <1>4, <2>2, ListAppend DEF Listing
  <2>4. ASSUME Spares(op, v), NEW n \in DOMAIN cs, cs[n] = v
        PROVE  n \in DOMAIN objs[op.id].comments /\ objs[op.id].comments[n] = v
    <3> DEFINE q == objs[op.id].comments
    <3>1. CASE op.kind = "add-comment"
      <4>1. op.value # v /\ cs = Append(q, op.value)
        BY <2>4, <3>1 DEF Spares
      <4>2. Len(q) \in Nat /\ DOMAIN q = 1..Len(q) /\ q \in Seq(Range(q))
        BY <2>2, LenProperties DEF ListOf
      <4> HIDE DEF q
      <4>3. DOMAIN cs = 1..(Len(q) + 1)
            /\ \A i \in 1..(Len(q) + 1) : cs[i] = IF i <= Len(q) THEN q[i] ELSE op.value
        BY <4>1, <4>2
      <4> HIDE DEF cs
      <4>4. n <= Len(q) /\ n \in 1..(Len(q) + 1)
        BY <2>4, <4>1, <4>3
      <4> QED BY <2>4, <4>2, <4>3, <4>4 DEF q
    <3>2. CASE op.kind = "set-comments"
      <4>1. v \notin Range(op.value) /\ cs = op.value
        BY <2>4, <3>2 DEF Spares
      <4> QED BY <2>4, <4>1 DEF Range
    <3> QED BY <1>4, <3>1, <3>2
  <2> HIDE DEF e, cs
  <2>5. /\ DOMAIN e = DOMAIN objs
        /\ \A o \in DOMAIN objs : o # op.id => e[o] = objs[o]
        /\ e[op.id] = [objs[op.id] EXCEPT !.comments = cs]
    BY <2>1
  <2>6. "comments" \in DOMAIN e[op.id] /\ e[op.id].comments = cs
    BY <2>2, <2>5
  <2>7. Commented(e)
    BY <2>3, <2>5, <2>6 DEF Commented
  <2>8. Spares(op, v) => NoneNew(e, objs, v)
    BY <2>1, <2>4, <2>5, <2>6 DEF NoneNew
  <2>9. ~Strips(op, w) => NoneLost(e, objs, w)
    <3>1. CASE w # op.id
      BY <2>5, <3>1 DEF NoneLost
    <3>2. CASE w = op.id /\ op.kind = "add-comment"
      <4>1. Range(objs[w].comments) \subseteq Range(cs)
        BY <2>2, <3>2, ListAppend DEF cs
      <4> QED BY <2>1, <2>5, <2>6, <3>2, <4>1 DEF NoneLost
    <3> QED BY <1>4, <3>1, <3>2 DEF Strips
  <2> QED BY <2>7, <2>8, <2>9 DEF e
<1> QED BY <1>1, <1>2, <1>3, <1>4 DEF Accepts

(* The same of a list of ops. *)
LEMMA ApplyAllOnComments ==
    ASSUME NEW U, NEW ops \in Seq(U), NEW objs, Commented(objs), NEW v, NEW w,
           \A n \in DOMAIN ops : Listing(ops[n])
    PROVE  LET after == ApplyAll(objs, ops).objs IN
           /\ Commented(after)
           /\ (\A n \in DOMAIN ops : Spares(ops[n], v)) => NoneNew(after, objs, v)
           /\ (\A n \in DOMAIN ops : ~Strips(ops[n], w)) => NoneLost(after, objs, w)
<1>1. PICK g : /\ ApplyAll(objs, ops) = g[Len(ops)]
               /\ g[0] = [ok |-> TRUE, objs |-> objs, inverse |-> <<>>]
               /\ \A n \in 1..Len(ops) : g[n] = ApplyOne(g[n - 1], ops[n])
  BY ApplySteps
<1> DEFINE Spared == \A n \in DOMAIN ops : Spares(ops[n], v)
           Intact == \A n \in DOMAIN ops : ~Strips(ops[n], w)
           Good(n) == /\ g[n] = [ok |-> g[n].ok, objs |-> g[n].objs,
                                 inverse |-> g[n].inverse]
                      /\ Commented(g[n].objs)
                      /\ Spared => NoneNew(g[n].objs, objs, v)
                      /\ Intact => NoneLost(g[n].objs, objs, w)
           Bad == {n \in 0..Len(ops) : ~Good(n)}
<1>2. Len(ops) \in Nat /\ DOMAIN ops = 1..Len(ops)
  OBVIOUS
<1>3. Good(0)
  BY <1>1 DEF NoneNew, NoneLost
<1> HIDE DEF Spared, Intact
<1>4. ASSUME NEW n \in 1..Len(ops), Good(n - 1) PROVE Good(n)
  <2> DEFINE a == g[n - 1]
             b == g[n]
             op == ops[n]
  <2>1. b = ApplyOne(a, op) /\ Listing(op) /\ (Spared => Spares(op, v))
        /\ (Intact => ~Strips(op, w))
    BY <1>1, <1>2 DEF Spared, Intact
  <2>2. /\ a = [ok |-> a.ok, objs |-> a.objs, inverse |-> a.inverse]
        /\ Commented(a.objs)
        /\ Spared => NoneNew(a.objs, objs, v)
        /\ Intact => NoneLost(a.objs, objs, w)
    BY <1>4
  <2> HIDE DEF a, b, op
  <2>3. CASE ~a.ok \/ ~Accepts(a.objs, op)
    <3>1. b = [a EXCEPT !.ok = FALSE]
      BY <2>1, <2>3 DEF ApplyOne
    <3>2. b = [ok |-> FALSE, objs |-> a.objs, inverse |-> a.inverse]
      BY <2>2, <3>1
    <3> QED BY <2>2, <3>2 DEF b
  <2>4. CASE a.ok /\ Accepts(a.objs, op) /\ Degrades(a.objs, op)
    <3>1. b = a
      BY <2>1, <2>4 DEF ApplyOne
    <3> QED BY <2>2, <3>1 DEF b
  <2>5. CASE a.ok /\ Accepts(a.objs, op) /\ ~Degrades(a.objs, op)
    <3>1. b = [ok |-> TRUE, objs |-> Effect(a.objs, op),
               inverse |-> InverseOps(a.objs, op) \o a.inverse]
      BY <2>1, <2>5 DEF ApplyOne
    <3>2. /\ Commented(b.objs)
          /\ Spares(op, v) => NoneNew(b.objs, a.objs, v)
          /\ ~Strips(op, w) => NoneLost(b.objs, a.objs, w)
      BY <2>1, <2>2, <2>5, <3>1, EffectOnComments
    <3>3. Spared => NoneNew(b.objs, objs, v)
      BY <2>1, <2>2, <3>2 DEF NoneNew
    <3>5. Intact => NoneLost(b.objs, objs, w)
      BY <2>1, <2>2, <3>2 DEF NoneLost
    <3>4. b = [ok |-> b.ok, objs |-> b.objs, inverse |-> b.inverse]
      BY <3>1
    <3> QED BY <3>2, <3>3, <3>4, <3>5 DEF b
  <2> QED BY <2>3, <2>4, <2>5
<1>5. Bad = {}
  <2> HIDE DEF Good
  <2> SUFFICES ASSUME Bad # {} PROVE FALSE
    OBVIOUS
  <2>1. PICK n \in Bad : \A x \in Bad : n <= x
    <3>1. Bad \in SUBSET Nat
      OBVIOUS
    <3> HIDE DEF Bad
    <3> QED BY <3>1, LeastExists
  <2>2. n \in 0..Len(ops) /\ ~Good(n) /\ n # 0
    BY <1>3, <2>1
  <2>3. n - 1 \in 0..Len(ops) /\ ~(n <= n - 1)
    BY <1>2, <2>2
  <2>4. Good(n - 1)
    BY <2>1, <2>3
  <2> QED BY <1>2, <1>4, <2>2, <2>4
<1>6. Good(Len(ops))
  <2> HIDE DEF Good
  <2> QED BY <1>2, <1>5
<1> QED BY <1>1, <1>6 DEF Spared, Intact

=============================================================================
