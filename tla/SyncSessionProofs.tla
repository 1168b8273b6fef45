-------------------------- MODULE SyncSessionProofs --------------------------
(***************************************************************************)
(* Theorems about the client's sync engine and its websocket session.      *)
(*                                                                         *)
(* An engine is Sound when it owns exactly the writes of its outbox and    *)
(* its rows are numbered upwards; one lemma for each function of the       *)
(* engine.  The queues towards a client are Ordered when every welcome in  *)
(* them tells a version no older than the base of the engine and than      *)
(* every ack and welcome queued before it; one lemma for each way a queue  *)
(* changes.  SInv says both of every client, and has one lemma for each    *)
(* action of the system.                                                   *)
(*                                                                         *)
(* FInv says beside it that the engine of a client whose ops were taken in *)
(* order shows the newest of its unacked writes to each field (Stands).    *)
(* An op changes no field but those it writes and removes no field         *)
(* (ObjectOpsProofs), and so does the engine when it authors, settles,     *)
(* takes a patch or replays its outbox; everything in the queues is an op  *)
(* that some client authors, or a snapshot.                                *)
(*                                                                         *)
(* CInv says beside both that a client carries an op that adds a comment   *)
(* under one number only, in whatever outbox, queue or frame of a broken   *)
(* connection (Carry), and that a scene that has the comment has it once   *)
(* and has seen the number (Placed).  No step but author makes a client    *)
(* carry more (Keeps), and no op puts a comment somewhere new but the one  *)
(* that adds it (ApplyOnComments).                                         *)
(***************************************************************************)
EXTENDS SyncSession, ObjectOpsProofs, SequenceTheorems

(* What a client may author, and the rows of its outbox. *)
AnyOp == UNION {Range(s[c]) : s \in Scripts, c \in Client}
Row == [n : Nat, op : AnyOp]

(* The writes to k that the ops of the rows S make. *)
Owing(S, k) ==
    {p \in S \X Nat : /\ p[2] \in DOMAIN OwnedKeys(p[1].op)
                      /\ OwnedKeys(p[1].op)[p[2]] = k}

-----------------------------------------------------------------------------

USE ScriptsAssumption

(* The keys an authored op writes are a list of keys. *)
LEMMA KeysAreSeq ==
    ASSUME NEW op \in AnyOp
    PROVE  \E U : OwnedKeys(op) \in Seq(U)
<1> DEFINE of(o) == CASE o.kind = "set-prop" -> <<<<o.id, "prop">>>>
                      [] o.kind = "set-text" -> <<<<o.id, "text">>>>
                      [] OTHER -> <<>>
<1>1. CASE op.kind # "batch"
  <2> DEFINE U == {<<op.id, "prop">>, <<op.id, "text">>}
  <2>1. of(op) \in Seq(U)
    OBVIOUS
  <2>2. OwnedKeys(op) = of(op)
    BY <1>1 DEF OwnedKeys
  <2> QED BY <2>1, <2>2
<1>2. CASE op.kind = "batch"
  <2> DEFINE U == {<<o.id, "prop">> : o \in Range(op.ops)}
                  \cup {<<o.id, "text">> : o \in Range(op.ops)}
             q == [n \in DOMAIN op.ops |-> of(op.ops[n])]
  <2>1. op.ops \in Seq(Range(op.ops))
    BY <1>2 DEF AnyOp
  <2>2. ASSUME NEW o \in Range(op.ops) PROVE of(o) \in Seq(U)
    <3>1. <<o.id, "prop">> \in U /\ <<o.id, "text">> \in U
      OBVIOUS
    <3> HIDE DEF U
    <3> QED BY <3>1
  <2>3. q \in Seq(Seq(U))
    <3>1. DOMAIN op.ops = 1..Len(op.ops) /\ Len(op.ops) \in Nat
      BY <2>1
    <3>2. \A n \in DOMAIN op.ops : of(op.ops[n]) \in Seq(U)
      <4> HIDE DEF of, U
      <4> QED BY <2>2 DEF Range
    <3> HIDE DEF of, U
    <3> QED BY <3>1, <3>2
  <2>4. OwnedKeys(op) = FlattenSeq(q)
    BY <1>2 DEF OwnedKeys
  <2> HIDE DEF q, U
  <2>5. CASE q # <<>>
    BY <2>3, <2>4, <2>5, FlattenIsSeq
  <2>6. CASE q = <<>>
    <3>1. FlattenSeq(<<>>) = <<>> /\ <<>> \in Seq({})
      BY DEF FlattenSeq
    <3> QED BY <2>4, <2>6, <3>1
  <2> QED BY <2>5, <2>6
<1> QED BY <1>1, <1>2

(* A row writes a key a finite number of times. *)
LEMMA TimesCounts ==
    ASSUME NEW r \in Row, NEW k
    PROVE  /\ Times(OwnedKeys(r.op), k) \in Nat
           /\ IsFiniteSet(Owing({r}, k))
           /\ Cardinality(Owing({r}, k)) = Times(OwnedKeys(r.op), k)
<1> DEFINE keys == OwnedKeys(r.op)
           at == {n \in DOMAIN keys : keys[n] = k}
           f == [n \in at |-> <<r, n>>]
<1>1. r.op \in AnyOp
  BY DEF Row
<1>2. PICK U : keys \in Seq(U)
  BY <1>1, KeysAreSeq
<1>3. DOMAIN keys = 1..Len(keys) /\ Len(keys) \in Nat
  BY <1>2
<1>4. IsFiniteSet(at)
  <2>1. IsFiniteSet(1..Len(keys)) /\ at \in SUBSET (1..Len(keys))
    BY <1>3, FS_Interval
  <2> QED BY <2>1, FS_Subset
<1>5. Times(keys, k) = Cardinality(at)
  BY DEF Times
<1>6. Owing({r}, k) = {<<r, n>> : n \in at}
  BY <1>3 DEF Owing
<1>7. f \in Bijection(at, Owing({r}, k))
  <2>1. f \in [at -> Owing({r}, k)]
    BY <1>6
  <2>2. \A m, n \in at : f[m] = f[n] => m = n
    OBVIOUS
  <2>3. \A p \in Owing({r}, k) : \E n \in at : f[n] = p
    BY <1>6
  <2> HIDE DEF f, at
  <2> QED BY <2>1, <2>2, <2>3 DEF Bijection, Injection, Surjection, IsInjective
<1>8. /\ IsFiniteSet(Owing({r}, k))
      /\ Cardinality(Owing({r}, k)) = Cardinality(at)
  <2> HIDE DEF at, f
  <2> QED BY <1>4, <1>7, FS_Bijection DEF ExistsBijection
<1>9. Cardinality(at) \in Nat
  BY <1>4, FS_CardinalityType
<1> QED BY <1>5, <1>8, <1>9

(* A finite set of rows writes a key a finite number of times ... *)
LEMMA OwingFinite ==
    ASSUME NEW S \in SUBSET Row, IsFiniteSet(S), NEW k
    PROVE  IsFiniteSet(Owing(S, k)) /\ Cardinality(Owing(S, k)) \in Nat
<1> DEFINE f == [r \in S |-> Owing({r}, k)]
           T == {Owing({r}, k) : r \in S}
<1>1. IsFiniteSet(T)
  <2>1. f \in Surjection(S, T)
    BY DEF Surjection
  <2> HIDE DEF f, T
  <2> QED BY <2>1, FS_Surjection
<1>2. \A t \in T : IsFiniteSet(t)
  BY TimesCounts
<1>3. Owing(S, k) = UNION T
  BY DEF Owing
<1>4. IsFiniteSet(UNION T)
  <2> HIDE DEF T
  <2> QED BY <1>1, <1>2, FS_UNION
<1> QED BY <1>3, <1>4, FS_CardinalityType

(* ... which a further row raises by the times that row writes it. *)
LEMMA OwingAdds ==
    ASSUME NEW S \in SUBSET Row, IsFiniteSet(S), NEW r \in Row, r \notin S, NEW k
    PROVE  Cardinality(Owing(S \cup {r}, k)) =
             Cardinality(Owing(S, k)) + Times(OwnedKeys(r.op), k)
<1>1. Owing(S \cup {r}, k) = Owing(S, k) \cup Owing({r}, k)
  BY DEF Owing
<1>2. Owing(S, k) \cap Owing({r}, k) = {}
  BY DEF Owing
<1>3. /\ IsFiniteSet(Owing(S, k)) /\ IsFiniteSet(Owing({r}, k))
      /\ Cardinality(Owing(S, k)) \in Nat
      /\ Times(OwnedKeys(r.op), k) \in Nat
      /\ Cardinality(Owing({r}, k)) = Times(OwnedKeys(r.op), k)
  BY OwingFinite, TimesCounts
<1>4. Cardinality(Owing(S, k) \cup Owing({r}, k)) =
        Cardinality(Owing(S, k)) + Cardinality(Owing({r}, k)) - Cardinality({})
  BY <1>2, <1>3, FS_Union
<1>5. Cardinality({}) = 0
  BY FS_EmptySet
<1> DEFINE a == Cardinality(Owing(S, k))
           b == Times(OwnedKeys(r.op), k)
<1>6. a \in Nat /\ b \in Nat /\ Cardinality(Owing({r}, k)) = b
  BY <1>3
<1>7. Cardinality(Owing(S \cup {r}, k)) = a + Cardinality(Owing({r}, k)) - 0
  BY <1>1, <1>4, <1>5, Zenon
<1> HIDE DEF a, b
<1>8. a + b - 0 = a + b
  BY <1>6
<1> QED BY <1>6, <1>7, <1>8, Zenon DEF a, b

(* The sum over the rows of the times they write a key is the number of their
   writes to it.                                                           *)
LEMMA OwesSum ==
    ASSUME NEW S \in SUBSET Row, IsFiniteSet(S), NEW k
    PROVE  MapThenSumSet(LAMBDA r : Times(OwnedKeys(r.op), k), S) =
             Cardinality(Owing(S, k))
<1> DEFINE w(r) == Times(OwnedKeys(r.op), k)
           pick(s) == CHOOSE r \in s : TRUE
           G == [s \in SUBSET S |-> Cardinality(Owing(s, k))]
           iter == CHOOSE f : f = [s \in SUBSET S |->
                     IF s = {} THEN 0 ELSE w(pick(s)) + f[s \ {pick(s)}]]
<1>1. ASSUME NEW s \in SUBSET S
      PROVE  G[s] = IF s = {} THEN 0 ELSE w(pick(s)) + G[s \ {pick(s)}]
  <2>1. CASE s = {}
    <3>1. Owing({}, k) = {}
      BY DEF Owing
    <3> QED BY <2>1, <3>1, FS_EmptySet
  <2>2. CASE s # {}
    <3> DEFINE r == pick(s)
               t == s \ {r}
    <3>1. r \in s /\ r \in Row /\ t \in SUBSET S /\ r \notin t /\ s = t \cup {r}
          /\ t \in SUBSET Row
      BY <2>2
    <3> HIDE DEF r, t
    <3>2. IsFiniteSet(t)
      BY <3>1, FS_Subset
    <3>3. Cardinality(Owing(s, k)) = Cardinality(Owing(t, k)) + w(r)
      BY <3>1, <3>2, OwingAdds
    <3>4. Cardinality(Owing(t, k)) \in Nat /\ w(r) \in Nat
      BY <3>1, <3>2, OwingFinite, TimesCounts
    <3> HIDE DEF w
    <3>5. G[s] = w(r) + G[t]
      BY <3>1, <3>3, <3>4
    <3> QED BY <2>2, <3>5 DEF r, t
  <2> QED BY <2>1, <2>2
<1>2. G = [s \in SUBSET S |-> IF s = {} THEN 0 ELSE w(pick(s)) + G[s \ {pick(s)}]]
  <2> HIDE DEF w, pick
  <2> QED BY <1>1
<1>3. iter = [s \in SUBSET S |->
                IF s = {} THEN 0 ELSE w(pick(s)) + iter[s \ {pick(s)}]]
  <2> HIDE DEF G, w, pick
  <2> QED BY <1>2
<1> HIDE DEF iter
<1>4. iter[S] = G[S]
  <2> DEFINE Bad == {Cardinality(s) : s \in {t \in SUBSET S : iter[t] # G[t]}}
  <2> SUFFICES ASSUME Bad # {} PROVE FALSE
    <3> HIDE DEF G
    <3> QED OBVIOUS
  <2>1. \A s \in SUBSET S : IsFiniteSet(s) /\ Cardinality(s) \in Nat
    BY FS_Subset, FS_CardinalityType
  <2>2. PICK m \in Bad : \A x \in Bad : m <= x
    <3>1. Bad \in SUBSET Nat
      BY <2>1
    <3> HIDE DEF Bad
    <3> QED BY <3>1, LeastExists
  <2>3. PICK s \in SUBSET S : iter[s] # G[s] /\ m = Cardinality(s)
    BY <2>2
  <2>4. s # {}
    <3> HIDE DEF G, w, pick
    <3> QED BY <1>1, <1>3, <2>3
  <2> DEFINE t == s \ {pick(s)}
  <2>5. t \in SUBSET S /\ Cardinality(t) = m - 1 /\ m \in Nat
    <3>1. pick(s) \in s
      BY <2>4
    <3> HIDE DEF pick
    <3> QED BY <2>1, <2>3, <3>1, FS_RemoveElement
  <2>6. iter[t] = G[t]
    <3>1. Cardinality(t) \notin Bad
      <4> HIDE DEF Bad, t
      <4> QED BY <2>2, <2>5
    <3> HIDE DEF t, G
    <3> QED BY <2>5, <3>1
  <2> HIDE DEF G, w, pick
  <2> QED BY <1>1, <1>3, <2>3, <2>4, <2>6
<1>5. MapThenSumSet(LAMBDA r : Times(OwnedKeys(r.op), k), S) = iter[S]
  BY DEF MapThenSumSet, MapThenFoldSet, iter
<1> QED BY <1>4, <1>5

-----------------------------------------------------------------------------

(* An outbox lists its rows by ascending local_seq. *)
Outbox(rows) ==
    /\ rows \in Seq(Row)
    /\ \A i, j \in DOMAIN rows : i < j => rows[i].n < rows[j].n

(* What the engine holds for the rows S, and owns for them. *)
Owns(e, S) ==
    /\ DOMAIN e.held = {r.n : r \in S}
    /\ \A r \in S : e.held[r.n] = OwnedKeys(r.op)
    /\ e.owned \in [Key -> Nat]
    /\ \A k \in Key : e.owned[k] = Cardinality(Owing(S, k))

Distinct(S) == \A r, q \in S : r.n = q.n => r = q

(* The fields of an engine. *)
Engine(e) ==
    e \in [objs : {e.objs}, base : {e.base}, seq : {e.seq}, rows : {e.rows},
           pending : {e.pending}, held : {e.held}, owned : {e.owned},
           fresh : {e.fresh}, made : {e.made}]

(* Taking one element out of a list moves the later ones up. *)
LEMMA RemoveAtIs ==
    ASSUME NEW S, NEW s \in Seq(S), NEW m \in 1..Len(s)
    PROVE  /\ RemoveAt(s, m) \in Seq(S)
           /\ Len(RemoveAt(s, m)) = Len(s) - 1
           /\ \A i \in 1..m - 1 : RemoveAt(s, m)[i] = s[i]
           /\ \A i \in m..Len(s) - 1 : RemoveAt(s, m)[i] = s[i + 1]
<1> DEFINE a == SubSeq(s, 1, m - 1)
           b == SubSeq(s, m + 1, Len(s))
<1>1. Len(s) \in Nat /\ m \in Nat /\ 1 <= m /\ m <= Len(s)
  OBVIOUS
<1>2. /\ a \in Seq(S) /\ Len(a) = m - 1
      /\ \A i \in 1..m - 1 : a[i] = s[i]
  BY <1>1
<1>3. /\ b \in Seq(S) /\ Len(b) = Len(s) - m
      /\ \A i \in 1..Len(s) - m : b[i] = s[m + i]
  BY <1>1
<1>4. RemoveAt(s, m) = a \o b
  BY DEF RemoveAt
<1> HIDE DEF a, b
<1>5. /\ a \o b \in Seq(S) /\ Len(a \o b) = Len(s) - 1
      /\ \A i \in 1..Len(s) - 1 :
            (a \o b)[i] = IF i <= m - 1 THEN a[i] ELSE b[i - (m - 1)]
  <2>1. /\ a \o b \in Seq(S) /\ Len(a \o b) = Len(a) + Len(b)
        /\ \A i \in 1..Len(a) + Len(b) :
              (a \o b)[i] = IF i <= Len(a) THEN a[i] ELSE b[i - Len(a)]
    BY <1>2, <1>3, ConcatProperties
  <2>2. Len(a) + Len(b) = Len(s) - 1
    BY <1>1, <1>2, <1>3
  <2> QED BY <1>2, <2>1, <2>2
<1>6. ASSUME NEW i \in 1..m - 1 PROVE (a \o b)[i] = s[i]
  BY <1>1, <1>2, <1>5
<1>7. ASSUME NEW i \in m..Len(s) - 1 PROVE (a \o b)[i] = s[i + 1]
  <2>1. /\ i - (m - 1) \in 1..Len(s) - m /\ m + (i - (m - 1)) = i + 1
        /\ ~(i <= m - 1) /\ i \in 1..Len(s) - 1
    BY <1>1
  <2> QED BY <1>3, <1>5, <2>1
<1> QED BY <1>4, <1>5, <1>6, <1>7

(* A row has a number and an op, and a list of rows holds rows. *)
LEMMA RowsTyped ==
    /\ \A r \in Row : r.n \in Nat /\ r.op \in AnyOp
    /\ \A q \in Seq(Row) :
          /\ Len(q) \in Nat /\ DOMAIN q = 1..Len(q)
          /\ \A i \in 1..Len(q) : q[i] \in Row
<1>1. \A r \in Row : r.n \in Nat /\ r.op \in AnyOp
  BY DEF Row
<1>2. \A q \in Seq(Row) : /\ Len(q) \in Nat /\ DOMAIN q = 1..Len(q)
                          /\ \A i \in 1..Len(q) : q[i] \in Row
  BY LenProperties, ElementOfSeq
<1> QED BY <1>1, <1>2

(* The rows of an outbox are finitely many, of different numbers. *)
LEMMA OutboxRows ==
    ASSUME NEW rows, Outbox(rows)
    PROVE  /\ Range(rows) \in SUBSET Row /\ IsFiniteSet(Range(rows))
           /\ Distinct(Range(rows))
           /\ Len(rows) \in Nat /\ DOMAIN rows = 1..Len(rows)
           /\ \A i \in DOMAIN rows : rows[i] \in Row /\ rows[i] \in Range(rows)
<1>1. IsFiniteSet(Range(rows))
  BY RangeFinite DEF Outbox
<1>2. /\ Len(rows) \in Nat /\ DOMAIN rows = 1..Len(rows)
      /\ \A i \in DOMAIN rows : rows[i] \in Row /\ rows[i].n \in Nat
  BY RowsTyped DEF Outbox
<1>3. Distinct(Range(rows))
  <2> SUFFICES ASSUME NEW i \in DOMAIN rows, NEW j \in DOMAIN rows,
                      rows[i].n = rows[j].n
               PROVE  i = j
    BY DEF Distinct, Range
  <2>1. ~(i < j) /\ ~(j < i)
    BY <1>2 DEF Outbox
  <2> QED BY <1>2, <2>1
<1> QED BY <1>1, <1>2, <1>3 DEF Range

(* remove takes out the row of that number, and only that. *)
LEMMA DroppedRows ==
    ASSUME NEW rows, Outbox(rows), NEW n
    PROVE  /\ Outbox(Dropped(rows, n))
           /\ Range(Dropped(rows, n)) = {r \in Range(rows) : r.n # n}
<1> DEFINE I == {i \in 1..Len(rows) : rows[i].n = n}
<1>1. /\ Len(rows) \in Nat /\ DOMAIN rows = 1..Len(rows) /\ rows \in Seq(Row)
      /\ \A i, j \in 1..Len(rows) : rows[i].n = rows[j].n => i = j
      /\ \A i, j \in 1..Len(rows) : i < j => rows[i].n < rows[j].n
  <2>1. /\ Len(rows) \in Nat /\ DOMAIN rows = 1..Len(rows) /\ rows \in Seq(Row)
        /\ \A i \in 1..Len(rows) : rows[i].n \in Nat
    BY RowsTyped DEF Outbox
  <2>2. \A i, j \in 1..Len(rows) : i < j => rows[i].n < rows[j].n
    BY <2>1 DEF Outbox
  <2>3. ASSUME NEW i \in 1..Len(rows), NEW j \in 1..Len(rows), i # j
        PROVE  rows[i].n # rows[j].n
    BY <2>1, <2>2, <2>3
  <2> QED BY <2>1, <2>2, <2>3
<1>2. CASE I = {}
  <2>1. Dropped(rows, n) = rows
    BY <1>2 DEF Dropped, RemoveFirstMatch
  <2>2. \A i \in DOMAIN rows : rows[i].n # n
    BY <1>1, <1>2
  <2> QED BY <2>1, <2>2 DEF Range
<1>3. CASE I # {}
  <2> DEFINE m == Min(I)
             q == RemoveAt(rows, m)
  <2>1. m \in 1..Len(rows) /\ rows[m].n = n
    <3>1. I \in SUBSET Nat
      OBVIOUS
    <3>2. Min(I) \in I
      <4> HIDE DEF I
      <4> QED BY <1>3, <3>1, MinOf
    <3> QED BY <3>2
  <2>2. Dropped(rows, n) = q
    BY <1>3 DEF Dropped, RemoveFirstMatch, SelectInSeq
  <2> HIDE DEF m, I
  <2>3. /\ q \in Seq(Row) /\ Len(q) = Len(rows) - 1
        /\ \A i \in 1..m - 1 : q[i] = rows[i]
        /\ \A i \in m..Len(rows) - 1 : q[i] = rows[i + 1]
    BY <1>1, <2>1, RemoveAtIs
  <2> HIDE DEF q
  <2>4. DOMAIN q = 1..Len(rows) - 1
    BY <2>3
  <2>5. Outbox(q)
    <3>1. ASSUME NEW i \in 1..Len(rows) - 1
          PROVE  \E k \in 1..Len(rows) : /\ q[i] = rows[k]
                                         /\ k = IF i < m THEN i ELSE i + 1
      BY <1>1, <2>1, <2>3
    <3>2. ASSUME NEW i \in 1..Len(rows) - 1, NEW j \in 1..Len(rows) - 1, i < j
          PROVE  q[i].n < q[j].n
      <4>1. PICK k \in 1..Len(rows) : q[i] = rows[k] /\ k = IF i < m THEN i ELSE i + 1
        BY <3>1
      <4>2. PICK l \in 1..Len(rows) : q[j] = rows[l] /\ l = IF j < m THEN j ELSE j + 1
        BY <3>1
      <4>3. k < l
        BY <1>1, <2>1, <3>2, <4>1, <4>2
      <4> QED BY <1>1, <4>1, <4>2, <4>3
    <3> QED BY <2>3, <2>4, <3>2 DEF Outbox
  <2>6. Range(q) \subseteq {r \in Range(rows) : r.n # n}
    <3> SUFFICES ASSUME NEW i \in DOMAIN q
                 PROVE  q[i] \in Range(rows) /\ q[i].n # n
      BY DEF Range
    <3> DEFINE j == IF i < m THEN i ELSE i + 1
    <3>1. j \in 1..Len(rows) /\ j # m /\ q[i] = rows[j]
      BY <1>1, <2>1, <2>3, <2>4
    <3> HIDE DEF j
    <3> QED BY <1>1, <2>1, <3>1 DEF Range
  <2>7. {r \in Range(rows) : r.n # n} \subseteq Range(q)
    <3> SUFFICES ASSUME NEW j \in DOMAIN rows, rows[j].n # n
                 PROVE  \E i \in DOMAIN q : q[i] = rows[j]
      BY DEF Range
    <3>1. j # m /\ j \in 1..Len(rows)
      BY <1>1, <2>1
    <3>2. CASE j < m
      <4>1. j \in 1..m - 1 /\ j \in DOMAIN q
        BY <1>1, <2>1, <2>4, <3>1, <3>2
      <4> QED BY <2>3, <4>1
    <3>3. CASE m < j
      <4>1. j - 1 \in m..Len(rows) - 1 /\ j - 1 \in DOMAIN q /\ (j - 1) + 1 = j
        BY <1>1, <2>1, <2>4, <3>1, <3>3
      <4> QED BY <2>3, <4>1
    <3> QED BY <1>1, <2>1, <3>1, <3>2, <3>3
  <2> QED BY <2>2, <2>5, <2>6, <2>7
<1> QED BY <1>2, <1>3

(* Taking ownership for a row adds its writes to what is owned. *)
LEMMA TakeOwns ==
    ASSUME NEW e, Engine(e), NEW S \in SUBSET Row, IsFiniteSet(S), Owns(e, S),
           NEW r \in Row, \A q \in S : q.n # r.n
    PROVE  LET f == TakeOwnership(e, r.n, OwnedKeys(r.op)) IN
           /\ Engine(f) /\ Owns(f, S \cup {r})
           /\ f.objs = e.objs /\ f.base = e.base /\ f.seq = e.seq
           /\ f.rows = e.rows /\ f.pending = e.pending /\ f.fresh = e.fresh
           /\ f.made = e.made
<1> DEFINE keys == OwnedKeys(r.op)
           f == TakeOwnership(e, r.n, keys)
           held == With(e.held, r.n, keys)
           owned == [k \in Key |-> e.owned[k] + Times(keys, k)]
<1>1. f = [e EXCEPT !.held = held, !.owned = owned]
  BY DEF TakeOwnership
<1>2. /\ DOMAIN held = {q.n : q \in S \cup {r}}
      /\ \A q \in S \cup {r} : held[q.n] = OwnedKeys(q.op)
  <2>1. held = [x \in DOMAIN e.held \cup {r.n} |->
                  IF x = r.n THEN keys ELSE e.held[x]]
    BY DEF With
  <2> HIDE DEF held, keys
  <2>2. DOMAIN held = {r.n} \cup {q.n : q \in S}
    BY <2>1 DEF Owns
  <2>3. \A q \in S : held[q.n] = OwnedKeys(q.op)
    BY <2>1 DEF Owns
  <2>4. held[r.n] = OwnedKeys(r.op)
    BY <2>1 DEF keys
  <2> QED BY <2>2, <2>3, <2>4
<1>3. /\ owned \in [Key -> Nat]
      /\ \A k \in Key : owned[k] = Cardinality(Owing(S \cup {r}, k))
  <2>1. r \notin S
    OBVIOUS
  <2>2. ASSUME NEW k \in Key
        PROVE  /\ owned[k] = Cardinality(Owing(S \cup {r}, k))
               /\ e.owned[k] + Times(keys, k) \in Nat
    <3>1. /\ e.owned[k] = Cardinality(Owing(S, k)) /\ e.owned[k] \in Nat
          /\ Times(keys, k) \in Nat
      BY TimesCounts DEF Owns
    <3>2. Cardinality(Owing(S \cup {r}, k)) =
            Cardinality(Owing(S, k)) + Times(keys, k)
      BY <2>1, OwingAdds
    <3> HIDE DEF keys
    <3> QED BY <3>1, <3>2
  <2> QED BY <2>2
<1> HIDE DEF held, owned, keys
<1> HIDE DEF f
<1>4. f.held = held /\ f.owned = owned
  BY <1>1 DEF Engine
<1>5. Owns(f, S \cup {r})
  BY <1>2, <1>3, <1>4 DEF Owns
<1>6. /\ Engine(f)
      /\ f.objs = e.objs /\ f.base = e.base /\ f.seq = e.seq
      /\ f.rows = e.rows /\ f.pending = e.pending /\ f.fresh = e.fresh
      /\ f.made = e.made
  BY <1>1 DEF Engine
<1> QED BY <1>5, <1>6 DEF keys, f

(* Releasing it takes just that row's writes away again. *)
LEMMA ReleaseOwns ==
    ASSUME NEW e, Engine(e), NEW S \in SUBSET Row, IsFiniteSet(S), Owns(e, S),
           Distinct(S), NEW n
    PROVE  LET f == ReleaseOwnership(e, n) IN
           /\ Engine(f) /\ Owns(f, {r \in S : r.n # n})
           /\ f.objs = e.objs /\ f.base = e.base /\ f.seq = e.seq
           /\ f.rows = e.rows /\ f.pending = e.pending /\ f.fresh = e.fresh
           /\ f.made = e.made
<1> DEFINE f == ReleaseOwnership(e, n)
           rest == {r \in S : r.n # n}
           held == Restrict(e.held, DOMAIN e.held \ {n})
           owned == [k \in Key |-> Less(e.owned[k], Times(HeldBy(e, n), k))]
<1>1. f = [e EXCEPT !.held = held, !.owned = owned]
  BY DEF ReleaseOwnership
<1>2. /\ DOMAIN held = {r.n : r \in rest}
      /\ \A r \in rest : held[r.n] = OwnedKeys(r.op)
  <2>1. held = [x \in DOMAIN e.held \ {n} |-> e.held[x]]
    BY DEF Restrict
  <2> HIDE DEF held
  <2> QED BY <2>1 DEF Owns
<1>3. /\ owned \in [Key -> Nat]
      /\ \A k \in Key : owned[k] = Cardinality(Owing(rest, k))
  <2>1. CASE n \in {r.n : r \in S}
    <3>1. PICK r \in S : r.n = n
      BY <2>1
    <3>2. HeldBy(e, n) = OwnedKeys(r.op)
      BY <3>1 DEF HeldBy, Owns
    <3>3. S = rest \cup {r} /\ r \notin rest /\ rest \in SUBSET Row /\ r \in Row
      BY <3>1 DEF Distinct
    <3>4. IsFiniteSet(rest)
      BY FS_Subset
    <3> HIDE DEF rest
    <3>5. ASSUME NEW k \in Key
          PROVE  /\ owned[k] = Cardinality(Owing(rest, k)) /\ owned[k] \in Nat
      <4> DEFINE a == Cardinality(Owing(rest, k))
                 b == Times(OwnedKeys(r.op), k)
      <4>1. e.owned[k] = a + b
        <5>1. Cardinality(Owing(rest \cup {r}, k)) = a + b
          BY <3>3, <3>4, OwingAdds
        <5> QED BY <3>3, <5>1 DEF Owns
      <4>2. a \in Nat /\ b \in Nat
        BY <3>3, <3>4, OwingFinite, TimesCounts
      <4>3. owned[k] = Less(e.owned[k], b)
        BY <3>2
      <4> HIDE DEF a, b, owned
      <4>4. owned[k] = a
        BY <4>1, <4>2, <4>3 DEF Less
      <4> QED BY <4>2, <4>4 DEF a
    <3>6. owned = [k \in Key |-> owned[k]]
      OBVIOUS
    <3> HIDE DEF owned
    <3> QED BY <3>5, <3>6
  <2>2. CASE n \notin {r.n : r \in S}
    <3>1. rest = S
      BY <2>2
    <3>2. HeldBy(e, n) = <<>>
      BY <2>2 DEF HeldBy, Owns
    <3>3. ASSUME NEW k \in Key
          PROVE  owned[k] = e.owned[k]
      <4>1. Times(<<>>, k) = 0
        <5>1. {x \in DOMAIN <<>> : <<>>[x] = k} = {}
          OBVIOUS
        <5> QED BY <5>1, FS_EmptySet DEF Times
      <4>2. e.owned[k] \in Nat
        BY DEF Owns
      <4>3. owned[k] = Less(e.owned[k], 0)
        BY <3>2, <4>1
      <4> HIDE DEF owned
      <4> QED BY <4>2, <4>3 DEF Less
    <3>4. owned = [k \in Key |-> owned[k]]
      OBVIOUS
    <3> HIDE DEF owned, rest
    <3> QED BY <3>1, <3>3, <3>4 DEF Owns
  <2> QED BY <2>1, <2>2
<1> HIDE DEF held, owned, rest
<1> HIDE DEF f
<1>4. f.held = held /\ f.owned = owned
  BY <1>1 DEF Engine
<1>5. Owns(f, rest)
  BY <1>2, <1>3, <1>4 DEF Owns
<1>6. /\ Engine(f)
      /\ f.objs = e.objs /\ f.base = e.base /\ f.seq = e.seq
      /\ f.rows = e.rows /\ f.pending = e.pending /\ f.fresh = e.fresh
      /\ f.made = e.made
  BY <1>1 DEF Engine
<1> QED BY <1>5, <1>6 DEF rest, f

(* reconcile_snapshot's replay of the outbox. *)
Replayed(e, rows) == FoldLeft(Replay, e, rows)

(* Replaying the rows one by one is a recursion that has a solution: the fold
   over the outbox is what each of its steps makes of the one before.      *)
LEMMA ReplaySteps ==
    ASSUME NEW rows, Outbox(rows), NEW e
    PROVE  \E f : /\ Replayed(e, rows) = f[Len(rows)]
                  /\ f[0] = e
                  /\ \A n \in 1..Len(rows) : f[n] = Replay(f[n - 1], rows[n])
<1> DEFINE D == DOMAIN rows
           next(v, s) == Replay(v, rows[Max(s)])
           prev(s) == s \ {Max(s)}
           Small(m) == {s \in SUBSET D : Cardinality(s) <= m}
           Solves(g, T) == g = [s \in T |-> IF s = {} THEN e
                                            ELSE next(g[prev(s)], s)]
           Bad == {m \in Nat : ~ \E g : Solves(g, Small(m))}
<1>1. Len(rows) \in Nat /\ D = 1..Len(rows) /\ IsFiniteSet(D)
  BY OutboxRows, FS_Interval
<1>2. ASSUME NEW s \in SUBSET D, s # {}
      PROVE  Max(s) \in s /\ \A y \in s : y <= Max(s)
  <2>1. s \in SUBSET Nat /\ \A y \in s : y <= Len(rows)
    BY <1>1
  <2> QED BY <1>1, <1>2, <2>1, MaxOf
<1>3. ASSUME NEW s \in SUBSET D
      PROVE  /\ IsFiniteSet(s) /\ Cardinality(s) \in Nat
             /\ Cardinality(s) <= Cardinality(D) /\ Cardinality(D) \in Nat
             /\ s = {} <=> Cardinality(s) = 0
             /\ s # {} => prev(s) \in SUBSET D
                          /\ Cardinality(prev(s)) = Cardinality(s) - 1
  <2>1. /\ IsFiniteSet(s) /\ Cardinality(s) \in Nat
        /\ Cardinality(s) <= Cardinality(D) /\ Cardinality(D) \in Nat
    BY <1>1, FS_Subset, FS_CardinalityType
  <2>2. s # {} => prev(s) \in SUBSET D /\ Cardinality(prev(s)) = Cardinality(s) - 1
    BY <1>2, <2>1, FS_RemoveElement
  <2> QED BY <2>1, <2>2, FS_EmptySet
<1> HIDE DEF next, prev
<1>4. Bad = {}
  <2> SUFFICES ASSUME Bad # {} PROVE FALSE
    OBVIOUS
  <2>1. PICK m \in Bad : \A x \in Bad : m <= x
    <3>1. Bad \in SUBSET Nat
      OBVIOUS
    <3> HIDE DEF Bad
    <3> QED BY <3>1, LeastExists
  <2>2. m \in Nat /\ ~ \E g : Solves(g, Small(m))
    BY <2>1
  <2>3. m # 0
    <3>1. Small(0) = {{}}
      BY <1>3
    <3>2. Solves([s \in {{}} |-> e], {{}})
      OBVIOUS
    <3> HIDE DEF Small, Solves
    <3> QED BY <2>2, <3>1, <3>2
  <2>4. PICK g : Solves(g, Small(m - 1))
    <3>1. m - 1 \in Nat /\ m - 1 \notin Bad
      <4> HIDE DEF Bad
      <4> QED BY <2>1, <2>2, <2>3
    <3> HIDE DEF Small, Solves
    <3> QED BY <3>1
  <2> DEFINE h == [s \in Small(m) |-> IF s = {} THEN e ELSE next(g[prev(s)], s)]
  <2>5. ASSUME NEW s \in Small(m), s # {}
        PROVE  h[prev(s)] = g[prev(s)]
    <3>1. prev(s) \in Small(m - 1) /\ prev(s) \in Small(m)
      BY <1>3, <2>2, <2>5
    <3> HIDE DEF Small
    <3> QED BY <2>4, <3>1
  <2>6. Solves(h, Small(m))
    <3> HIDE DEF Small
    <3> QED BY <2>5
  <2> QED BY <2>2, <2>6
<1> DEFINE iter == CHOOSE g : Solves(g, SUBSET D)
<1>5. Solves(iter, SUBSET D)
  <2>1. Small(Cardinality(D)) = SUBSET D
    BY <1>3
  <2>2. Cardinality(D) \in Nat
    BY <1>1, FS_CardinalityType
  <2>3. \E g : Solves(g, SUBSET D)
    <3>1. PICK m \in Nat : m = Cardinality(D)
      BY <2>2
    <3>2. \E g : Solves(g, Small(m))
      <4> HIDE DEF Small, Solves
      <4> QED BY <1>4
    <3>3. Small(m) = SUBSET D
      BY <2>1, <3>1
    <3> HIDE DEF Small, Solves
    <3> QED BY <3>2, <3>3
  <2> HIDE DEF Solves
  <2> QED BY <2>3
<1>6. Replayed(e, rows) = iter[D]
  BY DEF Replayed, FoldLeft, MapThenFoldSet, next, prev
<1> HIDE DEF iter
<1> DEFINE f == [n \in 0..Len(rows) |-> iter[1..n]]
<1>7. f[0] = e
  <2>1. 1..0 = {} /\ {} \in SUBSET D
    OBVIOUS
  <2> QED BY <1>1, <1>5, <2>1
<1>8. ASSUME NEW n \in 1..Len(rows) PROVE f[n] = Replay(f[n - 1], rows[n])
  <2>1. 1..n \in SUBSET D /\ n \in 1..n /\ 1..n # {}
    BY <1>1
  <2>2. Max(1..n) = n
    <3>1. Max(1..n) \in 1..n /\ n <= Max(1..n)
      BY <1>2, <2>1
    <3> QED BY <1>1, <3>1
  <2>3. prev(1..n) = 1..n - 1
    BY <1>1, <2>2 DEF prev
  <2>4. iter[1..n] = next(iter[1..n - 1], 1..n)
    BY <1>5, <2>1, <2>3
  <2> QED BY <1>1, <2>2, <2>4 DEF next
<1>9. Replayed(e, rows) = f[Len(rows)]
  BY <1>1, <1>6
<1> HIDE DEF f
<1> QED BY <1>7, <1>8, <1>9

(* An engine that replays its outbox onto a welcome owns what the outbox
   writes, and nothing else of it but the objects changes.                 *)
LEMMA ReplayOwns ==
    ASSUME NEW rows, Outbox(rows), NEW e, Engine(e), Owns(e, {})
    PROVE  LET f == Replayed(e, rows) IN
           /\ Engine(f) /\ Owns(f, Range(rows))
           /\ f.base = e.base /\ f.seq = e.seq /\ f.rows = e.rows
           /\ f.pending = e.pending /\ f.fresh = e.fresh /\ f.made = e.made
<1>1. PICK f : /\ Replayed(e, rows) = f[Len(rows)]
               /\ f[0] = e
               /\ \A n \in 1..Len(rows) : f[n] = Replay(f[n - 1], rows[n])
  BY ReplaySteps
<1>2. /\ Len(rows) \in Nat /\ DOMAIN rows = 1..Len(rows)
      /\ \A i \in 1..Len(rows) : rows[i] \in Row
      /\ \A i, j \in 1..Len(rows) : i # j => rows[i].n # rows[j].n
  <2>1. \A i, j \in DOMAIN rows : rows[i].n = rows[j].n => i = j
    <3> SUFFICES ASSUME NEW i \in DOMAIN rows, NEW j \in DOMAIN rows, i < j \/ j < i
                 PROVE  rows[i].n # rows[j].n
      BY OutboxRows
    <3>1. rows[i].n \in Nat /\ rows[j].n \in Nat
      BY OutboxRows, RowsTyped
    <3> QED BY <3>1 DEF Outbox
  <2> QED BY <2>1, OutboxRows
<1> DEFINE upTo(n) == {rows[i] : i \in 1..n}
           Good(n) == /\ Engine(f[n]) /\ Owns(f[n], upTo(n))
                      /\ f[n].base = e.base /\ f[n].seq = e.seq
                      /\ f[n].rows = e.rows /\ f[n].pending = e.pending
                      /\ f[n].fresh = e.fresh /\ f[n].made = e.made
           Bad == {n \in 0..Len(rows) : ~Good(n)}
<1>3. Good(0)
  <2>1. upTo(0) = {}
    OBVIOUS
  <2> HIDE DEF upTo
  <2> QED BY <1>1, <2>1
<1>4. ASSUME NEW n \in 1..Len(rows), Good(n - 1) PROVE Good(n)
  <2> DEFINE S == upTo(n - 1)
             r == rows[n]
             g == [f[n - 1] EXCEPT !.objs = Apply(@, r.op).objs]
  <2>1. S \in SUBSET Row /\ IsFiniteSet(S) /\ r \in Row
    <3>1. S \in SUBSET Range(rows)
      BY <1>2 DEF Range
    <3>2. Range(rows) \in SUBSET Row /\ IsFiniteSet(Range(rows)) /\ r \in Row
      BY <1>2, OutboxRows
    <3> HIDE DEF S
    <3> QED BY <3>1, <3>2, FS_Subset
  <2>2. \A q \in S : q.n # r.n
    BY <1>2
  <2>3. upTo(n) = S \cup {r}
    <3>1. 1..n = (1..n - 1) \cup {n}
      BY <1>2
    <3> QED BY <3>1
  <2>4. /\ Engine(g) /\ g.base = e.base /\ g.seq = e.seq /\ g.rows = e.rows
        /\ g.pending = e.pending /\ g.fresh = e.fresh /\ g.made = e.made
        /\ g.held = f[n - 1].held /\ g.owned = f[n - 1].owned
    <3> HIDE DEF S, r, upTo
    <3> QED BY <1>4 DEF Engine
  <2>5. f[n] = TakeOwnership(g, r.n, OwnedKeys(r.op))
    BY <1>1 DEF Replay
  <2> HIDE DEF S, r, g
  <2>6. Owns(g, S)
    BY <1>4, <2>4 DEF Owns, S
  <2> DEFINE h == TakeOwnership(g, r.n, OwnedKeys(r.op))
  <2>7. /\ Engine(h) /\ Owns(h, S \cup {r}) /\ h.base = g.base /\ h.seq = g.seq
        /\ h.rows = g.rows /\ h.pending = g.pending /\ h.fresh = g.fresh
        /\ h.made = g.made
    BY <2>1, <2>2, <2>4, <2>6, TakeOwns
  <2> HIDE DEF upTo, h
  <2> QED BY <2>3, <2>4, <2>5, <2>7 DEF h
<1>5. Bad = {}
  <2> HIDE DEF Good
  <2> SUFFICES ASSUME Bad # {} PROVE FALSE
    OBVIOUS
  <2>1. PICK n \in Bad : \A x \in Bad : n <= x
    <3>1. Bad \in SUBSET Nat
      OBVIOUS
    <3> HIDE DEF Bad
    <3> QED BY <3>1, LeastExists
  <2>2. n \in 0..Len(rows) /\ ~Good(n) /\ n # 0
    BY <1>3, <2>1
  <2>3. n - 1 \in 0..Len(rows) /\ ~(n <= n - 1)
    BY <1>2, <2>2
  <2>4. Good(n - 1)
    BY <2>1, <2>3
  <2> QED BY <1>2, <1>4, <2>2, <2>4
<1>6. Good(Len(rows))
  <2> HIDE DEF Good
  <2> QED BY <1>2, <1>5
<1>7. upTo(Len(rows)) = Range(rows)
  BY <1>2 DEF Range
<1> QED BY <1>1, <1>6, <1>7

-----------------------------------------------------------------------------

(* An engine owns what its outbox writes, and numbers its ops upwards. *)
Sound(e) ==
    /\ Engine(e) /\ Outbox(e.rows) /\ Owns(e, Range(e.rows))
    /\ e.base \in Nat /\ e.seq \in Nat /\ e.made \in Nat
    /\ \A i \in DOMAIN e.rows : e.rows[i].n <= e.seq

(* An engine made from a welcome has nothing unacked. *)
LEMMA NewSound ==
    ASSUME NEW objs
    PROVE  Sound(NewEngine(objs, 0)) /\ NewEngine(objs, 0).base = 0
<1> DEFINE e == NewEngine(objs, 0)
<1>1. /\ e.held = NoneHeld /\ e.owned = [k \in Key |-> 0] /\ e.rows = <<>>
      /\ e.base = 0 /\ e.seq = 0 /\ e.made = 0 /\ Engine(e)
  BY DEF NewEngine, Engine
<1> HIDE DEF e
<1>2. Range(e.rows) = {} /\ Outbox(e.rows) /\ DOMAIN e.rows = {}
  BY <1>1 DEF Range, Outbox
<1>3. \A k : Cardinality(Owing({}, k)) = 0
  <2>1. \A k : Owing({}, k) = {}
    BY DEF Owing
  <2> QED BY <2>1, FS_EmptySet
<1>4. Owns(e, {})
  BY <1>1, <1>3 DEF Owns, NoneHeld
<1>5. Owns(e, Range(e.rows))
  BY <1>2, <1>4
<1>6. \A i \in DOMAIN e.rows : e.rows[i].n <= e.seq
  BY <1>2
<1>7. e.base \in Nat /\ e.seq \in Nat /\ e.made \in Nat
  BY <1>1
<1>8. Sound(e)
  BY <1>1, <1>2, <1>5, <1>6, <1>7 DEF Sound
<1> QED BY <1>1, <1>8 DEF e

(* Dropping a row, and what it owns, leaves the others and theirs. *)
LEMMA SettleSound ==
    ASSUME NEW e, Sound(e), NEW n
    PROVE  Sound(Settle(e, n)) /\ Settle(e, n).base = e.base
<1> DEFINE f == ReleaseOwnership(e, n)
           g == Settle(e, n)
           rest == {r \in Range(e.rows) : r.n # n}
           rows == Dropped(e.rows, n)
<1>1. /\ Range(e.rows) \in SUBSET Row /\ IsFiniteSet(Range(e.rows))
      /\ Distinct(Range(e.rows))
  BY OutboxRows DEF Sound
<1>2. /\ Engine(f) /\ Owns(f, rest) /\ f.base = e.base /\ f.seq = e.seq
      /\ f.rows = e.rows /\ f.made = e.made
  <2> DEFINE S == Range(e.rows)
  <2>1. Engine(e) /\ Owns(e, S) /\ S \in SUBSET Row /\ IsFiniteSet(S) /\ Distinct(S)
    BY <1>1 DEF Sound
  <2>2. rest = {r \in S : r.n # n}
    OBVIOUS
  <2> HIDE DEF S, rest
  <2> QED BY <2>1, <2>2, ReleaseOwns
<1>3. Outbox(rows) /\ Range(rows) = rest
  BY DroppedRows DEF Sound
<1>4. g = [f EXCEPT !.rows = rows]
  BY <1>2 DEF Settle
<1> HIDE DEF f, g, rows, rest
<1>5. /\ Engine(g) /\ g.rows = rows /\ g.held = f.held /\ g.owned = f.owned
      /\ g.base = e.base /\ g.seq = e.seq /\ g.made = e.made
  BY <1>2, <1>4 DEF Engine
<1>6. Owns(g, Range(g.rows))
  BY <1>2, <1>3, <1>5 DEF Owns
<1>7. \A i \in DOMAIN g.rows : g.rows[i].n <= g.seq
  <2> SUFFICES ASSUME NEW i \in DOMAIN rows PROVE rows[i].n <= e.seq
    BY <1>5
  <2>1. rows[i] \in Range(e.rows)
    BY <1>3 DEF Range, rest
  <2> QED BY <2>1 DEF Range, Sound
<1> QED BY <1>3, <1>5, <1>6, <1>7 DEF Sound, g

(* on_ack and on_rejected *)
LEMMA OnAckSound ==
    ASSUME NEW e, Sound(e), NEW n, NEW revision \in Nat
    PROVE  /\ Sound(OnAck(e, n, revision))
           /\ OnAck(e, n, revision).base =
                IF revision > e.base THEN revision ELSE e.base
<1> DEFINE f == Settle(e, n)
           b == IF revision > e.base THEN revision ELSE e.base
           g == OnAck(e, n, revision)
<1>1. Sound(f) /\ f.base = e.base /\ b \in Nat
  BY SettleSound DEF Sound
<1>2. g = [f EXCEPT !.base = b]
  BY <1>1 DEF OnAck
<1> HIDE DEF f, g, b
<1>3. /\ Engine(g) /\ g.base = b /\ g.rows = f.rows /\ g.held = f.held
      /\ g.owned = f.owned /\ g.seq = f.seq /\ g.made = f.made
  BY <1>1, <1>2 DEF Sound, Engine
<1>4. Sound(g)
  BY <1>1, <1>3 DEF Sound, Owns
<1> QED BY <1>3, <1>4 DEF g, b

(* apply_remote only touches the objects. *)
LEMMA RemoteSound ==
    ASSUME NEW e, Sound(e), NEW op
    PROVE  Sound(ApplyRemote(e, op)) /\ ApplyRemote(e, op).base = e.base
<1> DEFINE g == [e EXCEPT !.objs = Apply(e.objs, op).objs]
<1>1. ApplyRemote(e, op) \in {e, g}
  BY DEF ApplyRemote
<1>2. /\ Engine(g) /\ g.base = e.base /\ g.rows = e.rows /\ g.held = e.held
      /\ g.owned = e.owned /\ g.seq = e.seq /\ g.made = e.made
  BY DEF Sound, Engine
<1> HIDE DEF g
<1>3. Sound(g)
  BY <1>2 DEF Sound, Owns
<1> QED BY <1>1, <1>2, <1>3

(* The local_seq that a reseed takes from the outbox is not below any of it. *)
LEMMA ReseedSound ==
    ASSUME NEW e, Sound(e)
    PROVE  Sound(Reseed(e)) /\ Reseed(e).base = e.base /\ Reseed(e).rows = e.rows
<1> DEFINE T == {0} \cup {r.n : r \in Range(e.rows)}
           g == Reseed(e)
<1>1. T \in SUBSET Nat /\ T # {} /\ \A y \in T : y <= e.seq
  <2>1. \A r \in Range(e.rows) : r.n \in Nat /\ r.n <= e.seq
    BY OutboxRows, RowsTyped DEF Sound, Range
  <2> QED BY <2>1 DEF Sound
<1>2. Max(T) \in Nat /\ \A y \in T : y <= Max(T)
  <2> HIDE DEF T
  <2> QED BY <1>1, MaxOf DEF Sound
<1>3. g = [e EXCEPT !.seq = Max(T)]
  BY DEF Reseed
<1>4. \A i \in DOMAIN e.rows : e.rows[i].n \in T
  BY DEF Range
<1> HIDE DEF T, g
<1>5. /\ Engine(g) /\ g.base = e.base /\ g.rows = e.rows /\ g.held = e.held
      /\ g.owned = e.owned /\ g.seq = Max(T) /\ g.made = e.made
  BY <1>3 DEF Sound, Engine
<1>6. Sound(g)
  BY <1>2, <1>4, <1>5 DEF Sound, Owns
<1> QED BY <1>5, <1>6 DEF g

(* reconcile_snapshot adopts the welcome's revision unless it is older, and
   owns again what the outbox writes.                                      *)
LEMMA ReconcileSound ==
    ASSUME NEW e, Sound(e), NEW snap, snap.version \in Nat
    PROVE  /\ Sound(Reconcile(e, snap))
           /\ Reconcile(e, snap).base =
                IF snap.version < e.base THEN e.base ELSE snap.version
<1> DEFINE d == Reseed(e)
           g == Reconcile(e, snap)
<1>1. Sound(d) /\ d.base = e.base /\ d.rows = e.rows
  BY ReseedSound
<1> HIDE DEF d
<1>2. CASE snap.version < e.base
  <2>1. g = [d EXCEPT !.fresh = FALSE]
    BY <1>2 DEF Reconcile, Stale, d
  <2> HIDE DEF g
  <2>2. /\ Engine(g) /\ g.base = d.base /\ g.rows = d.rows /\ g.held = d.held
        /\ g.owned = d.owned /\ g.seq = d.seq /\ g.made = d.made
    BY <1>1, <2>1 DEF Sound, Engine
  <2>3. Sound(g)
    BY <1>1, <2>2 DEF Sound, Owns
  <2> QED BY <1>1, <1>2, <2>2, <2>3 DEF g
<1>3. CASE ~(snap.version < e.base)
  <2> DEFINE s == [d EXCEPT !.fresh = FALSE, !.base = snap.version,
                            !.objs = snap.objs, !.held = NoneHeld,
                            !.owned = [k \in Key |-> 0]]
             f == Replayed(s, e.rows)
  <2>1. /\ Engine(s) /\ s.base = snap.version /\ s.rows = d.rows
        /\ s.held = NoneHeld /\ s.owned = [k \in Key |-> 0]
        /\ s.seq = d.seq /\ s.made = d.made
    BY <1>1 DEF Sound, Engine
  <2>2. g = f
    BY <1>3 DEF Reconcile, Stale, Replayed, d
  <2> HIDE DEF s, f, g
  <2>3. \A k : Cardinality(Owing({}, k)) = 0
    <3>1. \A k : Owing({}, k) = {}
      BY DEF Owing
    <3> QED BY <3>1, FS_EmptySet
  <2>4. Owns(s, {})
    BY <2>1, <2>3 DEF Owns, NoneHeld
  <2>5. /\ Engine(f) /\ Owns(f, Range(e.rows)) /\ f.base = s.base
        /\ f.seq = s.seq /\ f.rows = s.rows /\ f.made = s.made
    BY <2>1, <2>4, ReplayOwns DEF Sound, f
  <2>6. Sound(f)
    BY <1>1, <2>1, <2>5 DEF Sound
  <2> QED BY <1>3, <2>1, <2>2, <2>5, <2>6 DEF g
<1> QED BY <1>2, <1>3

(* A new row at the end of an outbox, with a number of its own. *)
LEMMA AddedRow ==
    ASSUME NEW rows, Outbox(rows), NEW row \in Row,
           \A i \in DOMAIN rows : rows[i].n < row.n
    PROVE  LET more == Append(rows, row) IN
           /\ Outbox(more) /\ Range(more) = Range(rows) \cup {row}
           /\ \A i \in DOMAIN more : more[i].n <= row.n
<1> DEFINE more == Append(rows, row)
<1>1. rows \in Seq(Row) /\ row.n \in Nat
  BY RowsTyped DEF Outbox
<1>2. /\ more \in Seq(Row) /\ Len(more) = Len(rows) + 1 /\ Len(rows) \in Nat
      /\ DOMAIN more = 1..Len(rows) + 1 /\ DOMAIN rows = 1..Len(rows)
      /\ \A i \in 1..Len(rows) : more[i] = rows[i]
      /\ more[Len(rows) + 1] = row
  BY <1>1
<1> HIDE DEF more
<1>3. \A i \in 1..Len(rows) : rows[i].n \in Nat /\ rows[i].n < row.n
  BY <1>1, <1>2, RowsTyped
<1>4. Outbox(more)
  <2> SUFFICES ASSUME NEW i \in DOMAIN more, NEW j \in DOMAIN more, i < j
               PROVE  more[i].n < more[j].n
    BY <1>2 DEF Outbox
  <2>1. i \in 1..Len(rows)
    BY <1>2
  <2>2. CASE j \in 1..Len(rows)
    BY <1>2, <2>1, <2>2 DEF Outbox
  <2>3. CASE j = Len(rows) + 1
    BY <1>2, <1>3, <2>1, <2>3
  <2> QED BY <1>2, <2>2, <2>3
<1>5. Range(more) = Range(rows) \cup {row}
  BY <1>2 DEF Range
<1>6. \A i \in DOMAIN more : more[i].n <= row.n
  <2> SUFFICES ASSUME NEW i \in DOMAIN more PROVE more[i].n <= row.n
    OBVIOUS
  <2>1. CASE i \in 1..Len(rows)
    BY <1>1, <1>2, <1>3, <2>1
  <2>2. CASE i = Len(rows) + 1
    BY <1>1, <1>2, <2>2
  <2> QED BY <1>2, <2>1, <2>2
<1> QED BY <1>4, <1>5, <1>6 DEF more

(* What author makes of the engine. *)
Authored(e, op, objs, pending) ==
    LET row == [n |-> e.seq + 1, op |-> op] IN
    [TakeOwnership(e, row.n, OwnedKeys(op)) EXCEPT
       !.objs = objs, !.seq = row.n, !.made = @ + 1,
       !.rows = Append(@, row), !.pending = pending]

(* author numbers its op after every row, and owns its keys. *)
LEMMA AuthorSound ==
    ASSUME NEW e, Sound(e), NEW op \in AnyOp, NEW objs, NEW pending
    PROVE  LET g == Authored(e, op, objs, pending)
           IN  Sound(g) /\ g.base = e.base
<1> DEFINE row == [n |-> e.seq + 1, op |-> op]
           f == TakeOwnership(e, row.n, OwnedKeys(op))
           more == Append(e.rows, row)
           g == [f EXCEPT !.objs = objs, !.seq = row.n, !.made = @ + 1,
                          !.rows = Append(@, row), !.pending = pending]
           S == Range(e.rows)
<1>1. row \in Row /\ row.n = e.seq + 1 /\ row.op = op
  BY DEF Row, Sound
<1>2. \A i \in DOMAIN e.rows : e.rows[i].n < row.n
  BY OutboxRows, RowsTyped, <1>1 DEF Sound
<1>3. /\ Outbox(more) /\ Range(more) = S \cup {row}
      /\ \A i \in DOMAIN more : more[i].n <= row.n
  <2> HIDE DEF row
  <2> QED BY <1>1, <1>2, AddedRow DEF Sound
<1>4. \A q \in S : q.n # row.n
  <2>1. \A q \in S : q.n \in Nat /\ q.n < row.n
    BY <1>2, OutboxRows, RowsTyped DEF Sound, Range
  <2> QED BY <2>1, <1>1 DEF Sound
<1>5. Engine(e) /\ Owns(e, S) /\ S \in SUBSET Row /\ IsFiniteSet(S)
  BY OutboxRows DEF Sound
<1> HIDE DEF row, S
<1>6. /\ Engine(f) /\ Owns(f, S \cup {row}) /\ f.base = e.base
      /\ f.rows = e.rows /\ f.made = e.made
  BY <1>1, <1>4, <1>5, TakeOwns
<1> HIDE DEF f
<1>7. /\ Engine(g) /\ g.base = e.base /\ g.rows = more /\ g.held = f.held
      /\ g.owned = f.owned /\ g.seq = row.n /\ g.made = e.made + 1
  BY <1>6 DEF Engine
<1> HIDE DEF g, more
<1>8. Sound(g)
  <2>1. Owns(g, Range(g.rows))
    BY <1>3, <1>6, <1>7 DEF Owns
  <2>2. g.base \in Nat /\ g.seq \in Nat /\ g.made \in Nat
    BY <1>1, <1>7 DEF Sound
  <2> QED BY <1>3, <1>7, <2>1, <2>2 DEF Sound
<1> QED BY <1>7, <1>8 DEF g, f, row, Authored

-----------------------------------------------------------------------------

(* The sessions.  A frame is dated if it tells a revision of the scene. *)
Dated(m) == m.type \in {"ack", "welcome"}
Level(m) == IF m.type = "ack" THEN m.revision ELSE m.scene.version

(* A welcome m tells no less than what is queued before it and the base. *)
Tops(m, q, base) ==
    m.type = "welcome" =>
        /\ base <= Level(m)
        /\ \A p \in DOMAIN q : Dated(q[p]) => Level(q[p]) <= Level(m)

(* What is queued for a client and about to be, against the base revision of
   its engine and the version of the scene.                                *)
Ordered(out, doing, base, version) ==
    /\ base \in Nat /\ version \in Nat /\ base <= version
    /\ out \in Seq(Range(out))
    /\ \A n \in DOMAIN out : /\ Dated(out[n]) => Level(out[n]) \in 0..version
                             /\ Tops(out[n], SubSeq(out, 1, n), base)
    /\ \A m : doing = <<m>> => /\ Dated(m) => Level(m) \in 0..version
                               /\ Tops(m, out, base)
    /\ doing # <<>> => \E m : doing = <<m>>

(* What Tops says of the frames up to the n-th. *)
LEMMA TopsUpTo ==
    ASSUME NEW S, NEW q \in Seq(S), NEW n \in DOMAIN q, NEW m, NEW base
    PROVE  Tops(m, SubSeq(q, 1, n), base) <=>
             (m.type = "welcome" =>
                /\ base <= Level(m)
                /\ \A p \in 1..n : Dated(q[p]) => Level(q[p]) <= Level(m))
<1>1. /\ Len(q) \in Nat /\ DOMAIN q = 1..Len(q)
  BY LenProperties
<1>2. /\ DOMAIN SubSeq(q, 1, n) = 1..n
      /\ \A p \in 1..n : SubSeq(q, 1, n)[p] = q[p]
  BY <1>1, SubSeqProperties
<1> HIDE DEF Dated, Level
<1> QED BY <1>2 DEF Tops

(* The version only grows. *)
LEMMA OrderedGrows ==
    ASSUME NEW out, NEW doing, NEW base, NEW v, Ordered(out, doing, base, v),
           NEW w \in Nat, v <= w
    PROVE  Ordered(out, doing, base, w)
<1>1. \A x : x \in 0..v => x \in 0..w
  BY DEF Ordered
<1>2. base <= w
  BY DEF Ordered
<1> QED BY <1>1, <1>2 DEF Ordered

(* The answer that the reader has is queued. *)
LEMMA OrderedQueued ==
    ASSUME NEW out, NEW m, NEW base, NEW v, Ordered(out, <<m>>, base, v)
    PROVE  Ordered(Append(out, m), <<>>, base, v)
<1> DEFINE S == Range(out) \cup {m}
           q == Append(out, m)
           L == Len(out)
<1>1. out \in Seq(Range(out)) /\ out \in Seq(S) /\ m \in S
  BY SeqMonotonic DEF Ordered
<1>2. /\ L \in Nat /\ DOMAIN out = 1..L /\ q \in Seq(S) /\ DOMAIN q = 1..L + 1
      /\ \A i \in 1..L : q[i] = out[i]
      /\ q[L + 1] = m
  BY <1>1, AppendProperties, LenProperties
<1> HIDE DEF q, S, L
<1>3. q \in Seq(Range(q))
  BY <1>2, IsListOfRange
<1>4. /\ Dated(m) => Level(m) \in 0..v
      /\ Tops(m, out, base)
  BY DEF Ordered
<1>5. ASSUME NEW n \in DOMAIN q
      PROVE  /\ Dated(q[n]) => Level(q[n]) \in 0..v
             /\ Tops(q[n], SubSeq(q, 1, n), base)
  <2>1. CASE n \in 1..L
    <3>1. /\ Dated(out[n]) => Level(out[n]) \in 0..v
          /\ Tops(out[n], SubSeq(out, 1, n), base)
      BY <1>2, <2>1 DEF Ordered
    <3>2. \A p \in 1..n : q[p] = out[p]
      BY <1>2, <2>1
    <3>3. Tops(out[n], SubSeq(q, 1, n), base)
      BY <1>1, <1>2, <2>1, <3>1, <3>2, TopsUpTo
    <3> QED BY <1>2, <2>1, <3>1, <3>3
  <2>2. CASE n = L + 1
    <3>1. m.type = "welcome" => \A p \in 1..L + 1 : Dated(q[p]) => Level(q[p]) <= Level(m)
      <4> SUFFICES ASSUME m.type = "welcome", NEW p \in 1..L + 1, Dated(q[p])
                   PROVE  Level(q[p]) <= Level(m)
        OBVIOUS
      <4>1. CASE p \in 1..L
        BY <1>2, <1>4, <4>1 DEF Tops
      <4>2. CASE p = L + 1
        BY <1>2, <1>4, <4>2
      <4> QED BY <1>2, <4>1, <4>2
    <3>2. Tops(m, SubSeq(q, 1, L + 1), base)
      <4>1. L + 1 \in DOMAIN q
        BY <1>2
      <4>2. m.type = "welcome" => base <= Level(m)
        BY <1>4 DEF Tops
      <4> QED BY <1>2, <3>1, <4>1, <4>2, TopsUpTo
    <3> QED BY <1>2, <1>4, <2>2, <3>2
  <2> QED BY <1>2, <2>1, <2>2
<1>6. base \in Nat /\ v \in Nat /\ base <= v
  BY DEF Ordered
<1> QED BY <1>3, <1>5, <1>6 DEF Ordered, q

(* A patch is queued, by the patch task, ahead of the answer the reader has. *)
LEMMA OrderedPatch ==
    ASSUME NEW out, NEW doing, NEW base, NEW v, Ordered(out, doing, base, v),
           NEW m, m.type = "patch"
    PROVE  Ordered(Append(out, m), doing, base, v)
<1> DEFINE q == Append(out, m)
           L == Len(out)
<1>1. ~Dated(m) /\ m.type # "welcome"
  BY DEF Dated
<1>2. Ordered(out, <<m>>, base, v)
  <2>1. /\ base \in Nat /\ v \in Nat /\ base <= v /\ out \in Seq(Range(out))
        /\ \A n \in DOMAIN out : /\ Dated(out[n]) => Level(out[n]) \in 0..v
                                 /\ Tops(out[n], SubSeq(out, 1, n), base)
    BY DEF Ordered
  <2>2. Tops(m, out, base)
    BY <1>1 DEF Tops
  <2>3. \A x : <<m>> = <<x>> => x = m
    OBVIOUS
  <2>4. \E x : <<m>> = <<x>>
    OBVIOUS
  <2> QED BY <1>1, <2>1, <2>2, <2>3, <2>4 DEF Ordered
<1>3. Ordered(q, <<>>, base, v)
  BY <1>2, OrderedQueued
<1>4. /\ L \in Nat /\ DOMAIN out = 1..L /\ DOMAIN q = 1..L + 1
      /\ \A i \in 1..L : q[i] = out[i]
      /\ q[L + 1] = m
  <2> DEFINE S == Range(out) \cup {m}
  <2>1. out \in Seq(S) /\ m \in S
    BY SeqMonotonic DEF Ordered
  <2> HIDE DEF S
  <2> QED BY <2>1, AppendProperties, LenProperties
<1> HIDE DEF q, L
<1>5. ASSUME NEW x, Tops(x, out, base) PROVE Tops(x, q, base)
  BY <1>1, <1>4, <1>5 DEF Tops
<1>6. \A x : doing = <<x>> => /\ Dated(x) => Level(x) \in 0..v
                              /\ Tops(x, q, base)
  BY <1>5 DEF Ordered
<1> QED BY <1>3, <1>6 DEF Ordered, q

(* The reader has an answer, and a welcome is of this very version. *)
LEMMA OrderedAnswer ==
    ASSUME NEW out, NEW base, NEW v, Ordered(out, <<>>, base, v),
           NEW m, Dated(m) => Level(m) \in 0..v,
           m.type = "welcome" => Level(m) = v
    PROVE  Ordered(out, <<m>>, base, v)
<1>1. /\ base \in Nat /\ v \in Nat /\ base <= v /\ out \in Seq(Range(out))
      /\ \A n \in DOMAIN out : /\ Dated(out[n]) => Level(out[n]) \in 0..v
                               /\ Tops(out[n], SubSeq(out, 1, n), base)
  BY DEF Ordered
<1>2. Tops(m, out, base)
  BY <1>1 DEF Tops
<1>3. \A x : <<m>> = <<x>> => x = m
  OBVIOUS
<1>4. \E x : <<m>> = <<x>>
  OBVIOUS
<1> QED BY <1>1, <1>2, <1>3, <1>4 DEF Ordered

(* Nothing is queued. *)
LEMMA OrderedEmpty ==
    ASSUME NEW base \in Nat, NEW v \in Nat, base <= v
    PROVE  Ordered(<<>>, <<>>, base, v)
<1>1. \A m : <<>> # <<m>>
  OBVIOUS
<1>2. <<>> \in Seq(Range(<<>>)) /\ DOMAIN <<>> = {}
  OBVIOUS
<1> QED BY <1>1, <1>2 DEF Ordered

(* The client takes a frame.  Its base stays, or becomes what the frame told. *)
LEMMA OrderedTaken ==
    ASSUME NEW out, NEW doing, NEW base, NEW v, Ordered(out, doing, base, v),
           out # <<>>, NEW b,
           \/ b = base
           \/ Dated(Head(out)) /\ b = Level(Head(out))
    PROVE  Ordered(Tail(out), doing, b, v)
<1> DEFINE S == Range(out)
           L == Len(out)
           q == Tail(out)
           h == Head(out)
<1>1. out \in Seq(S)
  BY DEF Ordered
<1>2. /\ L \in Nat /\ L # 0 /\ DOMAIN out = 1..L
      /\ q \in Seq(S) /\ Len(q) = L - 1 /\ DOMAIN q = 1..L - 1
      /\ \A i \in 1..L - 1 : q[i] = out[i + 1]
      /\ h = out[1] /\ 1 \in DOMAIN out
  <2>1. /\ L \in Nat /\ L # 0 /\ DOMAIN out = 1..L
    BY <1>1, LenProperties, EmptySeq
  <2>2. /\ q \in Seq(S) /\ Len(q) = L - 1
        /\ \A i \in 1..L - 1 : q[i] = out[i + 1]
        /\ h = out[1]
    BY <1>1, <2>1, HeadTailProperties
  <2>3. DOMAIN q = 1..L - 1
    BY <2>2, LenProperties
  <2> QED BY <2>1, <2>2, <2>3
<1> HIDE DEF S, L, q, h
<1>3. q \in Seq(Range(q))
  BY <1>2, IsListOfRange
<1>4. base \in Nat /\ v \in Nat /\ base <= v
  BY DEF Ordered
<1>5. b \in Nat /\ b <= v
  BY <1>2, <1>4 DEF Ordered, h
<1>6. ASSUME NEW n \in 1..L
      PROVE  /\ Dated(out[n]) => Level(out[n]) \in 0..v
             /\ out[n].type = "welcome" =>
                  /\ base <= Level(out[n])
                  /\ \A p \in 1..n : Dated(out[p]) => Level(out[p]) <= Level(out[n])
  BY <1>1, <1>2, TopsUpTo DEF Ordered
<1>7. ASSUME NEW n \in 1..L, out[n].type = "welcome" PROVE b <= Level(out[n])
  <2>1. 1 \in 1..n
    BY <1>2
  <2> QED BY <1>2, <1>6, <1>7, <2>1 DEF h
<1>8. ASSUME NEW n \in DOMAIN q
      PROVE  /\ Dated(q[n]) => Level(q[n]) \in 0..v
             /\ Tops(q[n], SubSeq(q, 1, n), b)
  <2>1. n + 1 \in 1..L /\ q[n] = out[n + 1]
    BY <1>2
  <2>2. ASSUME q[n].type = "welcome", NEW p \in 1..n, Dated(q[p])
        PROVE  Level(q[p]) <= Level(q[n])
    <3>1. p + 1 \in 1..n + 1 /\ q[p] = out[p + 1]
      BY <1>2
    <3> QED BY <1>6, <2>1, <2>2, <3>1
  <2>3. q[n].type = "welcome" => b <= Level(q[n])
    BY <1>7, <2>1
  <2>4. Tops(q[n], SubSeq(q, 1, n), b)
    BY <1>2, <2>2, <2>3, TopsUpTo
  <2>5. Dated(q[n]) => Level(q[n]) \in 0..v
    BY <1>6, <2>1
  <2> QED BY <2>4, <2>5
<1>9. ASSUME NEW m, doing = <<m>>
      PROVE  (Dated(m) => Level(m) \in 0..v) /\ Tops(m, q, b)
  <2>1. /\ Dated(m) => Level(m) \in 0..v
        /\ Tops(m, out, base)
    BY <1>9 DEF Ordered
  <2>2. Tops(m, q, b)
    <3> SUFFICES ASSUME m.type = "welcome"
                 PROVE  /\ b <= Level(m)
                        /\ \A p \in DOMAIN q : Dated(q[p]) => Level(q[p]) <= Level(m)
      BY DEF Tops
    <3>1. /\ base <= Level(m)
          /\ \A p \in 1..L : Dated(out[p]) => Level(out[p]) <= Level(m)
      BY <1>2, <2>1 DEF Tops
    <3>2. \A p \in 1..L - 1 : p + 1 \in 1..L
      BY <1>2
    <3>3. b <= Level(m)
      BY <1>2, <3>1 DEF h
    <3> QED BY <1>2, <3>1, <3>2, <3>3
  <2> QED BY <2>1, <2>2
<1>10. doing # <<>> => \E m : doing = <<m>>
  BY DEF Ordered
<1> QED BY <1>3, <1>4, <1>5, <1>8, <1>9, <1>10 DEF Ordered, q

-----------------------------------------------------------------------------

(* The fields of a session. *)
Fields(s) ==
    s \in [state : {s.state}, region : {s.region}, inq : {s.inq},
           doing : {s.doing}, bq : {s.bq}, hand : {s.hand}, out : {s.out},
           mine : {s.mine}, top : {s.top}, strays : {s.strays}]

(* A session and the engine at its end, with the scene at that version. *)
Joined(s, e, version) ==
    /\ Fields(s)
    /\ s.state # "open" => s.doing = <<>>
    /\ s.hand # <<>> => Head(s.hand).type = "patch"
    /\ Sound(e)
    /\ Ordered(s.out, s.doing, e.base, version)

(* The inductive invariant. *)
SInv ==
    /\ script \in Scripts
    /\ scene.version \in Nat
    /\ \A i \in DOMAIN seen : seen[i] \in 0..scene.version
    /\ eng = [c \in Client |-> eng[c]]
    /\ sess = [c \in Client |-> sess[c]]
    /\ \A c \in Client : Joined(sess[c], eng[c], scene.version)

(* Initially nothing is on its way. *)
LEMMA InitSInv == Init => SInv
<1> SUFFICES ASSUME Init PROVE SInv
  OBVIOUS
<1>1. /\ script \in Scripts /\ scene.version = 0 /\ DOMAIN seen = {}
      /\ eng = [c \in Client |-> NewEngine(InitObjs, 0)]
      /\ sess = [c \in Client |-> [Down EXCEPT !.state = "open", !.mine = SameId]]
  BY DEF Init
<1>2. ASSUME NEW c \in Client PROVE Joined(sess[c], eng[c], scene.version)
  <2> DEFINE s == [Down EXCEPT !.state = "open", !.mine = SameId]
             e == NewEngine(InitObjs, 0)
  <2>1. Fields(s) /\ s.state = "open" /\ s.doing = <<>> /\ s.hand = <<>> /\ s.out = <<>>
    BY DEF Down, Fields
  <2>2. Sound(e) /\ e.base = 0
    BY NewSound
  <2>3. Ordered(<<>>, <<>>, 0, 0)
    BY OrderedEmpty
  <2>4. sess[c] = s /\ eng[c] = e
    BY <1>1
  <2> HIDE DEF s, e
  <2> QED BY <1>1, <2>1, <2>2, <2>3, <2>4 DEF Joined
<1> QED BY <1>1, <1>2 DEF SInv

(* A step of one session and its engine, the scene left alone. *)
LEMMA OneSession ==
    ASSUME SInv, NEW c \in Client, NEW s, NEW e, Joined(s, e, scene.version),
           sess' = [sess EXCEPT ![c] = s], eng' = [eng EXCEPT ![c] = e],
           UNCHANGED <<script, scene, seen>>
    PROVE  SInv'
<1>1. /\ sess' = [d \in Client |-> IF d = c THEN s ELSE sess[d]]
      /\ eng' = [d \in Client |-> IF d = c THEN e ELSE eng[d]]
  BY DEF SInv
<1>2. ASSUME NEW d \in Client PROVE Joined(sess'[d], eng'[d], scene.version)
  <2>1. CASE d = c
    BY <1>1, <2>1
  <2>2. CASE d # c
    BY <1>1, <2>2 DEF SInv
  <2> QED BY <2>1, <2>2
<1> QED BY <1>1, <1>2 DEF SInv

(* A session whose queues towards the client, and whose engine, stay. *)
LEMMA Waits ==
    ASSUME NEW s, NEW e, NEW version, Joined(s, e, version),
           NEW t, NEW f, NEW w \in Nat, version <= w,
           Fields(t), t.state = s.state, t.doing = s.doing, t.out = s.out,
           t.hand = s.hand, Sound(f), f.base = e.base
    PROVE  Joined(t, f, w)
<1>1. Ordered(s.out, s.doing, e.base, w)
  BY OrderedGrows DEF Joined
<1> QED BY <1>1 DEF Joined

(* author *)
LEMMA AuthorStep ==
    ASSUME SInv, NEW c \in Client, eng[c].made < Len(script[c]),
           Author(c, script[c][eng[c].made + 1]), UNCHANGED script
    PROVE  SInv'
<1> DEFINE e == eng[c]
           op == script[c][e.made + 1]
           row == [n |-> e.seq + 1, op |-> op]
           objs == Apply(e.objs, op).objs
           pending == Append(e.pending, row)
           f == Authored(e, op, objs, pending)
<1>1. Joined(sess[c], e, scene.version) /\ Sound(e) /\ scene.version \in Nat
  BY DEF SInv, Joined
<1>2. op \in AnyOp
  <2>1. script[c] \in Seq(Range(script[c])) /\ script \in Scripts
    BY ScriptsAssumption DEF SInv
  <2>2. e.made + 1 \in DOMAIN script[c]
    <3>1. Len(script[c]) \in Nat /\ DOMAIN script[c] = 1..Len(script[c])
      BY <2>1, LenProperties
    <3>2. e.made \in Nat
      BY <1>1 DEF Sound
    <3> QED BY <3>1, <3>2
  <2>3. op \in Range(script[c])
    BY <2>2 DEF Range
  <2> QED BY <2>1, <2>3 DEF AnyOp
<1>3. eng' = [eng EXCEPT ![c] = f] /\ UNCHANGED <<sess, scene, seen>>
  <2>1. TakeOwnership(e, row.n, OwnedKeys(op)).pending = e.pending
    <3> HIDE DEF op
    <3> QED BY <1>1 DEF TakeOwnership, Sound, Engine
  <2> QED BY <2>1 DEF Author, Authored
<1>4. Sound(f) /\ f.base = e.base
  <2> HIDE DEF op, objs, pending
  <2> QED BY <1>1, <1>2, AuthorSound
<1> HIDE DEF e, f
<1>5. Joined(sess[c], f, scene.version)
  <2>1. Fields(sess[c])
    BY <1>1 DEF Joined
  <2> QED BY <1>1, <1>4, <2>1, Waits
<1>6. sess' = [sess EXCEPT ![c] = sess[c]]
  BY <1>3 DEF SInv
<1> QED BY <1>3, <1>5, <1>6, OneSession

(* Sending puts frames into the client's queue towards the server only. *)
LEMMA SendKeeps ==
    ASSUME NEW s, Fields(s), NEW items
    PROVE  LET t == Send(s, items) IN
           /\ Fields(t) /\ t.state = s.state /\ t.doing = s.doing
           /\ t.out = s.out /\ t.hand = s.hand
BY DEF Send, Fields

(* on_flush_due, setViewport and resync send only. *)
LEMMA SendStep ==
    ASSUME SInv, NEW c \in Client, NEW items,
           sess' = [sess EXCEPT ![c] = Send(@, items)],
           NEW f, Sound(f), f.base = eng[c].base, eng' = [eng EXCEPT ![c] = f],
           UNCHANGED <<script, scene, seen>>
    PROVE  SInv'
<1> DEFINE t == Send(sess[c], items)
<1>1. Joined(sess[c], eng[c], scene.version) /\ scene.version \in Nat
  BY DEF SInv
<1>2. /\ Fields(t) /\ t.state = sess[c].state /\ t.doing = sess[c].doing
      /\ t.out = sess[c].out /\ t.hand = sess[c].hand
  BY <1>1, SendKeeps DEF Joined
<1>3. sess' = [sess EXCEPT ![c] = t]
  BY DEF SInv
<1> HIDE DEF t
<1>4. Joined(t, f, scene.version)
  BY <1>1, <1>2, Waits
<1> QED BY <1>3, <1>4, OneSession

(* Only the frames of the engine's next flush change. *)
LEMMA FlushStep ==
    ASSUME SInv, NEW c \in Client, Flush(c), UNCHANGED script
    PROVE  SInv'
<1> DEFINE f == [eng[c] EXCEPT !.pending = <<>>]
           items == OpItems(eng[c].pending)
<1>1. Sound(eng[c])
  BY DEF SInv, Joined
<1>2. /\ Engine(f) /\ f.base = eng[c].base /\ f.rows = eng[c].rows
      /\ f.held = eng[c].held /\ f.owned = eng[c].owned
      /\ f.seq = eng[c].seq /\ f.made = eng[c].made
  BY <1>1 DEF Sound, Engine
<1>3. /\ eng' = [eng EXCEPT ![c] = f]
      /\ sess' = [sess EXCEPT ![c] = Send(@, items)]
      /\ UNCHANGED <<scene, seen>>
  BY DEF Flush
<1> HIDE DEF f, items
<1>4. Sound(f)
  BY <1>1, <1>2 DEF Sound, Owns
<1> QED BY <1>2, <1>3, <1>4, SendStep

(* A new window, or a resync, is asked for. *)
LEMMA AskStep ==
    ASSUME SInv, NEW c \in Client, UNCHANGED script,
           (\E region : SetViewport(c, region)) \/ Resync(c)
    PROVE  SInv'
<1>1. eng' = [eng EXCEPT ![c] = eng[c]] /\ UNCHANGED <<scene, seen>>
  BY DEF SInv, SetViewport, Resync
<1>2. \E items : sess' = [sess EXCEPT ![c] = Send(@, items)]
  BY DEF SetViewport, Resync
<1>3. Sound(eng[c])
  BY DEF SInv, Joined
<1> QED BY <1>1, <1>2, <1>3, SendStep

(* The client takes a frame, and perhaps answers. *)
LEMMA TakeStep ==
    ASSUME SInv, NEW c \in Client, sess[c].out # <<>>, NEW items,
           NEW t, t = Taken(c) \/ t = Send(Taken(c), items),
           sess' = [sess EXCEPT ![c] = t],
           NEW f, Sound(f), eng' = [eng EXCEPT ![c] = f],
           \/ f.base = eng[c].base
           \/ Dated(Frame(c)) /\ f.base = Level(Frame(c)),
           UNCHANGED <<script, scene, seen>>
    PROVE  SInv'
<1> DEFINE s == sess[c]
           taken == Taken(c)
<1>1. Joined(s, eng[c], scene.version)
  BY DEF SInv
<1>2. /\ Fields(taken) /\ taken.state = s.state /\ taken.doing = s.doing
      /\ taken.out = Tail(s.out) /\ taken.hand = s.hand
  BY <1>1 DEF Joined, Fields, Taken
<1> HIDE DEF taken
<1>3. /\ Fields(t) /\ t.state = s.state /\ t.doing = s.doing
      /\ t.out = Tail(s.out) /\ t.hand = s.hand
  BY <1>2, SendKeeps DEF taken
<1>4. Ordered(Tail(s.out), s.doing, f.base, scene.version)
  BY <1>1, OrderedTaken DEF Joined, Frame
<1>5. Joined(t, f, scene.version)
  BY <1>1, <1>3, <1>4 DEF Joined
<1> QED BY <1>5, OneSession

(* handleMessage: an ack, a rejection or a patch. *)
LEMMA ReceiveStep ==
    ASSUME SInv, NEW c \in Client, UNCHANGED script,
           ReceiveAck(c) \/ ReceiveRejected(c) \/ ReceivePatch(c)
    PROVE  SInv'
<1>1. /\ sess[c].out # <<>> /\ sess' = [sess EXCEPT ![c] = Taken(c)]
      /\ UNCHANGED <<scene, seen>>
  BY DEF ReceiveAck, ReceiveRejected, ReceivePatch, Incoming
<1>2. Sound(eng[c]) /\ Ordered(sess[c].out, sess[c].doing, eng[c].base, scene.version)
  BY DEF SInv, Joined
<1>3. CASE ReceiveAck(c)
  <2> DEFINE f == OnAck(eng[c], Frame(c).n, Frame(c).revision)
  <2>1. Frame(c).type = "ack" /\ eng' = [eng EXCEPT ![c] = f]
    BY <1>3 DEF ReceiveAck, Incoming
  <2>2. Dated(Frame(c)) /\ Level(Frame(c)) = Frame(c).revision
    BY <2>1 DEF Dated, Level
  <2>3. Frame(c).revision \in Nat
    <3>1. 1 \in DOMAIN sess[c].out /\ Frame(c) = sess[c].out[1]
      BY <1>1, <1>2, EmptySeq, HeadTailProperties, LenProperties DEF Ordered, Frame
    <3> QED BY <1>2, <2>2, <3>1 DEF Ordered
  <2>4. /\ Sound(f)
        /\ f.base = eng[c].base \/ f.base = Frame(c).revision
    BY <1>2, <2>3, OnAckSound
  <2> HIDE DEF f
  <2> QED BY <1>1, <2>1, <2>2, <2>4, TakeStep
<1>4. CASE ReceiveRejected(c)
  <2> DEFINE f == Settle(eng[c], Frame(c).n)
  <2>1. Sound(f) /\ f.base = eng[c].base /\ eng' = [eng EXCEPT ![c] = f]
    BY <1>2, <1>4, SettleSound DEF ReceiveRejected
  <2> HIDE DEF f
  <2> QED BY <1>1, <2>1, TakeStep
<1>5. CASE ReceivePatch(c)
  <2> DEFINE f == ApplyRemote(eng[c], Frame(c).op)
  <2>1. Sound(f) /\ f.base = eng[c].base /\ eng' = [eng EXCEPT ![c] = f]
    BY <1>2, <1>5, RemoteSound DEF ReceivePatch
  <2> HIDE DEF f
  <2> QED BY <1>1, <2>1, TakeStep
<1> QED BY <1>3, <1>4, <1>5

(* handleMessage: a welcome. *)
LEMMA ReceiveWelcomeStep ==
    ASSUME SInv, NEW c \in Client, UNCHANGED script, ReceiveWelcome(c)
    PROVE  SInv'
<1> DEFINE snap == Frame(c).scene
           f == Reconcile(eng[c], snap)
           items == OpItems(Resent(eng[c], snap))
           t == Send(Taken(c), items)
<1>1. /\ sess[c].out # <<>> /\ Frame(c).type = "welcome"
      /\ sess' = [sess EXCEPT ![c] = t] /\ eng' = [eng EXCEPT ![c] = f]
      /\ UNCHANGED <<scene, seen>>
  BY DEF ReceiveWelcome, Incoming
<1>2. Sound(eng[c]) /\ Ordered(sess[c].out, sess[c].doing, eng[c].base, scene.version)
  BY DEF SInv, Joined
<1>3. Dated(Frame(c)) /\ Level(Frame(c)) = snap.version
  BY <1>1 DEF Dated, Level
<1>4. snap.version \in Nat
  <2>1. 1 \in DOMAIN sess[c].out /\ Frame(c) = sess[c].out[1]
    BY <1>1, <1>2, EmptySeq, HeadTailProperties, LenProperties DEF Ordered, Frame
  <2> QED BY <1>2, <1>3, <2>1 DEF Ordered
<1> HIDE DEF snap
<1>5. Sound(f) /\ (f.base = eng[c].base \/ f.base = snap.version)
  BY <1>2, <1>4, ReconcileSound
<1> HIDE DEF f, items
<1> QED BY <1>1, <1>3, <1>5, TakeStep

(* A broadcast goes into the sessions' queues of broadcasts only. *)
LEMMA BroadcastKeeps ==
    ASSUME NEW s, \A d \in Client : Fields(s[d]), NEW patch
    PROVE  LET t == Broadcast(s, patch) IN
           /\ t = [d \in Client |-> t[d]]
           /\ \A d \in Client :
                /\ Fields(t[d]) /\ t[d].state = s[d].state
                /\ t[d].doing = s[d].doing /\ t[d].out = s[d].out
                /\ t[d].hand = s[d].hand
<1> DEFINE t == Broadcast(s, patch)
           u(d) == [s[d] EXCEPT !.bq = Append(@, patch)]
<1>1. t = [d \in Client |-> IF s[d].state = "down" THEN s[d] ELSE u(d)]
  BY DEF Broadcast
<1>2. ASSUME NEW d \in Client
      PROVE  /\ Fields(u(d)) /\ u(d).state = s[d].state
             /\ u(d).doing = s[d].doing /\ u(d).out = s[d].out
             /\ u(d).hand = s[d].hand
  BY DEF Fields
<1> HIDE DEF t, u
<1> QED BY <1>1, <1>2 DEF t

(* The actor's step, for a session s of the reader: the version goes up by
   one if the op is fresh, and the op's number is recorded with it.        *)
LEMMA HandleKeeps ==
    ASSUME SInv, NEW c, NEW item, NEW s, s = [d \in Client |-> s[d]],
           \A d \in Client : Fields(s[d]), Handle(c, item, s)
    PROVE  /\ scene'.version \in Nat /\ scene.version <= scene'.version
           /\ Fresh(c, item) => scene'.version = scene.version + 1
           /\ \A i \in DOMAIN seen' : seen'[i] \in 0..scene'.version
           /\ sess' = [d \in Client |-> sess'[d]]
           /\ \A d \in Client :
                /\ Fields(sess'[d]) /\ sess'[d].state = s[d].state
                /\ sess'[d].doing = s[d].doing /\ sess'[d].out = s[d].out
                /\ sess'[d].hand = s[d].hand
<1>1. scene.version \in Nat /\ \A i \in DOMAIN seen : seen[i] \in 0..scene.version
  BY DEF SInv
<1>2. CASE Fresh(c, item)
  <2> DEFINE v == scene.version + 1
             objs == Apply(scene.objs, item.op).objs
             patch == Applied(c, item, objs)
  <2>1. /\ scene' = [objs |-> objs, version |-> v]
        /\ seen' = [i \in DOMAIN seen \cup {<<c, item.n>>} |->
                      IF i = <<c, item.n>> THEN v ELSE seen[i]]
        /\ sess' = Broadcast(s, patch)
    BY <1>2 DEF Handle
  <2> HIDE DEF objs, patch
  <2>2. scene'.version = v
    BY <2>1
  <2>3. \A i \in DOMAIN seen' : seen'[i] \in 0..v
    BY <1>1, <2>1
  <2>4. v \in Nat /\ scene.version <= v
    BY <1>1
  <2> HIDE DEF v
  <2>5. /\ sess' = [d \in Client |-> sess'[d]]
        /\ \A d \in Client :
             /\ Fields(sess'[d]) /\ sess'[d].state = s[d].state
             /\ sess'[d].doing = s[d].doing /\ sess'[d].out = s[d].out
             /\ sess'[d].hand = s[d].hand
    BY <2>1, BroadcastKeeps
  <2> QED BY <2>2, <2>3, <2>4, <2>5 DEF v
<1>3. CASE ~Fresh(c, item)
  <2>1. scene' = scene /\ seen' = seen /\ sess' = s
    BY <1>3 DEF Handle
  <2> QED BY <1>1, <1>3, <2>1
<1> QED BY <1>2, <1>3

(* The reader of a broken connection serves an op it has. *)
LEMMA ServeOldStep ==
    ASSUME SInv, NEW c \in Client, NEW q, ServeOld(c, q), UNCHANGED script
    PROVE  SInv'
<1>1. Handle(c, Head(q), sess) /\ UNCHANGED eng
  BY DEF ServeOld
<1>2. /\ sess = [d \in Client |-> sess[d]]
      /\ \A d \in Client : /\ Fields(sess[d]) /\ Sound(eng[d])
                           /\ Joined(sess[d], eng[d], scene.version)
  BY DEF SInv, Joined
<1>3. /\ scene'.version \in Nat /\ scene.version <= scene'.version
      /\ \A i \in DOMAIN seen' : seen'[i] \in 0..scene'.version
      /\ sess' = [d \in Client |-> sess'[d]]
      /\ \A d \in Client :
           /\ Fields(sess'[d]) /\ sess'[d].state = sess[d].state
           /\ sess'[d].doing = sess[d].doing /\ sess'[d].out = sess[d].out
           /\ sess'[d].hand = sess[d].hand
  BY <1>1, <1>2, HandleKeeps
<1>4. ASSUME NEW d \in Client PROVE Joined(sess'[d], eng[d], scene'.version)
  BY <1>2, <1>3, Waits
<1> QED BY <1>1, <1>3, <1>4 DEF SInv

(* The actor's answer is a rejection, or an ack with the revision that the op
   got, the first time it was served or now.                               *)
LEMMA AnswerDated ==
    ASSUME SInv, NEW c, NEW item, NEW w \in Nat, scene.version <= w,
           Fresh(c, item) => w = scene.version + 1
    PROVE  LET m == Answer(c, item) IN
           /\ Dated(m) => Level(m) \in 0..w
           /\ m.type # "welcome"
<1> DEFINE i == <<c, item.n>>
           m == Answer(c, item)
<1>1. scene.version \in Nat /\ \A x \in DOMAIN seen : seen[x] \in 0..scene.version
  BY DEF SInv
<1>2. CASE i \in DOMAIN seen
  <2>1. m = [type |-> "ack", n |-> item.n, revision |-> seen[i]]
    BY <1>2 DEF Answer
  <2>2. seen[i] \in 0..w
    BY <1>1, <1>2
  <2> HIDE DEF m
  <2>3. m.type = "ack" /\ m.revision \in 0..w
    BY <2>1, <2>2
  <2> QED BY <2>3 DEF Level, m
<1>3. CASE i \notin DOMAIN seen /\ Apply(scene.objs, item.op).ok
  <2>1. m = [type |-> "ack", n |-> item.n, revision |-> scene.version + 1]
    BY <1>3 DEF Answer
  <2>2. scene.version + 1 = w
    BY <1>3 DEF Fresh
  <2> HIDE DEF m
  <2>3. m.type = "ack" /\ m.revision = w
    BY <2>1, <2>2
  <2> QED BY <2>3 DEF Level, m
<1>4. CASE i \notin DOMAIN seen /\ ~Apply(scene.objs, item.op).ok
  <2>1. m = [type |-> "rejected", n |-> item.n]
    BY <1>4 DEF Answer
  <2> HIDE DEF m
  <2>2. m.type = "rejected"
    BY <2>1
  <2> QED BY <2>2 DEF Dated, m
<1> QED BY <1>2, <1>3, <1>4

(* The reader serves an op of its connection. *)
LEMMA ServeOpStep ==
    ASSUME SInv, NEW c \in Client, ServeOp(c), UNCHANGED script
    PROVE  SInv'
<1> DEFINE item == Head(sess[c].inq)
           m == Answer(c, item)
           t == [sess[c] EXCEPT !.inq = Tail(@), !.mine = TRUE, !.doing = <<m>>]
           s == [sess EXCEPT ![c].inq = Tail(@), ![c].mine = TRUE,
                             ![c].doing = <<Answer(c, item)>>]
<1>1. /\ sess[c].state = "open" /\ sess[c].doing = <<>>
      /\ Handle(c, item, s) /\ UNCHANGED eng
  BY DEF ServeOp
<1>2. /\ sess = [d \in Client |-> sess[d]]
      /\ \A d \in Client : /\ Fields(sess[d]) /\ Sound(eng[d])
                           /\ Joined(sess[d], eng[d], scene.version)
  BY DEF SInv, Joined
<1>3. s = [d \in Client |-> IF d = c THEN t ELSE sess[d]]
  BY <1>2
<1>4. /\ Fields(t) /\ t.state = sess[c].state /\ t.doing = <<m>>
      /\ t.out = sess[c].out /\ t.hand = sess[c].hand
  BY <1>2 DEF Fields
<1> HIDE DEF s, t, m, item
<1>5. /\ s = [d \in Client |-> s[d]] /\ s[c] = t
      /\ \A d \in Client : Fields(s[d]) /\ (d # c => s[d] = sess[d])
  BY <1>2, <1>3, <1>4
<1>6. /\ scene'.version \in Nat /\ scene.version <= scene'.version
      /\ Fresh(c, item) => scene'.version = scene.version + 1
      /\ \A i \in DOMAIN seen' : seen'[i] \in 0..scene'.version
      /\ sess' = [d \in Client |-> sess'[d]]
      /\ \A d \in Client :
           /\ Fields(sess'[d]) /\ sess'[d].state = s[d].state
           /\ sess'[d].doing = s[d].doing /\ sess'[d].out = s[d].out
           /\ sess'[d].hand = s[d].hand
  BY <1>1, <1>5, HandleKeeps
<1>7. ASSUME NEW d \in Client PROVE Joined(sess'[d], eng[d], scene'.version)
  <2>1. CASE d # c
    BY <1>2, <1>5, <1>6, <2>1, Waits
  <2>2. CASE d = c
    <3>1. /\ Dated(m) => Level(m) \in 0..scene'.version
          /\ m.type # "welcome"
      BY <1>6, AnswerDated DEF m
    <3>2. Ordered(sess[c].out, <<>>, eng[c].base, scene.version)
      BY <1>1, <1>2 DEF Joined
    <3>3. Ordered(sess[c].out, <<>>, eng[c].base, scene'.version)
      BY <1>6, <3>2, OrderedGrows
    <3>4. Ordered(sess[c].out, <<m>>, eng[c].base, scene'.version)
      BY <3>1, <3>3, OrderedAnswer
    <3>5. /\ sess'[c].state = "open" /\ sess'[c].doing = <<m>>
          /\ sess'[c].out = sess[c].out /\ sess'[c].hand = sess[c].hand
      BY <1>1, <1>4, <1>5, <1>6
    <3>6. sess[c].hand # <<>> => Head(sess[c].hand).type = "patch"
      BY <1>2 DEF Joined
    <3> QED BY <1>2, <1>6, <2>2, <3>4, <3>5, <3>6 DEF Joined
  <2> QED BY <2>1, <2>2
<1> QED BY <1>1, <1>6, <1>7 DEF SInv

(* A step of one session that leaves its engine alone. *)
LEMMA SessionStep ==
    ASSUME SInv, NEW c \in Client, NEW s, Fields(s),
           s.state # "open" => s.doing = <<>>,
           s.hand # <<>> => Head(s.hand).type = "patch",
           Ordered(s.out, s.doing, eng[c].base, scene.version),
           sess' = [sess EXCEPT ![c] = s],
           UNCHANGED <<script, scene, seen, eng>>
    PROVE  SInv'
<1>1. Joined(s, eng[c], scene.version)
  BY DEF SInv, Joined
<1>2. eng' = [eng EXCEPT ![c] = eng[c]]
  BY DEF SInv
<1> QED BY <1>1, <1>2, OneSession

(* Subscribe re-aims the filter. *)
LEMMA ServeSubscribeStep ==
    ASSUME SInv, NEW c \in Client, ServeSubscribe(c), UNCHANGED script
    PROVE  SInv'
<1> DEFINE item == Head(sess[c].inq)
           inq == <<[type |-> "resume"]>> \o Tail(sess[c].inq)
           t == [sess[c] EXCEPT !.inq = inq, !.region = item.region]
<1>1. Joined(sess[c], eng[c], scene.version)
  BY DEF SInv
<1>2. sess' = [sess EXCEPT ![c] = t] /\ UNCHANGED <<scene, seen, eng>>
  BY DEF ServeSubscribe, SInv
<1> HIDE DEF item, inq
<1>3. /\ Fields(t) /\ t.state = sess[c].state /\ t.doing = sess[c].doing
      /\ t.out = sess[c].out /\ t.hand = sess[c].hand
  BY <1>1 DEF Joined, Fields
<1> HIDE DEF t
<1> QED BY <1>1, <1>2, <1>3, SessionStep DEF Joined

(* A snapshot is a welcome of the scene's version. *)
LEMMA SnapshotLevel ==
    ASSUME NEW region
    PROVE  /\ Snapshot(region).type = "welcome"
           /\ Level(Snapshot(region)) = scene.version
<1> DEFINE m == Snapshot(region)
           objs == Visible(scene.objs, region)
<1>1. m = [type |-> "welcome", scene |-> [objs |-> objs, version |-> scene.version]]
  BY DEF Snapshot
<1> HIDE DEF m, objs
<1>2. m.type = "welcome" /\ m.scene.version = scene.version
  BY <1>1
<1> QED BY <1>2 DEF Level, m

(* Resume gets the snapshot. *)
LEMMA ServeResumeStep ==
    ASSUME SInv, NEW c \in Client, ServeResume(c), UNCHANGED script
    PROVE  SInv'
<1> DEFINE m == Snapshot(sess[c].region)
           inq == Tail(sess[c].inq)
           t == [sess[c] EXCEPT !.inq = inq, !.strays = {}, !.doing = <<m>>]
<1>1. Joined(sess[c], eng[c], scene.version) /\ scene.version \in Nat
  BY DEF SInv
<1>2. /\ sess' = [sess EXCEPT ![c] = t] /\ UNCHANGED <<scene, seen, eng>>
      /\ sess[c].state = "open" /\ sess[c].doing = <<>>
  BY DEF ServeResume, SInv
<1>3. m.type = "welcome" /\ Level(m) = scene.version
  BY SnapshotLevel
<1> HIDE DEF m, inq
<1>4. /\ Fields(t) /\ t.state = "open" /\ t.doing = <<m>>
      /\ t.out = sess[c].out /\ t.hand = sess[c].hand
  BY <1>1, <1>2 DEF Joined, Fields
<1> HIDE DEF t
<1>5. Ordered(t.out, t.doing, eng[c].base, scene.version)
  <2>1. Ordered(sess[c].out, <<>>, eng[c].base, scene.version)
    BY <1>1, <1>2 DEF Joined
  <2>2. Level(m) \in 0..scene.version
    BY <1>1, <1>3
  <2>3. Ordered(sess[c].out, <<m>>, eng[c].base, scene.version)
    BY <1>3, <2>1, <2>2, OrderedAnswer
  <2> QED BY <1>4, <2>3
<1>6. t.hand # <<>> => Head(t.hand).type = "patch"
  BY <1>1, <1>4 DEF Joined
<1> QED BY <1>2, <1>4, <1>5, <1>6, SessionStep

(* The reader queues its answer. *)
LEMMA QueueAnswerStep ==
    ASSUME SInv, NEW c \in Client, QueueAnswer(c), UNCHANGED script
    PROVE  SInv'
<1> DEFINE m == Head(sess[c].doing)
           out == Append(sess[c].out, m)
           t == [sess[c] EXCEPT !.out = out, !.doing = <<>>]
<1>1. Joined(sess[c], eng[c], scene.version)
  BY DEF SInv
<1>2. /\ sess' = [sess EXCEPT ![c] = t] /\ UNCHANGED <<scene, seen, eng>>
      /\ sess[c].doing # <<>>
  BY DEF QueueAnswer, SInv
<1>3. sess[c].doing = <<m>>
  BY <1>1, <1>2 DEF Joined, Ordered
<1>4. Ordered(out, <<>>, eng[c].base, scene.version)
  <2> HIDE DEF m
  <2>1. Ordered(sess[c].out, <<m>>, eng[c].base, scene.version)
    BY <1>1, <1>3 DEF Joined
  <2> QED BY <2>1, OrderedQueued
<1> HIDE DEF m, out
<1>5. /\ Fields(t) /\ t.state = sess[c].state /\ t.doing = <<>>
      /\ t.out = out /\ t.hand = sess[c].hand
  BY <1>1 DEF Joined, Fields
<1> HIDE DEF t
<1>6. t.hand # <<>> => Head(t.hand).type = "patch"
  BY <1>1, <1>5 DEF Joined
<1>7. Ordered(t.out, t.doing, eng[c].base, scene.version)
  BY <1>4, <1>5
<1> QED BY <1>2, <1>5, <1>6, <1>7, SessionStep

(* The patch task takes a broadcast. *)
LEMMA TakeBroadcastStep ==
    ASSUME SInv, NEW c \in Client, TakeBroadcast(c), UNCHANGED script
    PROVE  SInv'
<1> DEFINE s == sess[c]
           b == Head(s.bq)
           patch == [type |-> "patch", seq |-> b.seq, op |-> b.op, author |-> b.author]
           hand == IF Forwards(c, b) THEN <<patch>> ELSE <<>>
           bq == Tail(s.bq)
           strays == Strayed(s, b)
           t == [s EXCEPT !.bq = bq, !.hand = hand, !.strays = strays]
<1>1. Joined(s, eng[c], scene.version)
  BY DEF SInv
<1>2. sess' = [sess EXCEPT ![c] = t] /\ UNCHANGED <<scene, seen, eng>>
  BY DEF TakeBroadcast, SInv
<1>3. patch.type = "patch"
  OBVIOUS
<1> HIDE DEF patch
<1>4. hand # <<>> => Head(hand).type = "patch"
  <2>1. hand = <<patch>> \/ hand = <<>>
    OBVIOUS
  <2>2. Head(<<patch>>) = patch
    OBVIOUS
  <2> HIDE DEF hand
  <2> QED BY <1>3, <2>1, <2>2
<1> HIDE DEF hand, bq, strays, s
<1>5. /\ Fields(t) /\ t.state = s.state /\ t.doing = s.doing
      /\ t.out = s.out /\ t.hand = hand
  BY <1>1 DEF Joined, Fields
<1> HIDE DEF t
<1> QED BY <1>1, <1>2, <1>4, <1>5, SessionStep DEF Joined, s

(* The patch task queues the patch it has. *)
LEMMA QueuePatchStep ==
    ASSUME SInv, NEW c \in Client, QueuePatch(c), UNCHANGED script
    PROVE  SInv'
<1> DEFINE s == sess[c]
           p == Head(s.hand)
           out == Append(s.out, p)
           top == p.seq
           t == [s EXCEPT !.out = out, !.hand = <<>>, !.top = top]
<1>1. Joined(s, eng[c], scene.version)
  BY DEF SInv
<1>2. /\ sess' = [sess EXCEPT ![c] = t] /\ UNCHANGED <<scene, seen, eng>>
      /\ p.type = "patch"
  BY <1>1 DEF QueuePatch, SInv, Joined
<1> HIDE DEF p
<1>3. Ordered(out, s.doing, eng[c].base, scene.version)
  BY <1>1, <1>2, OrderedPatch DEF Joined
<1> HIDE DEF out, top, s
<1>4. /\ Fields(t) /\ t.state = s.state /\ t.doing = s.doing
      /\ t.out = out /\ t.hand = <<>>
  BY <1>1 DEF Joined, Fields
<1> HIDE DEF t
<1> QED BY <1>1, <1>2, <1>3, <1>4, SessionStep DEF Joined, s

(* A connection that breaks, and one that is opened, have nothing queued. *)
LEMMA ConnectStep ==
    ASSUME SInv, NEW c \in Client, Drop(c) \/ Hello(c), UNCHANGED script
    PROVE  SInv'
<1> DEFINE up == [Down EXCEPT !.state = "joining", !.region = view[c],
                              !.mine = SameId]
<1>1. PICK t \in {Down, up} : sess' = [sess EXCEPT ![c] = t]
  BY DEF Drop, Hello
<1>2. UNCHANGED <<scene, seen, eng>>
  BY DEF Drop, Hello
<1>3. /\ Fields(t) /\ t.doing = <<>> /\ t.hand = <<>> /\ t.out = <<>>
  <2>1. CASE t = Down
    BY <2>1 DEF Down, Fields
  <2>2. CASE t = up
    BY <2>2 DEF Down, Fields
  <2> QED BY <1>1, <2>1, <2>2
<1>4. Ordered(<<>>, <<>>, eng[c].base, scene.version)
  BY OrderedEmpty DEF SInv, Joined, Ordered
<1> QED BY <1>1, <1>2, <1>3, <1>4, SessionStep

(* The first welcome of a connection is queued. *)
LEMMA WelcomeStep ==
    ASSUME SInv, NEW c \in Client, Welcome(c), UNCHANGED script
    PROVE  SInv'
<1> DEFINE m == Snapshot(sess[c].region)
           t == [sess[c] EXCEPT !.state = "open", !.out = <<m>>]
<1>1. Joined(sess[c], eng[c], scene.version) /\ scene.version \in Nat
  BY DEF SInv
<1>2. /\ sess' = [sess EXCEPT ![c] = t] /\ UNCHANGED <<scene, seen, eng>>
      /\ sess[c].state # "open"
  BY DEF Welcome, SInv
<1>3. m.type = "welcome" /\ Level(m) = scene.version
  BY SnapshotLevel
<1> HIDE DEF m
<1>4. Ordered(<<m>>, <<>>, eng[c].base, scene.version)
  <2>1. Ordered(<<>>, <<>>, eng[c].base, scene.version)
    BY OrderedEmpty DEF SInv, Joined, Ordered
  <2>2. Level(m) \in 0..scene.version
    BY <1>1, <1>3
  <2>3. Ordered(<<>>, <<m>>, eng[c].base, scene.version)
    BY <1>3, <2>1, <2>2, OrderedAnswer
  <2>4. Append(<<>>, m) = <<m>>
    OBVIOUS
  <2>5. Ordered(Append(<<>>, m), <<>>, eng[c].base, scene.version)
    BY <2>3, OrderedQueued
  <2> QED BY <2>4, <2>5
<1>5. /\ Fields(t) /\ t.state = "open" /\ t.doing = sess[c].doing
      /\ t.out = <<m>> /\ t.hand = sess[c].hand
  BY <1>1 DEF Joined, Fields
<1> HIDE DEF t
<1>6. t.doing = <<>>
  BY <1>1, <1>2, <1>5 DEF Joined
<1>7. t.hand # <<>> => Head(t.hand).type = "patch"
  BY <1>1, <1>5 DEF Joined
<1>8. Ordered(t.out, t.doing, eng[c].base, scene.version)
  BY <1>4, <1>5, <1>6
<1> QED BY <1>2, <1>5, <1>6, <1>7, <1>8, SessionStep

(* Every step of the system keeps the invariant. *)
LEMMA NextSInv ==
    ASSUME SInv, [Next]_vars
    PROVE  SInv'
<1>1. CASE UNCHANGED vars
  BY <1>1 DEF vars, SInv
<1>2. CASE Next
  <2>1. PICK c \in Client : Work(c) \/ Other(c)
    BY <1>2 DEF Next
  <2>2. UNCHANGED script
    BY <1>2 DEF Next
  <2>3. CASE Flush(c)
    BY <2>2, <2>3, FlushStep
  <2>4. CASE Hello(c) \/ Drop(c)
    BY <2>2, <2>4, ConnectStep
  <2>5. CASE Welcome(c)
    BY <2>2, <2>5, WelcomeStep
  <2>6. CASE ReceiveAck(c) \/ ReceiveRejected(c) \/ ReceivePatch(c)
    BY <2>2, <2>6, ReceiveStep
  <2>7. CASE ReceiveWelcome(c)
    BY <2>2, <2>7, ReceiveWelcomeStep
  <2>8. CASE ServeOp(c)
    BY <2>2, <2>8, ServeOpStep
  <2>9. CASE ServeSubscribe(c)
    BY <2>2, <2>9, ServeSubscribeStep
  <2>10. CASE ServeResume(c)
    BY <2>2, <2>10, ServeResumeStep
  <2>11. CASE QueueAnswer(c)
    BY <2>2, <2>11, QueueAnswerStep
  <2>12. CASE TakeBroadcast(c)
    BY <2>2, <2>12, TakeBroadcastStep
  <2>13. CASE QueuePatch(c)
    BY <2>2, <2>13, QueuePatchStep
  <2>14. CASE /\ eng[c].made < Len(script[c])
              /\ Author(c, script[c][eng[c].made + 1])
    BY <2>2, <2>14, AuthorStep
  <2>15. CASE (\E region : SetViewport(c, region)) \/ Resync(c)
    BY <2>2, <2>15, AskStep
  <2>16. CASE \E q \in old[c] : ServeOld(c, q)
    BY <2>2, <2>16, ServeOldStep
  <2> QED BY <2>1, <2>3, <2>4, <2>5, <2>6, <2>7, <2>8, <2>9, <2>10, <2>11,
             <2>12, <2>13, <2>14, <2>15, <2>16 DEF Work, Other
<1> QED BY <1>1, <1>2

(* The queues and the engines agree in every reachable state: what is
   established here is what reconcile_snapshot and the acks rest on.       *)
THEOREM SessionsJoined == Spec => []SInv
<1>1. Init => SInv
  BY InitSInv
<1>2. SInv /\ [Next]_vars => SInv'
  BY NextSInv
<1> QED BY <1>1, <1>2, PTL DEF Spec

(* OwnershipIsUnacked: take_ownership, release_ownership and the rebuild in
   reconcile_snapshot keep the engine's claims equal to what its outbox
   writes, for any number of clients, any scripts and any connections.      *)
THEOREM OwnershipExact == Spec => []OwnershipIsUnacked
<1>1. SInv => OwnershipIsUnacked
  <2> SUFFICES ASSUME SInv, NEW c \in Client
               PROVE  /\ DOMAIN eng[c].held = {r.n : r \in Rows(c)}
                      /\ \A k \in Key : eng[c].owned[k] =
                           MapThenSumSet(LAMBDA r : Times(OwnedKeys(r.op), k), Rows(c))
    BY DEF OwnershipIsUnacked
  <2> DEFINE S == Rows(c)
  <2>1. Outbox(eng[c].rows) /\ Owns(eng[c], S)
    BY DEF SInv, Joined, Sound, Rows
  <2>2. S \in SUBSET Row /\ IsFiniteSet(S)
    BY <2>1, OutboxRows DEF Rows
  <2> HIDE DEF S
  <2>3. DOMAIN eng[c].held = {r.n : r \in S}
    BY <2>1 DEF Owns
  <2>4. ASSUME NEW k \in Key
        PROVE  eng[c].owned[k] = MapThenSumSet(LAMBDA r : Times(OwnedKeys(r.op), k), S)
    <3>1. eng[c].owned[k] = Cardinality(Owing(S, k))
      BY <2>1 DEF Owns
    <3>2. MapThenSumSet(LAMBDA r : Times(OwnedKeys(r.op), k), S) = Cardinality(Owing(S, k))
      BY <2>2, OwesSum
    <3> QED BY <3>1, <3>2
  <2> QED BY <2>3, <2>4 DEF S
<1> QED BY <1>1, SessionsJoined, PTL

(* WelcomeNotStale: a welcome is made of the scene that the acks before it
   were given for, and acks and welcomes are queued in the order the actor
   answers, so reconcile_snapshot never finds one older than its base.      *)
THEOREM WelcomesFresh == Spec => []WelcomeNotStale
<1>1. SInv => WelcomeNotStale
  <2> SUFFICES ASSUME SInv, NEW c \in Client, NEW n \in DOMAIN sess[c].out,
                      sess[c].out[n].type = "welcome"
               PROVE  LET m == sess[c].out[n] IN
                      /\ eng[c].base <= m.scene.version
                      /\ \A p \in 1..n : sess[c].out[p].type = "ack" =>
                                sess[c].out[p].revision <= m.scene.version
    BY DEF WelcomeNotStale
  <2> DEFINE out == sess[c].out
             base == eng[c].base
  <2>1. /\ out \in Seq(Range(out))
        /\ Tops(out[n], SubSeq(out, 1, n), base)
    BY DEF SInv, Joined, Ordered
  <2> HIDE DEF out, base
  <2>2. /\ base <= Level(out[n])
        /\ \A p \in 1..n : Dated(out[p]) => Level(out[p]) <= Level(out[n])
    BY <2>1, TopsUpTo DEF out
  <2>3. Level(out[n]) = out[n].scene.version
    BY DEF Level, out
  <2>4. \A p \in 1..n : out[p].type = "ack" => Dated(out[p]) /\ Level(out[p]) = out[p].revision
    BY DEF Dated, Level
  <2> QED BY <2>2, <2>3, <2>4 DEF out, base
<1> QED BY <1>1, SessionsJoined, PTL

-----------------------------------------------------------------------------

(* What the client shows of its own writes.  The ops A are those the clients
   author; kept keys are those of objects none of them inserts.            *)
Kept(k, A) == k \in Key /\ k[1] \notin InsertedBy(A)
Fielded(objs, A) == \A k : Kept(k, A) => HasField(objs, k[1], k[2])

(* objs has, at k, what the newest of the rows S writes there. *)
Displays(objs, S, k) ==
    \A r \in LastWrite(S, k) :
        r.op.kind # "batch" /\ k[1] \in DOMAIN objs => objs[k[1]][k[2]] = r.op.value

(* owned_keys of an op are the fields it writes. *)
LEMMA KeysAreWrites ==
    ASSUME NEW op \in AnyOp, NEW k \in Key
    PROVE  /\ \A n \in DOMAIN Steps(op) :
                 Writes(Steps(op)[n], k[1], k[2]) => k \in Range(OwnedKeys(op))
           /\ op.kind # "batch" /\ k \in Range(OwnedKeys(op)) =>
                 Writes(op, k[1], k[2])
<1> DEFINE of(o) == CASE o.kind = "set-prop" -> <<<<o.id, "prop">>>>
                      [] o.kind = "set-text" -> <<<<o.id, "text">>>>
                      [] OTHER -> <<>>
<1>1. k = <<k[1], k[2]>> /\ k[2] \in {"prop", "text"}
  BY DEF Key
<1>2. \A o : Writes(o, k[1], k[2]) => of(o) = <<k>>
  BY <1>1 DEF Writes, WriteOf
<1>3. \A o : k \in Range(of(o)) => Writes(o, k[1], k[2])
  <2> SUFFICES ASSUME NEW o, NEW n \in DOMAIN of(o), of(o)[n] = k
               PROVE  Writes(o, k[1], k[2])
    BY DEF Range
  <2>1. CASE o.kind = "set-prop"
    BY <1>1, <2>1 DEF Writes, WriteOf
  <2>2. CASE o.kind = "set-text"
    BY <1>1, <2>2 DEF Writes, WriteOf
  <2>3. CASE o.kind \notin {"set-prop", "set-text"}
    BY <2>3
  <2> QED BY <2>1, <2>2, <2>3
<1>4. Range(<<k>>) = {k}
  BY DEF Range
<1>5. CASE op.kind # "batch"
  <2>1. OwnedKeys(op) = of(op) /\ Steps(op) = <<op>>
    BY <1>5 DEF OwnedKeys, Steps
  <2>2. \A n \in DOMAIN <<op>> : <<op>>[n] = op
    OBVIOUS
  <2> HIDE DEF of
  <2> QED BY <1>2, <1>3, <1>4, <2>1, <2>2
<1>6. CASE op.kind = "batch"
  <2> DEFINE U == {<<o.id, "prop">> : o \in Range(op.ops)}
                  \cup {<<o.id, "text">> : o \in Range(op.ops)}
             q == [n \in DOMAIN op.ops |-> of(op.ops[n])]
  <2>1. op.ops \in Seq(Range(op.ops)) /\ Steps(op) = op.ops
    BY <1>6 DEF AnyOp, Steps
  <2>2. ASSUME NEW o \in Range(op.ops) PROVE of(o) \in Seq(U)
    <3>1. <<o.id, "prop">> \in U /\ <<o.id, "text">> \in U
      OBVIOUS
    <3> HIDE DEF U
    <3> QED BY <3>1
  <2>3. DOMAIN op.ops = 1..Len(op.ops) /\ Len(op.ops) \in Nat
    BY <2>1
  <2>4. q \in Seq(Seq(U)) /\ DOMAIN q = DOMAIN op.ops
    <3>1. \A n \in DOMAIN op.ops : of(op.ops[n]) \in Seq(U)
      <4> HIDE DEF of, U
      <4> QED BY <2>2 DEF Range
    <3> HIDE DEF of, U
    <3> QED BY <2>3, <3>1
  <2>5. OwnedKeys(op) = FlattenSeq(q)
    BY <1>6 DEF OwnedKeys
  <2>6. ASSUME NEW n \in DOMAIN op.ops, Writes(op.ops[n], k[1], k[2])
        PROVE  k \in Range(OwnedKeys(op))
    <3>1. q[n] = <<k>> /\ n \in DOMAIN q /\ q # <<>>
      <4>1. q[n] = of(op.ops[n])
        OBVIOUS
      <4>2. of(op.ops[n]) = <<k>>
        BY <1>2, <2>6
      <4> HIDE DEF q, of
      <4> QED BY <2>4, <2>6, <4>1, <4>2
    <3> HIDE DEF q, U
    <3>2. Range(q[n]) \subseteq Range(FlattenSeq(q))
      BY <2>4, <3>1, FlattenIsSeq
    <3> QED BY <1>4, <2>5, <3>1, <3>2
  <2> QED BY <1>6, <2>1, <2>6
<1> QED BY <1>5, <1>6

(* An authored op on a kept key: the object is not brought back, and the key
   changes only if the op owns it.                                         *)
LEMMA KeptByApply ==
    ASSUME NEW A \in SUBSET AnyOp, NEW op \in A, NEW k, Kept(k, A),
           NEW objs, HasField(objs, k[1], k[2])
    PROVE  LET after == Apply(objs, op).objs IN
           /\ HasField(after, k[1], k[2])
           /\ k[1] \in DOMAIN after => k[1] \in DOMAIN objs
           /\ k \notin Range(OwnedKeys(op)) => Same(after, objs, k[1], k[2])
<1> DEFINE after == Apply(objs, op).objs
<1>1. Listed(op) /\ op \in AnyOp /\ k \in Key /\ k[2] \in {"prop", "text"}
  BY DEF Listed, AnyOp, Kept, Key
<1>2. ASSUME NEW n \in DOMAIN Steps(op), Inserts(Steps(op)[n], k[1]) PROVE FALSE
  <2>1. Steps(op)[n] \in Does(op)
    <3>1. CASE op.kind = "batch"
      BY <3>1 DEF Steps, Does, Range
    <3>2. CASE op.kind # "batch"
      <4>1. Steps(op) = <<op>> /\ Does(op) = {op}
        BY <3>2 DEF Steps, Does
      <4> QED BY <4>1
    <3> QED BY <3>1, <3>2
  <2>2. k[1] \in InsertedBy(A)
    BY <1>2, <2>1 DEF Inserts, InsertedBy
  <2> QED BY <2>2 DEF Kept
<1>3. /\ Left(after, objs, k[1], k[2])
      /\ (\A n \in DOMAIN Steps(op) : ~Writes(Steps(op)[n], k[1], k[2]))
           => Same(after, objs, k[1], k[2])
  BY <1>1, <1>2, ApplyOnField
<1>4. k \notin Range(OwnedKeys(op)) =>
        \A n \in DOMAIN Steps(op) : ~Writes(Steps(op)[n], k[1], k[2])
  BY <1>1, KeysAreWrites
<1> HIDE DEF after
<1> QED BY <1>3, <1>4 DEF Left, HasField, after

(* A write after all others is the newest: authored, or replayed. *)
LEMMA DisplaysMore ==
    ASSUME NEW A \in SUBSET AnyOp, NEW k, Kept(k, A),
           NEW S \in SUBSET Row, NEW r \in Row, r.op \in A, \A q \in S : q.n < r.n,
           NEW objs, HasField(objs, k[1], k[2]), Displays(objs, S, k)
    PROVE  LET after == Apply(objs, r.op).objs IN
           HasField(after, k[1], k[2]) /\ Displays(after, S \cup {r}, k)
<1> DEFINE after == Apply(objs, r.op).objs
           keys == Range(OwnedKeys(r.op))
<1>1. /\ HasField(after, k[1], k[2])
      /\ k[1] \in DOMAIN after => k[1] \in DOMAIN objs
      /\ k \notin keys => Same(after, objs, k[1], k[2])
  BY KeptByApply
<1>2. r.n \in Nat /\ \A q \in S : q.n \in Nat
  BY RowsTyped
<1>3. ASSUME k \in keys PROVE Displays(after, S \cup {r}, k)
  <2>1. \A q \in LastWrite(S \cup {r}, k) : q = r
    BY <1>2, <1>3 DEF LastWrite
  <2>2. ASSUME r.op.kind # "batch", k[1] \in DOMAIN after
        PROVE  after[k[1]][k[2]] = r.op.value
    <3>1. k \in Key /\ k[2] \in {"prop", "text"} /\ r.op \in AnyOp
      BY DEF Kept, Key
    <3>2. r.op.id = k[1] /\ r.op.kind = WriteOf(k[2])
      BY <1>3, <2>2, <3>1, KeysAreWrites DEF Writes
    <3>3. k[1] \in DOMAIN objs /\ k[2] \in DOMAIN objs[k[1]]
      BY <1>1, <2>2 DEF HasField
    <3> QED BY <3>1, <3>2, <3>3, ApplyWrites
  <2> HIDE DEF after, keys
  <2> QED BY <2>1, <2>2 DEF Displays
<1>4. ASSUME k \notin keys PROVE Displays(after, S \cup {r}, k)
  <2>1. LastWrite(S \cup {r}, k) = LastWrite(S, k)
    BY <1>4 DEF LastWrite
  <2>2. Same(after, objs, k[1], k[2])
    BY <1>1, <1>4
  <2> HIDE DEF after, keys
  <2> QED BY <1>1, <2>1, <2>2 DEF Displays, Same
<1> QED BY <1>1, <1>3, <1>4

(* Rows that are settled in order leave the newest write what it is. *)
LEMMA DisplaysFewer ==
    ASSUME NEW k, NEW S \in SUBSET Row, NEW n, \A r \in S : ~(r.n < n),
           NEW objs, Displays(objs, S, k)
    PROVE  Displays(objs, {r \in S : r.n # n}, k)
<1> DEFINE T == {r \in S : r.n # n}
<1>1. \A r \in LastWrite(T, k) : r \in LastWrite(S, k)
  <2> SUFFICES ASSUME NEW r \in LastWrite(T, k), NEW q \in S,
                      k \in Range(OwnedKeys(q.op))
               PROVE  q.n <= r.n
    BY DEF LastWrite
  <2>1. r \in S /\ r.n \in Nat /\ q.n \in Nat
    BY RowsTyped DEF LastWrite
  <2>2. CASE q \in T
    BY <2>2 DEF LastWrite
  <2>3. CASE q \notin T
    BY <2>1, <2>3
  <2> QED BY <2>2, <2>3
<1> QED BY <1>1 DEF Displays

(* apply_remote leaves a key alone that an unacked op writes. *)
LEMMA DisplaysRemote ==
    ASSUME NEW A \in SUBSET AnyOp, NEW op \in A, NEW k, Kept(k, A), NEW e, Sound(e),
           HasField(e.objs, k[1], k[2]), Displays(e.objs, Range(e.rows), k)
    PROVE  LET f == ApplyRemote(e, op) IN
           /\ HasField(f.objs, k[1], k[2]) /\ Displays(f.objs, Range(e.rows), k)
<1> DEFINE S == Range(e.rows)
           after == Apply(e.objs, op).objs
           f == ApplyRemote(e, op)
           keys == OwnedKeys(op)
<1>1. S \in SUBSET Row /\ IsFiniteSet(S) /\ Owns(e, S) /\ Engine(e)
  BY OutboxRows DEF Sound
<1>2. CASE f = e
  BY <1>2
<1>3. CASE f # e
  <2>1. f.objs = after /\ \A n \in DOMAIN keys : ~(e.owned[keys[n]] > 0)
    BY <1>1, <1>3 DEF ApplyRemote, Engine
  <2>2. /\ HasField(after, k[1], k[2])
        /\ k[1] \in DOMAIN after => k[1] \in DOMAIN e.objs
        /\ k \notin Range(keys) => Same(after, e.objs, k[1], k[2])
    BY KeptByApply
  <2> HIDE DEF after, f, S
  <2>3. ASSUME NEW r \in LastWrite(S, k) PROVE k \notin Range(keys)
    <3>1. r \in S /\ k \in Range(OwnedKeys(r.op)) /\ r \in Row /\ k \in Key
      BY <1>1 DEF LastWrite, Kept
    <3>2. PICK U : OwnedKeys(r.op) \in Seq(U)
      BY <3>1, RowsTyped, KeysAreSeq
    <3>3. PICK n \in DOMAIN OwnedKeys(r.op) : OwnedKeys(r.op)[n] = k /\ n \in Nat
      BY <3>1, <3>2 DEF Range
    <3>4. <<r, n>> \in Owing(S, k)
      BY <3>1, <3>3 DEF Owing
    <3>5. Cardinality(Owing(S, k)) > 0
      <4>1. IsFiniteSet(Owing(S, k)) /\ Cardinality(Owing(S, k)) \in Nat
        BY <1>1, OwingFinite
      <4>2. Cardinality(Owing(S, k)) # 0
        BY <3>4, <4>1, FS_EmptySet
      <4> QED BY <4>1, <4>2
    <3>6. e.owned[k] > 0
      BY <1>1, <3>1, <3>5 DEF Owns
    <3> HIDE DEF keys
    <3> QED BY <2>1, <3>6 DEF Range
  <2>4. Displays(after, S, k)
    <3> SUFFICES ASSUME NEW r \in LastWrite(S, k), r.op.kind # "batch",
                        k[1] \in DOMAIN after
                 PROVE  after[k[1]][k[2]] = r.op.value
      BY DEF Displays
    <3>1. after[k[1]][k[2]] = e.objs[k[1]][k[2]] /\ k[1] \in DOMAIN e.objs
      BY <2>2, <2>3 DEF Same
    <3>2. Displays(e.objs, S, k)
      BY DEF S
    <3> QED BY <3>1, <3>2 DEF Displays
  <2> QED BY <2>1, <2>2, <2>4 DEF f, S
<1> QED BY <1>2, <1>3

-----------------------------------------------------------------------------

(* A list and another. *)
LEMMA ListConcat ==
    ASSUME NEW q, ListOf(q), NEW t, ListOf(t)
    PROVE  ListOf(q \o t) /\ Range(q \o t) \subseteq Range(q) \cup Range(t)
<1> DEFINE S == Range(q) \cup Range(t)
           all == q \o t
<1>1. /\ Len(q) \in Nat /\ DOMAIN q = 1..Len(q)
      /\ Len(t) \in Nat /\ DOMAIN t = 1..Len(t)
      /\ q = [i \in 1..Len(q) |-> q[i]] /\ t = [i \in 1..Len(t) |-> t[i]]
  BY LenProperties DEF ListOf
<1>2. /\ \A i \in 1..Len(q) : q[i] \in S
      /\ \A i \in 1..Len(t) : t[i] \in S
  BY <1>1 DEF Range
<1> HIDE DEF S
<1>3. q \in Seq(S) /\ t \in Seq(S)
  BY <1>1, <1>2
<1>4. all \in Seq(S)
  BY <1>3
<1> HIDE DEF all
<1>5. /\ DOMAIN all = 1..Len(all)
      /\ \A i \in 1..Len(all) : all[i] \in S
  BY <1>4, LenProperties, ElementOfSeq
<1>6. Range(all) \subseteq S
  BY <1>5 DEF Range
<1>7. ListOf(all)
  BY <1>4, IsListOfRange DEF ListOf
<1> QED BY <1>6, <1>7 DEF all, S

(* A list taken from the front. *)
LEMMA ListTail ==
    ASSUME NEW q, ListOf(q), q # <<>>
    PROVE  /\ Head(q) \in Range(q)
           /\ ListOf(Tail(q)) /\ Range(Tail(q)) \subseteq Range(q)
<1> DEFINE S == Range(q)
           t == Tail(q)
<1>1. q \in Seq(S)
  BY DEF ListOf
<1> HIDE DEF S, t
<1>2. t \in Seq(S) /\ Head(q) \in S
  BY <1>1, HeadTailProperties DEF t
<1>3. /\ DOMAIN t = 1..Len(t)
      /\ \A i \in 1..Len(t) : t[i] \in S
  BY <1>2, LenProperties, ElementOfSeq
<1>4. Range(t) \subseteq S
  BY <1>3 DEF Range
<1>5. ListOf(t)
  BY <1>2, IsListOfRange DEF ListOf
<1> QED BY <1>2, <1>4, <1>5 DEF S, t

(* The list of nothing. *)
LEMMA ListEmpty == ListOf(<<>>) /\ Range(<<>>) = {}
<1>1. Range(<<>>) = {}
  BY DEF Range
<1> QED BY <1>1 DEF ListOf

(* The list of one. *)
LEMMA ListOne == ASSUME NEW x PROVE ListOf(<<x>>) /\ Range(<<x>>) = {x}
<1>1. Range(<<x>>) = {x}
  BY DEF Range
<1> QED BY <1>1 DEF ListOf

-----------------------------------------------------------------------------

(* What an engine has to send comes from the ops A, and its objects have the
   fields; what it shows of its own writes.                                *)
Stocked(e, A) ==
    /\ \A r \in Range(e.rows) : r.op \in A
    /\ ListOf(e.pending) /\ \A r \in Range(e.pending) : r.op \in A
    /\ Fielded(e.objs, A)
Stands(e, A) == \A k : Kept(k, A) => Displays(e.objs, Range(e.rows), k)

(* Ops leave objects their fields. *)
LEMMA FieldedApply ==
    ASSUME NEW A \in SUBSET AnyOp, NEW op \in A, NEW objs, Fielded(objs, A)
    PROVE  Fielded(Apply(objs, op).objs, A)
<1> SUFFICES ASSUME NEW k, Kept(k, A)
             PROVE  HasField(Apply(objs, op).objs, k[1], k[2])
  BY DEF Fielded
<1>1. HasField(objs, k[1], k[2])
  BY DEF Fielded
<1> QED BY <1>1, KeptByApply

(* So does looking through a window. *)
LEMMA FieldedVisible ==
    ASSUME NEW A, NEW objs, NEW region, Fielded(objs, A)
    PROVE  Fielded(Visible(objs, region), A)
<1>1. CASE region = Whole
  BY <1>1 DEF Visible
<1>2. CASE region # Whole
  <2> DEFINE S == {o \in DOMAIN objs : InWindow(objs, o)}
             v == [o \in S |-> objs[o]]
  <2>1. Visible(objs, region) = v
    BY <1>2 DEF Visible, Restrict
  <2>2. \A o : o \in DOMAIN v => o \in DOMAIN objs /\ v[o] = objs[o]
    OBVIOUS
  <2> HIDE DEF v
  <2> QED BY <2>1, <2>2 DEF Fielded, HasField
<1> QED BY <1>1, <1>2

(* author shows its own write. *)
LEMMA AuthorStands ==
    ASSUME NEW A \in SUBSET AnyOp, NEW e, Sound(e), Stocked(e, A), NEW op \in A
    PROVE  LET row == [n |-> e.seq + 1, op |-> op]
               f == Authored(e, op, Apply(e.objs, op).objs, Append(e.pending, row))
           IN  Stocked(f, A) /\ (Stands(e, A) => Stands(f, A))
<1> DEFINE row == [n |-> e.seq + 1, op |-> op]
           objs == Apply(e.objs, op).objs
           pending == Append(e.pending, row)
           took == TakeOwnership(e, row.n, OwnedKeys(op))
           f == Authored(e, op, objs, pending)
           S == Range(e.rows)
<1>1. row \in Row /\ row.op = op /\ row.n = e.seq + 1
  BY DEF Row, Sound
<1>2. \A i \in DOMAIN e.rows : e.rows[i].n < row.n
  BY OutboxRows, RowsTyped, <1>1 DEF Sound
<1>3. \A q \in S : q.n < row.n
  BY <1>2 DEF Range
<1>4. Range(Append(e.rows, row)) = S \cup {row}
  <2> HIDE DEF row
  <2> QED BY <1>1, <1>2, AddedRow DEF Sound
<1>5. Engine(took) /\ took.rows = e.rows
  <2> HIDE DEF row
  <2> QED BY DEF TakeOwnership, Sound, Engine
<1>6. f = [took EXCEPT !.objs = objs, !.seq = row.n, !.made = @ + 1,
                       !.rows = Append(@, row), !.pending = pending]
  BY DEF Authored
<1>7. S \in SUBSET Row
  BY OutboxRows DEF Sound
<1> HIDE DEF row, objs, pending, took, f, S
<1>8. f.objs = objs /\ f.rows = Append(e.rows, row) /\ f.pending = pending
  BY <1>5, <1>6 DEF Engine
<1>9. Fielded(objs, A)
  BY FieldedApply DEF Stocked, objs
<1>10. ListOf(pending) /\ \A r \in Range(pending) : r.op \in A
  BY <1>1, ListAppend DEF Stocked, pending
<1>11. Stocked(f, A)
  BY <1>1, <1>4, <1>8, <1>9, <1>10 DEF Stocked, S
<1>12. ASSUME Stands(e, A) PROVE Stands(f, A)
  <2> SUFFICES ASSUME NEW k, Kept(k, A) PROVE Displays(objs, S \cup {row}, k)
    BY <1>4, <1>8 DEF Stands
  <2>1. HasField(e.objs, k[1], k[2]) /\ Displays(e.objs, S, k)
    BY <1>12 DEF Stands, Stocked, Fielded, S
  <2>2. Displays(Apply(e.objs, row.op).objs, S \cup {row}, k)
    BY <1>1, <1>3, <1>7, <2>1, DisplaysMore
  <2> QED BY <1>1, <2>2 DEF objs
<1> QED BY <1>11, <1>12 DEF f, objs, pending, row

(* An ack or a rejection in order leaves what is shown. *)
LEMMA SettleStands ==
    ASSUME NEW A, NEW e, Sound(e), Stocked(e, A), NEW n, NEW b,
           NEW f, f = Settle(e, n) \/ f = [Settle(e, n) EXCEPT !.base = b]
    PROVE  /\ Stocked(f, A)
           /\ Stands(e, A) /\ (\A r \in Range(e.rows) : ~(r.n < n)) => Stands(f, A)
<1> DEFINE S == Range(e.rows)
           g == ReleaseOwnership(e, n)
           h == Settle(e, n)
           rest == {r \in S : r.n # n}
           rows == Dropped(e.rows, n)
<1>1. S \in SUBSET Row /\ IsFiniteSet(S) /\ Distinct(S) /\ Engine(e) /\ Owns(e, S)
  BY OutboxRows DEF Sound
<1>2. Outbox(rows) /\ Range(rows) = rest
  BY DroppedRows DEF Sound
<1> HIDE DEF S
<1>3. /\ Engine(g) /\ g.objs = e.objs /\ g.rows = e.rows /\ g.pending = e.pending
  BY <1>1, ReleaseOwns
<1>4. h = [g EXCEPT !.rows = rows]
  BY <1>3 DEF Settle
<1> HIDE DEF g, h, rest, rows
<1>5. Engine(h) /\ h.objs = e.objs /\ h.rows = rows /\ h.pending = e.pending
  BY <1>3, <1>4 DEF Engine
<1>6. f.objs = e.objs /\ f.rows = rows /\ f.pending = e.pending
  BY <1>5 DEF Engine, h
<1>7. Stocked(f, A)
  BY <1>2, <1>6 DEF Stocked, rest, S
<1>8. ASSUME Stands(e, A), \A r \in S : ~(r.n < n) PROVE Stands(f, A)
  <2> SUFFICES ASSUME NEW k, Kept(k, A) PROVE Displays(e.objs, rest, k)
    BY <1>2, <1>6 DEF Stands
  <2>1. Displays(e.objs, S, k)
    BY <1>8 DEF Stands, S
  <2> QED BY <1>1, <1>8, <2>1, DisplaysFewer DEF rest
<1> QED BY <1>7, <1>8 DEF S

(* A patch leaves it, too. *)
LEMMA RemoteStands ==
    ASSUME NEW A \in SUBSET AnyOp, NEW e, Sound(e), Stocked(e, A), NEW op \in A
    PROVE  LET f == ApplyRemote(e, op)
           IN  Stocked(f, A) /\ (Stands(e, A) => Stands(f, A))
<1> DEFINE f == ApplyRemote(e, op)
           after == Apply(e.objs, op).objs
<1>1. f.objs \in {e.objs, after} /\ f.rows = e.rows /\ f.pending = e.pending
  <2>1. f = e \/ f = [e EXCEPT !.objs = after]
    BY DEF ApplyRemote
  <2> HIDE DEF f, after
  <2> QED BY <2>1 DEF Sound, Engine
<1>2. Fielded(after, A) /\ Fielded(e.objs, A)
  BY FieldedApply DEF Stocked
<1>3. Stocked(f, A)
  <2> HIDE DEF f, after
  <2> QED BY <1>1, <1>2 DEF Stocked
<1>4. ASSUME Stands(e, A) PROVE Stands(f, A)
  <2> SUFFICES ASSUME NEW k, Kept(k, A) PROVE Displays(f.objs, Range(e.rows), k)
    BY <1>1 DEF Stands
  <2>1. HasField(e.objs, k[1], k[2]) /\ Displays(e.objs, Range(e.rows), k)
    BY <1>4 DEF Stands, Stocked, Fielded
  <2> QED BY <2>1, DisplaysRemote
<1> QED BY <1>3, <1>4

(* What replaying one row changes. *)
LEMMA ReplayFields ==
    ASSUME NEW e, Engine(e), NEW row
    PROVE  LET f == Replay(e, row) IN
           /\ Engine(f) /\ f.objs = Apply(e.objs, row.op).objs
           /\ f.rows = e.rows /\ f.pending = e.pending
<1> DEFINE objs == Apply(e.objs, row.op).objs
           g == [e EXCEPT !.objs = objs]
           keys == OwnedKeys(row.op)
<1>1. Replay(e, row) = TakeOwnership(g, row.n, keys)
  BY DEF Replay
<1> HIDE DEF objs, keys
<1>2. Engine(g) /\ g.objs = objs /\ g.rows = e.rows /\ g.pending = e.pending
  BY DEF Engine
<1> HIDE DEF g
<1> DEFINE f == TakeOwnership(g, row.n, keys)
<1>3. Engine(f) /\ f.objs = objs /\ f.rows = e.rows /\ f.pending = e.pending
  BY <1>2 DEF TakeOwnership, Engine
<1> QED BY <1>1, <1>3 DEF objs

(* An engine that replays its outbox shows its writes, whatever the welcome
   had.                                                                    *)
LEMMA ReplayStands ==
    ASSUME NEW A \in SUBSET AnyOp, NEW rows, Outbox(rows),
           \A r \in Range(rows) : r.op \in A,
           NEW e, Engine(e), Fielded(e.objs, A)
    PROVE  LET f == Replayed(e, rows) IN
           /\ f.rows = e.rows /\ f.pending = e.pending /\ Fielded(f.objs, A)
           /\ \A k : Kept(k, A) => Displays(f.objs, Range(rows), k)
<1>1. PICK f : /\ Replayed(e, rows) = f[Len(rows)]
               /\ f[0] = e
               /\ \A n \in 1..Len(rows) : f[n] = Replay(f[n - 1], rows[n])
  BY ReplaySteps
<1>2. /\ Len(rows) \in Nat /\ DOMAIN rows = 1..Len(rows)
      /\ \A i \in 1..Len(rows) : rows[i] \in Row /\ rows[i].op \in A
      /\ \A i, j \in 1..Len(rows) : i < j => rows[i].n < rows[j].n
  BY OutboxRows DEF Outbox, Range
<1> DEFINE upTo(n) == {rows[i] : i \in 1..n}
           Good(n) == /\ Engine(f[n]) /\ f[n].rows = e.rows
                      /\ f[n].pending = e.pending
                      /\ \A k : Kept(k, A) =>
                            /\ HasField(f[n].objs, k[1], k[2])
                            /\ Displays(f[n].objs, upTo(n), k)
           Bad == {n \in 0..Len(rows) : ~Good(n)}
<1>3. Good(0)
  <2>1. upTo(0) = {}
    OBVIOUS
  <2>2. \A k : LastWrite({}, k) = {}
    BY DEF LastWrite
  <2> HIDE DEF upTo
  <2> QED BY <1>1, <2>1, <2>2 DEF Displays, Fielded
<1>4. ASSUME NEW n \in 1..Len(rows), Good(n - 1) PROVE Good(n)
  <2> DEFINE S == upTo(n - 1)
             r == rows[n]
             a == f[n - 1]
             b == f[n]
  <2>1. S \in SUBSET Row /\ r \in Row /\ r.op \in A /\ (\A q \in S : q.n < r.n)
    BY <1>2
  <2>2. upTo(n) = S \cup {r}
    <3>1. 1..n = (1..n - 1) \cup {n}
      BY <1>2
    <3> QED BY <3>1
  <2>3. Engine(a) /\ b = Replay(a, r) /\ a.rows = e.rows /\ a.pending = e.pending
    BY <1>1, <1>4
  <2>4. \A k : Kept(k, A) => /\ HasField(a.objs, k[1], k[2])
                             /\ Displays(a.objs, S, k)
    BY <1>4
  <2> HIDE DEF S, r, a, b, upTo
  <2>5. /\ Engine(b) /\ b.objs = Apply(a.objs, r.op).objs
        /\ b.rows = e.rows /\ b.pending = e.pending
    BY <2>3, ReplayFields
  <2>6. \A k : Kept(k, A) => /\ HasField(b.objs, k[1], k[2])
                             /\ Displays(b.objs, S \cup {r}, k)
    BY <2>1, <2>4, <2>5, DisplaysMore
  <2> QED BY <2>2, <2>5, <2>6 DEF b
<1>5. Bad = {}
  <2> HIDE DEF Good
  <2> SUFFICES ASSUME Bad # {} PROVE FALSE
    OBVIOUS
  <2>1. PICK n \in Bad : \A x \in Bad : n <= x
    <3>1. Bad \in SUBSET Nat
      OBVIOUS
    <3> HIDE DEF Bad
    <3> QED BY <3>1, LeastExists
  <2>2. n \in 0..Len(rows) /\ ~Good(n) /\ n # 0
    BY <1>3, <2>1
  <2>3. n - 1 \in 0..Len(rows) /\ ~(n <= n - 1)
    BY <1>2, <2>2
  <2>4. Good(n - 1)
    BY <2>1, <2>3
  <2> QED BY <1>2, <1>4, <2>2, <2>4
<1>6. Good(Len(rows))
  <2> HIDE DEF Good
  <2> QED BY <1>2, <1>5
<1>7. upTo(Len(rows)) = Range(rows)
  BY <1>2 DEF Range
<1> QED BY <1>1, <1>6, <1>7 DEF Fielded

(* So does one that takes a welcome, which it ignores or replays onto. *)
LEMMA ReconcileStands ==
    ASSUME NEW A \in SUBSET AnyOp, NEW e, Sound(e), Stocked(e, A),
           NEW snap, Fielded(snap.objs, A)
    PROVE  LET f == Reconcile(e, snap)
           IN  Stocked(f, A) /\ (Stands(e, A) => Stands(f, A))
<1> DEFINE d == Reseed(e)
           g == Reconcile(e, snap)
<1>1. Engine(d) /\ d.rows = e.rows /\ d.objs = e.objs /\ d.pending = e.pending
  BY DEF Reseed, Sound, Engine
<1> HIDE DEF d
<1>2. CASE Stale(e, snap)
  <2>1. g = [d EXCEPT !.fresh = FALSE]
    BY <1>2 DEF Reconcile, d
  <2> HIDE DEF g
  <2>2. g.rows = e.rows /\ g.objs = e.objs /\ g.pending = e.pending
    BY <1>1, <2>1 DEF Engine
  <2> QED BY <2>2 DEF Stocked, Stands, g
<1>3. CASE ~Stale(e, snap)
  <2> DEFINE s == [d EXCEPT !.fresh = FALSE, !.base = snap.version,
                            !.objs = snap.objs, !.held = NoneHeld,
                            !.owned = [k \in Key |-> 0]]
             f == Replayed(s, e.rows)
  <2>1. Engine(s) /\ s.rows = e.rows /\ s.objs = snap.objs /\ s.pending = e.pending
    BY <1>1 DEF Engine
  <2>2. g = f
    BY <1>3 DEF Reconcile, Replayed, d
  <2> HIDE DEF s, g
  <2>3. Outbox(e.rows) /\ \A r \in Range(e.rows) : r.op \in A
    BY DEF Sound, Stocked
  <2>4. /\ f.rows = e.rows /\ f.pending = e.pending /\ Fielded(f.objs, A)
        /\ \A k : Kept(k, A) => Displays(f.objs, Range(e.rows), k)
    BY <2>1, <2>3, ReplayStands
  <2> HIDE DEF f
  <2> QED BY <2>2, <2>4 DEF Stocked, Stands, g
<1> QED BY <1>2, <1>3

-----------------------------------------------------------------------------

(* What the queues hold comes from the ops A, and the welcomes in them have
   the fields.                                                             *)
Sends(q, A) == ListOf(q) /\ \A i \in Range(q) : i.type = "op" => i.op \in A
Lists(q, A) == ListOf(q) /\ \A b \in Range(q) : b.op \in A
Tells(m, A) ==
    /\ m.type = "patch" => m.op \in A
    /\ m.type = "welcome" => Fielded(m.scene.objs, A)
Brings(s, A) ==
    /\ Sends(s.inq, A) /\ Lists(s.bq, A)
    /\ s.hand # <<>> => Tells(Head(s.hand), A)
    /\ s.doing # <<>> => Tells(Head(s.doing), A)
    /\ \A m \in Range(s.out) : Tells(m, A)
Waiting(qs, A) == \A q \in qs : q # <<>> /\ Lists(q, A)

(* The inductive invariant of what is shown, beside SInv: a client whose ops
   the server took in order shows its own writes.                          *)
FInv ==
    /\ old = [c \in Client |-> old[c]]
    /\ Fielded(scene.objs, Authorable)
    /\ \A c \in Client :
         /\ Brings(sess[c], Authorable) /\ Stocked(eng[c], Authorable)
         /\ Waiting(old[c], Authorable)
         /\ <<c, "swapped">> \in skew \/ Stands(eng[c], Authorable)

(* Ops to be authored are ops of the scripts. *)
LEMMA AuthorableOps == SInv => Authorable \in SUBSET AnyOp
BY DEF SInv, Authorable, AnyOp

(* A step of one client: its session, its engine and the frames that its
   broken connections left.                                                *)
LEMMA OneClient ==
    ASSUME SInv, FInv, NEW c \in Client, NEW s, NEW e, NEW qs,
           Brings(s, Authorable), Stocked(e, Authorable), Waiting(qs, Authorable),
           <<c, "swapped">> \in skew' \/ Stands(e, Authorable),
           sess' = [sess EXCEPT ![c] = s], eng' = [eng EXCEPT ![c] = e],
           old' = [old EXCEPT ![c] = qs], skew \subseteq skew',
           UNCHANGED <<script, scene>>
    PROVE  FInv'
<1>1. /\ sess' = [d \in Client |-> IF d = c THEN s ELSE sess[d]]
      /\ eng' = [d \in Client |-> IF d = c THEN e ELSE eng[d]]
      /\ old' = [d \in Client |-> IF d = c THEN qs ELSE old[d]]
  BY DEF SInv, FInv
<1>2. Authorable' = Authorable
  BY DEF Authorable
<1>3. ASSUME NEW d \in Client
      PROVE  /\ Brings(sess'[d], Authorable) /\ Stocked(eng'[d], Authorable)
             /\ Waiting(old'[d], Authorable)
             /\ <<d, "swapped">> \in skew' \/ Stands(eng'[d], Authorable)
  <2>1. CASE d = c
    BY <1>1, <2>1
  <2>2. CASE d # c
    BY <1>1, <2>2 DEF FInv
  <2> QED BY <2>1, <2>2
<1> QED BY <1>1, <1>2, <1>3 DEF FInv

(* A step of one session alone. *)
LEMMA OneBrings ==
    ASSUME SInv, FInv, NEW c \in Client, NEW s, Brings(s, Authorable),
           sess' = [sess EXCEPT ![c] = s], skew \subseteq skew',
           UNCHANGED <<script, scene, eng, old>>
    PROVE  FInv'
<1>1. eng' = [eng EXCEPT ![c] = eng[c]] /\ old' = [old EXCEPT ![c] = old[c]]
  BY DEF SInv, FInv
<1>2. /\ Stocked(eng[c], Authorable) /\ Waiting(old[c], Authorable)
      /\ <<c, "swapped">> \in skew' \/ Stands(eng[c], Authorable)
  BY DEF FInv
<1> QED BY <1>1, <1>2, OneClient

(* Every client has the objects of the first welcome, and nothing unacked. *)
LEMMA InitFInv == Init => FInv
<1> USE ObjsAssumption
<1> SUFFICES ASSUME Init PROVE FInv
  OBVIOUS
<1>1. /\ scene.objs = InitObjs /\ old = [c \in Client |-> {}]
      /\ eng = [c \in Client |-> NewEngine(InitObjs, 0)]
      /\ sess = [c \in Client |-> [Down EXCEPT !.state = "open", !.mine = SameId]]
  BY DEF Init
<1>2. Fielded(InitObjs, Authorable)
  BY DEF Fielded, HasField, Kept, Key
<1>3. ASSUME NEW c \in Client
      PROVE  /\ Brings(sess[c], Authorable) /\ Stocked(eng[c], Authorable)
             /\ Waiting(old[c], Authorable) /\ Stands(eng[c], Authorable)
  <2> DEFINE s == [Down EXCEPT !.state = "open", !.mine = SameId]
             e == NewEngine(InitObjs, 0)
  <2>1. /\ s.inq = <<>> /\ s.bq = <<>> /\ s.hand = <<>> /\ s.doing = <<>>
        /\ s.out = <<>>
    BY DEF Down
  <2>2. e.rows = <<>> /\ e.pending = <<>> /\ e.objs = InitObjs
    BY DEF NewEngine
  <2>3. sess[c] = s /\ eng[c] = e /\ old[c] = {}
    BY <1>1
  <2> HIDE DEF s, e
  <2>4. Brings(s, Authorable)
    BY <2>1, ListEmpty DEF Brings, Sends, Lists
  <2>5. Stocked(e, Authorable)
    BY <1>2, <2>2, ListEmpty DEF Stocked
  <2>6. Stands(e, Authorable)
    <3>1. \A k : LastWrite({}, k) = {}
      BY DEF LastWrite
    <3> QED BY <2>2, <3>1, ListEmpty DEF Stands, Displays
  <2> QED BY <2>3, <2>4, <2>5, <2>6 DEF Waiting
<1> QED BY <1>1, <1>2, <1>3 DEF FInv

(* author *)
LEMMA AuthorShows ==
    ASSUME SInv, FInv, NEW c \in Client, eng[c].made < Len(script[c]),
           Author(c, script[c][eng[c].made + 1]), UNCHANGED script
    PROVE  FInv'
<1> DEFINE e == eng[c]
           op == script[c][e.made + 1]
           row == [n |-> e.seq + 1, op |-> op]
           objs == Apply(e.objs, op).objs
           pending == Append(e.pending, row)
           f == Authored(e, op, objs, pending)
<1>1. Joined(sess[c], e, scene.version) /\ Sound(e)
  BY DEF SInv, Joined
<1>2. op \in Authorable
  <2>1. script[c] \in Seq(Range(script[c])) /\ script \in Scripts
    BY ScriptsAssumption DEF SInv
  <2>2. e.made + 1 \in DOMAIN script[c]
    <3>1. Len(script[c]) \in Nat /\ DOMAIN script[c] = 1..Len(script[c])
      BY <2>1, LenProperties
    <3>2. e.made \in Nat
      BY <1>1 DEF Sound
    <3> QED BY <3>1, <3>2
  <2>3. op \in Range(script[c])
    BY <2>2 DEF Range
  <2> QED BY <2>3 DEF Authorable
<1>3. /\ eng' = [eng EXCEPT ![c] = f]
      /\ UNCHANGED <<sess, scene, old, skew>>
  <2>1. TakeOwnership(e, row.n, OwnedKeys(op)).pending = e.pending
    <3> HIDE DEF op
    <3> QED BY <1>1 DEF TakeOwnership, Sound, Engine
  <2> QED BY <2>1 DEF Author, Authored
<1>4. Stocked(f, Authorable) /\ (Stands(e, Authorable) => Stands(f, Authorable))
  <2>1. Authorable \in SUBSET AnyOp /\ Stocked(e, Authorable)
    BY AuthorableOps DEF FInv
  <2> HIDE DEF op
  <2> QED BY <1>1, <1>2, <2>1, AuthorStands
<1> HIDE DEF f
<1>5. sess' = [sess EXCEPT ![c] = sess[c]] /\ old' = [old EXCEPT ![c] = old[c]]
  BY <1>3 DEF SInv, FInv
<1>6. /\ Brings(sess[c], Authorable) /\ Waiting(old[c], Authorable)
      /\ <<c, "swapped">> \in skew' \/ Stands(f, Authorable)
  BY <1>3, <1>4 DEF FInv
<1> QED BY <1>3, <1>4, <1>5, <1>6, OneClient

(* Frames sent join those on their way. *)
LEMMA SendBrings ==
    ASSUME NEW A, NEW s, Fields(s), Brings(s, A), NEW items, Sends(items, A)
    PROVE  Brings(Send(s, items), A)
<1> DEFINE t == [s EXCEPT !.inq = @ \o items]
<1>1. /\ t.inq = s.inq \o items /\ t.bq = s.bq /\ t.hand = s.hand
      /\ t.doing = s.doing /\ t.out = s.out
  BY DEF Fields
<1> HIDE DEF t
<1>2. Sends(s.inq \o items, A)
  BY ListConcat DEF Brings, Sends
<1>3. Brings(t, A)
  BY <1>1, <1>2 DEF Brings
<1> QED BY <1>3 DEF Send, t

(* The frames of a list of rows send their ops. *)
LEMMA ItemsSent ==
    ASSUME NEW A, NEW rows, ListOf(rows), \A r \in Range(rows) : r.op \in A
    PROVE  Sends(OpItems(rows), A)
<1> DEFINE item(n) == [type |-> "op", n |-> rows[n].n, op |-> rows[n].op]
           q == OpItems(rows)
           S == {item(n) : n \in DOMAIN rows}
<1>1. Len(rows) \in Nat /\ DOMAIN rows = 1..Len(rows)
  BY LenProperties DEF ListOf
<1>2. q = [n \in 1..Len(rows) |-> item(n)]
  BY <1>1 DEF OpItems
<1>3. \A n \in 1..Len(rows) : item(n).op \in A
  BY <1>1 DEF Range
<1> HIDE DEF item, q
<1>4. q \in Seq(S)
  BY <1>1, <1>2
<1>5. ListOf(q)
  <2> HIDE DEF S
  <2> QED BY <1>4, IsListOfRange DEF ListOf
<1>6. \A i \in Range(q) : i.op \in A
  <2>1. DOMAIN q = 1..Len(rows)
    BY <1>2
  <2> QED BY <1>2, <1>3, <2>1 DEF Range
<1> QED BY <1>5, <1>6 DEF Sends, q

(* on_flush_due *)
LEMMA FlushShows ==
    ASSUME SInv, FInv, NEW c \in Client, Flush(c), UNCHANGED script
    PROVE  FInv'
<1> DEFINE f == [eng[c] EXCEPT !.pending = <<>>]
           items == OpItems(eng[c].pending)
           t == Send(sess[c], items)
<1>1. Joined(sess[c], eng[c], scene.version)
  BY DEF SInv
<1>2. /\ Brings(sess[c], Authorable) /\ Stocked(eng[c], Authorable)
      /\ Waiting(old[c], Authorable)
      /\ <<c, "swapped">> \in skew \/ Stands(eng[c], Authorable)
  BY DEF FInv
<1>3. f.rows = eng[c].rows /\ f.objs = eng[c].objs /\ f.pending = <<>>
  BY <1>1 DEF Joined, Sound, Engine
<1>4. /\ eng' = [eng EXCEPT ![c] = f] /\ sess' = [sess EXCEPT ![c] = t]
      /\ UNCHANGED <<scene, old, skew>>
  BY DEF Flush, SInv
<1>5. Sends(items, Authorable)
  BY <1>2, ItemsSent DEF Stocked
<1>6. Brings(t, Authorable)
  <2> HIDE DEF items
  <2> QED BY <1>1, <1>2, <1>5, SendBrings DEF Joined
<1> HIDE DEF f, items, t
<1>7. Stocked(f, Authorable)
  BY <1>2, <1>3, ListEmpty DEF Stocked
<1>8. <<c, "swapped">> \in skew' \/ Stands(f, Authorable)
  BY <1>2, <1>3, <1>4 DEF Stands
<1>9. old' = [old EXCEPT ![c] = old[c]]
  BY <1>4 DEF FInv
<1> QED BY <1>2, <1>4, <1>6, <1>7, <1>8, <1>9, OneClient

(* setViewport and resync send no op. *)
LEMMA AskShows ==
    ASSUME SInv, FInv, NEW c \in Client, UNCHANGED script,
           (\E region : SetViewport(c, region)) \/ Resync(c)
    PROVE  FInv'
<1>1. PICK item : /\ item.type # "op"
                  /\ sess' = [sess EXCEPT ![c] = Send(@, <<item>>)]
  <2>1. CASE Resync(c)
    <3>1. [type |-> "resume"].type # "op"
      OBVIOUS
    <3> QED BY <2>1, <3>1 DEF Resync
  <2>2. CASE \E region : SetViewport(c, region)
    <3>1. PICK region : SetViewport(c, region)
      BY <2>2
    <3>2. [type |-> "subscribe", region |-> region].type # "op"
      OBVIOUS
    <3> QED BY <3>1, <3>2 DEF SetViewport
  <2> QED BY <2>1, <2>2
<1> DEFINE t == Send(sess[c], <<item>>)
<1>2. sess' = [sess EXCEPT ![c] = t]
  BY <1>1 DEF SInv
<1>3. Sends(<<item>>, Authorable)
  BY <1>1, ListOne DEF Sends
<1>4. Brings(t, Authorable)
  BY <1>3, SendBrings DEF SInv, FInv, Joined
<1>5. UNCHANGED <<scene, eng, old, skew>>
  BY DEF SetViewport, Resync
<1> HIDE DEF t
<1> QED BY <1>2, <1>4, <1>5, OneBrings

(* A frame that the client takes. *)
LEMMA TakenBrings ==
    ASSUME SInv, FInv, NEW c \in Client, sess[c].out # <<>>
    PROVE  Tells(Frame(c), Authorable) /\ Brings(Taken(c), Authorable)
           /\ Fields(Taken(c))
<1> DEFINE s == sess[c]
           t == Taken(c)
<1>1. Fields(s) /\ ListOf(s.out)
  BY DEF SInv, Joined, Ordered, ListOf
<1>2. Brings(s, Authorable)
  BY DEF FInv
<1>3. /\ Fields(t) /\ t.inq = s.inq /\ t.bq = s.bq /\ t.hand = s.hand
      /\ t.doing = s.doing /\ t.out = Tail(s.out)
  BY <1>1 DEF Taken, Fields
<1> HIDE DEF t
<1>4. Head(s.out) \in Range(s.out) /\ Range(Tail(s.out)) \subseteq Range(s.out)
  BY <1>1, ListTail
<1>5. Brings(t, Authorable)
  BY <1>2, <1>3, <1>4 DEF Brings
<1>6. Tells(Frame(c), Authorable)
  BY <1>2, <1>4 DEF Brings, Frame
<1> QED BY <1>3, <1>5, <1>6 DEF t

(* The engine takes a frame, and the client perhaps answers. *)
LEMMA TakeShows ==
    ASSUME SInv, FInv, NEW c \in Client, NEW s, Brings(s, Authorable),
           NEW f, Stocked(f, Authorable),
           <<c, "swapped">> \in skew' \/ Stands(f, Authorable),
           sess' = [sess EXCEPT ![c] = s], eng' = [eng EXCEPT ![c] = f],
           skew \subseteq skew', UNCHANGED <<script, scene, old>>
    PROVE  FInv'
<1>1. old' = [old EXCEPT ![c] = old[c]] /\ Waiting(old[c], Authorable)
  BY DEF FInv
<1> QED BY <1>1, OneClient

(* handleMessage: an ack or a rejection.  One out of order is recorded. *)
LEMMA SettleShows ==
    ASSUME SInv, FInv, NEW c \in Client, UNCHANGED script,
           ReceiveAck(c) \/ ReceiveRejected(c)
    PROVE  FInv'
<1> DEFINE e == eng[c]
           n == Frame(c).n
<1>1. /\ sess[c].out # <<>> /\ sess' = [sess EXCEPT ![c] = Taken(c)]
      /\ UNCHANGED <<scene, old>> /\ skew' = SwapNoted(c)
  BY DEF ReceiveAck, ReceiveRejected, Incoming
<1>2. PICK f, b : /\ f = Settle(e, n) \/ f = [Settle(e, n) EXCEPT !.base = b]
                  /\ eng' = [eng EXCEPT ![c] = f]
  <2>1. CASE ReceiveRejected(c)
    BY <2>1 DEF ReceiveRejected
  <2>2. CASE ReceiveAck(c)
    <3> DEFINE r == Frame(c).revision
               b == IF r > Settle(e, n).base THEN r ELSE Settle(e, n).base
    <3>1. OnAck(e, n, r) = [Settle(e, n) EXCEPT !.base = b]
      BY DEF OnAck
    <3>2. eng' = [eng EXCEPT ![c] = OnAck(e, n, r)]
      BY <2>2 DEF ReceiveAck, SInv
    <3> HIDE DEF b, n
    <3> QED BY <3>1, <3>2
  <2> QED BY <2>1, <2>2
<1>3. /\ Sound(e) /\ Stocked(e, Authorable)
      /\ <<c, "swapped">> \in skew \/ Stands(e, Authorable)
  BY DEF SInv, Joined, FInv
<1>4. skew \subseteq skew'
  BY <1>1 DEF SwapNoted
<1>5. <<c, "swapped">> \in skew' \/ \A r \in Range(e.rows) : ~(r.n < n)
  BY <1>1 DEF SwapNoted, Range
<1> HIDE DEF e, n
<1>6. /\ Stocked(f, Authorable)
      /\ <<c, "swapped">> \in skew' \/ Stands(f, Authorable)
  BY <1>2, <1>3, <1>4, <1>5, SettleStands
<1>7. Brings(Taken(c), Authorable)
  BY <1>1, TakenBrings
<1> QED BY <1>1, <1>2, <1>4, <1>6, <1>7, TakeShows

(* handleMessage: a patch. *)
LEMMA PatchShows ==
    ASSUME SInv, FInv, NEW c \in Client, UNCHANGED script, ReceivePatch(c)
    PROVE  FInv'
<1> DEFINE f == ApplyRemote(eng[c], Frame(c).op)
<1>1. /\ sess[c].out # <<>> /\ Frame(c).type = "patch"
      /\ sess' = [sess EXCEPT ![c] = Taken(c)] /\ eng' = [eng EXCEPT ![c] = f]
      /\ UNCHANGED <<scene, old, skew>>
  BY DEF ReceivePatch, Incoming, SInv
<1>2. Brings(Taken(c), Authorable) /\ Frame(c).op \in Authorable
  BY <1>1, TakenBrings DEF Tells
<1>3. /\ Sound(eng[c]) /\ Stocked(eng[c], Authorable)
      /\ <<c, "swapped">> \in skew \/ Stands(eng[c], Authorable)
  BY DEF SInv, Joined, FInv
<1>4. Stocked(f, Authorable) /\ (Stands(eng[c], Authorable) => Stands(f, Authorable))
  BY <1>2, <1>3, AuthorableOps, RemoteStands
<1> HIDE DEF f
<1> QED BY <1>1, <1>2, <1>3, <1>4, TakeShows

(* handleMessage: a welcome, onto which the outbox is replayed and resent. *)
LEMMA WelcomeShows ==
    ASSUME SInv, FInv, NEW c \in Client, UNCHANGED script, ReceiveWelcome(c)
    PROVE  FInv'
<1> DEFINE snap == Frame(c).scene
           f == Reconcile(eng[c], snap)
           rows == Resent(eng[c], snap)
           t == Send(Taken(c), OpItems(rows))
<1>1. /\ sess[c].out # <<>> /\ Frame(c).type = "welcome"
      /\ sess' = [sess EXCEPT ![c] = t] /\ eng' = [eng EXCEPT ![c] = f]
      /\ UNCHANGED <<scene, old, skew>>
  BY DEF ReceiveWelcome, Incoming, SInv
<1>2. /\ Brings(Taken(c), Authorable) /\ Fields(Taken(c))
      /\ Fielded(snap.objs, Authorable)
  BY <1>1, TakenBrings DEF Tells
<1>3. /\ Sound(eng[c]) /\ Stocked(eng[c], Authorable)
      /\ <<c, "swapped">> \in skew \/ Stands(eng[c], Authorable)
  BY DEF SInv, Joined, FInv
<1>4. Stocked(f, Authorable) /\ (Stands(eng[c], Authorable) => Stands(f, Authorable))
  <2> HIDE DEF snap
  <2> QED BY <1>2, <1>3, AuthorableOps, ReconcileStands
<1>5. ListOf(rows) /\ \A r \in Range(rows) : r.op \in Authorable
  <2>1. ListOf(eng[c].rows)
    BY <1>3, IsListOfRange DEF Sound, Outbox, ListOf
  <2> QED BY <1>3, <2>1, ListEmpty DEF Resent, Stocked
<1> HIDE DEF rows, snap, f
<1>6. Brings(t, Authorable)
  <2>1. Sends(OpItems(rows), Authorable)
    BY <1>5, ItemsSent
  <2> QED BY <1>2, <2>1, SendBrings
<1> HIDE DEF t
<1> QED BY <1>1, <1>3, <1>4, <1>6, TakeShows

(* A broadcast of an op of A joins the sessions' queues of broadcasts. *)
LEMMA BroadcastBrings ==
    ASSUME NEW A, NEW s, \A d \in Client : Fields(s[d]) /\ Brings(s[d], A),
           NEW patch, patch.op \in A, NEW d \in Client
    PROVE  Brings(Broadcast(s, patch)[d], A)
<1> DEFINE t == [s[d] EXCEPT !.bq = Append(@, patch)]
<1>1. Broadcast(s, patch)[d] = IF s[d].state = "down" THEN s[d] ELSE t
  BY DEF Broadcast
<1>2. /\ t.inq = s[d].inq /\ t.bq = Append(s[d].bq, patch) /\ t.hand = s[d].hand
      /\ t.doing = s[d].doing /\ t.out = s[d].out
  BY DEF Fields
<1> HIDE DEF t
<1>3. Lists(Append(s[d].bq, patch), A)
  BY ListAppend DEF Brings, Lists
<1>4. Brings(t, A)
  BY <1>2, <1>3 DEF Brings
<1> QED BY <1>1, <1>4

(* The actor's step, for an op of A and a session s of the reader. *)
LEMMA HandleBrings ==
    ASSUME SInv, FInv, NEW c, NEW item, item.op \in Authorable, NEW s,
           s = [d \in Client |-> s[d]],
           \A d \in Client : Fields(s[d]) /\ Brings(s[d], Authorable),
           Handle(c, item, s)
    PROVE  /\ Fielded(scene'.objs, Authorable) /\ skew \subseteq skew'
           /\ \A d \in Client : Brings(sess'[d], Authorable)
<1>1. Fielded(scene.objs, Authorable)
  BY DEF FInv
<1>2. CASE Fresh(c, item)
  <2> DEFINE v == scene.version + 1
             objs == Apply(scene.objs, item.op).objs
             patch == Applied(c, item, objs)
  <2>1. /\ scene' = [objs |-> objs, version |-> v]
        /\ sess' = Broadcast(s, patch)
        /\ skew \subseteq skew'
    BY <1>2 DEF Handle
  <2>2. patch.op = item.op
    BY DEF Applied
  <2>3. Fielded(objs, Authorable)
    BY <1>1, AuthorableOps, FieldedApply
  <2> HIDE DEF objs, patch, v
  <2>4. scene'.objs = objs
    BY <2>1
  <2>5. \A d \in Client : Brings(sess'[d], Authorable)
    BY <2>1, <2>2, BroadcastBrings
  <2> QED BY <2>1, <2>3, <2>4, <2>5
<1>3. CASE ~Fresh(c, item)
  <2>1. scene' = scene /\ skew' = skew /\ sess' = s
    BY <1>3 DEF Handle
  <2> QED BY <1>1, <2>1
<1> QED BY <1>2, <1>3

(* A step of the actor leaves the engines alone. *)
LEMMA ServedBrings ==
    ASSUME FInv, Fielded(scene'.objs, Authorable), skew \subseteq skew',
           \A d \in Client : Brings(sess'[d], Authorable),
           old' = [c \in Client |-> old'[c]],
           \A d \in Client : Waiting(old'[d], Authorable),
           UNCHANGED <<script, eng>>
    PROVE  FInv'
<1>1. Authorable' = Authorable
  BY DEF Authorable
<1> QED BY <1>1 DEF FInv

(* The reader of a broken connection serves an op it has. *)
LEMMA ServeOldShows ==
    ASSUME SInv, FInv, NEW c \in Client, NEW q \in old[c], ServeOld(c, q),
           UNCHANGED script
    PROVE  FInv'
<1>1. /\ Handle(c, Head(q), sess) /\ UNCHANGED eng
      /\ old' = [old EXCEPT ![c] = (@ \ {q}) \cup
                                   (IF Len(q) = 1 THEN {} ELSE {Tail(q)})]
  BY DEF ServeOld
<1>2. q # <<>> /\ Lists(q, Authorable) /\ Waiting(old[c], Authorable)
  BY DEF FInv, Waiting
<1>3. Head(q).op \in Authorable
  BY <1>2, ListTail DEF Lists
<1>4. /\ sess = [d \in Client |-> sess[d]]
      /\ \A d \in Client : Fields(sess[d]) /\ Brings(sess[d], Authorable)
  BY DEF SInv, Joined, FInv
<1>5. /\ Fielded(scene'.objs, Authorable) /\ skew \subseteq skew'
      /\ \A d \in Client : Brings(sess'[d], Authorable)
  BY <1>1, <1>3, <1>4, HandleBrings
<1> DEFINE rest == IF Len(q) = 1 THEN {} ELSE {Tail(q)}
           qs == (old[c] \ {q}) \cup rest
<1>6. Waiting(rest, Authorable)
  <2> SUFFICES ASSUME Len(q) # 1
               PROVE  Tail(q) # <<>> /\ Lists(Tail(q), Authorable)
    BY DEF Waiting
  <2>1. Len(Tail(q)) = Len(q) - 1 /\ Len(q) \in Nat
    BY <1>2, HeadTailProperties, LenProperties DEF Lists, ListOf
  <2>2. Len(Tail(q)) # 0
    BY <2>1
  <2>3. Tail(q) # <<>>
    BY <1>2, <2>2, ListTail, EmptySeq DEF Lists, ListOf
  <2> QED BY <1>2, <2>3, ListTail DEF Lists
<1>7. Waiting(qs, Authorable)
  BY <1>2, <1>6 DEF Waiting
<1>8. old' = [d \in Client |-> IF d = c THEN qs ELSE old[d]]
  BY <1>1 DEF FInv
<1> HIDE DEF qs
<1>9. \A d \in Client : Waiting(old'[d], Authorable)
  BY <1>7, <1>8 DEF FInv
<1> QED BY <1>1, <1>5, <1>8, <1>9, ServedBrings

(* The reader serves an op of its connection; its answer is no frame that
   tells of objects.                                                       *)
LEMMA ServeOpShows ==
    ASSUME SInv, FInv, NEW c \in Client, ServeOp(c), UNCHANGED script
    PROVE  FInv'
<1> DEFINE item == Head(sess[c].inq)
           m == Answer(c, item)
           t == [sess[c] EXCEPT !.inq = Tail(@), !.mine = TRUE, !.doing = <<m>>]
           s == [sess EXCEPT ![c].inq = Tail(@), ![c].mine = TRUE,
                             ![c].doing = <<Answer(c, item)>>]
<1>1. /\ sess[c].inq # <<>> /\ item.type = "op"
      /\ Handle(c, item, s) /\ UNCHANGED <<eng, old>>
  BY DEF ServeOp
<1>2. /\ sess = [d \in Client |-> sess[d]]
      /\ \A d \in Client : Fields(sess[d]) /\ Brings(sess[d], Authorable)
  BY DEF SInv, Joined, FInv
<1>3. s = [d \in Client |-> IF d = c THEN t ELSE sess[d]]
  BY <1>2
<1>4. Tells(m, Authorable)
  BY DEF Answer, Tells
<1>5. item.op \in Authorable /\ Sends(Tail(sess[c].inq), Authorable)
  BY <1>1, <1>2, ListTail DEF Brings, Sends
<1> HIDE DEF m, item
<1>6. /\ Fields(t) /\ t.inq = Tail(sess[c].inq) /\ t.bq = sess[c].bq
      /\ t.hand = sess[c].hand /\ t.doing = <<m>> /\ t.out = sess[c].out
  BY <1>2 DEF Fields
<1> HIDE DEF s, t
<1>7. Brings(t, Authorable)
  BY <1>2, <1>4, <1>5, <1>6 DEF Brings
<1>8. /\ s = [d \in Client |-> s[d]]
      /\ \A d \in Client : Fields(s[d]) /\ Brings(s[d], Authorable)
  BY <1>2, <1>3, <1>6, <1>7
<1>9. /\ Fielded(scene'.objs, Authorable) /\ skew \subseteq skew'
      /\ \A d \in Client : Brings(sess'[d], Authorable)
  BY <1>1, <1>5, <1>8, HandleBrings
<1>10. /\ old' = [d \in Client |-> old'[d]]
       /\ \A d \in Client : Waiting(old'[d], Authorable)
  BY <1>1 DEF FInv
<1> QED BY <1>1, <1>9, <1>10, ServedBrings

(* A snapshot has the fields. *)
LEMMA SnapshotTells ==
    ASSUME FInv, NEW region
    PROVE  Tells(Snapshot(region), Authorable)
<1> DEFINE m == Snapshot(region)
           objs == Visible(scene.objs, region)
<1>1. m = [type |-> "welcome", scene |-> [objs |-> objs, version |-> scene.version]]
  BY DEF Snapshot
<1>2. Fielded(objs, Authorable)
  BY FieldedVisible DEF FInv
<1> HIDE DEF m, objs
<1>3. m.type = "welcome" /\ m.scene.objs = objs
  BY <1>1
<1> QED BY <1>2, <1>3 DEF Tells, m

(* Subscribe and Resume. *)
LEMMA ServeAskShows ==
    ASSUME SInv, FInv, NEW c \in Client, UNCHANGED script,
           ServeSubscribe(c) \/ ServeResume(c)
    PROVE  FInv'
<1> DEFINE s == sess[c]
           rest == Tail(s.inq)
           inq == <<[type |-> "resume"]>> \o rest
           m == Snapshot(s.region)
<1>1. Fields(s) /\ Brings(s, Authorable)
  BY DEF SInv, Joined, FInv
<1>2. s.inq # <<>> /\ UNCHANGED <<scene, eng, old, skew>>
  BY DEF ServeSubscribe, ServeResume
<1>3. Sends(rest, Authorable)
  BY <1>1, <1>2, ListTail DEF Brings, Sends
<1>4. CASE ServeSubscribe(c)
  <2> DEFINE region == Head(s.inq).region
             t == [s EXCEPT !.inq = inq, !.region = region]
  <2>1. sess' = [sess EXCEPT ![c] = t]
    BY <1>4 DEF ServeSubscribe, SInv
  <2>2. Sends(inq, Authorable)
    <3> DEFINE x == [type |-> "resume"]
    <3>1. x.type # "op"
      OBVIOUS
    <3> HIDE DEF x, rest
    <3>2. ListOf(<<x>>) /\ Range(<<x>>) = {x}
      BY ListOne
    <3> QED BY <1>3, <3>1, <3>2, ListConcat DEF Sends, x
  <2> HIDE DEF inq, region
  <2>3. /\ t.inq = inq /\ t.bq = s.bq /\ t.hand = s.hand /\ t.doing = s.doing
        /\ t.out = s.out
    BY <1>1 DEF Fields
  <2> HIDE DEF t
  <2>4. Brings(t, Authorable)
    BY <1>1, <2>2, <2>3 DEF Brings
  <2> QED BY <1>2, <2>1, <2>4, OneBrings
<1>5. CASE ServeResume(c)
  <2> DEFINE t == [s EXCEPT !.inq = rest, !.strays = {}, !.doing = <<m>>]
  <2>1. sess' = [sess EXCEPT ![c] = t]
    BY <1>5 DEF ServeResume, SInv
  <2>2. Tells(m, Authorable)
    BY SnapshotTells
  <2> HIDE DEF rest, m
  <2>3. /\ t.inq = rest /\ t.bq = s.bq /\ t.hand = s.hand /\ t.doing = <<m>>
        /\ t.out = s.out
    BY <1>1 DEF Fields
  <2> HIDE DEF t
  <2>4. Brings(t, Authorable)
    BY <1>1, <1>3, <2>2, <2>3 DEF Brings
  <2> QED BY <1>2, <2>1, <2>4, OneBrings
<1> QED BY <1>4, <1>5

(* A frame is queued for the client: the reader's answer, or a patch. *)
LEMMA QueueShows ==
    ASSUME SInv, FInv, NEW c \in Client, UNCHANGED script,
           QueueAnswer(c) \/ QueuePatch(c)
    PROVE  FInv'
<1> DEFINE s == sess[c]
<1>1. Fields(s) /\ ListOf(s.out) /\ Brings(s, Authorable)
  BY DEF SInv, Joined, Ordered, FInv, ListOf
<1>2. UNCHANGED <<scene, eng, old>> /\ skew \subseteq skew'
  BY DEF QueueAnswer, QueuePatch
<1>3. ASSUME NEW m, Tells(m, Authorable)
      PROVE  \A x \in Range(Append(s.out, m)) : Tells(x, Authorable)
  BY <1>1, <1>3, ListAppend DEF Brings
<1>4. CASE QueueAnswer(c)
  <2> DEFINE m == Head(s.doing)
             out == Append(s.out, m)
             t == [s EXCEPT !.out = out, !.doing = <<>>]
  <2>1. s.doing # <<>> /\ sess' = [sess EXCEPT ![c] = t]
    BY <1>4 DEF QueueAnswer, SInv
  <2>2. \A x \in Range(out) : Tells(x, Authorable)
    BY <1>1, <1>3, <2>1 DEF Brings
  <2> HIDE DEF out
  <2>3. /\ t.inq = s.inq /\ t.bq = s.bq /\ t.hand = s.hand /\ t.doing = <<>>
        /\ t.out = out
    BY <1>1 DEF Fields
  <2> HIDE DEF t
  <2>4. Brings(t, Authorable)
    BY <1>1, <2>2, <2>3 DEF Brings
  <2> QED BY <1>2, <2>1, <2>4, OneBrings
<1>5. CASE QueuePatch(c)
  <2> DEFINE p == Head(s.hand)
             out == Append(s.out, p)
             top == p.seq
             t == [s EXCEPT !.out = out, !.hand = <<>>, !.top = top]
  <2>1. s.hand # <<>> /\ sess' = [sess EXCEPT ![c] = t]
    BY <1>5 DEF QueuePatch, SInv
  <2>2. \A x \in Range(out) : Tells(x, Authorable)
    BY <1>1, <1>3, <2>1 DEF Brings
  <2> HIDE DEF out, top
  <2>3. /\ t.inq = s.inq /\ t.bq = s.bq /\ t.hand = <<>> /\ t.doing = s.doing
        /\ t.out = out
    BY <1>1 DEF Fields
  <2> HIDE DEF t
  <2>4. Brings(t, Authorable)
    BY <1>1, <2>2, <2>3 DEF Brings
  <2> QED BY <1>2, <2>1, <2>4, OneBrings
<1> QED BY <1>4, <1>5

(* The patch task makes a broadcast a patch of the same op. *)
LEMMA TakeBroadcastShows ==
    ASSUME SInv, FInv, NEW c \in Client, TakeBroadcast(c), UNCHANGED script
    PROVE  FInv'
<1> DEFINE s == sess[c]
           b == Head(s.bq)
           patch == [type |-> "patch", seq |-> b.seq, op |-> b.op, author |-> b.author]
           hand == IF Forwards(c, b) THEN <<patch>> ELSE <<>>
           bq == Tail(s.bq)
           strays == Strayed(s, b)
           t == [s EXCEPT !.bq = bq, !.hand = hand, !.strays = strays]
<1>1. Fields(s) /\ Brings(s, Authorable)
  BY DEF SInv, Joined, FInv
<1>2. /\ s.bq # <<>> /\ sess' = [sess EXCEPT ![c] = t]
      /\ UNCHANGED <<scene, eng, old, skew>>
  BY DEF TakeBroadcast, SInv
<1>3. b.op \in Authorable /\ Lists(bq, Authorable)
  BY <1>1, <1>2, ListTail DEF Brings, Lists
<1>4. hand # <<>> => Tells(Head(hand), Authorable)
  <2>1. Tells(patch, Authorable)
    BY <1>3 DEF Tells
  <2>2. hand = <<patch>> \/ hand = <<>>
    OBVIOUS
  <2> HIDE DEF hand, patch
  <2>3. Head(<<patch>>) = patch
    OBVIOUS
  <2> QED BY <2>1, <2>2, <2>3
<1> HIDE DEF hand, bq, strays
<1>5. /\ t.inq = s.inq /\ t.bq = bq /\ t.hand = hand /\ t.doing = s.doing
      /\ t.out = s.out
  BY <1>1 DEF Fields
<1> HIDE DEF t
<1>6. Brings(t, Authorable)
  BY <1>1, <1>3, <1>4, <1>5 DEF Brings
<1> QED BY <1>2, <1>6, OneBrings

(* A session that starts, or has ended, has nothing on its way. *)
LEMMA EmptyBrings ==
    ASSUME NEW A, NEW t,
           t = Down \/ \E region : t = [Down EXCEPT !.state = "joining",
                                          !.region = region, !.mine = SameId]
    PROVE  Brings(t, A)
<1>1. /\ t.inq = <<>> /\ t.bq = <<>> /\ t.hand = <<>> /\ t.doing = <<>>
      /\ t.out = <<>>
  <2>1. CASE t = Down
    BY <2>1 DEF Down
  <2>2. CASE \E region : t = [Down EXCEPT !.state = "joining",
                                 !.region = region, !.mine = SameId]
    <3>1. PICK region : t = [Down EXCEPT !.state = "joining",
                               !.region = region, !.mine = SameId]
      BY <2>2
    <3> QED BY <3>1 DEF Down
  <2> QED BY <2>1, <2>2
<1> QED BY <1>1, ListEmpty DEF Brings, Sends, Lists

(* What the server got of the frames q, up to the k-th: the ops among them. *)
Got(q, k) ==
    FlattenSeq([n \in 1..k |-> IF q[n].type = "op" THEN <<q[n]>> ELSE <<>>])

LEMMA GotFrames ==
    ASSUME NEW q, ListOf(q), NEW k \in 0..Len(q), Got(q, k) # <<>>
    PROVE  /\ ListOf(Got(q, k))
           /\ Range(Got(q, k)) \subseteq {i \in Range(q) : i.type = "op"}
<1> DEFINE U == {i \in Range(q) : i.type = "op"}
           parts == [n \in 1..k |-> IF q[n].type = "op" THEN <<q[n]>> ELSE <<>>]
           got == Got(q, k)
<1>1. k # 0
  <2> SUFFICES ASSUME k = 0 PROVE got = <<>>
    OBVIOUS
  <2>1. parts = <<>>
    OBVIOUS
  <2> HIDE DEF parts
  <2> QED BY <2>1 DEF FlattenSeq, Got, parts
<1>2. Len(q) \in Nat /\ DOMAIN q = 1..Len(q)
  BY LenProperties DEF ListOf
<1>3. \A n \in 1..k : (IF q[n].type = "op" THEN <<q[n]>> ELSE <<>>) \in Seq(U)
  <2>1. ASSUME NEW n \in 1..k, q[n].type = "op" PROVE q[n] \in U
    BY <1>2, <2>1 DEF Range
  <2> HIDE DEF U
  <2> QED BY <2>1
<1>4. parts \in Seq(Seq(U)) /\ parts # <<>>
  <2>1. k \in Nat /\ k # 0
    BY <1>1, <1>2
  <2>2. DOMAIN parts = 1..k
    OBVIOUS
  <2>3. 1 \in 1..k
    BY <2>1
  <2> HIDE DEF U
  <2>4. parts \in Seq(Seq(U))
    BY <1>3, <2>1
  <2> HIDE DEF parts
  <2> QED BY <2>2, <2>3, <2>4
<1>5. got = FlattenSeq(parts)
  BY DEF Got
<1> HIDE DEF U, parts, got
<1>6. got \in Seq(U)
  BY <1>4, <1>5, FlattenIsSeq
<1>7. Range(got) \subseteq U
  BY <1>6, LenProperties, ElementOfSeq DEF Range
<1> QED BY <1>6, <1>7, IsListOfRange DEF ListOf, U, got

(* The connection breaks: what the server got is ops of the client's. *)
LEMMA DropShows ==
    ASSUME SInv, FInv, NEW c \in Client, Drop(c), UNCHANGED script
    PROVE  FInv'
<1> DEFINE q == sess[c].inq
<1>1. PICK k \in 0..Len(q) :
        old' = [old EXCEPT ![c] = IF Got(q, k) = <<>> THEN @
                                  ELSE @ \cup {Got(q, k)}]
  BY DEF Drop, Got
<1> DEFINE got == Got(q, k)
           qs == IF got = <<>> THEN old[c] ELSE old[c] \cup {got}
<1>2. sess' = [sess EXCEPT ![c] = Down] /\ UNCHANGED <<scene, eng, skew>>
  BY DEF Drop
<1>3. ListOf(q) /\ \A i \in Range(q) : i.type = "op" => i.op \in Authorable
  BY DEF FInv, Brings, Sends
<1>4. ASSUME got # <<>> PROVE Lists(got, Authorable)
  <2> HIDE DEF q
  <2> QED BY <1>3, <1>4, GotFrames DEF Lists
<1> HIDE DEF got
<1>5. Waiting(qs, Authorable)
  BY <1>4 DEF FInv, Waiting
<1>6. old' = [old EXCEPT ![c] = qs]
  BY <1>1 DEF FInv, got
<1> HIDE DEF qs
<1>7. eng' = [eng EXCEPT ![c] = eng[c]]
  BY <1>2 DEF SInv
<1>8. /\ Stocked(eng[c], Authorable)
      /\ <<c, "swapped">> \in skew' \/ Stands(eng[c], Authorable)
  BY <1>2 DEF FInv
<1>9. Brings(Down, Authorable)
  BY EmptyBrings
<1> QED BY <1>2, <1>5, <1>6, <1>7, <1>8, <1>9, OneClient

(* A connection is opened, and gets its first welcome. *)
LEMMA ConnectShows ==
    ASSUME SInv, FInv, NEW c \in Client, Hello(c) \/ Welcome(c), UNCHANGED script
    PROVE  FInv'
<1>1. UNCHANGED <<scene, eng, old, skew>>
  BY DEF Hello, Welcome
<1>2. CASE Hello(c)
  <2> DEFINE t == [Down EXCEPT !.state = "joining", !.region = view[c],
                               !.mine = SameId]
  <2>1. sess' = [sess EXCEPT ![c] = t]
    BY <1>2 DEF Hello
  <2>2. Brings(t, Authorable)
    BY EmptyBrings
  <2> HIDE DEF t
  <2> QED BY <1>1, <2>1, <2>2, OneBrings
<1>3. CASE Welcome(c)
  <2> DEFINE m == Snapshot(sess[c].region)
             t == [sess[c] EXCEPT !.state = "open", !.out = <<m>>]
  <2>1. Fields(sess[c]) /\ Brings(sess[c], Authorable)
    BY DEF SInv, Joined, FInv
  <2>2. sess' = [sess EXCEPT ![c] = t]
    BY <1>3 DEF Welcome, SInv
  <2>3. Tells(m, Authorable)
    BY SnapshotTells
  <2> HIDE DEF m
  <2>4. /\ t.inq = sess[c].inq /\ t.bq = sess[c].bq /\ t.hand = sess[c].hand
        /\ t.doing = sess[c].doing /\ t.out = <<m>>
    BY <2>1 DEF Fields
  <2> HIDE DEF t
  <2>5. Brings(t, Authorable)
    BY <2>1, <2>3, <2>4, ListOne DEF Brings
  <2> QED BY <1>1, <2>2, <2>5, OneBrings
<1> QED BY <1>2, <1>3

(* Every step of the system keeps what the clients show. *)
LEMMA NextFInv ==
    ASSUME SInv, FInv, [Next]_vars
    PROVE  FInv'
<1>1. CASE UNCHANGED vars
  <2>1. Authorable' = Authorable
    BY <1>1 DEF vars, Authorable
  <2> QED BY <1>1, <2>1 DEF vars, FInv
<1>2. CASE Next
  <2>1. PICK c \in Client : Work(c) \/ Other(c)
    BY <1>2 DEF Next
  <2>2. UNCHANGED script
    BY <1>2 DEF Next
  <2>3. CASE Flush(c)
    BY <2>2, <2>3, FlushShows
  <2>4. CASE Hello(c) \/ Welcome(c)
    BY <2>2, <2>4, ConnectShows
  <2>5. CASE Drop(c)
    BY <2>2, <2>5, DropShows
  <2>6. CASE ReceiveAck(c) \/ ReceiveRejected(c)
    BY <2>2, <2>6, SettleShows
  <2>7. CASE ReceivePatch(c)
    BY <2>2, <2>7, PatchShows
  <2>8. CASE ReceiveWelcome(c)
    BY <2>2, <2>8, WelcomeShows
  <2>9. CASE ServeOp(c)
    BY <2>2, <2>9, ServeOpShows
  <2>10. CASE ServeSubscribe(c) \/ ServeResume(c)
    BY <2>2, <2>10, ServeAskShows
  <2>11. CASE QueueAnswer(c) \/ QueuePatch(c)
    BY <2>2, <2>11, QueueShows
  <2>12. CASE TakeBroadcast(c)
    BY <2>2, <2>12, TakeBroadcastShows
  <2>13. CASE /\ eng[c].made < Len(script[c])
              /\ Author(c, script[c][eng[c].made + 1])
    BY <2>2, <2>13, AuthorShows
  <2>14. CASE (\E region : SetViewport(c, region)) \/ Resync(c)
    BY <2>2, <2>14, AskShows
  <2>15. CASE \E q \in old[c] : ServeOld(c, q)
    BY <2>2, <2>15, ServeOldShows
  <2> QED BY <2>1, <2>3, <2>4, <2>5, <2>6, <2>7, <2>8, <2>9, <2>10, <2>11,
             <2>12, <2>13, <2>14, <2>15 DEF Work, Other
<1> QED BY <1>1, <1>2

(* UnackedWriteStands: author applies its op last, apply_remote leaves owned
   keys alone and the replay writes them again, so that the newest unacked
   write of a field is what its author sees, for any clients and scripts.   *)
THEOREM WritesStand == Spec => []UnackedWriteStands
<1>1. Init => SInv /\ FInv
  BY InitSInv, InitFInv
<1>2. SInv /\ FInv /\ [Next]_vars => SInv' /\ FInv'
  BY NextSInv, NextFInv
<1>3. SInv /\ FInv => UnackedWriteStands
  <2> SUFFICES ASSUME FInv, NEW c \in Client, <<c, "swapped">> \notin skew,
                      NEW k \in Key, k[1] \notin InsertedBy(Authorable),
                      NEW r \in LastWrite(Rows(c), k),
                      r.op.kind # "batch", k[1] \in DOMAIN eng[c].objs
               PROVE  eng[c].objs[k[1]][k[2]] = r.op.value
    BY DEF UnackedWriteStands
  <2>1. Stands(eng[c], Authorable) /\ Kept(k, Authorable)
    BY DEF FInv, Kept
  <2> QED BY <2>1 DEF Stands, Displays, Rows
<1> QED BY <1>1, <1>2, <1>3, PTL DEF Spec

-----------------------------------------------------------------------------

(* The places of a comment in a scene. *)
Spots(objs, v) ==
    {p \in (DOMAIN objs) \X Nat : /\ p[2] \in DOMAIN objs[p[1]].comments
                                  /\ objs[p[1]].comments[p[2]] = v}

(* The ops of the scripts hold lists of comments, and one that does not mention
   a comment spares it.                                                    *)
LEMMA ScriptedSteps ==
    ASSUME NEW op \in AnyOp, NEW v
    PROVE  /\ \A n \in DOMAIN Steps(op) : Listing(Steps(op)[n])
           /\ ~Mentions(op, v) => \A n \in DOMAIN Steps(op) : Spares(Steps(op)[n], v)
<1>1. PICK s \in Scripts, c \in Client : op \in Range(s[c])
  BY DEF AnyOp
<1>2. PICK i \in DOMAIN s[c] : op = s[c][i]
  BY <1>1 DEF Range
<1>3. /\ \A p \in Does(op) : p.kind = "insert" => "comments" \in DOMAIN p.object
      /\ \A cs \in CommentLists(op) : ListOf(cs)
  BY <1>2, CommentsAssumption DEF ListOf
<1>4. \A n \in DOMAIN Steps(op) : Steps(op)[n] \in Does(op)
  <2>1. CASE op.kind = "batch"
    BY <2>1 DEF Steps, Does, Range
  <2>2. CASE op.kind # "batch"
    <3>1. Steps(op) = <<op>> /\ Does(op) = {op}
      BY <2>2 DEF Steps, Does
    <3> QED BY <3>1
  <2> QED BY <2>1, <2>2
<1>5. ASSUME NEW p \in Does(op)
      PROVE  /\ p.kind = "insert" => p.object.comments \in CommentLists(op)
             /\ p.kind = "set-comments" => p.value \in CommentLists(op)
  BY DEF CommentLists
<1>6. ASSUME NEW p \in Does(op) PROVE Listing(p)
  BY <1>3, <1>5 DEF Listing
<1>7. ASSUME ~Mentions(op, v), NEW p \in Does(op) PROVE Spares(p, v)
  BY <1>5, <1>7 DEF Mentions, Spares
<1> QED BY <1>4, <1>6, <1>7

(* So does an op that is applied. *)
LEMMA ApplyOnComments ==
    ASSUME NEW op \in AnyOp, NEW objs, Commented(objs), NEW v
    PROVE  LET after == Apply(objs, op).objs IN
           /\ Commented(after)
           /\ ~Mentions(op, v) => NoneNew(after, objs, v)
<1> DEFINE r == ApplyAll(objs, Steps(op))
<1>1. Listed(op)
  BY ScriptsAssumption DEF AnyOp, Listed
<1>2. PICK U : Steps(op) \in Seq(U)
  BY <1>1, StepsListed
<1>3. Commented(r.objs) /\ (~Mentions(op, v) => NoneNew(r.objs, objs, v))
  BY <1>2, ScriptedSteps, ApplyAllOnComments
<1>4. Apply(objs, op).objs = IF r.ok THEN r.objs ELSE objs
  BY DEF Apply, Steps
<1>5. NoneNew(objs, objs, v)
  BY DEF NoneNew
<1> HIDE DEF r
<1> QED BY <1>3, <1>4, <1>5

(* The one who adds a comment that is nowhere puts it in one place. *)
LEMMA AddOnComments ==
    ASSUME NEW op, op.kind = "add-comment", NEW objs, Commented(objs),
           Spots(objs, op.value) = {}
    PROVE  \A p, q \in Spots(Apply(objs, op).objs, op.value) : p = q
<1> DEFINE base == [ok |-> TRUE, objs |-> objs, inverse |-> <<>>]
           r == ApplyAll(objs, <<op>>)
           v == op.value
           S == Spots(Apply(objs, op).objs, v)
<1>1. Apply(objs, op).objs = IF r.ok THEN r.objs ELSE objs
  BY DEF Apply
<1>2. r = ApplyOne(base, op)
  <2>1. <<op>> \in Seq({op}) /\ Len(<<op>>) = 1 /\ <<op>>[1] = op
    OBVIOUS
  <2>2. r = ApplyOne(base, <<op>>[1])
    BY <2>1, OneStep
  <2> HIDE DEF base, r
  <2> QED BY <2>1, <2>2
<1> HIDE DEF r
<1>3. CASE ~Accepts(objs, op)
  <2>1. ~r.ok
    BY <1>2, <1>3 DEF ApplyOne
  <2> QED BY <1>1, <2>1
<1>4. CASE Accepts(objs, op)
  <2>1. r.ok /\ r.objs = Effect(objs, op)
    BY <1>2, <1>4 DEF ApplyOne, Degrades
  <2> DEFINE q == objs[op.id].comments
             cs == Append(q, v)
             e == [objs EXCEPT ![op.id].comments = cs]
  <2>2. op.id \in DOMAIN objs /\ Apply(objs, op).objs = e
    BY <1>1, <1>4, <2>1 DEF Accepts, Effect
  <2>3. /\ Len(q) \in Nat /\ DOMAIN q = 1..Len(q) /\ q \in Seq(Range(q))
        /\ "comments" \in DOMAIN objs[op.id]
    BY <2>2, LenProperties DEF ListOf, Commented
  <2>4. ASSUME NEW o \in DOMAIN objs, NEW n \in DOMAIN objs[o].comments
        PROVE  objs[o].comments[n] # v
    <3>1. n \in Nat
      <4>1. /\ Len(objs[o].comments) \in Nat
            /\ DOMAIN objs[o].comments = 1..Len(objs[o].comments)
        BY LenProperties DEF Commented, ListOf
      <4> QED BY <4>1
    <3>2. <<o, n>> \notin Spots(objs, v)
      OBVIOUS
    <3> QED BY <3>1, <3>2 DEF Spots
  <2>5. /\ DOMAIN e = DOMAIN objs
        /\ \A o \in DOMAIN objs : o # op.id => e[o] = objs[o]
        /\ e[op.id] = [objs[op.id] EXCEPT !.comments = cs]
    BY <2>2
  <2> HIDE DEF e
  <2>6. DOMAIN cs = 1..(Len(q) + 1) /\ \A i \in 1..Len(q) : cs[i] = q[i]
    <3> HIDE DEF q
    <3> QED BY <2>3
  <2> HIDE DEF cs
  <2>7. e[op.id].comments = cs
    BY <2>3, <2>5
  <2>8. ASSUME NEW p \in Spots(e, v) PROVE p = <<op.id, Len(q) + 1>>
    <3>1. /\ p \in (DOMAIN objs) \X Nat /\ p[2] \in DOMAIN e[p[1]].comments
          /\ e[p[1]].comments[p[2]] = v
      BY <2>5 DEF Spots
    <3>2. p[1] = op.id
      BY <2>4, <2>5, <3>1
    <3>3. p[2] \in 1..(Len(q) + 1) /\ cs[p[2]] = v
      BY <2>6, <2>7, <3>1, <3>2
    <3>4. p[2] \notin 1..Len(q)
      BY <2>2, <2>3, <2>4, <2>6, <3>3
    <3>5. p[2] = Len(q) + 1
      BY <2>3, <3>3, <3>4
    <3> QED BY <3>1, <3>2, <3>5
  <2> QED BY <2>2, <2>8
<1> QED BY <1>3, <1>4

-----------------------------------------------------------------------------

(* An op as it is carried: its number and what it does.  Whatever the list q
   carries is in P; and whatever a client has in its outbox, has still to
   send, has sent, or left on a broken connection.                         *)
Tagged(i) == [n |-> i.n, op |-> i.op]
Tags(q, P) == \A i \in Range(q) : Tagged(i) \in P
Carry(s, e, qs, P) ==
    /\ Tags(e.rows, P) /\ Tags(e.pending, P)
    /\ \A i \in Range(s.inq) : i.type = "op" => Tagged(i) \in P
    /\ \A q \in qs : Tags(q, P)

(* A step that makes the client d carry no more, and author nothing. *)
Keeps(d, P) ==
    Carry(sess'[d], eng'[d], old'[d], P) /\ eng'[d].made = eng[d].made

(* The engine's own steps carry no op that was not carried: settling ... *)
LEMMA SettleTags ==
    ASSUME NEW e, Sound(e), NEW n
    PROVE  LET f == Settle(e, n) IN
           /\ Range(f.rows) \subseteq Range(e.rows) /\ f.pending = e.pending
           /\ f.made = e.made /\ Engine(f)
<1> DEFINE d == ReleaseOwnership(e, n)
           g == Settle(e, n)
           rows == Dropped(e.rows, n)
<1>1. Range(rows) \subseteq Range(e.rows)
  <2>1. Range(rows) = {r \in Range(e.rows) : r.n # n}
    BY DroppedRows DEF Sound
  <2> QED BY <2>1
<1>2. /\ Engine(d) /\ d.rows = e.rows /\ d.pending = e.pending /\ d.made = e.made
  <2> DEFINE S == Range(e.rows)
  <2>1. Engine(e) /\ Owns(e, S) /\ S \in SUBSET Row /\ IsFiniteSet(S) /\ Distinct(S)
    BY OutboxRows DEF Sound
  <2> HIDE DEF S
  <2> QED BY <2>1, ReleaseOwns
<1>3. g = [d EXCEPT !.rows = rows]
  BY <1>2 DEF Settle
<1> HIDE DEF d, rows, g
<1>4. Engine(g) /\ g.rows = rows /\ g.pending = e.pending /\ g.made = e.made
  BY <1>2, <1>3 DEF Engine
<1> QED BY <1>1, <1>4 DEF g

(* ... a patch ... *)
LEMMA RemoteTags ==
    ASSUME NEW e, Sound(e), NEW op
    PROVE  LET f == ApplyRemote(e, op) IN
           f.rows = e.rows /\ f.pending = e.pending /\ f.made = e.made
<1> DEFINE g == [e EXCEPT !.objs = Apply(e.objs, op).objs]
<1>1. ApplyRemote(e, op) \in {e, g}
  BY DEF ApplyRemote
<1>2. g.rows = e.rows /\ g.pending = e.pending /\ g.made = e.made
  BY DEF Sound, Engine
<1> HIDE DEF g
<1> QED BY <1>1, <1>2

(* ... and a welcome. *)
LEMMA ReconcileTags ==
    ASSUME NEW e, Sound(e), NEW snap
    PROVE  LET f == Reconcile(e, snap) IN
           f.rows = e.rows /\ f.pending = e.pending /\ f.made = e.made
<1> DEFINE d == Reseed(e)
           g == Reconcile(e, snap)
<1>1. Engine(d) /\ d.rows = e.rows /\ d.pending = e.pending /\ d.made = e.made
  <2> DEFINE top == Max({0} \cup {r.n : r \in Range(e.rows)})
  <2>1. d = [e EXCEPT !.seq = top]
    BY DEF Reseed
  <2> HIDE DEF top, d
  <2> QED BY <2>1 DEF Sound, Engine
<1> HIDE DEF d
<1>2. CASE Stale(e, snap)
  <2>1. g = [d EXCEPT !.fresh = FALSE]
    BY <1>2 DEF Reconcile, d
  <2> HIDE DEF g
  <2>2. g.rows = d.rows /\ g.pending = d.pending /\ g.made = d.made
    BY <1>1, <2>1 DEF Engine
  <2> QED BY <1>1, <2>2 DEF g
<1>3. CASE ~Stale(e, snap)
  <2> DEFINE s == [d EXCEPT !.fresh = FALSE, !.base = snap.version,
                            !.objs = snap.objs, !.held = NoneHeld,
                            !.owned = [k \in Key |-> 0]]
             f == Replayed(s, e.rows)
  <2>1. /\ Engine(s) /\ s.held = NoneHeld /\ s.owned = [k \in Key |-> 0]
        /\ s.rows = d.rows /\ s.pending = d.pending /\ s.made = d.made
    BY <1>1 DEF Engine
  <2>2. g = f
    BY <1>3 DEF Reconcile, Replayed, d
  <2> HIDE DEF s, g, f
  <2>3. \A k : Cardinality(Owing({}, k)) = 0
    <3>1. \A k : Owing({}, k) = {}
      BY DEF Owing
    <3> QED BY <3>1, FS_EmptySet
  <2>4. Owns(s, {})
    BY <2>1, <2>3 DEF Owns, NoneHeld
  <2>5. f.rows = s.rows /\ f.pending = s.pending /\ f.made = s.made
    BY <2>1, <2>4, ReplayOwns DEF Sound, f
  <2> QED BY <1>1, <2>1, <2>2, <2>5 DEF g
<1> QED BY <1>2, <1>3

(* A step of one client: its session, its engine and the frames that its
   broken connections left.                                                *)
LEMMA OneKeeps ==
    ASSUME SInv, FInv, NEW c \in Client, NEW s, NEW e, NEW qs,
           sess' = [sess EXCEPT ![c] = s], eng' = [eng EXCEPT ![c] = e],
           old' = [old EXCEPT ![c] = qs],
           NEW P, NEW d \in Client, Carry(sess[d], eng[d], old[d], P),
           d = c => Carry(s, e, qs, P) /\ e.made = eng[c].made
    PROVE  Keeps(d, P)
<1>1. /\ sess'[d] = IF d = c THEN s ELSE sess[d]
      /\ eng'[d] = IF d = c THEN e ELSE eng[d]
      /\ old'[d] = IF d = c THEN qs ELSE old[d]
  BY DEF SInv, FInv
<1> QED BY <1>1 DEF Keeps

(* A step of a session that leaves its frames from the client alone. *)
LEMMA SessionKeeps ==
    ASSUME SInv, FInv, NEW c \in Client, NEW s,
           \A i \in Range(s.inq) : i.type = "op" => i \in Range(sess[c].inq),
           sess' = [sess EXCEPT ![c] = s], UNCHANGED <<eng, old>>,
           NEW P, NEW d \in Client, Carry(sess[d], eng[d], old[d], P)
    PROVE  Keeps(d, P)
<1>1. eng' = [eng EXCEPT ![c] = eng[c]] /\ old' = [old EXCEPT ![c] = old[c]]
  BY DEF SInv, FInv
<1>2. d = c => Carry(s, eng[c], old[c], P)
  BY DEF Carry
<1> QED BY <1>1, <1>2, OneKeeps

(* Frames sent carry what the rows carry that they are made of. *)
LEMMA ItemsTagged ==
    ASSUME NEW rows, ListOf(rows), NEW P, Tags(rows, P)
    PROVE  \A i \in Range(OpItems(rows)) : Tagged(i) \in P
<1> DEFINE item(n) == [type |-> "op", n |-> rows[n].n, op |-> rows[n].op]
<1>1. OpItems(rows) = [n \in DOMAIN rows |-> item(n)]
  BY DEF OpItems
<1>2. \A n \in DOMAIN rows : Tagged(item(n)) = Tagged(rows[n])
  BY DEF Tagged
<1>3. \A n \in DOMAIN rows : Tagged(rows[n]) \in P
  BY DEF Tags, Range
<1> HIDE DEF item
<1> QED BY <1>1, <1>2, <1>3 DEF Range

(* And join those on their way. *)
LEMMA SendTags ==
    ASSUME NEW s, Fields(s), ListOf(s.inq), NEW items, ListOf(items)
    PROVE  Range(Send(s, items).inq) \subseteq Range(s.inq) \cup Range(items)
<1> DEFINE t == [s EXCEPT !.inq = @ \o items]
<1>1. t.inq = s.inq \o items
  BY DEF Fields
<1> HIDE DEF t
<1>2. Range(t.inq) \subseteq Range(s.inq) \cup Range(items)
  BY <1>1, ListConcat
<1> QED BY <1>2 DEF Send, t

(* on_flush_due: the rows to be sent are sent, or lost. *)
LEMMA FlushKeeps ==
    ASSUME SInv, FInv, NEW c \in Client, Flush(c),
           NEW P, NEW d \in Client, Carry(sess[d], eng[d], old[d], P)
    PROVE  Keeps(d, P)
<1> DEFINE e == eng[c]
           f == [e EXCEPT !.pending = <<>>]
           items == OpItems(e.pending)
           t == Send(sess[c], items)
<1>1. Fields(sess[c]) /\ Engine(e) /\ ListOf(sess[c].inq) /\ ListOf(e.pending)
  BY DEF SInv, Joined, Sound, FInv, Brings, Sends, Stocked
<1>2. f.rows = e.rows /\ f.pending = <<>> /\ f.made = e.made
  BY <1>1 DEF Engine
<1>3. /\ eng' = [eng EXCEPT ![c] = f] /\ sess' = [sess EXCEPT ![c] = t]
      /\ old' = [old EXCEPT ![c] = old[c]]
  BY DEF Flush, SInv, FInv
<1>4. ASSUME d = c PROVE Carry(t, f, old[c], P)
  <2>1. Carry(sess[c], e, old[c], P)
    BY <1>4
  <2>2. \A i \in Range(items) : Tagged(i) \in P
    <3> HIDE DEF e
    <3> QED BY <1>1, <2>1, ItemsTagged DEF Carry
  <2>3. Range(t.inq) \subseteq Range(sess[c].inq) \cup Range(items)
    <3>1. ListOf(items)
      <4>1. Sends(OpItems(e.pending), Authorable)
        BY ItemsSent DEF FInv, Stocked
      <4> QED BY <4>1 DEF Sends
    <3> HIDE DEF items
    <3> QED BY <1>1, <3>1, SendTags
  <2> HIDE DEF items, t, f, e
  <2>4. Tags(f.pending, P)
    BY <1>2, ListEmpty DEF Tags
  <2> QED BY <1>2, <2>1, <2>2, <2>3, <2>4 DEF Carry
<1> HIDE DEF t, f
<1> QED BY <1>2, <1>3, <1>4, OneKeeps

(* setViewport and resync send no op. *)
LEMMA AskKeeps ==
    ASSUME SInv, FInv, NEW c \in Client,
           (\E region : SetViewport(c, region)) \/ Resync(c),
           NEW P, NEW d \in Client, Carry(sess[d], eng[d], old[d], P)
    PROVE  Keeps(d, P)
<1>1. PICK item : /\ item.type # "op"
                  /\ sess' = [sess EXCEPT ![c] = Send(@, <<item>>)]
  <2>1. CASE Resync(c)
    <3>1. [type |-> "resume"].type # "op"
      OBVIOUS
    <3> QED BY <2>1, <3>1 DEF Resync
  <2>2. CASE \E region : SetViewport(c, region)
    <3>1. PICK region : SetViewport(c, region)
      BY <2>2
    <3>2. [type |-> "subscribe", region |-> region].type # "op"
      OBVIOUS
    <3> QED BY <3>1, <3>2 DEF SetViewport
  <2> QED BY <2>1, <2>2
<1> DEFINE t == Send(sess[c], <<item>>)
<1>2. sess' = [sess EXCEPT ![c] = t]
  BY <1>1 DEF SInv
<1>3. Range(t.inq) \subseteq Range(sess[c].inq) \cup {item}
  <2>1. Fields(sess[c]) /\ ListOf(sess[c].inq)
    BY DEF SInv, Joined, FInv, Brings, Sends
  <2> QED BY <2>1, SendTags, ListOne
<1>4. UNCHANGED <<eng, old>>
  BY DEF SetViewport, Resync
<1> HIDE DEF t
<1> QED BY <1>1, <1>2, <1>3, <1>4, SessionKeeps

(* handleMessage: an ack, a rejection, a patch or a welcome. *)
LEMMA ReceiveKeeps ==
    ASSUME SInv, FInv, NEW c \in Client,
           \/ ReceiveAck(c) \/ ReceiveRejected(c)
           \/ ReceivePatch(c) \/ ReceiveWelcome(c),
           NEW P, NEW d \in Client, Carry(sess[d], eng[d], old[d], P)
    PROVE  Keeps(d, P)
<1> DEFINE e == eng[c]
           s == Taken(c)
<1>1. /\ Sound(e) /\ Fields(sess[c]) /\ ListOf(sess[c].inq)
  BY DEF SInv, Joined, FInv, Brings, Sends
<1>2. s.inq = sess[c].inq /\ Fields(s)
  BY <1>1 DEF Taken, Fields
<1>3. old' = [old EXCEPT ![c] = old[c]]
  BY DEF ReceiveAck, ReceiveRejected, ReceivePatch, ReceiveWelcome, FInv
<1>4. ASSUME NEW f, NEW t, Range(f.rows) \subseteq Range(e.rows),
             f.pending = e.pending, f.made = e.made,
             eng' = [eng EXCEPT ![c] = f], sess' = [sess EXCEPT ![c] = t],
             d = c => \A i \in Range(t.inq) : i.type = "op" => Tagged(i) \in P
      PROVE  Keeps(d, P)
  <2>1. d = c => Carry(t, f, old[c], P)
    BY <1>4 DEF Carry, Tags
  <2> HIDE DEF s
  <2> QED BY <1>3, <1>4, <2>1, OneKeeps
<1>5. d = c => \A i \in Range(s.inq) : i.type = "op" => Tagged(i) \in P
  BY <1>2 DEF Carry
<1> HIDE DEF s
<1>6. CASE ReceiveAck(c) \/ ReceiveRejected(c)
  <2> DEFINE n == Frame(c).n
  <2>1. PICK f, b : /\ f = Settle(e, n) \/ f = [Settle(e, n) EXCEPT !.base = b]
                    /\ eng' = [eng EXCEPT ![c] = f]
    <3>1. CASE ReceiveRejected(c)
      BY <3>1 DEF ReceiveRejected
    <3>2. CASE ReceiveAck(c)
      <4> DEFINE r == Frame(c).revision
                 b == IF r > Settle(e, n).base THEN r ELSE Settle(e, n).base
      <4>1. OnAck(e, n, r) = [Settle(e, n) EXCEPT !.base = b]
        BY DEF OnAck
      <4>2. eng' = [eng EXCEPT ![c] = OnAck(e, n, r)]
        BY <3>2 DEF ReceiveAck, SInv
      <4> HIDE DEF b, n
      <4> QED BY <4>1, <4>2
    <3> QED BY <1>6, <3>1, <3>2
  <2> HIDE DEF e, n
  <2>2. /\ Range(f.rows) \subseteq Range(e.rows) /\ f.pending = e.pending
        /\ f.made = e.made
    <3> DEFINE g == Settle(e, n)
    <3>1. /\ Range(g.rows) \subseteq Range(e.rows) /\ g.pending = e.pending
          /\ g.made = e.made /\ Engine(g)
      BY <1>1, SettleTags
    <3>2. f = g \/ f = [g EXCEPT !.base = b]
      BY <2>1
    <3> HIDE DEF g
    <3>3. f.rows = g.rows /\ f.pending = g.pending /\ f.made = g.made
      BY <3>1, <3>2 DEF Engine
    <3> QED BY <3>1, <3>3
  <2>3. sess' = [sess EXCEPT ![c] = s]
    BY <1>6 DEF ReceiveAck, ReceiveRejected, s
  <2> QED BY <1>4, <1>5, <2>1, <2>2, <2>3
<1>7. CASE ReceivePatch(c)
  <2> DEFINE f == ApplyRemote(e, Frame(c).op)
  <2>1. eng' = [eng EXCEPT ![c] = f] /\ sess' = [sess EXCEPT ![c] = s]
    BY <1>7 DEF ReceivePatch, SInv, s
  <2>2. f.rows = e.rows /\ f.pending = e.pending /\ f.made = e.made
    BY <1>1, RemoteTags
  <2> HIDE DEF f, e
  <2> QED BY <1>4, <1>5, <2>1, <2>2
<1>8. CASE ReceiveWelcome(c)
  <2> DEFINE snap == Frame(c).scene
             f == Reconcile(e, snap)
             rows == Resent(e, snap)
             t == Send(s, OpItems(rows))
  <2>1. eng' = [eng EXCEPT ![c] = f] /\ sess' = [sess EXCEPT ![c] = t]
    BY <1>8 DEF ReceiveWelcome, SInv, s
  <2>2. f.rows = e.rows /\ f.pending = e.pending /\ f.made = e.made
    BY <1>1, ReconcileTags
  <2>3. ListOf(rows) /\ (d = c => Tags(rows, P))
    <3>1. rows = <<>> \/ rows = e.rows
      BY DEF Resent
    <3>2. ListOf(e.rows)
      BY <1>1, IsListOfRange DEF Sound, Outbox, ListOf
    <3> HIDE DEF rows
    <3> QED BY <3>1, <3>2, ListEmpty DEF Carry, Tags
  <2>4. d = c => \A i \in Range(OpItems(rows)) : Tagged(i) \in P
    <3> HIDE DEF rows
    <3> QED BY <2>3, ItemsTagged
  <2>5. Range(t.inq) \subseteq Range(s.inq) \cup Range(OpItems(rows))
    <3>1. ListOf(OpItems(rows))
      <4> DEFINE item(n) == [type |-> "op", n |-> rows[n].n, op |-> rows[n].op]
                 q == OpItems(rows)
                 S == {item(n) : n \in DOMAIN rows}
      <4>1. Len(rows) \in Nat /\ DOMAIN rows = 1..Len(rows)
        BY <2>3, LenProperties DEF ListOf
      <4>2. q = [n \in 1..Len(rows) |-> item(n)]
        BY <4>1 DEF OpItems
      <4> HIDE DEF item, q, rows
      <4>3. q \in Seq(S)
        BY <4>1, <4>2
      <4> HIDE DEF S
      <4> QED BY <4>3, IsListOfRange DEF ListOf, q
    <3> HIDE DEF rows
    <3> QED BY <1>1, <1>2, <3>1, SendTags
  <2> HIDE DEF t, f, rows, snap
  <2> QED BY <1>4, <1>5, <2>1, <2>2, <2>4, <2>5
<1> QED BY <1>6, <1>7, <1>8

(* The actor's step gives no session a frame from its client. *)
LEMMA HandleTags ==
    ASSUME NEW s, s = [d \in Client |-> s[d]], \A d \in Client : Fields(s[d]),
           NEW c, NEW item, Handle(c, item, s), NEW d \in Client
    PROVE  sess'[d].inq = s[d].inq
<1>1. CASE Fresh(c, item)
  <2> DEFINE v == scene.version + 1
             objs == Apply(scene.objs, item.op).objs
             patch == Applied(c, item, objs)
             t == [s[d] EXCEPT !.bq = Append(@, patch)]
  <2>1. sess' = Broadcast(s, patch)
    BY <1>1 DEF Handle
  <2> HIDE DEF patch
  <2>2. sess'[d] = IF s[d].state = "down" THEN s[d] ELSE t
    BY <2>1 DEF Broadcast
  <2>3. t.inq = s[d].inq
    BY DEF Fields
  <2> HIDE DEF t
  <2> QED BY <2>2, <2>3
<1>2. CASE ~Fresh(c, item)
  <2>1. sess' = s
    BY <1>2 DEF Handle
  <2> QED BY <2>1
<1> QED BY <1>1, <1>2

(* The reader serves an op of its connection. *)
LEMMA ServeOpKeeps ==
    ASSUME SInv, FInv, NEW c \in Client, ServeOp(c),
           NEW P, NEW d \in Client, Carry(sess[d], eng[d], old[d], P)
    PROVE  Keeps(d, P)
<1> DEFINE item == Head(sess[c].inq)
           m == Answer(c, item)
           t == [sess[c] EXCEPT !.inq = Tail(@), !.mine = TRUE, !.doing = <<m>>]
           s == [sess EXCEPT ![c].inq = Tail(@), ![c].mine = TRUE,
                             ![c].doing = <<Answer(c, item)>>]
<1>1. /\ sess[c].inq # <<>> /\ Handle(c, item, s) /\ UNCHANGED <<eng, old>>
  BY DEF ServeOp
<1>2. /\ sess = [x \in Client |-> sess[x]]
      /\ \A x \in Client : Fields(sess[x]) /\ ListOf(sess[x].inq)
  BY DEF SInv, Joined, FInv, Brings, Sends
<1>3. s = [x \in Client |-> IF x = c THEN t ELSE sess[x]]
  BY <1>2
<1> HIDE DEF m, item
<1>4. Fields(t) /\ t.inq = Tail(sess[c].inq)
  BY <1>2 DEF Fields
<1> HIDE DEF s, t
<1>5. s = [x \in Client |-> s[x]] /\ \A x \in Client : Fields(s[x])
  BY <1>2, <1>3, <1>4
<1>6. sess'[d].inq = s[d].inq
  BY <1>1, <1>5, HandleTags
<1>7. Range(s[d].inq) \subseteq Range(sess[d].inq)
  BY <1>1, <1>2, <1>3, <1>4, ListTail
<1> QED BY <1>1, <1>6, <1>7 DEF Keeps, Carry

(* The reader of a broken connection serves an op it has. *)
LEMMA ServeOldKeeps ==
    ASSUME SInv, FInv, NEW c \in Client, NEW q \in old[c], ServeOld(c, q),
           NEW P, NEW d \in Client, Carry(sess[d], eng[d], old[d], P)
    PROVE  Keeps(d, P)
<1> DEFINE rest == IF Len(q) = 1 THEN {} ELSE {Tail(q)}
           qs == (old[c] \ {q}) \cup rest
<1>1. Handle(c, Head(q), sess) /\ UNCHANGED eng
  BY DEF ServeOld
<1>2. /\ sess = [x \in Client |-> sess[x]] /\ \A x \in Client : Fields(sess[x])
      /\ q # <<>> /\ ListOf(q)
  BY DEF SInv, Joined, FInv, Waiting, Lists
<1>3. sess'[d].inq = sess[d].inq
  BY <1>1, <1>2, HandleTags
<1>4. old' = [x \in Client |-> IF x = c THEN qs ELSE old[x]]
  BY DEF ServeOld, FInv
<1>5. d = c => \A x \in qs : Tags(x, P)
  <2> SUFFICES ASSUME d = c PROVE Tags(Tail(q), P)
    BY DEF Carry
  <2>1. Range(Tail(q)) \subseteq Range(q) /\ Tags(q, P)
    BY <1>2, ListTail DEF Carry
  <2> QED BY <2>1 DEF Tags
<1> HIDE DEF qs
<1>6. \A x \in old'[d] : Tags(x, P)
  BY <1>4, <1>5 DEF Carry
<1> QED BY <1>1, <1>3, <1>6 DEF Keeps, Carry

(* The other steps of a session's tasks. *)
LEMMA TaskKeeps ==
    ASSUME SInv, FInv, NEW c \in Client,
           \/ ServeSubscribe(c) \/ ServeResume(c) \/ QueueAnswer(c)
           \/ TakeBroadcast(c) \/ QueuePatch(c) \/ Hello(c) \/ Welcome(c),
           NEW P, NEW d \in Client, Carry(sess[d], eng[d], old[d], P)
    PROVE  Keeps(d, P)
<1> DEFINE s == sess[c]
           rest == Tail(s.inq)
           back == <<[type |-> "resume"]>> \o rest
<1>1. Fields(s) /\ ListOf(s.inq)
  BY DEF SInv, Joined, FInv, Brings, Sends
<1>2. UNCHANGED <<eng, old>>
  BY DEF ServeSubscribe, ServeResume, QueueAnswer, TakeBroadcast, QueuePatch,
         Hello, Welcome
<1>3. s.inq # <<>> => ListOf(rest) /\ Range(rest) \subseteq Range(s.inq)
  BY <1>1, ListTail
<1>4. s.inq # <<>> =>
        \A i \in Range(back) : i.type = "op" => i \in Range(s.inq)
  <2> DEFINE x == [type |-> "resume"]
  <2>1. x.type # "op"
    OBVIOUS
  <2> HIDE DEF x, rest
  <2>2. ListOf(<<x>>) /\ Range(<<x>>) = {x}
    BY ListOne
  <2> QED BY <1>3, <2>1, <2>2, ListConcat DEF x
<1>5. PICK t : sess' = [sess EXCEPT ![c] = t]
               /\ \A i \in Range(t.inq) : i.type = "op" => i \in Range(s.inq)
  <2> HIDE DEF rest, back
  <2>1. CASE ServeSubscribe(c)
    <3> DEFINE region == Head(s.inq).region
               t == [s EXCEPT !.inq = back, !.region = region]
    <3>1. s.inq # <<>> /\ sess' = [sess EXCEPT ![c] = t]
      BY <2>1 DEF ServeSubscribe, SInv, back, rest
    <3> HIDE DEF region
    <3>2. t.inq = back
      BY <1>1 DEF Fields
    <3> HIDE DEF t
    <3> QED BY <1>4, <3>1, <3>2
  <2>2. CASE ServeResume(c)
    <3> DEFINE doing == <<Snapshot(s.region)>>
               t == [s EXCEPT !.inq = rest, !.strays = {}, !.doing = doing]
    <3>1. s.inq # <<>> /\ sess' = [sess EXCEPT ![c] = t]
      BY <2>2 DEF ServeResume, SInv, rest
    <3> HIDE DEF doing
    <3>2. t.inq = rest
      BY <1>1 DEF Fields
    <3> HIDE DEF t
    <3> QED BY <1>3, <3>1, <3>2
  <2>3. CASE QueueAnswer(c)
    <3> DEFINE out == Append(s.out, Head(s.doing))
               t == [s EXCEPT !.out = out, !.doing = <<>>]
    <3>1. sess' = [sess EXCEPT ![c] = t]
      BY <2>3 DEF QueueAnswer, SInv
    <3> HIDE DEF out
    <3>2. t.inq = s.inq
      BY <1>1 DEF Fields
    <3> HIDE DEF t
    <3> QED BY <3>1, <3>2
  <2>4. CASE TakeBroadcast(c)
    <3> DEFINE b == Head(s.bq)
               patch == [type |-> "patch", seq |-> b.seq, op |-> b.op,
                         author |-> b.author]
               hand == IF Forwards(c, b) THEN <<patch>> ELSE <<>>
               bq == Tail(s.bq)
               strays == Strayed(s, b)
               t == [s EXCEPT !.bq = bq, !.hand = hand, !.strays = strays]
    <3>1. sess' = [sess EXCEPT ![c] = t]
      BY <2>4 DEF TakeBroadcast, SInv
    <3> HIDE DEF hand, bq, strays
    <3>2. t.inq = s.inq
      BY <1>1 DEF Fields
    <3> HIDE DEF t
    <3> QED BY <3>1, <3>2
  <2>5. CASE QueuePatch(c)
    <3> DEFINE out == Append(s.out, Head(s.hand))
               top == Head(s.hand).seq
               t == [s EXCEPT !.out = out, !.hand = <<>>, !.top = top]
    <3>1. sess' = [sess EXCEPT ![c] = t]
      BY <2>5 DEF QueuePatch, SInv
    <3> HIDE DEF out, top
    <3>2. t.inq = s.inq
      BY <1>1 DEF Fields
    <3> HIDE DEF t
    <3> QED BY <3>1, <3>2
  <2>6. CASE Hello(c)
    <3> DEFINE t == [Down EXCEPT !.state = "joining", !.region = view[c],
                                 !.mine = SameId]
    <3>1. sess' = [sess EXCEPT ![c] = t]
      BY <2>6 DEF Hello
    <3>2. t.inq = <<>>
      BY DEF Down
    <3> HIDE DEF t
    <3> QED BY <3>1, <3>2, ListEmpty
  <2>7. CASE Welcome(c)
    <3> DEFINE out == <<Snapshot(s.region)>>
               t == [s EXCEPT !.state = "open", !.out = out]
    <3>1. sess' = [sess EXCEPT ![c] = t]
      BY <2>7 DEF Welcome, SInv
    <3> HIDE DEF out
    <3>2. t.inq = s.inq
      BY <1>1 DEF Fields
    <3> HIDE DEF t
    <3> QED BY <3>1, <3>2
  <2> QED BY <2>1, <2>2, <2>3, <2>4, <2>5, <2>6, <2>7
<1> QED BY <1>2, <1>5, SessionKeeps

(* The connection breaks: what the server got is frames of the client's. *)
LEMMA DropKeeps ==
    ASSUME SInv, FInv, NEW c \in Client, Drop(c),
           NEW P, NEW d \in Client, Carry(sess[d], eng[d], old[d], P)
    PROVE  Keeps(d, P)
<1> DEFINE q == sess[c].inq
<1>1. PICK k \in 0..Len(q) :
        old' = [old EXCEPT ![c] = IF Got(q, k) = <<>> THEN @
                                  ELSE @ \cup {Got(q, k)}]
  BY DEF Drop, Got
<1> DEFINE got == Got(q, k)
           qs == IF got = <<>> THEN old[c] ELSE old[c] \cup {got}
<1>2. sess' = [sess EXCEPT ![c] = Down] /\ eng' = [eng EXCEPT ![c] = eng[c]]
  BY DEF Drop, SInv
<1>3. got # <<>> => Range(got) \subseteq {i \in Range(q) : i.type = "op"}
  <2>1. ListOf(q)
    BY DEF FInv, Brings, Sends
  <2> HIDE DEF q
  <2> QED BY <2>1, GotFrames
<1> HIDE DEF got
<1>4. old' = [old EXCEPT ![c] = qs]
  BY <1>1 DEF FInv, got
<1>5. ASSUME d = c PROVE Carry(Down, eng[c], qs, P)
  <2>1. Down.inq = <<>>
    BY DEF Down
  <2>2. Carry(sess[c], eng[c], old[c], P)
    BY <1>5
  <2>3. got # <<>> => Tags(got, P)
    BY <1>3, <2>2 DEF Carry, Tags
  <2> QED BY <2>1, <2>2, <2>3, ListEmpty DEF Carry
<1> HIDE DEF qs
<1> QED BY <1>2, <1>4, <1>5, OneKeeps

(* author is the one step that makes a client carry an op it did not. *)
LEMMA AuthorTags ==
    ASSUME SInv, FInv, NEW c \in Client, eng[c].made < Len(script[c]),
           Author(c, script[c][eng[c].made + 1]),
           NEW P, NEW d \in Client, Carry(sess[d], eng[d], old[d], P)
    PROVE  /\ d # c => Keeps(d, P)
           /\ d = c =>
                /\ eng'[c].made = eng[c].made + 1
                /\ eng[c].made + 1 \in DOMAIN script[c]
                /\ Carry(sess'[c], eng'[c], old'[c],
                         P \cup {[n |-> eng[c].seq + 1,
                                  op |-> script[c][eng[c].made + 1]]})
<1> DEFINE e == eng[c]
           op == script[c][e.made + 1]
           row == [n |-> e.seq + 1, op |-> op]
           objs == Apply(e.objs, op).objs
           pending == Append(e.pending, row)
           took == TakeOwnership(e, row.n, OwnedKeys(op))
           f == Authored(e, op, objs, pending)
<1>1. Sound(e) /\ Engine(e) /\ ListOf(e.pending)
  BY DEF SInv, Joined, Sound, FInv, Stocked
<1>2. e.made + 1 \in DOMAIN script[c]
  <2>1. script[c] \in Seq(Range(script[c])) /\ script \in Scripts
    BY ScriptsAssumption DEF SInv
  <2>2. Len(script[c]) \in Nat /\ DOMAIN script[c] = 1..Len(script[c])
    BY <2>1, LenProperties
  <2> QED BY <1>1, <2>2 DEF Sound
<1>3. eng' = [eng EXCEPT ![c] = f] /\ UNCHANGED <<sess, old>>
  <2>1. took.pending = e.pending
    <3> HIDE DEF op
    <3> QED BY <1>1 DEF TakeOwnership, Engine
  <2> QED BY <2>1 DEF Author, Authored
<1>4. /\ took.rows = e.rows /\ took.made = e.made /\ Engine(took)
  <2> HIDE DEF op
  <2> QED BY <1>1 DEF TakeOwnership, Engine
<1>5. f = [took EXCEPT !.objs = objs, !.seq = row.n, !.made = @ + 1,
                       !.rows = Append(@, row), !.pending = pending]
  BY DEF Authored
<1> HIDE DEF took, f, objs
<1>6. f.rows = Append(e.rows, row) /\ f.pending = pending /\ f.made = e.made + 1
  <2> HIDE DEF row, pending
  <2> QED BY <1>4, <1>5 DEF Engine
<1>7. Tagged(row) = row
  BY DEF Tagged
<1> HIDE DEF row
<1>8. /\ Range(f.rows) \subseteq Range(e.rows) \cup {row}
      /\ Range(f.pending) \subseteq Range(e.pending) \cup {row}
  <2>1. ListOf(e.rows)
    BY <1>1, IsListOfRange DEF Sound, Outbox, ListOf
  <2> HIDE DEF e
  <2> QED BY <1>1, <1>6, <2>1, ListAppend
<1>9. d # c => Keeps(d, P)
  <2>1. d # c => eng'[d] = eng[d]
    BY <1>3 DEF SInv
  <2> QED BY <1>3, <2>1 DEF Keeps
<1>10. ASSUME d = c PROVE Carry(sess[c], f, old[c], P \cup {row})
  <2>1. Carry(sess[c], e, old[c], P)
    BY <1>10
  <2> HIDE DEF e
  <2> QED BY <1>7, <1>8, <2>1 DEF Carry, Tags
<1>11. eng'[c] = f
  BY <1>3 DEF SInv
<1> QED BY <1>2, <1>3, <1>6, <1>9, <1>10, <1>11 DEF row

-----------------------------------------------------------------------------

(* What carries an op of the list own: any, any but x, or x under the number m
   only.                                                                   *)
Ours(own) == [n : Nat, op : Range(own)]
Others(own, x) == [n : Nat, op : Range(own) \ {x}]
Numbered(own, x, m) == Others(own, x) \cup {[n |-> m, op |-> x]}

(* The i-th op that the client c authors, x, adds a comment.  Before it is
   authored it is carried nowhere and the comment is nowhere; afterwards all
   that carries it has one number, and a scene that has the comment has it
   once and has seen that number.                                          *)
Unmade(s, e, qs, objs, own, i) ==
    /\ e.made < i
    /\ Carry(s, e, qs, Others(own, own[i]))
    /\ Spots(objs, own[i].value) = {}
Made(s, e, qs, objs, had, c, own, i) ==
    /\ i <= e.made
    /\ \A p, q \in Spots(objs, own[i].value) : p = q
    /\ \E m \in Nat : /\ Carry(s, e, qs, Numbered(own, own[i], m))
                      /\ Spots(objs, own[i].value) # {} => <<c, m>> \in had
Placed(s, e, qs, objs, had, c, own, i) ==
    \/ Unmade(s, e, qs, objs, own, i)
    \/ Made(s, e, qs, objs, had, c, own, i)

(* The inductive invariant of what is applied, beside SInv and FInv. *)
CInv ==
    /\ Commented(scene.objs)
    /\ \A c \in Client : Carry(sess[c], eng[c], old[c], Ours(script[c]))
    /\ \A c \in Client : \A i \in DOMAIN script[c] :
         script[c][i].kind = "add-comment" =>
             Placed(sess[c], eng[c], old[c], scene.objs, DOMAIN seen, c, script[c], i)

(* Initially nothing is carried, and no comment to be added is there. *)
LEMMA InitCInv == Init => CInv
<1> SUFFICES ASSUME Init PROVE CInv
  OBVIOUS
<1>1. /\ script \in Scripts
      /\ scene.objs = InitObjs /\ old = [c \in Client |-> {}]
      /\ eng = [c \in Client |-> NewEngine(InitObjs, 0)]
      /\ sess = [c \in Client |-> [Down EXCEPT !.state = "open", !.mine = SameId]]
  BY DEF Init
<1>2. Commented(InitObjs)
  BY CommentsAssumption DEF Commented, ListOf
<1>3. ASSUME NEW c \in Client, NEW P
      PROVE  Carry(sess[c], eng[c], old[c], P) /\ eng[c].made = 0
  <2> DEFINE s == [Down EXCEPT !.state = "open", !.mine = SameId]
             e == NewEngine(InitObjs, 0)
  <2>1. s.inq = <<>> /\ e.rows = <<>> /\ e.pending = <<>> /\ e.made = 0
    BY DEF Down, NewEngine
  <2>2. sess[c] = s /\ eng[c] = e /\ old[c] = {}
    BY <1>1
  <2> HIDE DEF s, e
  <2> QED BY <2>1, <2>2, ListEmpty DEF Carry, Tags
<1>4. ASSUME NEW c \in Client, NEW i \in DOMAIN script[c],
             script[c][i].kind = "add-comment"
      PROVE  Unmade(sess[c], eng[c], old[c], scene.objs, script[c], i)
  <2> DEFINE v == script[c][i].value
  <2>1. \A o \in DOMAIN InitObjs : v \notin Range(InitObjs[o].comments)
    BY <1>1, <1>4, CommentsAssumption
  <2>2. Spots(InitObjs, v) = {}
    <3> HIDE DEF v
    <3> QED BY <2>1 DEF Spots, Range
  <2>3. 0 < i
    <3>1. script[c] \in Seq(Range(script[c]))
      BY <1>1, ScriptsAssumption
    <3>2. Len(script[c]) \in Nat /\ DOMAIN script[c] = 1..Len(script[c])
      BY <3>1, LenProperties
    <3> QED BY <3>2
  <2> QED BY <1>1, <1>3, <2>2, <2>3 DEF Unmade
<1> QED BY <1>1, <1>2, <1>3, <1>4 DEF CInv, Placed

(* A client that carries no more, in a scene where the comment has no new
   place and no number is forgotten.                                       *)
LEMMA PlacedStays ==
    ASSUME NEW c \in Client, NEW own, NEW i, NEW objs, NEW had, NEW s, NEW e, NEW qs,
           Placed(s, e, qs, objs, had, c, own, i),
           NEW t, NEW f, NEW rs, f.made = e.made,
           \A P : Carry(s, e, qs, P) => Carry(t, f, rs, P),
           NEW after, Spots(after, own[i].value) \subseteq Spots(objs, own[i].value),
           NEW has, had \subseteq has
    PROVE  Placed(t, f, rs, after, has, c, own, i)
<1>1. CASE Unmade(s, e, qs, objs, own, i)
  <2>1. Unmade(t, f, rs, after, own, i)
    BY <1>1 DEF Unmade
  <2> QED BY <2>1 DEF Placed
<1>2. CASE Made(s, e, qs, objs, had, c, own, i)
  <2>1. PICK m \in Nat :
          /\ Carry(s, e, qs, Numbered(own, own[i], m))
          /\ Spots(objs, own[i].value) # {} => <<c, m>> \in had
    BY <1>2 DEF Made
  <2>2. Carry(t, f, rs, Numbered(own, own[i], m))
    BY <2>1
  <2>3. Spots(after, own[i].value) # {} => <<c, m>> \in has
    BY <2>1
  <2>4. \A p, q \in Spots(after, own[i].value) : p = q
    BY <1>2 DEF Made
  <2>5. Made(t, f, rs, after, has, c, own, i)
    BY <1>2, <2>2, <2>3, <2>4 DEF Made
  <2> QED BY <2>5 DEF Placed
<1> QED BY <1>1, <1>2 DEF Placed

(* A step that no client carries more after, and that leaves the scene. *)
LEMMA QuietStep ==
    ASSUME CInv, UNCHANGED <<script, scene, seen>>,
           \A c \in Client : \A P : Carry(sess[c], eng[c], old[c], P) => Keeps(c, P)
    PROVE  CInv'
<1>1. ASSUME NEW c \in Client
      PROVE  /\ Carry(sess'[c], eng'[c], old'[c], Ours(script[c]))
             /\ eng'[c].made = eng[c].made
             /\ \A P : Carry(sess[c], eng[c], old[c], P) =>
                         Carry(sess'[c], eng'[c], old'[c], P)
  BY DEF CInv, Keeps
<1>2. ASSUME NEW c \in Client, NEW i \in DOMAIN script[c],
             script[c][i].kind = "add-comment"
      PROVE  Placed(sess'[c], eng'[c], old'[c], scene.objs, DOMAIN seen, c, script[c], i)
  <2>1. Placed(sess[c], eng[c], old[c], scene.objs, DOMAIN seen, c, script[c], i)
    BY <1>2 DEF CInv
  <2> QED BY <1>1, <2>1, PlacedStays
<1> QED BY <1>1, <1>2 DEF CInv

(* A comment that a client adds is in no other op of the scripts. *)
LEMMA MentionedOnce ==
    ASSUME SInv, NEW c \in Client, NEW i \in DOMAIN script[c],
           script[c][i].kind = "add-comment",
           NEW d \in Client, NEW j \in DOMAIN script[d]
    PROVE  /\ Mentions(script[d][j], script[c][i].value) => d = c /\ j = i
           /\ script[d][j] = script[c][i] => d = c /\ j = i
<1>1. script \in Scripts
  BY DEF SInv
<1>2. Mentions(script[d][j], script[c][i].value) => d = c /\ j = i
  BY <1>1, CommentsAssumption
<1>3. Mentions(script[c][i], script[c][i].value)
  BY DEF Mentions, Does
<1> QED BY <1>2, <1>3

(* author: the op x, if it is its turn, is carried under its new number. *)
LEMMA AuthorPlaces ==
    ASSUME SInv, FInv, CInv, NEW c \in Client, eng[c].made < Len(script[c]),
           Author(c, script[c][eng[c].made + 1]), UNCHANGED script
    PROVE  CInv'
<1> DEFINE own == script[c]
           j == eng[c].made + 1
           row == [n |-> eng[c].seq + 1, op |-> own[j]]
<1>1. UNCHANGED <<scene, seen>> /\ eng[c].made \in Nat /\ eng[c].seq + 1 \in Nat
  BY DEF Author, SInv, Joined, Sound
<1>2. ASSUME NEW d \in Client, d # c
      PROVE  \A P : Carry(sess[d], eng[d], old[d], P) => Keeps(d, P)
  BY <1>2, AuthorTags
<1>3. /\ eng'[c].made = j /\ j \in DOMAIN own
      /\ \A P : Carry(sess[c], eng[c], old[c], P) =>
                  Carry(sess'[c], eng'[c], old'[c], P \cup {row})
  <2>1. Carry(sess[c], eng[c], old[c], Ours(own))
    BY DEF CInv
  <2>2. eng'[c].made = j /\ j \in DOMAIN own
    BY <2>1, AuthorTags
  <2>3. ASSUME NEW P, Carry(sess[c], eng[c], old[c], P)
        PROVE  Carry(sess'[c], eng'[c], old'[c], P \cup {row})
    BY <2>3, AuthorTags
  <2> QED BY <2>2, <2>3
<1>4. row \in Ours(own) /\ own[j] \in Range(own)
  BY <1>1, <1>3 DEF Ours, Range
<1>5. ASSUME NEW d \in Client
      PROVE  Carry(sess'[d], eng'[d], old'[d], Ours(script[d]))
  <2>1. CASE d # c
    BY <1>2, <2>1 DEF CInv, Keeps
  <2>2. CASE d = c
    <3>1. Ours(own) \cup {row} = Ours(own)
      BY <1>4
    <3> HIDE DEF row
    <3> QED BY <1>3, <2>2, <3>1 DEF CInv
  <2> QED BY <2>1, <2>2
<1>6. ASSUME NEW d \in Client, d # c, NEW i \in DOMAIN script[d],
             script[d][i].kind = "add-comment"
      PROVE  Placed(sess'[d], eng'[d], old'[d], scene.objs, DOMAIN seen, d, script[d], i)
  <2>1. Placed(sess[d], eng[d], old[d], scene.objs, DOMAIN seen, d, script[d], i)
    BY <1>6 DEF CInv
  <2>2. /\ eng'[d].made = eng[d].made
        /\ \A P : Carry(sess[d], eng[d], old[d], P) =>
                    Carry(sess'[d], eng'[d], old'[d], P)
    BY <1>2, <1>6 DEF Keeps, CInv
  <2> QED BY <2>1, <2>2, PlacedStays
<1>7. ASSUME NEW i \in DOMAIN own, own[i].kind = "add-comment"
      PROVE  Placed(sess'[c], eng'[c], old'[c], scene.objs, DOMAIN seen, c, own, i)
  <2>1. Placed(sess[c], eng[c], old[c], scene.objs, DOMAIN seen, c, own, i)
    BY <1>7 DEF CInv
  <2>2. i \in Nat
    <3>1. own \in Seq(Range(own))
      BY ScriptsAssumption DEF SInv
    <3>2. Len(own) \in Nat /\ DOMAIN own = 1..Len(own)
      BY <3>1, LenProperties
    <3> QED BY <3>2
  <2>3. CASE i = j
    <3> DEFINE m == eng[c].seq + 1
    <3>1. Unmade(sess[c], eng[c], old[c], scene.objs, own, i)
      BY <1>1, <2>1, <2>3 DEF Placed, Made
    <3>2. Others(own, own[i]) \cup {row} = Numbered(own, own[i], m)
      BY <2>3 DEF Numbered
    <3>3. Carry(sess'[c], eng'[c], old'[c], Numbered(own, own[i], m))
      <4> HIDE DEF row, m
      <4> QED BY <1>3, <3>1, <3>2 DEF Unmade
    <3>4. m \in Nat /\ i <= eng'[c].made
      BY <1>1, <1>3, <2>3
    <3> HIDE DEF m
    <3>5. Made(sess'[c], eng'[c], old'[c], scene.objs, DOMAIN seen, c, own, i)
      BY <3>1, <3>3, <3>4 DEF Made, Unmade
    <3> QED BY <3>5 DEF Placed
  <2>4. CASE i # j
    <3>1. row \in Others(own, own[i])
      <4>1. own[j] # own[i]
        BY <1>3, <1>7, <2>4, MentionedOnce
      <4> QED BY <1>1, <1>4, <4>1 DEF Others
    <3>2. /\ Others(own, own[i]) \cup {row} = Others(own, own[i])
          /\ \A m : Numbered(own, own[i], m) \cup {row} = Numbered(own, own[i], m)
      BY <3>1 DEF Numbered
    <3> HIDE DEF row
    <3>3. CASE Unmade(sess[c], eng[c], old[c], scene.objs, own, i)
      <4>1. eng'[c].made < i
        BY <1>1, <1>3, <2>2, <2>4, <3>3 DEF Unmade
      <4>2. Carry(sess'[c], eng'[c], old'[c], Others(own, own[i]))
        BY <1>3, <3>2, <3>3 DEF Unmade
      <4>3. Unmade(sess'[c], eng'[c], old'[c], scene.objs, own, i)
        BY <3>3, <4>1, <4>2 DEF Unmade
      <4> QED BY <4>3 DEF Placed
    <3>4. CASE Made(sess[c], eng[c], old[c], scene.objs, DOMAIN seen, c, own, i)
      <4>1. PICK m \in Nat :
              /\ Carry(sess[c], eng[c], old[c], Numbered(own, own[i], m))
              /\ Spots(scene.objs, own[i].value) # {} => <<c, m>> \in DOMAIN seen
        BY <3>4 DEF Made
      <4>2. Carry(sess'[c], eng'[c], old'[c], Numbered(own, own[i], m))
        BY <1>3, <3>2, <4>1
      <4>3. i <= eng'[c].made
        BY <1>1, <1>3, <2>2, <3>4 DEF Made
      <4>4. Made(sess'[c], eng'[c], old'[c], scene.objs, DOMAIN seen, c, own, i)
        BY <3>4, <4>1, <4>2, <4>3 DEF Made
      <4> QED BY <4>4 DEF Placed
    <3> QED BY <2>1, <3>3, <3>4 DEF Placed
  <2> QED BY <2>3, <2>4
<1>8. ASSUME NEW d \in Client, NEW i \in DOMAIN script[d],
             script[d][i].kind = "add-comment"
      PROVE  Placed(sess'[d], eng'[d], old'[d], scene.objs, DOMAIN seen, d, script[d], i)
  <2> HIDE DEF j
  <2> QED BY <1>6, <1>7, <1>8
<1> QED BY <1>1, <1>5, <1>8 DEF CInv

(* The actor takes an op that the client d carries: a fresh one that adds a
   comment finds it nowhere, and its number is seen from then on.          *)
LEMMA HandlePlaces ==
    ASSUME SInv, CInv, NEW d \in Client, NEW item, NEW s, Handle(d, item, s),
           \A P : Carry(sess[d], eng[d], old[d], P) => Tagged(item) \in P,
           \A c \in Client : \A P : Carry(sess[c], eng[c], old[c], P) => Keeps(c, P),
           UNCHANGED script
    PROVE  CInv'
<1>1. CASE ~Fresh(d, item)
  <2>1. UNCHANGED <<scene, seen>>
    BY <1>1 DEF Handle
  <2> QED BY <2>1, QuietStep
<1>2. CASE Fresh(d, item)
  <2> DEFINE op == item.op
             n == item.n
             objs == scene.objs
             after == Apply(objs, op).objs
             has == DOMAIN seen'
  <2>1. scene'.objs = after /\ has = DOMAIN seen \cup {<<d, n>>}
    <3> HIDE DEF after
    <3> QED BY <1>2 DEF Handle, after
  <2>2. <<d, n>> \notin DOMAIN seen
    BY <1>2 DEF Fresh
  <2>3. op \in Range(script[d])
    <3>1. Tagged(item) \in Ours(script[d])
      BY DEF CInv
    <3> QED BY <3>1 DEF Ours, Tagged
  <2>4. PICK j \in DOMAIN script[d] : op = script[d][j]
    BY <2>3 DEF Range
  <2>5. op \in AnyOp
    BY <2>3 DEF SInv, AnyOp
  <2>6. Commented(after) /\ \A v : ~Mentions(op, v) => NoneNew(after, objs, v)
    BY <2>5, ApplyOnComments DEF CInv
  <2>7. ASSUME NEW c \in Client
        PROVE  /\ Carry(sess'[c], eng'[c], old'[c], Ours(script[c]))
               /\ eng'[c].made = eng[c].made
               /\ \A P : Carry(sess[c], eng[c], old[c], P) =>
                           Carry(sess'[c], eng'[c], old'[c], P)
    BY DEF CInv, Keeps
  <2>8. ASSUME NEW c \in Client, NEW i \in DOMAIN script[c],
               script[c][i].kind = "add-comment"
        PROVE  Placed(sess'[c], eng'[c], old'[c], after, has, c, script[c], i)
    <3> DEFINE own == script[c]
               x == own[i]
    <3>1. Placed(sess[c], eng[c], old[c], objs, DOMAIN seen, c, own, i)
      BY <2>8 DEF CInv
    <3>2. CASE ~Mentions(op, x.value)
      <4>1. NoneNew(after, objs, x.value)
        BY <2>6, <3>2
      <4> HIDE DEF after, objs
      <4>2. Spots(after, x.value) \subseteq Spots(objs, x.value)
        BY <4>1 DEF Spots, NoneNew
      <4>3. DOMAIN seen \subseteq has
        BY <2>1
      <4> HIDE DEF has, own
      <4> QED BY <2>7, <3>1, <4>2, <4>3, PlacedStays DEF own
    <3>3. CASE Mentions(op, x.value)
      <4>1. d = c /\ op = x /\ Tagged(item) = [n |-> n, op |-> x]
        BY <2>4, <2>8, <3>3, MentionedOnce DEF Tagged
      <4>2. Tagged(item) \notin Others(own, x)
        BY <4>1 DEF Others
      <4> HIDE DEF op, n, objs, after, has, own
      <4>3. Made(sess[c], eng[c], old[c], objs, DOMAIN seen, c, own, i)
        BY <3>1, <4>1, <4>2 DEF Placed, Unmade
      <4>4. PICK m \in Nat :
              /\ Carry(sess[c], eng[c], old[c], Numbered(own, x, m))
              /\ Spots(objs, x.value) # {} => <<c, m>> \in DOMAIN seen
        BY <4>3 DEF Made
      <4>5. n = m
        <5>1. Tagged(item) \in Numbered(own, x, m)
          BY <4>1, <4>4
        <5>2. [n |-> n, op |-> x] = [n |-> m, op |-> x]
          BY <4>1, <4>2, <5>1 DEF Numbered
        <5> QED BY <5>2
      <4>6. Spots(objs, x.value) = {}
        BY <2>2, <4>1, <4>4, <4>5
      <4>7. \A p, q \in Spots(after, x.value) : p = q
        <5>1. Commented(objs) /\ x.kind = "add-comment"
          BY <2>8 DEF CInv, objs, own
        <5>2. \A p, q \in Spots(Apply(objs, x).objs, x.value) : p = q
          <6> HIDE DEF x
          <6> QED BY <4>6, <5>1, AddOnComments
        <5> QED BY <4>1, <5>2 DEF after
      <4>8. <<c, m>> \in has
        BY <2>1, <4>1, <4>5
      <4>9. Carry(sess'[c], eng'[c], old'[c], Numbered(own, x, m))
        BY <2>7, <4>4
      <4>10. i <= eng'[c].made
        BY <2>7, <4>3 DEF Made
      <4>11. Made(sess'[c], eng'[c], old'[c], after, has, c, own, i)
        BY <4>7, <4>8, <4>9, <4>10 DEF Made
      <4> QED BY <4>11 DEF Placed, own
    <3> QED BY <3>2, <3>3
  <2> HIDE DEF after, has
  <2> QED BY <2>1, <2>6, <2>7, <2>8 DEF CInv, has
<1> QED BY <1>1, <1>2

(* What the readers take to the actor is what the client carries. *)
LEMMA ServePlaces ==
    ASSUME SInv, FInv, CInv, NEW c \in Client, UNCHANGED script,
           ServeOp(c) \/ \E q \in old[c] : ServeOld(c, q)
    PROVE  CInv'
<1>1. CASE ServeOp(c)
  <2> DEFINE item == Head(sess[c].inq)
             s == [sess EXCEPT ![c].inq = Tail(@), ![c].mine = TRUE,
                               ![c].doing = <<Answer(c, item)>>]
  <2>1. sess[c].inq # <<>> /\ item.type = "op" /\ Handle(c, item, s)
    BY <1>1 DEF ServeOp
  <2>2. item \in Range(sess[c].inq)
    BY <2>1, ListTail DEF FInv, Brings, Sends
  <2> HIDE DEF item, s
  <2>3. \A P : Carry(sess[c], eng[c], old[c], P) => Tagged(item) \in P
    BY <2>1, <2>2 DEF Carry
  <2>4. \A d \in Client : \A P : Carry(sess[d], eng[d], old[d], P) => Keeps(d, P)
    BY <1>1, ServeOpKeeps
  <2> QED BY <2>1, <2>3, <2>4, HandlePlaces
<1>2. CASE \E q \in old[c] : ServeOld(c, q)
  <2>1. PICK q \in old[c] : ServeOld(c, q)
    BY <1>2
  <2> DEFINE item == Head(q)
  <2>2. Handle(c, item, sess)
    BY <2>1 DEF ServeOld
  <2>3. item \in Range(q)
    BY ListTail DEF FInv, Waiting, Lists
  <2> HIDE DEF item
  <2>4. \A P : Carry(sess[c], eng[c], old[c], P) => Tagged(item) \in P
    BY <2>3 DEF Carry, Tags
  <2>5. \A d \in Client : \A P : Carry(sess[d], eng[d], old[d], P) => Keeps(d, P)
    BY <2>1, ServeOldKeeps
  <2> QED BY <2>2, <2>4, <2>5, HandlePlaces
<1> QED BY <1>1, <1>2

(* Every step of the system keeps a comment in one place. *)
LEMMA NextCInv ==
    ASSUME SInv, FInv, CInv, [Next]_vars
    PROVE  CInv'
<1>1. CASE UNCHANGED vars
  <2>1. UNCHANGED <<script, scene, seen, sess, eng, old>>
    BY <1>1 DEF vars
  <2>2. \A d \in Client : \A P : Carry(sess[d], eng[d], old[d], P) => Keeps(d, P)
    BY <2>1 DEF Keeps
  <2> QED BY <2>1, <2>2, QuietStep
<1>2. CASE Next
  <2>1. PICK c \in Client : Work(c) \/ Other(c)
    BY <1>2 DEF Next
  <2>2. UNCHANGED script
    BY <1>2 DEF Next
  <2>3. CASE Flush(c)
    <3>1. \A d \in Client : \A P : Carry(sess[d], eng[d], old[d], P) => Keeps(d, P)
      BY <2>3, FlushKeeps
    <3> QED BY <2>2, <2>3, <3>1, QuietStep DEF Flush
  <2>4. CASE (\E region : SetViewport(c, region)) \/ Resync(c)
    <3>1. \A d \in Client : \A P : Carry(sess[d], eng[d], old[d], P) => Keeps(d, P)
      BY <2>4, AskKeeps
    <3> QED BY <2>2, <2>4, <3>1, QuietStep DEF SetViewport, Resync
  <2>5. CASE \/ ReceiveAck(c) \/ ReceiveRejected(c)
             \/ ReceivePatch(c) \/ ReceiveWelcome(c)
    <3>1. \A d \in Client : \A P : Carry(sess[d], eng[d], old[d], P) => Keeps(d, P)
      BY <2>5, ReceiveKeeps
    <3>2. UNCHANGED <<scene, seen>>
      BY <2>5 DEF ReceiveAck, ReceiveRejected, ReceivePatch, ReceiveWelcome
    <3> QED BY <2>2, <3>1, <3>2, QuietStep
  <2>6. CASE \/ ServeSubscribe(c) \/ ServeResume(c) \/ QueueAnswer(c)
             \/ TakeBroadcast(c) \/ QueuePatch(c) \/ Hello(c) \/ Welcome(c)
    <3>1. \A d \in Client : \A P : Carry(sess[d], eng[d], old[d], P) => Keeps(d, P)
      BY <2>6, TaskKeeps
    <3>2. UNCHANGED <<scene, seen>>
      BY <2>6 DEF ServeSubscribe, ServeResume, QueueAnswer, TakeBroadcast,
                  QueuePatch, Hello, Welcome
    <3> QED BY <2>2, <3>1, <3>2, QuietStep
  <2>7. CASE Drop(c)
    <3>1. \A d \in Client : \A P : Carry(sess[d], eng[d], old[d], P) => Keeps(d, P)
      BY <2>7, DropKeeps
    <3> QED BY <2>2, <2>7, <3>1, QuietStep DEF Drop
  <2>8. CASE ServeOp(c) \/ \E q \in old[c] : ServeOld(c, q)
    BY <2>2, <2>8, ServePlaces
  <2>9. CASE /\ eng[c].made < Len(script[c])
             /\ Author(c, script[c][eng[c].made + 1])
    BY <2>2, <2>9, AuthorPlaces
  <2> QED BY <2>1, <2>3, <2>4, <2>5, <2>6, <2>7, <2>8, <2>9 DEF Work, Other
<1> QED BY <1>1, <1>2

(* AppliedOnce: an op is resent under the number it was given, on whatever
   connection, and the actor takes no number of a client twice; so a comment
   that a client adds is in the scene once, however often its connection broke
   and whatever the readers of broken connections still served.            *)
THEOREM CommentsAddedOnce == Spec => []AppliedOnce
<1>1. Init => SInv /\ FInv /\ CInv
  BY InitSInv, InitFInv, InitCInv
<1>2. SInv /\ FInv /\ CInv /\ [Next]_vars => SInv' /\ FInv' /\ CInv'
  BY NextSInv, NextFInv, NextCInv
<1>3. SInv /\ CInv => AppliedOnce
  <2> SUFFICES ASSUME CInv, NEW c \in Client, NEW op \in Range(script[c]),
                      op.kind = "add-comment"
               PROVE  Cardinality(CommentsOn(scene.objs, op.value)) <= 1
    BY DEF AppliedOnce
  <2> DEFINE S == CommentsOn(scene.objs, op.value)
  <2>1. PICK i \in DOMAIN script[c] : op = script[c][i]
    BY DEF Range
  <2>2. Placed(sess[c], eng[c], old[c], scene.objs, DOMAIN seen, c, script[c], i)
    BY <2>1 DEF CInv
  <2>3. \A p, q \in Spots(scene.objs, op.value) : p = q
    BY <2>1, <2>2 DEF Placed, Unmade, Made
  <2>4. S \subseteq Spots(scene.objs, op.value)
    <3> SUFFICES ASSUME NEW p \in S PROVE p \in Spots(scene.objs, op.value)
      OBVIOUS
    <3> DEFINE N == 1..2 * MaxComments
               cs == scene.objs[p[1]].comments
    <3>1. p \in (DOMAIN scene.objs) \X N /\ p[2] \in DOMAIN cs /\ cs[p[2]] = op.value
      BY DEF CommentsOn
    <3> HIDE DEF N
    <3>2. ListOf(cs)
      BY <3>1 DEF CInv, Commented
    <3>3. p[2] \in Nat
      <4>1. Len(cs) \in Nat /\ DOMAIN cs = 1..Len(cs)
        BY <3>2, LenProperties DEF ListOf
      <4> HIDE DEF cs
      <4> QED BY <3>1, <4>1
    <3>4. p \in (DOMAIN scene.objs) \X Nat
      BY <3>1, <3>3
    <3> QED BY <3>1, <3>4 DEF Spots
  <2>5. S = {} \/ \E p : S = {p}
    <3> HIDE DEF S
    <3> QED BY <2>3, <2>4
  <2>6. Cardinality(S) <= 1
    <3> HIDE DEF S
    <3>1. S = {} => Cardinality(S) = 0
      BY FS_EmptySet
    <3>2. (\E p : S = {p}) => Cardinality(S) = 1
      BY FS_Singleton
    <3>3. Cardinality(S) = 0 \/ Cardinality(S) = 1
      BY <2>5, <3>1, <3>2, Zenon
    <3> QED BY <3>3
  <2> QED BY <2>6
<1> QED BY <1>1, <1>2, <1>3, PTL DEF Spec

=============================================================================
