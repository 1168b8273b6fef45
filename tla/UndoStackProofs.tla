--------------------------- MODULE UndoStackProofs --------------------------
(***************************************************************************)
(* What holds of the undo stack's driver for any scene, any ops, any user  *)
(* and any number of inputs: the handshake of undo() and note_undo_applied *)
(* is matched, and an edit forks the history.                              *)
(*                                                                         *)
(* Nothing here depends on what an op does to a scene.  What carries the   *)
(* proof is the order the chain of presses imposes: at most one step is in *)
(* flight (`OneStep'), its press waits at the head of the chain (`Held'),  *)
(* and a user who waits for each op has an edit in flight only when no     *)
(* press is queued (`InTurn').                                             *)
(***************************************************************************)
EXTENDS UndoStack, SequenceTheorems, TLAPS

IsSeq(s) == s \in Seq({s[n] : n \in DOMAIN s})

Shapes ==
    /\ habit \in Habits
    /\ IsSeq(flight) /\ IsSeq(redo)
    /\ chain \in Seq({"undo", "redo"})

OneStep ==
    \A m, n \in DOMAIN flight :
        flight[m].by # "edit" /\ flight[n].by # "edit" => m = n

Held == Running => chain # <<>>

(* A user who waits. *)
InTurn ==
    habit.serial =>
        /\ Len(flight) <= 1
        /\ \A n \in DOMAIN flight : IF flight[n].by = "edit" THEN chain = <<>>
                                    ELSE flight[n].at = forks

IInv == Shapes /\ OneStep /\ Held /\ InTurn /\ HandshakeMatched /\ EditForksHistory

-----------------------------------------------------------------------------

(* A sequence over some set is one over its own elements. *)
LEMMA OwnElements ==
    ASSUME NEW S, NEW s \in Seq(S)
    PROVE  IsSeq(s)
<1>1. s \in [1..Len(s) -> {s[n] : n \in DOMAIN s}] /\ Len(s) \in Nat
  OBVIOUS
<1> QED BY <1>1 DEF IsSeq

(* A sequence that grows by one element. *)
LEMMA Appended ==
    ASSUME NEW s, IsSeq(s), NEW e
    PROVE  /\ IsSeq(Append(s, e))
           /\ Len(s) \in Nat /\ DOMAIN s = 1..Len(s)
           /\ Len(Append(s, e)) = Len(s) + 1
           /\ DOMAIN Append(s, e) = 1..(Len(s) + 1)
           /\ \A n \in 1..Len(s) : Append(s, e)[n] = s[n]
           /\ Append(s, e)[Len(s) + 1] = e
<1> DEFINE T == {s[n] : n \in DOMAIN s} \cup {e}
<1>1. s \in Seq({s[n] : n \in DOMAIN s})
  BY DEF IsSeq
<1>2. s \in Seq(T)
  BY <1>1
<1> HIDE DEF T
<1>3. Append(s, e) \in Seq(T)
  BY <1>2, e \in T DEF T
<1>4. IsSeq(Append(s, e))
  BY <1>3, OwnElements
<1> QED BY <1>2, <1>4

(* A sequence without its n-th element: the others keep their order. *)
LEMMA Removed ==
    ASSUME NEW s, IsSeq(s), NEW n \in DOMAIN s
    PROVE  LET r == RemoveAt(s, n)
               at(i) == IF i < n THEN i ELSE i + 1
           IN  /\ IsSeq(r)
               /\ Len(r) = Len(s) - 1 /\ Len(s) \in Nat
               /\ DOMAIN r = 1..Len(r) /\ DOMAIN s = 1..Len(s) /\ n \in Nat
               /\ \A i \in DOMAIN r : r[i] = s[at(i)]
<1> DEFINE T == {s[m] : m \in DOMAIN s}
           l == SubSeq(s, 1, n - 1)
           u == SubSeq(s, n + 1, Len(s))
<1>1. s \in Seq(T)
  BY DEF IsSeq
<1>2. /\ Len(s) \in Nat /\ n \in 1..Len(s) /\ DOMAIN s = 1..Len(s)
      /\ \A i \in 1..Len(s) : s[i] \in T
  BY <1>1
<1> HIDE DEF T
<1>3. /\ l \in Seq(T) /\ Len(l) = n - 1
      /\ \A i \in 1..(n - 1) : l[i] = s[i]
  <2>1. \A i \in 1..(n - 1) : s[i] \in T
    BY <1>2
  <2>2. /\ l \in Seq(T)
        /\ Len(l) = IF 1 <= n - 1 THEN n - 1 - 1 + 1 ELSE 0
        /\ \A i \in 1..(n - 1 - 1 + 1) : l[i] = s[1 + i - 1]
    BY <1>2, <2>1, SubSeqProperties
  <2> QED BY <1>2, <2>2
<1>4. /\ u \in Seq(T) /\ Len(u) = Len(s) - n
      /\ \A i \in 1..(Len(s) - n) : u[i] = s[n + i]
  <2>1. \A i \in (n + 1)..Len(s) : s[i] \in T
    BY <1>2
  <2>2. /\ u \in Seq(T)
        /\ Len(u) = IF n + 1 <= Len(s) THEN Len(s) - (n + 1) + 1 ELSE 0
        /\ \A i \in 1..(Len(s) - (n + 1) + 1) : u[i] = s[n + 1 + i - 1]
    BY <1>2, <2>1, SubSeqProperties
  <2> QED BY <1>2, <2>2
<1> HIDE DEF l, u
<1> DEFINE c == l \o u
<1>5. /\ c \in Seq(T)
      /\ Len(c) = Len(l) + Len(u)
      /\ \A i \in 1..Len(l) + Len(u) :
            c[i] = IF i <= Len(l) THEN l[i] ELSE u[i - Len(l)]
  BY <1>3, <1>4, ConcatProperties
<1>6. RemoveAt(s, n) = c
  BY DEF RemoveAt, l, u
<1> HIDE DEF c
<1>7. IsSeq(c) /\ Len(c) = Len(s) - 1 /\ DOMAIN c = 1..(Len(s) - 1)
  BY <1>2, <1>3, <1>4, <1>5, OwnElements
<1>8. ASSUME NEW i \in 1..(Len(s) - 1)
      PROVE  c[i] = s[IF i < n THEN i ELSE i + 1]
  <2>1. CASE i < n
    BY <1>2, <1>3, <1>4, <1>5, <2>1
  <2>2. CASE ~(i < n)
    <3>1. i - (n - 1) \in 1..(Len(s) - n) /\ n + (i - (n - 1)) = i + 1
      BY <1>2, <2>2
    <3>2. c[i] = u[i - (n - 1)]
      BY <1>2, <1>3, <1>4, <1>5, <2>2
    <3> QED BY <1>4, <2>2, <3>1, <3>2
  <2> QED BY <2>1, <2>2
<1> QED BY <1>2, <1>6, <1>7, <1>8

(* Taking the last element off. *)
LEMMA WithoutLast ==
    ASSUME NEW s, IsSeq(s), s # <<>>
    PROVE  /\ IsSeq(Front(s))
           /\ \A n \in DOMAIN Front(s) : n \in DOMAIN s /\ Front(s)[n] = s[n]
<1> DEFINE T == {s[m] : m \in DOMAIN s}
           l == SubSeq(s, 1, Len(s) - 1)
<1>1. s \in Seq(T)
  BY DEF IsSeq
<1>2. /\ Len(s) \in Nat /\ Len(s) # 0 /\ DOMAIN s = 1..Len(s)
      /\ \A i \in 1..Len(s) : s[i] \in T
  BY <1>1
<1> HIDE DEF T
<1>3. /\ l \in Seq(T) /\ Len(l) = Len(s) - 1
      /\ \A i \in 1..(Len(s) - 1) : l[i] = s[i]
  <2>1. \A i \in 1..(Len(s) - 1) : s[i] \in T
    BY <1>2
  <2>2. /\ l \in Seq(T)
        /\ Len(l) = IF 1 <= Len(s) - 1 THEN Len(s) - 1 - 1 + 1 ELSE 0
        /\ \A i \in 1..(Len(s) - 1 - 1 + 1) : l[i] = s[1 + i - 1]
    BY <1>2, <2>1, SubSeqProperties
  <2> QED BY <1>2, <2>2
<1> HIDE DEF l
<1>4. Front(s) = l
  BY DEF Front, l
<1>5. IsSeq(l) /\ DOMAIN l = 1..(Len(s) - 1)
  BY <1>2, <1>3, OwnElements
<1> QED BY <1>2, <1>3, <1>4, <1>5

-----------------------------------------------------------------------------

(* The initial states satisfy the inductive invariant. *)
LEMMA InitIInv == Init => IInv
<1> SUFFICES ASSUME Init PROVE IInv
  OBVIOUS
<1>1. <<>> \in Seq({}) /\ DOMAIN <<>> = {} /\ Len(<<>>) = 0
  OBVIOUS
<1>2. IsSeq(<<>>)
  BY <1>1, OwnElements
<1> QED
  BY <1>1, <1>2 DEF Init, IInv, Shapes, OneStep, Held, InTurn, Running,
                    HandshakeMatched, EditForksHistory

(* Recording an edit keeps the redo stack, or empties it in a new fork. *)
LEMMA RecordForks ==
    ASSUME NEW entry, NEW noop, RecordEntry(entry, noop)
    PROVE  \/ redo' = redo /\ forks' = forks
           \/ redo' = <<>>
BY DEF RecordEntry

(* The redo stack and its entries' age survive both. *)
LEMMA RedoKept ==
    ASSUME IInv, habit' = habit,
           \/ redo' = redo /\ forks' = forks
           \/ redo' = <<>>
    PROVE  IsSeq(redo') /\ EditForksHistory'
<1>1. CASE redo' = redo /\ forks' = forks
  BY <1>1 DEF IInv, Shapes, IsSeq, EditForksHistory
<1>2. CASE redo' = <<>>
  <2>1. <<>> \in Seq({}) /\ DOMAIN <<>> = {}
    OBVIOUS
  <2> QED BY <1>2, <2>1, OwnElements DEF EditForksHistory
<1> QED BY <1>1, <1>2

(* Steps that leave what is in flight and the handshake as they are. *)
LEMMA Unmoved ==
    ASSUME IInv, UNCHANGED <<habit, flight, pending>>,
           IsSeq(redo'), EditForksHistory',
           chain' \in Seq({"undo", "redo"}),
           Running => chain' # <<>>,
           \/ forks' = forks /\ (flight # <<>> /\ chain = <<>> => chain' = <<>>)
           \/ habit.serial => flight = <<>>
    PROVE  IInv'
<1>1. flight = <<>> => DOMAIN flight = {}
  OBVIOUS
<1>2. Shapes' /\ OneStep' /\ Held' /\ HandshakeMatched'
  BY DEF IInv, Shapes, IsSeq, OneStep, Held, Running, HandshakeMatched
<1>3. InTurn'
  BY <1>1 DEF IInv, InTurn
<1> QED BY <1>2, <1>3 DEF IInv

(* What a step of the chain hands out is in flight, alone, under the
   handshake it opened; its press still heads the chain.                   *)
LEMMA StepBeginIInv == IInv /\ StepBegin => IInv'
<1> SUFFICES ASSUME IInv, StepBegin PROVE IInv'
  OBVIOUS
<1> DEFINE dir == Head(chain)
           from == IF dir = "undo" THEN Committed ELSE redo
           a == Authored(HandsOut(dir, Last(from)), dir)
           k == Len(flight) + 1
<1>1. /\ chain # <<>> /\ ~Running
      /\ flight' = Append(flight, a)
      /\ redo' = IF dir = "undo" THEN redo ELSE Front(from)
      /\ pending' = <<[dir |-> dir, forward |-> Last(from).forward]>>
      /\ from # <<>>
      /\ UNCHANGED <<habit, chain, forks>>
  BY DEF StepBegin, StepDue
<1>2. /\ a.by = dir /\ a.at = forks
      /\ dir \in {"undo", "redo"}
  <2>1. dir \in {"undo", "redo"}
    BY <1>1 DEF IInv, Shapes
  <2> QED BY <2>1 DEF Authored
<1> HIDE DEF a
<1>3. /\ IsSeq(flight') /\ Len(flight) \in Nat /\ DOMAIN flight = 1..Len(flight)
      /\ DOMAIN flight' = 1..k /\ Len(flight') = k
      /\ \A n \in 1..Len(flight) : flight'[n] = flight[n]
      /\ flight'[k] = a
  BY <1>1, Appended DEF IInv, Shapes
<1>4. \A n \in DOMAIN flight' : IF n = k THEN flight'[n] = a
                               ELSE n \in DOMAIN flight /\ flight'[n] = flight[n]
                                    /\ flight[n].by = "edit"
  BY <1>1, <1>3 DEF Running
<1>5. /\ IsSeq(redo')
      /\ \A n \in DOMAIN redo' : n \in DOMAIN redo /\ redo'[n] = redo[n]
  <2>1. CASE dir = "undo"
    BY <1>1, <2>1 DEF IInv, Shapes
  <2>2. CASE dir # "undo"
    <3>1. redo # <<>> /\ redo' = Front(redo)
      BY <1>1, <2>2
    <3> QED BY <3>1, WithoutLast DEF IInv, Shapes
  <2> QED BY <2>1, <2>2
<1>6. Shapes' /\ EditForksHistory'
  BY <1>1, <1>3, <1>5 DEF IInv, Shapes, EditForksHistory
<1>7. OneStep' /\ Held'
  BY <1>1, <1>4 DEF OneStep, Held
<1>8. HandshakeMatched'
  <2>1. pending' # <<>> /\ pending'[1].dir = dir
    BY <1>1
  <2>2. Running'
    BY <1>2, <1>3 DEF Running
  <2> QED BY <1>2, <1>4, <2>1, <2>2 DEF HandshakeMatched
<1>9. InTurn'
  <2> SUFFICES ASSUME habit.serial
               PROVE  /\ Len(flight') <= 1
                      /\ \A n \in DOMAIN flight' :
                            IF flight'[n].by = "edit" THEN chain' = <<>>
                            ELSE flight'[n].at = forks'
    BY <1>1 DEF InTurn
  <2>1. Len(flight) = 0
    <3>1. \A n \in DOMAIN flight : FALSE
      BY <1>1 DEF IInv, InTurn, Running
    <3> QED BY <1>3, <3>1
  <2> QED BY <1>1, <1>2, <1>3, <2>1
<1> QED BY <1>6, <1>7, <1>8, <1>9 DEF IInv

(* An edit is in flight beside whatever was. *)
LEMMA EditIInv ==
    ASSUME IInv, NEW op, Edit(op)
    PROVE  IInv'
<1> DEFINE a == Authored(op, "edit")
           k == Len(flight) + 1
<1>1. /\ flight' = Append(flight, a)
      /\ Input
      /\ UNCHANGED <<habit, redo, pending, chain, forks>>
  BY DEF Edit, stack
<1>2. a.by = "edit"
  BY DEF Authored
<1> HIDE DEF a
<1>3. /\ IsSeq(flight') /\ Len(flight) \in Nat /\ DOMAIN flight = 1..Len(flight)
      /\ DOMAIN flight' = 1..k /\ Len(flight') = k
      /\ \A n \in 1..Len(flight) : flight'[n] = flight[n]
      /\ flight'[k] = a
  BY <1>1, Appended DEF IInv, Shapes
<1>4. \A n \in DOMAIN flight' :
         /\ n \in Nat
         /\ n # k => n \in DOMAIN flight /\ flight'[n] = flight[n]
         /\ flight'[n].by # "edit" =>
               n \in DOMAIN flight /\ flight'[n] = flight[n]
  BY <1>2, <1>3
<1>5. \A n \in DOMAIN flight : n \in DOMAIN flight' /\ flight'[n] = flight[n]
  BY <1>3
<1>6. Running' <=> Running
  BY <1>4, <1>5 DEF Running
<1>7. Shapes' /\ EditForksHistory' /\ Held'
  BY <1>1, <1>3, <1>6 DEF IInv, Shapes, EditForksHistory, Held, IsSeq
<1>8. OneStep' /\ HandshakeMatched'
  BY <1>1, <1>4, <1>6 DEF IInv, OneStep, HandshakeMatched
<1>9. InTurn'
  <2>1. habit.serial => flight = <<>> /\ chain = <<>>
    <3>1. habit.serial => flight = <<>>
      BY <1>1 DEF Input
    <3>2. flight = <<>> => ~Running
      BY DEF Running
    <3> QED BY <1>1, <3>1, <3>2 DEF Input, MicrotasksDone
  <2> QED BY <1>1, <1>2, <1>3, <2>1 DEF InTurn
<1> QED BY <1>7, <1>8, <1>9 DEF IInv

-----------------------------------------------------------------------------

(* When the n-th op settles, the others stay in flight, each once. *)
LEMMA OthersStay ==
    ASSUME IInv, NEW n, Settles(n)
    PROVE  LET at(i) == IF i < n THEN i ELSE i + 1 IN
           /\ n \in DOMAIN flight
           /\ IsSeq(flight') /\ Len(flight) \in Nat
           /\ Len(flight') = Len(flight) - 1
           /\ DOMAIN flight' = 1..Len(flight')
           /\ \A i \in DOMAIN flight' :
                 at(i) \in DOMAIN flight \ {n} /\ flight'[i] = flight[at(i)]
           /\ \A i, j \in DOMAIN flight' : at(i) = at(j) => i = j
           /\ \A j \in DOMAIN flight \ {n} :
                 \E i \in DOMAIN flight' : flight'[i] = flight[j]
<1> DEFINE at(i) == IF i < n THEN i ELSE i + 1
<1>1. n \in DOMAIN flight /\ flight' = RemoveAt(flight, n)
  BY DEF Settles
<1>2. /\ IsSeq(flight')
      /\ Len(flight') = Len(flight) - 1 /\ Len(flight) \in Nat
      /\ DOMAIN flight' = 1..Len(flight') /\ DOMAIN flight = 1..Len(flight)
      /\ n \in Nat
      /\ \A i \in DOMAIN flight' : flight'[i] = flight[at(i)]
  BY <1>1, Removed DEF IInv, Shapes
<1>3. \A i \in DOMAIN flight' : at(i) \in DOMAIN flight \ {n}
  BY <1>1, <1>2
<1>4. \A i, j \in DOMAIN flight' : at(i) = at(j) => i = j
  BY <1>1, <1>2
<1>5. ASSUME NEW j \in DOMAIN flight \ {n}
      PROVE  \E i \in DOMAIN flight' : flight'[i] = flight[j]
  <2> DEFINE i == IF j < n THEN j ELSE j - 1
  <2>1. i \in DOMAIN flight' /\ at(i) = j
    BY <1>1, <1>2
  <2> HIDE DEF i, at
  <2> QED BY <1>2, <2>1
<1> HIDE DEF at
<1>6. \A i \in DOMAIN flight' :
         at(i) \in DOMAIN flight \ {n} /\ flight'[i] = flight[at(i)]
  BY <1>2, <1>3
<1> QED BY <1>1, <1>2, <1>4, <1>5, <1>6 DEF at

(* An edit that settles leaves the step in flight, if there is one, alone. *)
LEMMA EditSettles ==
    ASSUME IInv, NEW n, Settles(n), flight[n].by = "edit",
           UNCHANGED <<habit, pending, chain>>,
           (redo' = redo /\ forks' = forks) \/ redo' = <<>>
    PROVE  IInv'
<1>1. IsSeq(redo') /\ EditForksHistory'
  BY RedoKept
<1>2. Running' <=> Running
  BY OthersStay DEF Running
<1>3. Shapes' /\ Held'
  BY <1>1, <1>2, OthersStay DEF IInv, Shapes, Held
<1>4. OneStep'
  BY OthersStay DEF IInv, OneStep
<1>5. HandshakeMatched'
  BY <1>2, OthersStay DEF IInv, HandshakeMatched
<1>6. InTurn'
  <2>1. habit.serial => Len(flight') <= 0
    BY OthersStay DEF IInv, InTurn
  <2>2. habit.serial => DOMAIN flight' = {}
    BY <2>1, OthersStay
  <2> QED BY <2>1, <2>2, OthersStay DEF InTurn
<1> QED BY <1>1, <1>3, <1>4, <1>5, <1>6 DEF IInv

(* A step that settles leaves only edits in flight and no handshake. *)
LEMMA StepSettles ==
    ASSUME IInv, NEW n, Settles(n), flight[n].by # "edit",
           pending' = <<>>, chain' = Tail(chain), UNCHANGED <<habit, forks>>,
           IsSeq(redo'), EditForksHistory'
    PROVE  IInv'
<1>1. chain \in Seq({"undo", "redo"}) /\ chain # <<>>
  BY OthersStay DEF IInv, Shapes, Held, Running
<1>2. \A i \in DOMAIN flight' : flight'[i].by = "edit"
  BY OthersStay DEF IInv, OneStep
<1>3. ~Running'
  BY <1>2 DEF Running
<1>4. Shapes' /\ Held'
  BY <1>1, <1>3, OthersStay DEF IInv, Shapes, Held
<1>5. OneStep' /\ HandshakeMatched'
  BY <1>2, <1>3 DEF OneStep, HandshakeMatched
<1>6. InTurn'
  <2>1. habit.serial => Len(flight') <= 0
    BY OthersStay DEF IInv, InTurn
  <2>2. habit.serial => DOMAIN flight' = {}
    BY <2>1, OthersStay
  <2> QED BY <2>1, <2>2, OthersStay DEF InTurn
<1> QED BY <1>4, <1>5, <1>6 DEF IInv

(* The note of an undo goes to the redo stack, as old as the last edit. *)
LEMMA SettleStepIInv ==
    ASSUME IInv, NEW n, SettleStep(n)
    PROVE  IInv'
<1> DEFINE a == flight[n]
           moved == Entry(pending[1].forward, a.inverse, a.was, a.at)
<1>1. /\ Settles(n) /\ a.by # "edit" /\ n \in DOMAIN flight
      /\ chain' = Tail(chain) /\ UNCHANGED <<habit, forks>>
      /\ NoteApplied(a)
  BY DEF SettleStep, Settles
<1>2. pending # <<>> /\ pending[1].dir = a.by
  BY <1>1 DEF IInv, HandshakeMatched, Running
<1>3. pending' = <<>> /\ (redo' = Append(redo, moved) \/ redo' = redo)
  BY <1>1, <1>2 DEF NoteApplied
<1>4. habit.serial => moved.at = forks
  BY <1>1 DEF IInv, InTurn, Entry
<1> HIDE DEF moved
<1>5. IsSeq(redo') /\ EditForksHistory'
  <2>1. CASE redo' = redo
    BY <1>1, <2>1 DEF IInv, Shapes, IsSeq, EditForksHistory
  <2>2. CASE redo' = Append(redo, moved)
    <3>1. /\ IsSeq(redo') /\ Len(redo) \in Nat /\ DOMAIN redo = 1..Len(redo)
          /\ DOMAIN redo' = 1..(Len(redo) + 1)
          /\ \A m \in 1..Len(redo) : redo'[m] = redo[m]
          /\ redo'[Len(redo) + 1] = moved
      BY <2>2, Appended DEF IInv, Shapes
    <3>2. \A m \in DOMAIN redo' : m \in 1..Len(redo) \/ m = Len(redo) + 1
      BY <3>1
    <3> QED BY <1>1, <1>4, <3>1, <3>2 DEF IInv, EditForksHistory
  <2> QED BY <1>3, <2>1, <2>2
<1> QED BY <1>1, <1>3, <1>5, StepSettles

(* Whatever becomes of an op in flight, the invariant is kept. *)
LEMMA SettleIInv ==
    ASSUME IInv, NEW n, Settle(n)
    PROVE  IInv'
<1>1. CASE SettleEdit(n)
  <2>1. /\ Settles(n) /\ flight[n].by = "edit"
        /\ UNCHANGED <<habit, pending, chain>>
    BY <1>1 DEF SettleEdit
  <2>2. (redo' = redo /\ forks' = forks) \/ redo' = <<>>
    BY <1>1, RecordForks DEF SettleEdit
  <2> QED BY <2>1, <2>2, EditSettles
<1>2. CASE SettleStep(n)
  BY <1>2, SettleStepIInv
<1>3. CASE StepRefused(n) \/ (AppendFailed(n) /\ flight[n].by # "edit")
  <2>1. /\ Settles(n) /\ flight[n].by # "edit"
        /\ pending' = <<>> /\ chain' = Tail(chain)
        /\ UNCHANGED <<habit, redo, forks>>
    BY <1>3 DEF StepRefused, AppendFailed
  <2>2. IsSeq(redo') /\ EditForksHistory'
    BY <2>1 DEF IInv, Shapes, IsSeq, EditForksHistory
  <2> QED BY <2>1, <2>2, StepSettles
<1>4. CASE AppendFailed(n) /\ flight[n].by = "edit"
  <2>1. /\ Settles(n) /\ UNCHANGED <<habit, pending, chain, redo, forks>>
    BY <1>4 DEF AppendFailed
  <2> QED BY <1>4, <2>1, EditSettles
<1> QED BY <1>1, <1>2, <1>3, <1>4 DEF Settle

-----------------------------------------------------------------------------

(* A press on a key joins the chain; a user who waits has nothing in flight. *)
LEMMA PressIInv ==
    ASSUME IInv, NEW dir \in {"undo", "redo"}, Press(dir)
    PROVE  IInv'
<1>1. /\ chain' = Append(chain, dir)
      /\ UNCHANGED <<habit, flight, redo, pending, forks>>
      /\ habit.serial => flight = <<>>
  BY DEF Press, stack, Input
<1>2. chain' \in Seq({"undo", "redo"}) /\ chain' # <<>>
  BY <1>1 DEF IInv, Shapes
<1> QED BY <1>1, <1>2, RedoKept, Unmoved

(* An edit before the client is connected is recorded at once. *)
LEMMA EditOfflineIInv ==
    ASSUME IInv, NEW op, EditOffline(op)
    PROVE  IInv'
<1>1. /\ UNCHANGED <<habit, flight, pending, chain>>
      /\ habit.serial => flight = <<>>
  BY DEF EditOffline, Input
<1>2. (redo' = redo /\ forks' = forks) \/ redo' = <<>>
  BY RecordForks DEF EditOffline
<1>3. IsSeq(redo') /\ EditForksHistory'
  BY <1>1, <1>2, RedoKept
<1>4. chain' \in Seq({"undo", "redo"}) /\ (Running => chain' # <<>>)
  BY <1>1 DEF IInv, Shapes, Held
<1> QED BY <1>1, <1>3, <1>4, Unmoved

(* A step that hands nothing out, or throws, only takes its press away. *)
LEMMA StepEndsIInv ==
    ASSUME IInv, StepUnconnected \/ StepNothing \/ StepThrows
    PROVE  IInv'
<1>1. /\ chain # <<>> /\ ~Running /\ chain' = Tail(chain)
      /\ UNCHANGED <<habit, flight, forks>>
      /\ pending' = pending \/ pending' = <<>>
  BY DEF StepUnconnected, StepNothing, StepThrows, StepDue, stack
<1>2. pending' = pending
  BY <1>1 DEF IInv, HandshakeMatched
<1>3. \/ redo' = redo
      \/ redo # <<>> /\ redo' = Front(redo)
  BY DEF StepUnconnected, StepNothing, StepThrows, stack
<1>4. IsSeq(redo') /\ EditForksHistory'
  <2>1. CASE redo' = redo
    BY <1>1, <2>1, RedoKept
  <2>2. CASE redo # <<>> /\ redo' = Front(redo)
    BY <1>1, <2>2, WithoutLast DEF IInv, Shapes, EditForksHistory
  <2> QED BY <1>3, <2>1, <2>2
<1>5. chain' \in Seq({"undo", "redo"})
  BY <1>1 DEF IInv, Shapes
<1> QED BY <1>1, <1>2, <1>4, <1>5, Unmoved

(* Every step of the client keeps the inductive invariant. *)
LEMMA NextIInv == IInv /\ [Next]_vars => IInv'
<1> SUFFICES ASSUME IInv, [Next]_vars PROVE IInv'
  OBVIOUS
<1>1. ASSUME NEW op, Edit(op) \/ EditOffline(op)
      PROVE  IInv'
  BY <1>1, EditIInv, EditOfflineIInv
<1>2. ASSUME NEW dir \in {"undo", "redo"}, Press(dir)
      PROVE  IInv'
  BY <1>2, PressIInv
<1>3. CASE \/ BeginCoalesce \/ EndCoalesce \/ Teardown
           \/ \E op \in habit.peers : Remote(op)
           \/ UNCHANGED vars
  <2>1. UNCHANGED <<habit, flight, chain, redo, pending, forks>>
    BY <1>3 DEF BeginCoalesce, EndCoalesce, Teardown, Remote, stack, vars
  <2>2. chain' \in Seq({"undo", "redo"}) /\ (Running => chain' # <<>>)
    BY <2>1 DEF IInv, Shapes, Held
  <2> QED BY <2>1, <2>2, RedoKept, Unmoved
<1>4. CASE Step
  BY <1>4, StepBeginIInv, StepEndsIInv DEF Step
<1>5. ASSUME NEW n \in DOMAIN flight, Settle(n)
      PROVE  IInv'
  BY <1>5, SettleIInv
<1> QED BY <1>1, <1>2, <1>3, <1>4, <1>5 DEF Next

(* The inductive invariant holds in every reachable state. *)
THEOREM Inductive == Spec => []IInv
BY InitIInv, NextIInv, PTL DEF Spec

(* undo() and redo() never overwrite an open handshake, and each
   note_*_applied closes the one of its own step, whatever ops are edited,
   refused, lost on the way to the outbox, or overtaken by peers.          *)
THEOREM HandshakeSafety == Spec => []HandshakeMatched
<1>1. IInv => HandshakeMatched
  BY DEF IInv
<1> QED BY <1>1, Inductive, PTL

(* An edit discards what could be redone before it, for a user who waits:
   nothing in the redo stack was handed out before the last recorded edit. *)
THEOREM RedoIsRecent == Spec => []EditForksHistory
<1>1. IInv => EditForksHistory
  BY DEF IInv
<1> QED BY <1>1, Inductive, PTL

=============================================================================
