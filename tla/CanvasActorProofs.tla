------------------------- MODULE CanvasActorProofs --------------------------
(***************************************************************************)
(* What a canvas's journal and acks promise across any number of actors,   *)
(* crashes and recoveries, for any ops, opIds and dedup window.            *)
(*                                                                         *)
(* AckNamesEntry and JournalAppendOnly need to know that the actor never   *)
(* stamps a seq the journal has (`JournalBehind'), which a recovery must   *)
(* re-establish from the disk alone, and that the DedupTable answers with  *)
(* what the journal holds (`SeenNamesEntry').  OriginalAck also counts the *)
(* entries that push an opId out of that table (`DInv').  What an op does  *)
(* to the objects enters with ReloadKeepsObjects, which needs that it      *)
(* changes none but its target_ids, and with AckedCommentKept, which needs *)
(* that it takes no comment but from an object it deletes or whose         *)
(* comments it sets (ObjectOpsProofs).                                     *)
(***************************************************************************)
EXTENDS CanvasActor, ObjectOpsProofs

Entry == [opId : OpId \cup {NoOpId}, op : AnyOp]

(* The steps of a command follow one another. *)
Control ==
    /\ work \in Seq(Entry)
    /\ step # "next" => work # <<>> /\ phase # "down"
    /\ step = "journal" => phase = "serve"
    /\ phase # "serve" /\ step = "next" => work = <<>>
    /\ \A s \in DOMAIN journal : journal[s] \in Entry

JournalBehind == phase = "serve" => \A s \in DOMAIN journal : s <= seq

SeenNamesEntry ==
    \A id \in DOMAIN seen :
        seen[id].seq \in DOMAIN journal /\ journal[seen[id].seq].opId = id

(* The seq of the op at hand. *)
Stamp == IF phase = "serve" /\ step # "next" THEN seq + 1 ELSE seq

Versions ==
    phase # "down" => /\ meta <= scene.version /\ scene.version <= Stamp
                      /\ \A p \in ObjId \X Field : scene.won[p] <= Stamp

IInv == /\ TypeOK /\ Control /\ JournalBehind /\ SeenNamesEntry
        /\ AckNamesEntry /\ Versions

-----------------------------------------------------------------------------

USE OpIdAssumption, BoundsAssumption

(* apply_object_op_lww moves the version by at most one and marks what it
   wins with the seq it was given, whatever the op does.                   *)
LEMMA ApplyLwwBounds ==
    ASSUME NEW sc, NEW op, NEW s \in Nat,
           sc.version \in Nat, sc.won \in [ObjId \X Field -> Nat]
    PROVE  LET r == ApplyLww(sc, op, s).scene IN
           /\ r.version \in {sc.version, sc.version + 1}
           /\ r.won \in [ObjId \X Field -> Nat]
           /\ \A p \in ObjId \X Field : r.won[p] \in {sc.won[p], s}
<1> DEFINE r == ApplyLww(sc, op, s).scene
           won == [p \in DOMAIN sc.won |->
                     IF p \in Touches(op) THEN s ELSE sc.won[p]]
<1>1. \/ r = sc
      \/ r = [objs |-> Apply(sc.objs, op).objs, version |-> sc.version + 1,
              won |-> won]
  BY DEF ApplyLww
<1>2. won \in [ObjId \X Field -> Nat] /\
      \A p \in ObjId \X Field : won[p] \in {sc.won[p], s}
  OBVIOUS
<1> HIDE DEF won
<1> QED BY <1>1, <1>2

(* A list of entries holds entries, and so does what is left of it. *)
LEMMA EntrySeq ==
    /\ \A e \in Entry : /\ e.opId \in OpId \cup {NoOpId}
                       /\ <<e>> \in Seq(Entry) /\ <<e>> # <<>>
    /\ \A w \in Seq(Entry) : \A n \in DOMAIN w : w[n] \in Entry
    /\ \A w \in Seq(Entry) : w # <<>> =>
         Head(w) \in Entry /\ Tail(w) \in Seq(Entry)
<1>1. \A e \in Entry : e.opId \in OpId \cup {NoOpId}
  BY DEF Entry
<1> QED BY <1>1

(* A DedupTable rebuilt from the journal answers with entries of it. *)
LEMMA RebuiltNamesEntry ==
    ASSUME TypeOK
    PROVE  /\ DOMAIN Rebuilt \subseteq OpId
           /\ \A id \in DOMAIN Rebuilt :
                /\ Rebuilt[id] \in Ack
                /\ Rebuilt[id].seq \in DOMAIN journal
                /\ journal[Rebuilt[id].seq].opId = id
                /\ Rebuilt[id].seq \in Suffix
<1> DEFINE entries(id) == {s \in Suffix : journal[s].opId = id}
           first(id) == CHOOSE s \in entries(id) : \A t \in entries(id) : s <= t
<1>1. DOMAIN Rebuilt = {i \in OpId : entries(i) # {}}
  BY DEF Rebuilt
<1>2. ASSUME NEW id \in DOMAIN Rebuilt
      PROVE  /\ Rebuilt[id] = [seq |-> first(id), revision |-> first(id)]
             /\ first(id) \in entries(id)
  <2>1. Rebuilt[id] = [seq |-> first(id), revision |-> first(id)]
    BY <1>1 DEF Rebuilt
  <2>2. entries(id) # {} /\ entries(id) \in SUBSET Nat
    BY <1>1 DEF Suffix, TypeOK
  <2>3. \E s \in entries(id) : \A t \in entries(id) : s <= t
    BY <2>2, LeastExists
  <2> QED BY <2>1, <2>3
<1>3. \A id : entries(id) \subseteq DOMAIN journal \cap Nat
  BY DEF Suffix, TypeOK
<1>4. ASSUME NEW id \in DOMAIN Rebuilt
      PROVE  /\ Rebuilt[id] \in Ack
             /\ Rebuilt[id].seq \in DOMAIN journal
             /\ journal[Rebuilt[id].seq].opId = id
             /\ Rebuilt[id].seq \in Suffix
  <2>1. /\ first(id) \in DOMAIN journal \cap Nat
        /\ journal[first(id)].opId = id /\ first(id) \in Suffix
    BY <1>2, <1>3
  <2> HIDE DEF first
  <2> QED BY <1>2, <2>1 DEF Ack
<1> QED BY <1>1, <1>4

(* Recording an ack leaves the other acks of the table as they are. *)
LEMMA RecordKeeps ==
    ASSUME NEW table, NEW id, NEW ack
    PROVE  /\ DOMAIN Record(table, id, ack) \subseteq DOMAIN table \cup {id}
           /\ \A i \in DOMAIN Record(table, id, ack) :
                Record(table, id, ack)[i] =
                  IF i \in DOMAIN table THEN table[i] ELSE ack
<1> DEFINE t == [i \in DOMAIN table \cup {id} |->
                   IF i = id THEN ack ELSE table[i]]
           oldest == {i \in DOMAIN t : \A k \in DOMAIN t : t[i].seq <= t[k].seq}
<1>1. CASE id \in DOMAIN table
  BY <1>1 DEF Record
<1>2. CASE id \notin DOMAIN table
  <2>1. \/ Record(table, id, ack) = t
        \/ Record(table, id, ack) = [i \in DOMAIN t \ oldest |-> t[i]]
    BY <1>2 DEF Record, Restrict
  <2> HIDE DEF oldest
  <2> QED BY <1>2, <2>1
<1> QED BY <1>1, <1>2

-----------------------------------------------------------------------------

(* The initial disk, with no actor, satisfies the inductive invariant. *)
LEMMA InitIInv == Init => IInv
<1> SUFFICES ASSUME Init PROVE IInv
  OBVIOUS
<1>1. /\ Len(FirstOps) \in Nat /\ DOMAIN FirstOps = 1..Len(FirstOps)
      /\ \A n \in 1..Len(FirstOps) : FirstOps[n] \in Range(FirstOps)
  BY DEF Range
<1>2. TypeOK
  BY <1>1 DEF Init, TypeOK, Cold, Unwon, NoObjects
<1>3. Control
  BY <1>1 DEF Init, Control, Entry, AnyOp
<1>4. JournalBehind /\ SeenNamesEntry /\ AckNamesEntry /\ Versions
  BY DEF Init, JournalBehind, SeenNamesEntry, AckNamesEntry, Versions, NoObjects
<1> QED BY <1>2, <1>3, <1>4 DEF IInv

(* Loading the scene starts it at the revision on disk. *)
LEMMA SpawnIInv == IInv /\ Spawn => IInv'
<1> SUFFICES ASSUME IInv, Spawn PROVE IInv'
  OBVIOUS
<1>1. scene'.version = meta /\ scene'.won = Unwon
  BY DEF Spawn, Cold
<1>2. TypeOK'
  BY <1>1 DEF IInv, TypeOK, Spawn, Unwon
<1>3. Versions'
  BY <1>1 DEF IInv, TypeOK, Spawn, Unwon, Versions, Stamp
<1>4. Control' /\ JournalBehind' /\ SeenNamesEntry' /\ AckNamesEntry'
  BY DEF IInv, Spawn, Control, JournalBehind, SeenNamesEntry, AckNamesEntry
<1> QED BY <1>2, <1>3, <1>4 DEF IInv

(* Replaying an entry advances the seq by at least as much as the version. *)
LEMMA ReplayIInv == IInv /\ Replay => IInv'
<1> SUFFICES ASSUME IInv, Replay PROVE IInv'
  OBVIOUS
<1>1. PICK s \in DOMAIN journal :
        /\ s > seq /\ seq' = s
        /\ scene' = ApplyLww(scene, journal[s].op, s).scene
        /\ \/ work' = <<journal[s]>> /\ step' = "write"
           \/ work' = work /\ step' = step
  BY DEF Replay
<1>2. s \in Nat /\ journal[s] \in Entry
  BY DEF IInv, TypeOK, Control
<1>3. /\ scene'.version \in {scene.version, scene.version + 1}
      /\ scene'.won \in [ObjId \X Field -> Nat]
      /\ \A p \in ObjId \X Field : scene'.won[p] \in {scene.won[p], s}
  BY <1>1, <1>2, ApplyLwwBounds DEF IInv, TypeOK
<1>4. TypeOK' /\ Control'
  <2>1. work' \in Seq(Entry)
    BY <1>1, <1>2, EntrySeq DEF IInv, Control
  <2>2. Control'
    <3>1. UNCHANGED <<journal, phase>> /\ phase = "recover" /\ step = "next"
      BY DEF Replay
    <3>2. step' # "next" => work' # <<>>
      BY <1>1, <1>2, <3>1, EntrySeq
    <3> QED BY <1>1, <2>1, <3>1, <3>2 DEF IInv, Control
  <2>3. \A n \in DOMAIN work' : work'[n].opId \in OpId \cup {NoOpId}
    BY <2>1, EntrySeq
  <2> QED BY <1>1, <1>2, <1>3, <2>2, <2>3 DEF IInv, TypeOK, Replay
<1>5. JournalBehind' /\ SeenNamesEntry' /\ AckNamesEntry'
  BY DEF IInv, Replay, JournalBehind, SeenNamesEntry, AckNamesEntry
<1>6. Versions'
  <2>1. UNCHANGED <<meta, phase>> /\ phase = "recover"
    BY DEF Replay
  <2>2. /\ meta <= scene.version /\ scene.version <= seq
        /\ \A p \in ObjId \X Field : scene.won[p] <= seq
    BY <2>1 DEF IInv, Versions, Stamp
  <2>3. /\ meta \in Nat /\ seq \in Nat /\ scene.version \in Nat
        /\ \A p \in ObjId \X Field : scene.won[p] \in Nat
    BY DEF IInv, TypeOK
  <2>4. meta <= scene'.version /\ scene'.version <= s
    BY <1>1, <1>2, <1>3, <2>2, <2>3
  <2>5. \A p \in ObjId \X Field : scene'.won[p] <= s
    <3> TAKE p \in ObjId \X Field
    <3>1. scene.won[p] \in Nat /\ scene.won[p] <= seq
      BY <2>2, <2>3
    <3>2. scene'.won[p] = scene.won[p] \/ scene'.won[p] = s
      BY <1>3
    <3> QED BY <1>1, <1>2, <2>3, <3>1, <3>2
  <2>6. Stamp' = s
    BY <1>1, <2>1 DEF Stamp
  <2> QED BY <2>1, <2>4, <2>5, <2>6 DEF Versions
<1> QED BY <1>4, <1>5, <1>6 DEF IInv

(* The seq a recovery ends with is the greatest one the disk knows. *)
LEMMA RecoveredIInv == IInv /\ Recovered => IInv'
<1> SUFFICES ASSUME IInv, Recovered PROVE IInv'
  OBVIOUS
<1>1. seq' = seq
  <2>1. \A t \in DOMAIN journal \cup {seq} : t \in Nat /\ t <= seq
    BY DEF IInv, TypeOK, Recovered
  <2>2. \A s \in DOMAIN journal \cup {seq} :
          (\A t \in DOMAIN journal \cup {seq} : t <= s) => s = seq
    <3> TAKE s \in DOMAIN journal \cup {seq}
    <3>1. s \in Nat /\ seq \in Nat /\ s <= seq
      BY <2>1
    <3> HAVE \A t \in DOMAIN journal \cup {seq} : t <= s
    <3>2. seq <= s
      OBVIOUS
    <3> QED BY <3>1, <3>2
  <2>3. RecoveredSeq = seq
    BY <2>1, <2>2 DEF RecoveredSeq
  <2> QED BY <2>3 DEF Recovered
<1>2. TypeOK' /\ SeenNamesEntry'
  <2>1. seen' = Rebuilt /\ journal' = journal /\ TypeOK
    BY DEF IInv, Recovered
  <2>2. /\ DOMAIN seen' \subseteq OpId
        /\ \A id \in DOMAIN seen' :
             /\ seen'[id] \in Ack
             /\ seen'[id].seq \in DOMAIN journal'
             /\ journal'[seen'[id].seq].opId = id
    BY <2>1, RebuiltNamesEntry
  <2> QED BY <1>1, <2>2 DEF IInv, TypeOK, Recovered, SeenNamesEntry
<1>3. Control' /\ JournalBehind' /\ AckNamesEntry' /\ Versions'
  BY <1>1 DEF IInv, Recovered, Control, JournalBehind, AckNamesEntry, Versions,
              Stamp
<1> QED BY <1>2, <1>3 DEF IInv

(* Taking a command changes what there is to do, and an ack repeated from the
   DedupTable names what the table's entry names.                          *)
LEMMA CommandIInv ==
    ASSUME IInv, \/ \E id \in OpId : SubmitSeen(id) \/ SubmitNew(id)
                 \/ \E ops \in Features : Feature(ops)
    PROVE  IInv'
<1>1. ASSUME NEW id \in OpId, SubmitSeen(id) PROVE IInv'
  <2>1. /\ seen[id] \in Ack /\ seen[id].seq \in DOMAIN journal
        /\ journal[seen[id].seq].opId = id
    BY <1>1 DEF IInv, TypeOK, SeenNamesEntry, SubmitSeen
  <2>2. TypeOK'
    BY <1>1, <2>1 DEF IInv, TypeOK, SubmitSeen, Ack
  <2>3. AckNamesEntry'
    BY <1>1, <2>1 DEF IInv, AckNamesEntry, SubmitSeen
  <2>4. Control' /\ JournalBehind' /\ SeenNamesEntry' /\ Versions'
    BY <1>1 DEF IInv, Control, JournalBehind, SeenNamesEntry, Versions, Stamp,
                SubmitSeen
  <2> QED BY <2>2, <2>3, <2>4 DEF IInv
<1>2. ASSUME work' \in Seq(Entry), Idle,
             UNCHANGED <<recs, meta, journal, phase, step, scene, seq, seen,
                         todo, acks, crashes>>
      PROVE  IInv'
  <2>1. \A n \in DOMAIN work' : work'[n].opId \in OpId \cup {NoOpId}
    BY <1>2, EntrySeq
  <2>2. TypeOK' /\ Control'
    BY <1>2, <2>1 DEF IInv, TypeOK, Control, Idle
  <2>3. JournalBehind' /\ SeenNamesEntry' /\ AckNamesEntry' /\ Versions'
    BY <1>2 DEF IInv, JournalBehind, SeenNamesEntry, AckNamesEntry, Versions,
                Stamp
  <2> QED BY <2>2, <2>3 DEF IInv
<1>3. ASSUME NEW id \in OpId, SubmitNew(id) PROVE IInv'
  <2>1. work' \in Seq(Entry)
    BY <1>3 DEF SubmitNew, Entry, AnyOp
  <2> QED BY <1>2, <1>3, <2>1 DEF SubmitNew
<1>4. ASSUME NEW ops \in Features, Feature(ops) PROVE IInv'
  <2>1. ops \in Seq(Range(ops)) /\ \A n \in DOMAIN ops : ops[n] \in AnyOp
    BY DEF AnyOp, Range
  <2>2. \A n \in DOMAIN ops : [opId |-> NoOpId, op |-> ops[n]] \in Entry
    BY <2>1 DEF Entry
  <2>3. /\ DOMAIN ops = 1..Len(ops) /\ Len(ops) \in Nat
        /\ work' = [n \in DOMAIN ops |-> [opId |-> NoOpId, op |-> ops[n]]]
    BY <1>4, <2>1 DEF Feature
  <2>4. work' \in Seq(Entry)
    BY <2>2, <2>3
  <2> QED BY <1>2, <1>4, <2>4 DEF Feature
<1> QED BY <1>1, <1>3, <1>4

(* Having the store apply an op whose turn it is. *)
LEMMA ApplyIInv ==
    ASSUME IInv, Serving, ApplyRejected \/ ApplyNothing \/ ApplyOp
    PROVE  IInv'
<1>1. Head(work) \in Entry /\ Tail(work) \in Seq(Entry) /\ work \in Seq(Entry)
  BY EntrySeq DEF IInv, Control, Serving
<1>2. UNCHANGED <<recs, meta, journal, phase, seq, seen, acks, crashes>>
  BY DEF ApplyRejected, ApplyNothing, ApplyOp
<1>3. JournalBehind' /\ SeenNamesEntry' /\ AckNamesEntry'
  BY <1>2 DEF IInv, JournalBehind, SeenNamesEntry, AckNamesEntry
<1>4. CASE ApplyRejected
  <2>1. work' = Tail(work) /\ UNCHANGED <<step, scene>>
    BY <1>4 DEF ApplyRejected
  <2>2. \A n \in DOMAIN work' : work'[n].opId \in OpId \cup {NoOpId}
    BY <1>1, <2>1, EntrySeq
  <2>3. TypeOK' /\ Control'
    BY <1>1, <1>2, <2>1, <2>2 DEF IInv, TypeOK, Control, Serving
  <2>4. Versions'
    BY <1>2, <2>1 DEF IInv, Versions, Stamp
  <2> QED BY <1>3, <2>3, <2>4 DEF IInv
<1>5. CASE ApplyNothing \/ ApplyOp
  <2>1. /\ scene' = ApplyLww(scene, Head(work).op, seq + 1).scene
        /\ step' \in {"write", "journal"} /\ UNCHANGED work
    BY <1>5 DEF ApplyNothing, ApplyOp, HeadApplied
  <2>2. /\ scene'.version \in {scene.version, scene.version + 1}
        /\ scene'.won \in [ObjId \X Field -> Nat]
        /\ \A p \in ObjId \X Field : scene'.won[p] \in {scene.won[p], seq + 1}
    <3>1. /\ seq + 1 \in Nat /\ scene.version \in Nat
          /\ scene.won \in [ObjId \X Field -> Nat]
      BY DEF IInv, TypeOK
    <3> QED BY <2>1, <3>1, ApplyLwwBounds
  <2>3. TypeOK' /\ Control'
    BY <1>2, <2>1, <2>2 DEF IInv, TypeOK, Control, Serving
  <2>4. Stamp' = seq + 1
    BY <1>2, <2>1 DEF Stamp, Serving
  <2>5. /\ meta \in Nat /\ seq \in Nat /\ scene.version \in Nat
        /\ meta <= scene.version /\ scene.version <= seq
    BY DEF IInv, TypeOK, Versions, Stamp, Serving
  <2>6. \A p \in ObjId \X Field : scene'.won[p] <= seq + 1
    <3> TAKE p \in ObjId \X Field
    <3>1. scene.won[p] \in Nat /\ scene.won[p] <= seq
      BY DEF IInv, TypeOK, Versions, Stamp, Serving
    <3>2. scene'.won[p] = scene.won[p] \/ scene'.won[p] = seq + 1
      BY <2>2
    <3> QED BY <2>5, <3>1, <3>2
  <2>7. meta <= scene'.version /\ scene'.version <= seq + 1
    BY <2>2, <2>5
  <2>8. Versions'
    BY <1>2, <2>4, <2>6, <2>7 DEF Versions
  <2> QED BY <1>3, <2>3, <2>8 DEF IInv
<1> QED BY <1>4, <1>5

(* Writing the records one by one, and the meta after them. *)
LEMMA WriteIInv ==
    ASSUME IInv, WriteObject \/ WriteMeta
    PROVE  IInv'
<1>1. /\ UNCHANGED <<journal, phase, scene, seq, seen, acks, crashes>>
      /\ step = "write"
  BY DEF WriteObject, WriteMeta
<1>2. JournalBehind' /\ SeenNamesEntry' /\ AckNamesEntry'
  BY <1>1 DEF IInv, JournalBehind, SeenNamesEntry, AckNamesEntry
<1>3. CASE WriteObject
  BY <1>1, <1>2, <1>3
     DEF WriteObject, IInv, TypeOK, Control, Versions, Stamp
<1>4. CASE WriteMeta
  <2>1. /\ meta' = scene.version
        /\ \/ phase = "recover" /\ step' = "next" /\ work' = <<>>
           \/ phase # "recover" /\ step' = "journal" /\ work' = work
    BY <1>4 DEF WriteMeta
  <2>2. work' \in Seq(Entry)
    <3>1. <<>> \in Seq(Entry)
      OBVIOUS
    <3> QED BY <2>1, <3>1 DEF IInv, Control
  <2>3. Control' /\ TypeOK'
    <3>1. \A n \in DOMAIN work' : work'[n].opId \in OpId \cup {NoOpId}
      BY <2>2, EntrySeq
    <3> QED BY <1>1, <2>1, <2>2, <3>1 DEF IInv, Control, TypeOK
  <2>4. Stamp' = Stamp
    BY <1>1, <2>1 DEF Stamp
  <2>5. Versions'
    BY <1>1, <2>1, <2>4 DEF IInv, TypeOK, Control, Versions
  <2> QED BY <1>2, <2>3, <2>5 DEF IInv
<1> QED BY <1>3, <1>4

(* Journaling uses a seq the journal does not have. *)
LEMMA JournalExtends ==
    ASSUME IInv, Journal
    PROVE  /\ \A s \in DOMAIN journal :
                s \in DOMAIN journal' /\ journal'[s] = journal[s]
           /\ DOMAIN journal' = DOMAIN journal \cup {seq + 1}
           /\ journal'[seq + 1] = Head(work)
<1>1. \A s \in DOMAIN journal : s \in Nat /\ s <= seq
  BY DEF IInv, TypeOK, JournalBehind, Control, Journal
<1>2. seq \in Nat
  BY DEF IInv, TypeOK
<1>3. seq + 1 \notin DOMAIN journal
  BY <1>1, <1>2
<1>4. journal' = [p \in DOMAIN journal \cup {seq + 1} |->
                    IF p = seq + 1 THEN Head(work) ELSE journal[p]]
  BY DEF Journal, With
<1> QED BY <1>3, <1>4

(* The journal step keeps the invariant: the new seq is fresh, so old entries
   and the acks that name them stay, and the ack given names the new one.  *)
LEMMA JournalIInv == IInv /\ Journal => IInv'
<1> SUFFICES ASSUME IInv, Journal PROVE IInv'
  OBVIOUS
<1> DEFINE e == Head(work)
           ack == [seq |-> seq + 1, revision |-> scene.version]
<1>1. e \in Entry /\ Tail(work) \in Seq(Entry)
  BY EntrySeq DEF IInv, Control, Journal
<1>2. /\ phase = "serve" /\ phase' = "serve" /\ step = "journal"
      /\ step' = "next" /\ seq' = seq + 1 /\ work' = Tail(work)
      /\ UNCHANGED <<recs, meta, scene, todo, crashes>>
  BY DEF Journal, IInv, Control
<1>3. /\ seq \in Nat /\ scene.version \in Nat
      /\ e.opId \in OpId \cup {NoOpId}
  BY <1>1, EntrySeq DEF IInv, TypeOK
<1>4. \/ e.opId = NoOpId /\ UNCHANGED <<seen, acks>>
      \/ /\ e.opId # NoOpId
         /\ seen' = Record(seen, e.opId, ack)
         /\ acks' = acks \cup {[opId |-> e.opId, seq |-> seq + 1,
                                revision |-> scene.version]}
  BY DEF Journal
<1>5. DOMAIN journal' \subseteq Nat \ {0} /\
      \A s \in DOMAIN journal' : journal'[s] \in Entry
  BY <1>1, <1>3, JournalExtends DEF IInv, TypeOK, Control
<1>6. /\ DOMAIN seen' \subseteq OpId
      /\ \A id \in DOMAIN seen' :
           /\ seen'[id] \in Ack
           /\ seen'[id].seq \in DOMAIN journal'
           /\ journal'[seen'[id].seq].opId = id
  <2>1. CASE e.opId = NoOpId
    BY <1>4, <2>1, JournalExtends DEF IInv, TypeOK, SeenNamesEntry
  <2>2. CASE e.opId # NoOpId
    <3>1. /\ DOMAIN seen' \subseteq DOMAIN seen \cup {e.opId}
          /\ \A i \in DOMAIN seen' :
               seen'[i] = IF i \in DOMAIN seen THEN seen[i] ELSE ack
      BY <1>4, <2>2, RecordKeeps
    <3>2. ack \in Ack /\ ack.seq = seq + 1
      BY <1>3 DEF Ack
    <3>3. DOMAIN seen' \subseteq OpId
      BY <1>3, <2>2, <3>1 DEF IInv, TypeOK
    <3> HIDE DEF ack, e
    <3>4. ASSUME NEW i \in DOMAIN seen'
          PROVE  /\ seen'[i] \in Ack
                 /\ seen'[i].seq \in DOMAIN journal'
                 /\ journal'[seen'[i].seq].opId = i
      <4>1. CASE i \in DOMAIN seen
        BY <3>1, <4>1, JournalExtends DEF IInv, TypeOK, SeenNamesEntry
      <4>2. CASE i \notin DOMAIN seen
        <5>1. i = e.opId /\ seen'[i] = ack
          BY <3>1, <4>2
        <5>2. journal'[seq + 1] = e /\ seq + 1 \in DOMAIN journal'
          BY JournalExtends DEF e
        <5> QED BY <3>2, <5>1, <5>2
      <4> QED BY <4>1, <4>2
    <3> QED BY <3>3, <3>4
  <2> QED BY <2>1, <2>2
<1>7. /\ acks' \subseteq [opId : OpId, seq : Nat, revision : Nat]
      /\ AckNamesEntry'
  <2>1. /\ acks \subseteq [opId : OpId, seq : Nat, revision : Nat]
        /\ \A a \in acks : /\ a.seq \in DOMAIN journal'
                           /\ journal'[a.seq].opId = a.opId
    BY JournalExtends DEF IInv, TypeOK, AckNamesEntry
  <2>2. CASE e.opId = NoOpId
    BY <1>4, <2>1, <2>2 DEF AckNamesEntry
  <2>3. CASE e.opId # NoOpId
    <3> DEFINE new == [opId |-> e.opId, seq |-> seq + 1,
                       revision |-> scene.version]
    <3>1. /\ new \in [opId : OpId, seq : Nat, revision : Nat]
          /\ new.seq \in DOMAIN journal' /\ journal'[new.seq].opId = new.opId
      BY <1>3, <2>3, JournalExtends
    <3>2. acks' = acks \cup {new}
      BY <1>4, <2>3
    <3> HIDE DEF new
    <3> QED BY <2>1, <3>1, <3>2 DEF AckNamesEntry
  <2> QED BY <2>2, <2>3
<1>8. Control'
  BY <1>1, <1>2, <1>5 DEF Control
<1>9. TypeOK'
  <2>1. \A n \in DOMAIN work' : work'[n].opId \in OpId \cup {NoOpId}
    BY <1>1, <1>2, EntrySeq
  <2>2. \A s \in DOMAIN journal' : journal'[s].opId \in OpId \cup {NoOpId}
    BY <1>5, EntrySeq
  <2> QED BY <1>2, <1>3, <1>5, <1>6, <1>7, <2>1, <2>2 DEF IInv, TypeOK
<1>10. JournalBehind' /\ SeenNamesEntry'
  <2>1. \A s \in DOMAIN journal : s \in Nat /\ s <= seq
    BY <1>2 DEF IInv, TypeOK, JournalBehind
  <2> QED BY <1>2, <1>3, <1>6, <2>1, JournalExtends
          DEF JournalBehind, SeenNamesEntry
<1>11. Versions'
  BY <1>2 DEF IInv, Versions, Stamp
<1> QED BY <1>7, <1>8, <1>9, <1>10, <1>11 DEF IInv

(* An actor that ends leaves the disk and the acks given. *)
LEMMA StopIInv ==
    ASSUME IInv, Stop, crashes' \in Nat
    PROVE  IInv'
<1>1. scene'.version = 0 /\ scene'.won = Unwon
  BY DEF Stop, Cold
<1>2. TypeOK'
  BY <1>1 DEF IInv, TypeOK, Stop, Unwon, NoObjects
<1>3. Control' /\ JournalBehind' /\ SeenNamesEntry' /\ AckNamesEntry' /\ Versions'
  BY DEF IInv, Stop, Control, JournalBehind, SeenNamesEntry, AckNamesEntry,
         Versions, NoObjects
<1> QED BY <1>2, <1>3 DEF IInv

(* Every step keeps the inductive invariant. *)
LEMMA NextIInv == IInv /\ [Next]_vars => IInv'
<1> SUFFICES ASSUME IInv, [Next]_vars PROVE IInv'
  OBVIOUS
<1>1. CASE Spawn \/ Replay \/ Recovered
  BY <1>1, SpawnIInv, ReplayIInv, RecoveredIInv
<1>2. CASE \/ \E id \in OpId : SubmitSeen(id) \/ SubmitNew(id)
           \/ \E ops \in Features : Feature(ops)
  BY <1>2, CommandIInv
<1>3. CASE ApplyRejected \/ ApplyNothing \/ ApplyOp
  BY <1>3, ApplyIInv DEF ApplyRejected, ApplyNothing, ApplyOp
<1>4. CASE WriteObject \/ WriteMeta
  BY <1>4, WriteIInv
<1>5. CASE Journal
  BY <1>5, JournalIInv
<1>6. CASE Shutdown \/ Crash
  BY <1>6, StopIInv DEF Shutdown, Crash, IInv, TypeOK
<1>7. CASE UNCHANGED vars
  BY <1>7 DEF vars, IInv, TypeOK, Control, JournalBehind, SeenNamesEntry,
              AckNamesEntry, Versions, Stamp, Ack
<1> QED BY <1>1, <1>2, <1>3, <1>4, <1>5, <1>6, <1>7 DEF Next

(* The inductive invariant holds in every state. *)
THEOREM Inductive == Spec => []IInv
BY InitIInv, NextIInv, PTL DEF Spec

(* The state stays typed. *)
THEOREM TypeCorrect == Spec => []TypeOK
<1>1. IInv => TypeOK
  BY DEF IInv
<1> QED BY <1>1, Inductive, PTL

(* Every ack ever given, by any actor of the canvas, names a journal entry of
   its own op: handle_apply_envelope, handle_apply, rebuild_dedup_from_suffix. *)
THEOREM AcksStand == Spec => []AckNamesEntry
<1>1. IInv => AckNamesEntry
  BY DEF IInv
<1> QED BY <1>1, Inductive, PTL

(* Between commands the revision is within the seq, on disk and in memory, and
   the journal is behind it (recover_durable_state, handle_apply).         *)
THEOREM RevisionBounded == Spec => []RevisionWithinSeq
<1>1. IInv => RevisionWithinSeq
  BY DEF IInv, Idle, RevisionWithinSeq, Versions, JournalBehind, Stamp
<1> QED BY <1>1, Inductive, PTL

(* apply_object_op_lww never finds an op of the actor stale. *)
THEOREM ArrivalWins == Spec => []LastArrivalWins
<1>1. IInv => LastArrivalWins
  BY DEF IInv, Idle, LastArrivalWins, Versions, Stamp
<1> QED BY <1>1, Inductive, PTL

(* No step of any actor of the canvas overwrites or drops a journal entry. *)
THEOREM JournalKept == Spec => JournalAppendOnly
<1> DEFINE Kept == \A s \in DOMAIN journal :
                     s \in DOMAIN journal' /\ journal'[s] = journal[s]
<1>1. ASSUME IInv, [Next]_vars PROVE Kept \/ UNCHANGED vars
  <2>1. CASE Journal
    BY <1>1, <2>1, JournalExtends
  <2>2. CASE UNCHANGED journal
    BY <2>2
  <2>3. Journal \/ UNCHANGED journal
    BY <1>1 DEF Next, vars, Spawn, Replay, Recovered, SubmitSeen, SubmitNew,
                Feature, ApplyRejected, ApplyNothing, ApplyOp, WriteObject,
                WriteMeta, Shutdown, Crash, Stop
  <2> QED BY <2>1, <2>2, <2>3
<1>2. IInv /\ [Next]_vars => [Kept]_vars
  BY <1>1
<1> QED BY <1>2, Inductive, PTL DEF Spec, JournalAppendOnly

-----------------------------------------------------------------------------

(* The journal positions in J past s, and those between s and t. *)
Past(J, s) == {u \in J : s < u}
Amid(J, s, t) == {u \in J : s < u /\ u < t}

(* An opId is journaled again only after MaxSeen others. *)
Spaced ==
    \A s, t \in DOMAIN journal :
        s < t /\ journal[s].opId = journal[t].opId /\ journal[s].opId \in OpId
        => MaxSeen <= Cardinality(Amid(DOMAIN journal, s, t))

(* An opId that is journaled and not in the DedupTable was pushed out. *)
Remembered ==
    phase = "serve" => \A s \in DOMAIN journal :
        journal[s].opId \in OpId \ DOMAIN seen =>
            MaxSeen <= Cardinality(Past(DOMAIN journal, s))

(* The DedupTable answers with the last entry of an opId. *)
LastSeen ==
    phase = "serve" => \A s \in DOMAIN journal :
        journal[s].opId \in DOMAIN seen => s <= seen[journal[s].opId].seq

(* An op that is worked on is not one the DedupTable knows. *)
WorkUnseen ==
    phase = "serve" => \A n \in DOMAIN work :
        \/ work[n].opId = NoOpId
        \/ Len(work) = 1 /\ work[n].opId \notin DOMAIN seen

(* The inductive invariant of the dedup window. *)
DInv == /\ IInv /\ IsFiniteSet(DOMAIN journal)
        /\ Spaced /\ Remembered /\ LastSeen /\ WorkUnseen

(* A larger journal has no less past a position, and between two. *)
LEMMA MorePast ==
    ASSUME NEW K, IsFiniteSet(K), NEW J \in SUBSET K, NEW s, NEW t
    PROVE  /\ Cardinality(Past(J, s)) <= Cardinality(Past(K, s))
           /\ Cardinality(Amid(J, s, t)) <= Cardinality(Amid(K, s, t))
           /\ Cardinality(Past(J, s)) \in Nat /\ Cardinality(Past(K, s)) \in Nat
           /\ Cardinality(Amid(J, s, t)) \in Nat
           /\ Cardinality(Amid(K, s, t)) \in Nat
<1>1. ASSUME NEW S, NEW T \in SUBSET S, S \in SUBSET K
      PROVE  /\ Cardinality(T) <= Cardinality(S)
             /\ Cardinality(T) \in Nat /\ Cardinality(S) \in Nat
  BY <1>1, FS_Subset, FS_CardinalityType
<1>2. /\ Past(J, s) \in SUBSET Past(K, s) /\ Past(K, s) \in SUBSET K
      /\ Amid(J, s, t) \in SUBSET Amid(K, s, t) /\ Amid(K, s, t) \in SUBSET K
  BY DEF Past, Amid
<1> QED BY <1>1, <1>2

(* There is less past a later position. *)
LEMMA LessPast ==
    ASSUME NEW K \in SUBSET Nat, IsFiniteSet(K), NEW s \in Nat, NEW q \in Nat, s <= q
    PROVE  /\ Cardinality(Past(K, q)) <= Cardinality(Past(K, s))
           /\ Cardinality(Past(K, q)) \in Nat /\ Cardinality(Past(K, s)) \in Nat
<1> DEFINE A == Past(K, q)
           B == Past(K, s)
<1>1. A \in SUBSET B
  <2> SUFFICES ASSUME NEW x \in A PROVE x \in B
    OBVIOUS
  <2>1. x \in K /\ x \in Nat /\ q < x
    BY DEF Past
  <2>2. s < x
    BY <2>1
  <2> QED BY <2>1, <2>2 DEF Past
<1>2. B \in SUBSET K
  BY DEF Past
<1> HIDE DEF A, B
<1>3. IsFiniteSet(B)
  BY <1>2, FS_Subset
<1>4. Cardinality(A) <= Cardinality(B) /\ IsFiniteSet(A)
  BY <1>1, <1>3, FS_Subset
<1>5. Cardinality(A) \in Nat /\ Cardinality(B) \in Nat
  BY <1>3, <1>4, FS_CardinalityType
<1> QED BY <1>4, <1>5 DEF A, B

(* What is past s lies before the next position. *)
LEMMA PastIsAmid ==
    ASSUME NEW D \in SUBSET Nat, NEW m \in Nat, \A x \in D : x <= m, NEW s
    PROVE  Past(D, s) = Amid(D \cup {m + 1}, s, m + 1)
<1>1. \A x \in D : x < m + 1
  OBVIOUS
<1>2. ~(m + 1 < m + 1)
  OBVIOUS
<1> DEFINE n == m + 1
<1> HIDE DEF n
<1>3. \A x \in D : x < n
  BY <1>1 DEF n
<1>4. ~(n < n)
  BY <1>2 DEF n
<1>5. Past(D, s) = Amid(D \cup {n}, s, n)
  BY <1>3, <1>4 DEF Past, Amid
<1> QED BY <1>5 DEF n

(* The table with the new ack, before the oldest is dropped. *)
Added(table, id, ack) ==
    [i \in DOMAIN table \cup {id} |-> IF i = id THEN ack ELSE table[i]]

(* record drops an ack only if MaxSeen acks of the table are of later entries. *)
LEMMA RecordDrops ==
    ASSUME NEW table, IsFiniteSet(DOMAIN table), NEW id, id \notin DOMAIN table,
           NEW ack, NEW J \in SUBSET Nat, IsFiniteSet(J),
           \A i \in DOMAIN Added(table, id, ack) : Added(table, id, ack)[i].seq \in J,
           \A i, k \in DOMAIN Added(table, id, ack) :
              i # k => Added(table, id, ack)[i].seq # Added(table, id, ack)[k].seq,
           NEW d \in DOMAIN Added(table, id, ack),
           d \notin DOMAIN Record(table, id, ack)
    PROVE  MaxSeen <= Cardinality(Past(J, Added(table, id, ack)[d].seq))
<1> DEFINE t == Added(table, id, ack)
           oldest == {i \in DOMAIN t : \A k \in DOMAIN t : t[i].seq <= t[k].seq}
           others == DOMAIN t \ {d}
           after == Past(J, t[d].seq)
           f == [k \in others |-> t[k].seq]
<1>1. IsFiniteSet(DOMAIN t) /\ Cardinality(DOMAIN t) \in Nat
  BY FS_AddElement, FS_CardinalityType DEF Added
<1>2. ~(Cardinality(DOMAIN t) <= MaxSeen) /\ d \in oldest
  BY DEF Record, Restrict, Added
<1> HIDE DEF t
<1>3. MaxSeen <= Cardinality(others) /\ Cardinality(others) \in Nat
  <2> DEFINE D == DOMAIN t
             a == Cardinality(D)
             b == Cardinality(D \ {d})
  <2>1. b = a - 1 /\ a \in Nat /\ ~(a <= MaxSeen)
    <3>1. d \in D
      BY DEF t
    <3> HIDE DEF D
    <3> QED BY <1>1, <1>2, <3>1, FS_RemoveElement DEF D
  <2> HIDE DEF a, b
  <2>2. MaxSeen <= b /\ b \in Nat
    BY <2>1
  <2> QED BY <2>2 DEF b
<1>4. f \in Injection(others, after)
  <2>1. ASSUME NEW k \in others PROVE t[k].seq \in after
    <3>1. t[d].seq <= t[k].seq /\ t[k].seq # t[d].seq
      BY <1>2 DEF t
    <3>2. t[d].seq \in J /\ t[k].seq \in J
      BY DEF t
    <3>3. t[d].seq < t[k].seq
      <4> DEFINE a == t[d].seq
                 b == t[k].seq
      <4>1. a \in Nat /\ b \in Nat /\ a <= b /\ a # b
        BY <3>1, <3>2
      <4> HIDE DEF a, b
      <4>2. a < b
        BY <4>1
      <4> QED BY <4>2 DEF a, b
    <3> QED BY <3>2, <3>3 DEF Past
  <2>2. \A j, k \in others : f[j] = f[k] => j = k
    BY DEF t
  <2> HIDE DEF after, others
  <2> QED BY <2>1, <2>2 DEF Injection, IsInjective
<1>5. IsFiniteSet(after) /\ Cardinality(after) \in Nat
  <2>1. after \in SUBSET J
    BY DEF Past
  <2> HIDE DEF after
  <2> QED BY <2>1, FS_Subset, FS_CardinalityType
<1>6. Cardinality(others) <= Cardinality(after)
  <2> HIDE DEF others, after, f
  <2> QED BY <1>4, <1>5, FS_Injection
<1> QED BY <1>3, <1>5, <1>6 DEF t

(* Before there is an actor nothing is in its table. *)
LEMMA InitDInv == Init => DInv
<1> SUFFICES ASSUME Init PROVE DInv
  OBVIOUS
<1>1. Len(FirstOps) \in Nat /\ DOMAIN FirstOps = 1..Len(FirstOps)
  OBVIOUS
<1>2. /\ DOMAIN journal = 1..Len(FirstOps) /\ phase = "down"
      /\ \A s \in DOMAIN journal : journal[s].opId = NoOpId
  BY <1>1 DEF Init
<1>3. IsFiniteSet(DOMAIN journal)
  BY <1>1, <1>2, FS_Interval
<1> QED BY <1>2, <1>3, InitIInv DEF DInv, Spaced, Remembered, LastSeen, WorkUnseen

(* While no actor serves, only the journal counts. *)
LEMMA NotServing ==
    ASSUME DInv, IInv', UNCHANGED journal, phase' # "serve"
    PROVE  DInv'
<1>1. Spaced' /\ IsFiniteSet(DOMAIN journal')
  BY DEF DInv, Spaced
<1>2. Remembered' /\ LastSeen' /\ WorkUnseen'
  BY DEF Remembered, LastSeen, WorkUnseen
<1> QED BY <1>1, <1>2 DEF DInv

(* A step that leaves the journal and the DedupTable. *)
LEMMA TableKept ==
    ASSUME DInv, IInv', UNCHANGED <<journal, phase, seen>>, WorkUnseen'
    PROVE  DInv'
<1>1. Spaced' /\ IsFiniteSet(DOMAIN journal') /\ Remembered' /\ LastSeen'
  BY DEF DInv, Spaced, Remembered, LastSeen
<1> QED BY <1>1 DEF DInv

(* What is left of the work after its head. *)
LEMMA TailUnseen ==
    ASSUME NEW w \in Seq(Entry), w # <<>>, NEW T,
           \A n \in DOMAIN w : \/ w[n].opId = NoOpId
                               \/ Len(w) = 1 /\ w[n].opId \notin T,
           NEW m \in DOMAIN Tail(w)
    PROVE  Tail(w)[m].opId = NoOpId
<1>1. /\ Len(w) \in Nat /\ DOMAIN w = 1..Len(w) /\ DOMAIN Tail(w) = 1..Len(w) - 1
      /\ \A n \in 1..Len(w) - 1 : Tail(w)[n] = w[n + 1]
  OBVIOUS
<1>2. m \in 1..Len(w) - 1 /\ m + 1 \in 1..Len(w) /\ Len(w) # 1
  BY <1>1
<1> QED BY <1>1, <1>2

(* rebuild_dedup_from_suffix restores the table: what is not in it lies past
   the suffix, and no opId is in the suffix twice.                          *)
LEMMA RecoveredDInv ==
    ASSUME DInv, Recovered, IInv'
    PROVE  DInv'
<1> DEFINE D == DOMAIN journal
<1>1. /\ UNCHANGED <<journal, work>> /\ seen' = Rebuilt /\ phase' = "serve"
      /\ work = <<>> /\ D \in SUBSET Nat /\ IsFiniteSet(D) /\ TypeOK
  BY DEF Recovered, DInv, IInv, TypeOK
<1>2. ASSUME NEW s \in D
      PROVE  Cardinality({t \in D : s <= t}) = Cardinality(Past(D, s)) + 1
  <2> DEFINE A == Past(D, s)
  <2>1. {t \in D : s <= t} = A \cup {s}
    BY <1>1 DEF Past
  <2>2. s \notin A /\ A \in SUBSET D
    BY <1>1 DEF Past
  <2> HIDE DEF A, D
  <2>3. IsFiniteSet(A)
    BY <1>1, <2>2, FS_Subset
  <2> QED BY <2>1, <2>2, <2>3, FS_AddElement DEF A
<1>3. ASSUME NEW s \in D, s \notin Suffix
      PROVE  MaxSeen <= Cardinality(Past(D, s))
  <2> DEFINE b == Cardinality(Past(D, s))
  <2>1. ~(b + 1 <= MaxSeen)
    BY <1>2, <1>3 DEF Suffix
  <2>2. b \in Nat
    BY <1>1, MorePast
  <2> HIDE DEF b
  <2>3. MaxSeen <= b
    BY <2>1, <2>2
  <2> QED BY <2>3 DEF b
<1>4. Remembered'
  <2> SUFFICES ASSUME NEW s \in D, journal[s].opId \in OpId \ DOMAIN Rebuilt
               PROVE  MaxSeen <= Cardinality(Past(D, s))
    BY <1>1 DEF Remembered
  <2>1. s \notin Suffix
    BY DEF Rebuilt
  <2> QED BY <1>3, <2>1
<1>5. LastSeen'
  <2> SUFFICES ASSUME NEW s \in D, journal[s].opId \in DOMAIN Rebuilt,
                      ~(s <= Rebuilt[journal[s].opId].seq)
               PROVE  FALSE
    BY <1>1 DEF LastSeen
  <2> DEFINE id == journal[s].opId
             f == Rebuilt[id].seq
  <2>1. id \in OpId /\ f \in D /\ journal[f].opId = id /\ f \in Suffix
    BY <1>1, RebuiltNamesEntry
  <2>2. f < s
    <3> HIDE DEF id, f
    <3>1. f \in Nat /\ s \in Nat
      BY <1>1, <2>1
    <3>2. ~(s <= f)
      BY DEF id, f
    <3> QED BY <3>1, <3>2
  <2> HIDE DEF f
  <2>3. MaxSeen <= Cardinality(Amid(D, f, s))
    BY <2>1, <2>2 DEF DInv, Spaced
  <2>4. Cardinality({t \in D : f <= t}) <= MaxSeen
    BY <2>1 DEF Suffix
  <2>5. /\ Cardinality(Amid(D, f, s)) <= Cardinality(Past(D, f))
        /\ Cardinality(Past(D, f)) \in Nat /\ Cardinality(Amid(D, f, s)) \in Nat
    <3>1. Amid(D, f, s) \in SUBSET Past(D, f) /\ Past(D, f) \in SUBSET D
      BY DEF Amid, Past
    <3> HIDE DEF D
    <3> QED BY <1>1, <3>1, FS_Subset, FS_CardinalityType
  <2> DEFINE a == Cardinality(Amid(D, f, s))
             b == Cardinality(Past(D, f))
             c == Cardinality({t \in D : f <= t})
  <2>6. c = b + 1
    BY <1>2, <2>1
  <2>7. MaxSeen <= a /\ a <= b /\ c <= MaxSeen /\ a \in Nat /\ b \in Nat
    BY <2>3, <2>4, <2>5
  <2> HIDE DEF a, b, c
  <2> QED BY <2>6, <2>7
<1>6. Spaced' /\ IsFiniteSet(DOMAIN journal') /\ WorkUnseen'
  BY <1>1 DEF DInv, Spaced, WorkUnseen
<1> QED BY <1>4, <1>5, <1>6 DEF DInv

(* The table has at most one ack for each journal entry. *)
LEMMA SeenFinite ==
    ASSUME DInv
    PROVE  IsFiniteSet(DOMAIN seen)
<1> DEFINE f == [i \in DOMAIN seen |-> seen[i].seq]
           S == DOMAIN seen
           T == DOMAIN journal
<1>1. \A i \in S : seen[i].seq \in T /\ journal[seen[i].seq].opId = i
  BY DEF DInv, IInv, SeenNamesEntry
<1>2. f \in Injection(S, T)
  BY <1>1 DEF Injection, IsInjective
<1>3. IsFiniteSet(T)
  BY DEF DInv
<1> HIDE DEF f, S, T
<1>4. IsFiniteSet(S)
  BY <1>2, <1>3, FS_Injection
<1> QED BY <1>4 DEF S

(* Journaling an op, its ack recorded: an opId comes again only when the
   table had dropped it, and drops one only when MaxSeen others are newer.  *)
LEMMA JournalDInv ==
    ASSUME DInv, Journal, IInv'
    PROVE  DInv'
<1> DEFINE D == DOMAIN journal
           K == DOMAIN journal'
           e == Head(work)
           id == e.opId
           ack == [seq |-> seq + 1, revision |-> scene.version]
           t == Added(seen, id, ack)
<1>1. /\ phase = "serve" /\ phase' = "serve" /\ work \in Seq(Entry) /\ work # <<>>
      /\ seq \in Nat /\ work' = Tail(work) /\ IsFiniteSet(D) /\ D \in SUBSET Nat
      /\ DOMAIN seen \subseteq OpId
      /\ \A s \in D : s <= seq
  BY DEF Journal, DInv, IInv, Control, TypeOK, JournalBehind
<1>2. /\ K = D \cup {seq + 1} /\ journal'[seq + 1] = e
      /\ \A s \in D : journal'[s] = journal[s]
  BY JournalExtends DEF DInv
<1>3. IsFiniteSet(K) /\ K \in SUBSET Nat /\ D \in SUBSET K /\ seq + 1 \notin D
  <2>1. seq + 1 \notin D /\ K \in SUBSET Nat /\ D \in SUBSET K
    BY <1>1, <1>2
  <2> HIDE DEF D, K
  <2> QED BY <1>1, <1>2, <2>1, FS_AddElement
<1>4. \/ id = NoOpId /\ seen' = seen
      \/ /\ id # NoOpId /\ id \in OpId /\ id \notin DOMAIN seen
         /\ seen' = Record(seen, id, ack)
  <2>1. 1 \in DOMAIN work /\ e = work[1] /\ e \in Entry
    BY <1>1, EntrySeq
  <2>2. id = NoOpId \/ id \notin DOMAIN seen
    BY <1>1, <2>1 DEF DInv, WorkUnseen
  <2>3. id \in OpId \cup {NoOpId}
    BY <2>1, EntrySeq
  <2>4. \/ id = NoOpId /\ seen' = seen
        \/ id # NoOpId /\ seen' = Record(seen, id, ack)
    BY DEF Journal
  <2> QED BY <2>2, <2>3, <2>4
<1>5. ack.seq = seq + 1
  OBVIOUS
<1>6. ASSUME id # NoOpId
      PROVE  /\ DOMAIN t = DOMAIN seen \cup {id} /\ t[id] = ack
             /\ \A i \in DOMAIN seen : t[i] = seen[i]
             /\ \A i \in DOMAIN seen' : i \in DOMAIN t /\ seen'[i] = t[i]
             /\ \A i \in DOMAIN t : t[i].seq \in K
             /\ \A i, k \in DOMAIN t : i # k => t[i].seq # t[k].seq
  <2>1. id \notin DOMAIN seen /\ seen' = Record(seen, id, ack)
    BY <1>4, <1>6
  <2> HIDE DEF id, ack, D, K
  <2>2. /\ DOMAIN t = DOMAIN seen \cup {id} /\ t[id] = ack
        /\ \A i \in DOMAIN seen : t[i] = seen[i]
    BY <2>1 DEF Added
  <2> HIDE DEF t
  <2>3. \A i \in DOMAIN seen' : i \in DOMAIN t /\ seen'[i] = t[i]
    BY <2>1, <2>2, RecordKeeps
  <2>4. \A i \in DOMAIN seen : seen[i].seq \in D /\ journal[seen[i].seq].opId = i
    BY DEF DInv, IInv, SeenNamesEntry, D
  <2>5. \A i \in DOMAIN t : t[i].seq \in K
    BY <1>2, <1>5, <2>2, <2>4
  <2>6. \A i, k \in DOMAIN t : i # k => t[i].seq # t[k].seq
    BY <1>3, <1>5, <2>2, <2>4
  <2> QED BY <2>2, <2>3, <2>5, <2>6
<1>7. ASSUME NEW d \in DOMAIN t, d \notin DOMAIN seen', id # NoOpId
      PROVE  MaxSeen <= Cardinality(Past(K, t[d].seq))
  <2>1. id \notin DOMAIN seen /\ seen' = Record(seen, id, ack)
    BY <1>4, <1>7
  <2>2. IsFiniteSet(DOMAIN seen)
    BY SeenFinite
  <2>3. /\ \A i \in DOMAIN t : t[i].seq \in K
        /\ \A i, k \in DOMAIN t : i # k => t[i].seq # t[k].seq
    BY <1>6, <1>7
  <2> HIDE DEF K, id, ack
  <2> QED BY <1>3, <1>7, <2>1, <2>2, <2>3, RecordDrops
<1>8. ASSUME NEW s \in D, NEW u
      PROVE  /\ Cardinality(Past(D, s)) <= Cardinality(Past(K, s))
             /\ Cardinality(Amid(D, s, u)) <= Cardinality(Amid(K, s, u))
             /\ Cardinality(Past(D, s)) \in Nat /\ Cardinality(Past(K, s)) \in Nat
             /\ Cardinality(Amid(D, s, u)) \in Nat
             /\ Cardinality(Amid(K, s, u)) \in Nat
  <2> HIDE DEF D, K
  <2> QED BY <1>3, MorePast
<1>9. Spaced'
  <2> SUFFICES ASSUME NEW s \in K, NEW u \in K, s < u,
                      journal'[s].opId = journal'[u].opId, journal'[s].opId \in OpId
               PROVE  MaxSeen <= Cardinality(Amid(K, s, u))
    BY DEF Spaced
  <2>1. s \in D
    <3> HIDE DEF D, K
    <3> QED BY <1>1, <1>2, <1>3
  <2>2. CASE u \in D
    <3>1. MaxSeen <= Cardinality(Amid(D, s, u))
      BY <1>2, <2>1, <2>2 DEF DInv, Spaced
    <3> DEFINE a == Cardinality(Amid(D, s, u))
               b == Cardinality(Amid(K, s, u))
    <3>2. MaxSeen <= a /\ a <= b /\ a \in Nat /\ b \in Nat
      BY <1>8, <2>1, <3>1
    <3> HIDE DEF a, b
    <3>3. MaxSeen <= b
      BY <3>2
    <3> QED BY <3>3 DEF b
  <2>3. CASE u = seq + 1
    <3>1. journal[s].opId = id /\ id \in OpId
      BY <1>2, <2>1, <2>3
    <3>2. id \notin DOMAIN seen
      BY <1>4, <3>1
    <3>3. MaxSeen <= Cardinality(Past(D, s))
      BY <1>1, <2>1, <3>1, <3>2 DEF DInv, Remembered
    <3>4. Past(D, s) = Amid(K, s, u)
      <4> HIDE DEF D, K
      <4> QED BY <1>1, <1>2, <2>3, PastIsAmid
    <3> QED BY <3>3, <3>4
  <2> QED BY <1>2, <2>2, <2>3
<1>10. Remembered'
  <2> SUFFICES ASSUME NEW s \in K, journal'[s].opId \in OpId, journal'[s].opId \notin DOMAIN seen'
               PROVE  MaxSeen <= Cardinality(Past(K, s))
    BY DEF Remembered
  <2> DEFINE i == journal'[s].opId
  <2>1. CASE s \in D /\ i \notin DOMAIN seen
    <3>1. MaxSeen <= Cardinality(Past(D, s))
      BY <1>1, <1>2, <2>1 DEF DInv, Remembered
    <3> DEFINE a == Cardinality(Past(D, s))
               b == Cardinality(Past(K, s))
    <3>2. MaxSeen <= a /\ a <= b /\ a \in Nat /\ b \in Nat
      BY <1>8, <2>1, <3>1
    <3> HIDE DEF a, b
    <3>3. MaxSeen <= b
      BY <3>2
    <3> QED BY <3>3 DEF b
  <2>2. CASE s \notin D \/ i \in DOMAIN seen
    <3>1. id # NoOpId
      <4>1. CASE s \notin D
        BY <1>2, <4>1
      <4>2. CASE i \in DOMAIN seen
        BY <1>4, <4>2
      <4> QED BY <2>2, <4>1, <4>2
    <3>2. i \in DOMAIN t /\ s <= t[i].seq
      <4>1. CASE s \in D
        <5>1. i \in DOMAIN seen /\ s <= seen[i].seq
          BY <1>1, <1>2, <2>2, <4>1 DEF DInv, LastSeen
        <5> QED BY <1>6, <3>1, <5>1
      <4>2. CASE s = seq + 1
        <5>1. i = id
          BY <1>2, <4>2
        <5>2. seq + 1 <= seq + 1
          BY <1>1
        <5> HIDE DEF i, id, t, ack
        <5> QED BY <1>5, <1>6, <3>1, <4>2, <5>1, <5>2
      <4> QED BY <1>2, <4>1, <4>2
    <3>3. MaxSeen <= Cardinality(Past(K, t[i].seq))
      BY <1>7, <3>1, <3>2
    <3> DEFINE q == t[i].seq
    <3>4. q \in Nat /\ s \in Nat
      BY <1>3, <1>6, <3>1, <3>2
    <3> DEFINE a == Cardinality(Past(K, q))
               b == Cardinality(Past(K, s))
    <3>6. a <= b /\ a \in Nat /\ b \in Nat
      <4>1. s <= q
        BY <3>2
      <4> HIDE DEF K, q
      <4> QED BY <1>3, <3>4, <4>1, LessPast
    <3>7. MaxSeen <= a
      BY <3>3
    <3> HIDE DEF a, b
    <3>8. MaxSeen <= b
      BY <3>6, <3>7
    <3> QED BY <3>8 DEF b
  <2> QED BY <2>1, <2>2
<1>11. LastSeen'
  <2> SUFFICES ASSUME NEW s \in K, journal'[s].opId \in DOMAIN seen'
               PROVE  s <= seen'[journal'[s].opId].seq
    BY DEF LastSeen
  <2> DEFINE i == journal'[s].opId
  <2>1. CASE s \in D /\ i \in DOMAIN seen
    <3>1. s <= seen[i].seq
      BY <1>1, <1>2, <2>1 DEF DInv, LastSeen
    <3>2. seen'[i] = seen[i]
      BY <1>4, <1>6, <2>1
    <3> QED BY <3>1, <3>2
  <2>2. CASE s \notin D \/ i \notin DOMAIN seen
    <3>1. id # NoOpId /\ i = id /\ seen'[i] = ack
      <4>1. s \notin D => i = id
        BY <1>2
      <4>2. id = NoOpId => i \in DOMAIN seen /\ i \in OpId
        BY <1>1, <1>4
      <4>3. id # NoOpId
        BY <2>2, <4>1, <4>2
      <4>4. i = id
        BY <1>6, <2>2, <4>1, <4>3
      <4> HIDE DEF ack, t, id, i
      <4> QED BY <1>6, <4>3, <4>4 DEF i
    <3>2. s <= seq + 1
      <4> HIDE DEF D, K
      <4> QED BY <1>1, <1>2
    <3> QED BY <1>5, <3>1, <3>2
  <2> QED BY <2>1, <2>2
<1>12. WorkUnseen'
  <2> SUFFICES ASSUME NEW n \in DOMAIN Tail(work) PROVE Tail(work)[n].opId = NoOpId
    BY <1>1 DEF WorkUnseen
  <2> DEFINE T == DOMAIN seen
  <2>1. \A m \in DOMAIN work : \/ work[m].opId = NoOpId
                               \/ Len(work) = 1 /\ work[m].opId \notin T
    BY <1>1 DEF DInv, WorkUnseen
  <2> HIDE DEF T
  <2> QED BY <1>1, <2>1, TailUnseen
<1> QED BY <1>3, <1>9, <1>10, <1>11, <1>12 DEF DInv

(* Commands and writes leave the journal and the table; a new command is of
   an op that the table does not have, or of bare ops.                      *)
LEMMA CommandDInv ==
    ASSUME DInv, IInv',
           \/ \E id \in OpId : SubmitSeen(id) \/ SubmitNew(id)
           \/ \E ops \in Features : Feature(ops)
           \/ ApplyRejected \/ ApplyNothing \/ ApplyOp
           \/ WriteObject \/ WriteMeta
    PROVE  DInv'
<1>1. UNCHANGED <<journal, phase, seen>>
  BY DEF SubmitSeen, SubmitNew, Feature, ApplyRejected, ApplyNothing, ApplyOp,
         WriteObject, WriteMeta
<1>2. CASE work' = work
  BY <1>1, <1>2, TableKept DEF DInv, WorkUnseen
<1>3. ASSUME NEW id \in OpId, SubmitNew(id) PROVE DInv'
  <2>1. /\ work' = <<[opId |-> id, op |-> OpOf[id]]>> /\ id \notin DOMAIN seen
    BY <1>3 DEF SubmitNew
  <2>2. Len(work') = 1 /\ \A n \in DOMAIN work' : work'[n].opId = id
    BY <2>1
  <2>3. WorkUnseen'
    BY <1>1, <2>1, <2>2 DEF WorkUnseen
  <2> QED BY <1>1, <2>3, TableKept
<1>4. ASSUME NEW ops \in Features, Feature(ops) PROVE DInv'
  <2>1. \A n \in DOMAIN work' : work'[n].opId = NoOpId
    BY <1>4 DEF Feature
  <2>2. WorkUnseen'
    BY <2>1 DEF WorkUnseen
  <2> QED BY <1>1, <2>2, TableKept
<1>5. CASE ApplyRejected
  <2> DEFINE T == DOMAIN seen
  <2>1. /\ work \in Seq(Entry) /\ work # <<>> /\ phase = "serve" /\ work' = Tail(work)
    BY <1>5 DEF ApplyRejected, Serving, DInv, IInv, Control
  <2>2. \A m \in DOMAIN work : \/ work[m].opId = NoOpId
                               \/ Len(work) = 1 /\ work[m].opId \notin T
    BY <2>1 DEF DInv, WorkUnseen
  <2> HIDE DEF T
  <2>3. \A n \in DOMAIN Tail(work) : Tail(work)[n].opId = NoOpId
    BY <2>1, <2>2, TailUnseen
  <2>4. WorkUnseen'
    BY <2>1, <2>3 DEF WorkUnseen
  <2> QED BY <1>1, <2>4, TableKept
<1>6. CASE WriteMeta
  <2>1. CASE phase = "recover"
    BY <1>1, <2>1, NotServing
  <2>2. CASE phase # "recover"
    BY <1>2, <1>6, <2>2 DEF WriteMeta
  <2> QED BY <2>1, <2>2
<1>7. CASE \/ \E id \in OpId : SubmitSeen(id)
           \/ ApplyNothing \/ ApplyOp \/ WriteObject
  BY <1>2, <1>7 DEF SubmitSeen, ApplyNothing, ApplyOp, WriteObject
<1> QED BY <1>3, <1>4, <1>5, <1>6, <1>7

(* Every step keeps the invariant of the dedup window. *)
LEMMA NextDInv ==
    ASSUME DInv, [Next]_vars
    PROVE  DInv'
<1>1. IInv'
  BY NextIInv DEF DInv
<1>2. CASE Spawn \/ Replay
  BY <1>1, <1>2, NotServing DEF Spawn, Replay
<1>3. CASE Recovered
  BY <1>1, <1>3, RecoveredDInv
<1>4. CASE \/ \E id \in OpId : SubmitSeen(id) \/ SubmitNew(id)
           \/ \E ops \in Features : Feature(ops)
           \/ ApplyRejected \/ ApplyNothing \/ ApplyOp
           \/ WriteObject \/ WriteMeta
  BY <1>1, <1>4, CommandDInv
<1>5. CASE Journal
  BY <1>1, <1>5, JournalDInv
<1>6. CASE Shutdown \/ Crash
  BY <1>1, <1>6, NotServing DEF Shutdown, Crash, Stop
<1>7. CASE UNCHANGED vars
  <2>1. UNCHANGED <<journal, phase, seen, work>>
    BY <1>7 DEF vars
  <2>2. WorkUnseen'
    BY <2>1 DEF DInv, WorkUnseen
  <2> QED BY <1>1, <2>1, <2>2, TableKept
<1> QED BY <1>2, <1>3, <1>4, <1>5, <1>6, <1>7 DEF Next

(* A resend is answered with the first answer's seq, across shutdowns, crashes
   and recoveries, unless MaxSeen other ops came between (DedupTable::record,
   rebuild_dedup_from_suffix).                                             *)
THEOREM ResendsAnswered == Spec => []OriginalAck
<1>1. Init => DInv
  BY InitDInv
<1>2. DInv /\ [Next]_vars => DInv'
  BY NextDInv
<1>3. DInv => OriginalAck
  <2> SUFFICES ASSUME DInv, NEW a \in acks, NEW b \in acks,
                      a.opId = b.opId, a.seq < b.seq
               PROVE  MaxSeen <= Cardinality({s \in DOMAIN journal : a.seq < s /\ s < b.seq})
    BY DEF OriginalAck
  <2>1. /\ a.seq \in DOMAIN journal /\ b.seq \in DOMAIN journal
        /\ journal[a.seq].opId = a.opId /\ journal[b.seq].opId = b.opId
        /\ a.opId \in OpId
    BY DEF DInv, IInv, TypeOK, AckNamesEntry
  <2>2. MaxSeen <= Cardinality(Amid(DOMAIN journal, a.seq, b.seq))
    BY <2>1 DEF DInv, Spaced
  <2> QED BY <2>2 DEF Amid
<1> QED BY <1>1, <1>2, <1>3, PTL DEF Spec

-----------------------------------------------------------------------------

(* The objects the store has still to write. *)
Unsaved == IF step = "write" THEN Range(todo) ELSE {}

(* The records are the objects in memory but for those still to be written. *)
Stored ==
    /\ IsFiniteSet(DOMAIN recs)
    /\ phase # "down" =>
         /\ IsFiniteSet(DOMAIN scene.objs)
         /\ \A o \in (DOMAIN recs \cup DOMAIN scene.objs) \ Unsaved :
              Alike(recs, scene.objs, o)
    /\ step = "write" => todo \in Seq(Range(todo))

(* The inductive invariant of write-through. *)
RInv == IInv /\ Stored

(* Stored, said of every id: ids that neither side has are alike. *)
LEMMA StoredIs ==
    Stored <=> /\ IsFiniteSet(DOMAIN recs)
               /\ phase # "down" =>
                    /\ IsFiniteSet(DOMAIN scene.objs)
                    /\ \A o : o \notin Unsaved => Alike(recs, scene.objs, o)
               /\ step = "write" => todo \in Seq(Range(todo))
BY DEF Stored, Alike

(* Batches are finite lists. *)
LEMMA AnyOpListed == \A op \in AnyOp : Listed(op)
BY BatchAssumption DEF AnyOp, Listed

(* apply_object_op_lww changes the target_ids, and nothing when it rejects
   the op or calls it nothing.                                             *)
LEMMA LwwElsewhere ==
    ASSUME NEW sc, IsFiniteSet(DOMAIN sc.objs), NEW op \in AnyOp, NEW s
    PROVE  LET r == ApplyLww(sc, op, s) IN
           /\ IsFiniteSet(DOMAIN r.scene.objs)
           /\ \A o : o \notin Range(TargetIds(op)) =>
                       Alike(r.scene.objs, sc.objs, o)
           /\ ~r.ok \/ r.noop => r.scene.objs = sc.objs
<1> DEFINE a == Apply(sc.objs, op)
           r == ApplyLww(sc, op, s)
<1>1. /\ IsFiniteSet(DOMAIN a.objs)
      /\ \A o : o \notin Range(TargetIds(op)) => Alike(a.objs, sc.objs, o)
  BY AnyOpListed, ApplyElsewhere
<1>2. a.noop => a.objs = sc.objs
  BY NothingUndone
<1>3. \A o : Alike(sc.objs, sc.objs, o)
  BY DEF Alike
<1>4. \/ r.scene = sc
      \/ r.ok /\ r.noop = a.noop /\ r.scene.objs = a.objs
  <2> HIDE DEF a
  <2> QED BY DEF ApplyLww, a
<1> HIDE DEF a, r
<1> QED BY <1>1, <1>2, <1>3, <1>4 DEF r

(* Nothing is stored yet but the first ops' objects, and no actor runs. *)
LEMMA InitStored == Init => Stored
<1> SUFFICES ASSUME Init PROVE Stored
  OBVIOUS
<1> DEFINE ids == {FirstOps[n].id : n \in DOMAIN FirstOps}
<1>1. IsFiniteSet(DOMAIN NoObjects)
  BY FS_EmptySet DEF NoObjects
<1>2. IsFiniteSet(DOMAIN ApplyAll(NoObjects, FirstOps).objs)
  <2>1. \A n \in DOMAIN FirstOps : FirstOps[n].id \in ids
    OBVIOUS
  <2> HIDE DEF ids
  <2> QED BY <1>1, <2>1, ApplyAllElsewhere
<1> QED BY <1>2 DEF Init, Stored

(* An actor starts from the records. *)
LEMMA SpawnStored == RInv /\ Spawn => Stored'
<1> SUFFICES ASSUME RInv, Spawn PROVE Stored'
  OBVIOUS
<1>1. /\ recs' = recs /\ step' = step /\ step = "next"
      /\ scene'.objs = recs
  BY DEF Spawn, Cold, RInv, IInv, Control, TypeOK
<1>2. IsFiniteSet(DOMAIN recs)
  BY DEF RInv, Stored
<1> QED BY <1>1, <1>2 DEF Stored, Alike

(* An op the store applies leaves the ids it is to write, and only these. *)
LEMMA AppliedStored ==
    ASSUME Stored, phase # "down", step = "next", NEW op \in AnyOp, NEW s,
           recs' = recs, phase' # "down",
           LET r == ApplyLww(scene, op, s) IN
             /\ scene' = r.scene
             /\ \/ r.ok /\ ~r.noop /\ step' = "write" /\ todo' = TargetIds(op)
                \/ (~r.ok \/ r.noop) /\ step' # "write"
    PROVE  Stored'
<1> DEFINE r == ApplyLww(scene, op, s)
<1>1. /\ IsFiniteSet(DOMAIN recs) /\ IsFiniteSet(DOMAIN scene.objs)
      /\ \A o : Alike(recs, scene.objs, o)
  BY StoredIs DEF Unsaved
<1>2. /\ IsFiniteSet(DOMAIN r.scene.objs)
      /\ \A o : o \notin Range(TargetIds(op)) => Alike(r.scene.objs, scene.objs, o)
      /\ ~r.ok \/ r.noop => r.scene.objs = scene.objs
  BY <1>1, LwwElsewhere
<1>3. /\ scene' = r.scene
      /\ \/ r.ok /\ ~r.noop /\ step' = "write" /\ todo' = TargetIds(op)
         \/ (~r.ok \/ r.noop) /\ step' # "write"
  OBVIOUS
<1>4. TargetIds(op) \in Seq(Range(TargetIds(op)))
  <2>1. PICK U : TargetIds(op) \in Seq(U)
    BY AnyOpListed, TargetsListed
  <2> HIDE DEF r
  <2> QED BY <2>1, IsListOfRange
<1> HIDE DEF r
<1>5. CASE step' = "write"
  <2>1. todo' = TargetIds(op) /\ Unsaved' = Range(TargetIds(op))
    BY <1>3, <1>5 DEF Unsaved
  <2>2. \A o : o \notin Unsaved' => Alike(recs', scene'.objs, o)
    BY <1>1, <1>2, <1>3, <2>1 DEF Alike
  <2> QED BY <1>1, <1>2, <1>3, <1>4, <2>1, <2>2 DEF Stored
<1>6. CASE step' # "write"
  <2>1. scene'.objs = scene.objs
    BY <1>2, <1>3, <1>6
  <2> QED BY <1>1, <1>6, <2>1 DEF Stored
<1> QED BY <1>5, <1>6

(* Recovery replays an entry like an op it serves. *)
LEMMA ReplayStored == RInv /\ Replay => Stored'
<1> SUFFICES ASSUME RInv, Replay PROVE Stored'
  OBVIOUS
<1>1. phase = "recover" /\ step = "next" /\ recs' = recs /\ phase' = phase
  BY DEF Replay
<1>2. PICK s \in DOMAIN journal :
        LET r == ApplyLww(scene, journal[s].op, s) IN
        /\ scene' = r.scene
        /\ IF r.ok /\ ~r.noop
           THEN todo' = TargetIds(journal[s].op) /\ step' = "write"
           ELSE step' = step
  BY DEF Replay
<1>3. journal[s].op \in AnyOp
  BY DEF RInv, IInv, Control, Entry
<1>4. LET r == ApplyLww(scene, journal[s].op, s) IN
      /\ scene' = r.scene
      /\ \/ r.ok /\ ~r.noop /\ step' = "write" /\ todo' = TargetIds(journal[s].op)
         \/ (~r.ok \/ r.noop) /\ step' # "write"
  BY <1>1, <1>2
<1> QED BY <1>1, <1>3, <1>4, AppliedStored DEF RInv

(* The store's answer to the op whose turn it is. *)
LEMMA ApplyStored ==
    ASSUME RInv, ApplyRejected \/ ApplyNothing \/ ApplyOp
    PROVE  Stored'
<1>1. /\ Serving /\ recs' = recs /\ phase' = phase
      /\ Head(work).op \in AnyOp
  <2>1. Serving /\ recs' = recs /\ phase' = phase
    BY DEF ApplyRejected, ApplyNothing, ApplyOp
  <2>2. Head(work) \in Entry
    BY <2>1, EntrySeq DEF RInv, IInv, Control, Serving
  <2> QED BY <2>1, <2>2 DEF Entry
<1>2. CASE ApplyRejected
  <2>1. UNCHANGED <<recs, phase, step, scene, todo>>
    BY <1>2 DEF ApplyRejected
  <2> QED BY <2>1 DEF RInv, Stored, Unsaved
<1>3. CASE ApplyNothing \/ ApplyOp
  <2>1. LET r == ApplyLww(scene, Head(work).op, seq + 1) IN
        /\ scene' = r.scene
        /\ \/ r.ok /\ ~r.noop /\ step' = "write" /\ todo' = TargetIds(Head(work).op)
           \/ (~r.ok \/ r.noop) /\ step' # "write"
    BY <1>3 DEF ApplyNothing, ApplyOp, HeadApplied
  <2> QED BY <1>1, <2>1, AppliedStored DEF RInv, Serving
<1> QED BY <1>2, <1>3

(* Writing an object makes its record what the object is; when all are
   written, the meta record ends the write.                                *)
LEMMA WriteStored ==
    ASSUME RInv, WriteObject \/ WriteMeta
    PROVE  Stored'
<1>1. step = "write" /\ phase # "down" /\ UNCHANGED <<phase, scene>>
  BY DEF RInv, IInv, Control, WriteObject, WriteMeta
<1>2. /\ IsFiniteSet(DOMAIN recs) /\ IsFiniteSet(DOMAIN scene.objs)
      /\ \A o : o \notin Range(todo) => Alike(recs, scene.objs, o)
      /\ todo \in Seq(Range(todo))
  BY <1>1, StoredIs DEF RInv, Unsaved
<1>3. CASE WriteObject
  <2> DEFINE id == Head(todo)
             rest == Tail(todo)
  <2>1. /\ recs' = Written(id) /\ todo' = rest /\ step' = step /\ todo # <<>>
    BY <1>3 DEF WriteObject
  <2>2. /\ rest \in Seq(Range(rest))
        /\ \A o : o \in Range(todo) => o = id \/ o \in Range(rest)
    <3>1. /\ Len(todo) \in Nat /\ Len(todo) >= 1 /\ DOMAIN todo = 1..Len(todo)
          /\ DOMAIN rest = 1..Len(todo) - 1 /\ id = todo[1]
          /\ rest \in Seq(Range(todo))
          /\ \A n \in 1..Len(todo) - 1 : rest[n] = todo[n + 1]
      BY <1>2, <2>1
    <3>2. rest \in Seq(Range(rest))
      <4> HIDE DEF rest
      <4> QED BY <3>1, IsListOfRange
    <3>3. ASSUME NEW n \in 1..Len(todo), n # 1 PROVE todo[n] \in Range(rest)
      <4>1. n - 1 \in 1..Len(todo) - 1 /\ rest[n - 1] = todo[n]
        BY <3>1, <3>3
      <4> HIDE DEF rest
      <4> QED BY <3>1, <4>1 DEF Range
    <3> HIDE DEF rest, id
    <3> QED BY <3>1, <3>2, <3>3 DEF Range
  <2> HIDE DEF id, rest
  <2>3. /\ IsFiniteSet(DOMAIN recs')
        /\ \A o : o # id => Alike(recs', recs, o)
        /\ Alike(recs', scene.objs, id)
    <3>1. CASE id \in DOMAIN scene.objs
      <4>1. recs' = [p \in DOMAIN recs \cup {id} |->
                       IF p = id THEN scene.objs[id] ELSE recs[p]]
        BY <2>1, <3>1 DEF Written, With
      <4>2. IsFiniteSet(DOMAIN recs \cup {id})
        BY <1>2, FS_AddElement
      <4> QED BY <3>1, <4>1, <4>2 DEF Alike
    <3>2. CASE id \notin DOMAIN scene.objs
      <4>1. recs' = [p \in DOMAIN recs \ {id} |-> recs[p]]
        BY <2>1, <3>2 DEF Written, Restrict
      <4>2. IsFiniteSet(DOMAIN recs \ {id})
        BY <1>2, FS_RemoveElement
      <4> QED BY <3>2, <4>1, <4>2 DEF Alike
    <3> QED BY <3>1, <3>2
  <2>4. \A o : o \notin Range(rest) => Alike(recs', scene.objs, o)
    BY <1>2, <2>2, <2>3 DEF Alike
  <2>5. Unsaved' = Range(rest)
    BY <1>1, <2>1 DEF Unsaved
  <2> QED BY <1>1, <1>2, <2>1, <2>2, <2>3, <2>4, <2>5 DEF Stored
<1>4. CASE WriteMeta
  <2>1. todo = <<>> /\ recs' = recs /\ step' # "write"
    BY <1>4 DEF WriteMeta
  <2>2. Range(todo) = {}
    BY <2>1 DEF Range
  <2> QED BY <1>1, <1>2, <2>1, <2>2 DEF Stored
<1> QED BY <1>3, <1>4

(* Every step keeps the records and the scene together. *)
LEMMA NextStored ==
    ASSUME RInv, [Next]_vars
    PROVE  Stored'
<1>1. CASE Spawn \/ Replay
  BY <1>1, SpawnStored, ReplayStored
<1>2. CASE ApplyRejected \/ ApplyNothing \/ ApplyOp
  BY <1>2, ApplyStored
<1>3. CASE WriteObject \/ WriteMeta
  BY <1>3, WriteStored
<1>4. CASE Shutdown \/ Crash
  <2>1. recs' = recs /\ phase' = "down" /\ step' = "next"
    BY <1>4 DEF Shutdown, Crash, Stop
  <2> QED BY <2>1 DEF RInv, Stored
<1>5. ASSUME UNCHANGED <<recs, scene>>, phase # "down",
             UNCHANGED <<step, todo>> \/ (step # "write" /\ step' # "write")
      PROVE  Stored'
  <2>1. Unsaved' = Unsaved
    BY <1>5 DEF Unsaved
  <2> QED BY <1>5, <2>1 DEF RInv, Stored
<1>6. CASE \/ Recovered \/ Journal
           \/ \E id \in OpId : SubmitSeen(id) \/ SubmitNew(id)
           \/ \E ops \in Features : Feature(ops)
  <2>1. /\ UNCHANGED <<recs, scene>> /\ phase # "down"
        /\ UNCHANGED <<step, todo>> \/ (step # "write" /\ step' # "write")
    BY <1>6 DEF Recovered, Journal, SubmitSeen, SubmitNew, Feature, Idle, RInv,
                IInv, Control
  <2> QED BY <1>5, <2>1
<1>7. CASE UNCHANGED vars
  <2>1. UNCHANGED <<recs, scene, phase, step, todo>>
    BY <1>7 DEF vars
  <2> QED BY <2>1 DEF RInv, Stored, Unsaved
<1> QED BY <1>1, <1>2, <1>3, <1>4, <1>6, <1>7 DEF Next

(* Between commands the records are the objects in memory, anchors aside, so
   an actor that takes over has the same objects, whatever an op does and
   wherever an earlier actor ended (ObjectStore::apply, save_object).      *)
THEOREM ReloadKeeps == Spec => []ReloadKeepsObjects
<1>1. Init => RInv
  BY InitIInv, InitStored DEF RInv
<1>2. RInv /\ [Next]_vars => RInv'
  BY NextIInv, NextStored DEF RInv
<1>3. RInv => ReloadKeepsObjects
  <2> SUFFICES ASSUME RInv, Idle
               PROVE  IgnoringAnchors(recs) = IgnoringAnchors(scene.objs)
    BY DEF ReloadKeepsObjects
  <2>1. \A o : Alike(recs, scene.objs, o)
    BY StoredIs DEF RInv, Idle, Unsaved
  <2>2. DOMAIN recs = DOMAIN scene.objs
    BY <2>1 DEF Alike
  <2>3. \A o \in DOMAIN recs :
          [recs[o] EXCEPT !.anchors = {}] = [scene.objs[o] EXCEPT !.anchors = {}]
    BY <2>1 DEF Alike, Bare
  <2> QED BY <2>2, <2>3 DEF IgnoringAnchors
<1> QED BY <1>1, <1>2, <1>3, PTL DEF Spec

-----------------------------------------------------------------------------

(* The opIds of comments that no op takes away, and a scene or records that
   have such a comment.                                                    *)
Lasting == {id \in OpId : OpOf[id].kind = "add-comment" /\ Lasts(OpOf[id].id)}
Holds(objs, id) ==
    /\ OpOf[id].id \in DOMAIN objs
    /\ OpOf[id].value \in Range(objs[OpOf[id].id].comments)

(* An entry that stands for the op of its opId. *)
Own == {e \in Entry : e.opId \in OpId => e.op = OpOf[e.opId]}

(* What is journaled is on disk and in memory, and what is about to be
   journaled is in memory.                                                 *)
Durable ==
    /\ Commented(recs) /\ (phase # "down" => Commented(scene.objs))
    /\ work \in Seq(Own)
    /\ \A s \in DOMAIN journal : journal[s] \in Own
    /\ \A s \in DOMAIN journal : journal[s].opId \in Lasting =>
         /\ Holds(recs, journal[s].opId)
         /\ phase # "down" => Holds(scene.objs, journal[s].opId)
    /\ step # "next" /\ phase = "serve" /\ Head(work).opId \in Lasting =>
         Holds(scene.objs, Head(work).opId)

(* The inductive invariant of durability. *)
LInv == RInv /\ Durable

(* An op leaves comments lists, and all that last where they are. *)
LEMMA LwwComments ==
    ASSUME NEW sc, Commented(sc.objs), NEW op \in AnyOp, NEW s, NEW w
    PROVE  LET after == ApplyLww(sc, op, s).scene.objs IN
           /\ Commented(after)
           /\ Lasts(w) => NoneLost(after, sc.objs, w)
<1> DEFINE a == Apply(sc.objs, op).objs
           r == ApplyAll(sc.objs, Steps(op))
<1>1. PICK U : Steps(op) \in Seq(U)
  BY AnyOpListed, StepsListed
<1>2. ASSUME NEW n \in DOMAIN Steps(op)
      PROVE  /\ Listing(Steps(op)[n])
             /\ Lasts(w) => ~Strips(Steps(op)[n], w)
  <2>1. Steps(op)[n] \in Does(op)
    BY StepsDone
  <2> QED BY <2>1, OpsAssumption DEF Listing, ListOf, Lasts, Strips
<1>3. Commented(r.objs) /\ (Lasts(w) => NoneLost(r.objs, sc.objs, w))
  BY <1>1, <1>2, ApplyAllOnComments
<1>4. a = IF r.ok THEN r.objs ELSE sc.objs
  BY DEF Apply, Steps
<1>5. NoneLost(sc.objs, sc.objs, w)
  BY DEF NoneLost
<1> HIDE DEF r
<1>6. Commented(a) /\ (Lasts(w) => NoneLost(a, sc.objs, w))
  BY <1>3, <1>4, <1>5
<1> HIDE DEF a
<1>7. ApplyLww(sc, op, s).scene.objs \in {sc.objs, a}
  BY DEF ApplyLww, a
<1> QED BY <1>5, <1>6, <1>7

(* What lasts in a scene is there after an op. *)
LEMMA LwwHolds ==
    ASSUME NEW sc, Commented(sc.objs), NEW op \in AnyOp, NEW s,
           NEW id \in Lasting, Holds(sc.objs, id)
    PROVE  Holds(ApplyLww(sc, op, s).scene.objs, id)
<1>1. NoneLost(ApplyLww(sc, op, s).scene.objs, sc.objs, OpOf[id].id)
  BY LwwComments DEF Lasting
<1> QED BY <1>1 DEF NoneLost, Holds

(* The seq the actor stamps wins the comments, and the comment is added. *)
LEMMA LwwAdds ==
    ASSUME NEW sc, Commented(sc.objs), NEW id \in Lasting, NEW s \in Nat,
           sc.won \in [ObjId \X Field -> Nat],
           \A p \in ObjId \X Field : sc.won[p] < s,
           ApplyLww(sc, OpOf[id], s).ok
    PROVE  Holds(ApplyLww(sc, OpOf[id], s).scene.objs, id)
<1> DEFINE op == OpOf[id]
           base == [ok |-> TRUE, objs |-> sc.objs, inverse |-> <<>>]
           r == ApplyAll(sc.objs, <<op>>)
           a == Apply(sc.objs, op)
<1>1. op.kind = "add-comment" /\ op \in AnyOp /\ op.id \in ObjId
  <2>1. op.kind = "add-comment" /\ op \in AnyOp
    BY DEF Lasting, AnyOp
  <2>2. op \in Does(op)
    BY <2>1 DEF Does
  <2> QED BY <2>1, <2>2, OpsAssumption
<1>2. ~(\E p \in Touches(op) : s <= sc.won[p])
  <2>1. Touches(op) = {<<op.id, "comments">>}
    BY <1>1 DEF Touches
  <2>2. <<op.id, "comments">> \in ObjId \X Field
    BY <1>1 DEF Field
  <2>3. \A p \in ObjId \X Field : sc.won[p] \in Nat /\ ~(s <= sc.won[p])
    OBVIOUS
  <2> HIDE DEF op
  <2> QED BY <2>1, <2>2, <2>3
<1>3. a.ok = r.ok /\ a.objs = IF r.ok THEN r.objs ELSE sc.objs
  BY <1>1 DEF Apply
<1>4. r = ApplyOne(base, op)
  <2>1. <<op>> \in Seq({op}) /\ Len(<<op>>) = 1 /\ <<op>>[1] = op
    OBVIOUS
  <2>2. r = ApplyOne(base, <<op>>[1])
    BY <2>1, OneStep
  <2> HIDE DEF base, r
  <2> QED BY <2>1, <2>2
<1> HIDE DEF r, op
<1>5. r.ok /\ ApplyLww(sc, op, s).scene.objs = r.objs
  <2> HIDE DEF a
  <2>1. a.ok /\ ApplyLww(sc, op, s).scene.objs = a.objs
    BY <1>2 DEF ApplyLww, a, op
  <2> QED BY <1>3, <2>1
<1>6. Accepts(sc.objs, op)
  BY <1>4, <1>5 DEF ApplyOne
<1> DEFINE cs == Append(sc.objs[op.id].comments, op.value)
<1>7. r.objs = [sc.objs EXCEPT ![op.id].comments = cs] /\ op.id \in DOMAIN sc.objs
  BY <1>1, <1>4, <1>6 DEF ApplyOne, Degrades, Effect, Accepts
<1>8. op.value \in Range(cs) /\ "comments" \in DOMAIN sc.objs[op.id]
  BY <1>7, ListAppend DEF Commented
<1> HIDE DEF cs
<1>9. op.id \in DOMAIN r.objs /\ r.objs[op.id].comments = cs
  BY <1>7, <1>8
<1> QED BY <1>5, <1>8, <1>9 DEF Holds, op

(* Nothing is acknowledged at the start, and the first ops' objects have lists
   of comments.                                                            *)
LEMMA InitDurable == Init => Durable
<1> SUFFICES ASSUME Init PROVE Durable
  OBVIOUS
<1>1. Commented(recs)
  <2>1. FirstOps \in Seq(Range(FirstOps)) /\ \A n \in DOMAIN FirstOps : FirstOps[n] \in AnyOp
    BY DEF AnyOp, Range
  <2>2. Commented(NoObjects)
    BY DEF Commented, NoObjects
  <2>3. recs = ApplyAll(NoObjects, FirstOps).objs
    BY DEF Init
  <2>4. ASSUME NEW n \in DOMAIN FirstOps PROVE Listing(FirstOps[n])
    <3> DEFINE op == FirstOps[n]
    <3>1. op \in AnyOp /\ (op.kind # "batch" => op \in Does(op))
      BY <2>1 DEF Does
    <3> HIDE DEF op
    <3>2. Listing(op)
      BY <3>1, OpsAssumption DEF Listing, ListOf
    <3> QED BY <3>2 DEF op
  <2> QED BY <2>1, <2>2, <2>3, <2>4, ApplyAllOnComments
<1>2. /\ work \in Seq(Own) /\ phase = "down" /\ step = "next"
      /\ \A s \in DOMAIN journal : journal[s] \in Own /\ journal[s].opId \notin Lasting
  <2>1. \A op \in AnyOp : [opId |-> NoOpId, op |-> op] \in Own
    BY DEF Own, Entry
  <2>2. \A n \in 1..Len(FirstOps) : FirstOps[n] \in AnyOp
    BY DEF AnyOp, Range
  <2> QED BY <2>1, <2>2 DEF Init, Lasting
<1> QED BY <1>1, <1>2 DEF Durable

(* An actor that starts has what is on disk. *)
LEMMA SpawnDurable == LInv /\ Spawn => Durable'
<1> SUFFICES ASSUME LInv, Spawn PROVE Durable'
  OBVIOUS
<1>1. /\ UNCHANGED <<recs, journal, work, step>> /\ phase' = "recover"
      /\ scene'.objs = recs
  BY DEF Spawn, Cold
<1> QED BY <1>1 DEF LInv, Durable

(* An op the store applies, or refuses, takes nothing from the scene. *)
LEMMA AppliedDurable ==
    ASSUME LInv, phase # "down", NEW op \in AnyOp, NEW s,
           scene'.objs = ApplyLww(scene, op, s).scene.objs
    PROVE  /\ Commented(scene'.objs)
           /\ \A t \in DOMAIN journal : journal[t].opId \in Lasting =>
                Holds(scene'.objs, journal[t].opId)
<1>1. /\ Commented(scene.objs)
      /\ \A t \in DOMAIN journal : journal[t].opId \in Lasting =>
           Holds(scene.objs, journal[t].opId)
  BY DEF LInv, Durable
<1>2. Commented(scene'.objs)
  BY <1>1, LwwComments
<1>3. ASSUME NEW t \in DOMAIN journal, journal[t].opId \in Lasting
      PROVE  Holds(scene'.objs, journal[t].opId)
  BY <1>1, <1>3, LwwHolds
<1> QED BY <1>2, <1>3

(* Recovery replays an entry on what is there already. *)
LEMMA ReplayDurable == LInv /\ Replay => Durable'
<1> SUFFICES ASSUME LInv, Replay PROVE Durable'
  OBVIOUS
<1>1. /\ phase = "recover" /\ phase' = phase /\ step = "next" /\ work = <<>>
      /\ UNCHANGED <<recs, journal>>
  BY DEF Replay
<1>2. PICK s \in DOMAIN journal :
        /\ scene' = ApplyLww(scene, journal[s].op, s).scene
        /\ \/ work' = <<journal[s]>>
           \/ UNCHANGED <<work, step>>
  BY DEF Replay
<1>3. journal[s] \in Own /\ journal[s].op \in AnyOp
  BY DEF LInv, Durable, Own, Entry
<1>4. /\ Commented(scene'.objs)
      /\ \A t \in DOMAIN journal : journal[t].opId \in Lasting =>
           Holds(scene'.objs, journal[t].opId)
  BY <1>1, <1>2, <1>3, AppliedDurable
<1>5. work' \in Seq(Own)
  <2>1. <<journal[s]>> \in Seq(Own) /\ <<>> \in Seq(Own)
    BY <1>3
  <2> QED BY <1>1, <1>2, <2>1
<1> QED BY <1>1, <1>4, <1>5 DEF LInv, Durable

(* A comment the store has applied is in memory before it is journaled. *)
LEMMA ApplyDurable ==
    ASSUME LInv, ApplyRejected \/ ApplyNothing \/ ApplyOp
    PROVE  Durable'
<1>1. Serving /\ UNCHANGED <<recs, journal, phase>>
  BY DEF ApplyRejected, ApplyNothing, ApplyOp
<1>2. phase = "serve" /\ step = "next" /\ work # <<>> /\ work \in Seq(Own)
  BY <1>1 DEF Serving, LInv, Durable
<1>3. Head(work) \in Own /\ Tail(work) \in Seq(Own)
  BY <1>2
<1>4. CASE ApplyRejected
  <2>1. work' = Tail(work) /\ UNCHANGED <<scene, step>>
    BY <1>4 DEF ApplyRejected
  <2> QED BY <1>1, <1>2, <1>3, <2>1 DEF LInv, Durable
<1>5. CASE ApplyNothing \/ ApplyOp
  <2> DEFINE op == Head(work).op
  <2>1. /\ scene' = ApplyLww(scene, op, seq + 1).scene /\ work' = work
        /\ ApplyLww(scene, op, seq + 1).ok
    BY <1>5 DEF ApplyNothing, ApplyOp, HeadApplied
  <2>2. op \in AnyOp /\ (Head(work).opId \in OpId => op = OpOf[Head(work).opId])
    BY <1>3 DEF Own, Entry
  <2>3. /\ Commented(scene'.objs)
        /\ \A t \in DOMAIN journal : journal[t].opId \in Lasting =>
             Holds(scene'.objs, journal[t].opId)
    BY <1>2, <2>1, <2>2, AppliedDurable
  <2>4. Head(work).opId \in Lasting => Holds(scene'.objs, Head(work).opId)
    <3> SUFFICES ASSUME Head(work).opId \in Lasting
                 PROVE  Holds(scene'.objs, Head(work).opId)
      OBVIOUS
    <3>1. seq \in Nat /\ scene.won \in [ObjId \X Field -> Nat]
      BY DEF LInv, RInv, IInv, TypeOK
    <3>2. \A p \in ObjId \X Field : scene.won[p] < seq + 1
      <4>1. \A p \in ObjId \X Field : scene.won[p] <= seq
        BY <1>2 DEF LInv, RInv, IInv, Versions, Stamp
      <4> QED BY <3>1, <4>1
    <3>3. op = OpOf[Head(work).opId]
      BY <2>2 DEF Lasting
    <3>4. Commented(scene.objs)
      BY <1>2 DEF LInv, Durable
    <3> HIDE DEF op
    <3>5. seq + 1 \in Nat
      BY <3>1
    <3> QED BY <2>1, <3>1, <3>2, <3>3, <3>4, <3>5, LwwAdds
  <2> QED BY <1>1, <1>2, <2>1, <2>3, <2>4 DEF LInv, Durable
<1> QED BY <1>4, <1>5

(* Writing what is in memory takes nothing from the disk. *)
LEMMA WriteDurable ==
    ASSUME LInv, WriteObject \/ WriteMeta
    PROVE  Durable'
<1>1. step = "write" /\ phase # "down" /\ UNCHANGED <<phase, scene, journal>>
  BY DEF LInv, RInv, IInv, Control, WriteObject, WriteMeta
<1>2. CASE WriteObject
  <2> DEFINE w == Head(todo)
  <2>1. recs' = Written(w) /\ UNCHANGED <<work, step>>
    BY <1>2 DEF WriteObject
  <2> HIDE DEF w
  <2>2. /\ Commented(scene.objs) /\ Commented(recs)
        /\ \A t \in DOMAIN journal : journal[t].opId \in Lasting =>
             Holds(scene.objs, journal[t].opId) /\ Holds(recs, journal[t].opId)
    BY <1>1 DEF LInv, Durable
  <2>3. CASE w \in DOMAIN scene.objs
    <3>1. recs' = [p \in DOMAIN recs \cup {w} |->
                     IF p = w THEN scene.objs[w] ELSE recs[p]]
      BY <2>1, <2>3 DEF Written, With
    <3>2. Commented(recs')
      BY <2>2, <2>3, <3>1 DEF Commented
    <3>3. \A t \in DOMAIN journal : journal[t].opId \in Lasting =>
             Holds(recs', journal[t].opId)
      BY <2>2, <2>3, <3>1 DEF Holds
    <3> QED BY <1>1, <2>1, <3>2, <3>3 DEF LInv, Durable
  <2>4. CASE w \notin DOMAIN scene.objs
    <3>1. recs' = [p \in DOMAIN recs \ {w} |-> recs[p]]
      BY <2>1, <2>4 DEF Written, Restrict
    <3>2. Commented(recs')
      BY <2>2, <3>1 DEF Commented
    <3>3. ASSUME NEW t \in DOMAIN journal, journal[t].opId \in Lasting
          PROVE  Holds(recs', journal[t].opId)
      <4>1. OpOf[journal[t].opId].id # w
        BY <2>2, <2>4, <3>3 DEF Holds
      <4>2. Holds(recs, journal[t].opId)
        BY <2>2, <3>3
      <4> QED BY <3>1, <4>1, <4>2 DEF Holds
    <3> QED BY <1>1, <2>1, <3>2, <3>3 DEF LInv, Durable
  <2> QED BY <2>3, <2>4
<1>3. CASE WriteMeta
  <2>1. /\ recs' = recs
        /\ \/ work' = <<>> /\ step' = "next"
           \/ UNCHANGED work
    BY <1>3 DEF WriteMeta
  <2>2. work \in Seq(Own) /\ <<>> \in Seq(Own)
    BY DEF LInv, Durable
  <2>3. work' \in Seq(Own)
    BY <2>1, <2>2
  <2>4. step' # "next" => work' = work
    BY <2>1
  <2> QED BY <1>1, <2>1, <2>3, <2>4 DEF LInv, Durable
<1> QED BY <1>2, <1>3

(* What is journaled is written. *)
LEMMA JournalDurable == LInv /\ Journal => Durable'
<1> SUFFICES ASSUME LInv, Journal PROVE Durable'
  OBVIOUS
<1> DEFINE e == Head(work)
<1>1. /\ step = "journal" /\ phase = "serve" /\ work # <<>>
      /\ step' = "next" /\ UNCHANGED <<recs, scene, phase>> /\ work' = Tail(work)
  BY DEF Journal, LInv, RInv, IInv, Control
<1>2. /\ DOMAIN journal' = DOMAIN journal \cup {seq + 1}
      /\ \A s \in DOMAIN journal : journal'[s] = journal[s]
      /\ journal'[seq + 1] = e
  BY JournalExtends DEF LInv, RInv
<1>3. e \in Own /\ Tail(work) \in Seq(Own)
  <2>1. work \in Seq(Own)
    BY DEF LInv, Durable
  <2> QED BY <1>1, <2>1
<1> HIDE DEF e
<1>4. e.opId \in Lasting => Holds(scene.objs, e.opId) /\ Holds(recs, e.opId)
  <2> SUFFICES ASSUME e.opId \in Lasting
               PROVE  Holds(scene.objs, e.opId) /\ Holds(recs, e.opId)
    OBVIOUS
  <2> DEFINE w == OpOf[e.opId].id
  <2>1. Holds(scene.objs, e.opId)
    BY <1>1 DEF LInv, Durable, e
  <2>2. Alike(recs, scene.objs, w)
    BY <1>1, StoredIs DEF LInv, RInv, Unsaved
  <2>3. w \in DOMAIN scene.objs /\ w \in DOMAIN recs
    BY <2>1, <2>2 DEF Holds, Alike
  <2>4. "comments" \in DOMAIN scene.objs[w] /\ "comments" \in DOMAIN recs[w]
    BY <1>1, <2>3 DEF LInv, Durable, Commented
  <2>5. Bare(recs[w]) = Bare(scene.objs[w])
    BY <2>2, <2>3 DEF Alike
  <2>6. recs[w].comments = scene.objs[w].comments
    <3>1. \A object : "comments" \in DOMAIN object => Bare(object).comments = object.comments
      BY DEF Bare
    <3> HIDE DEF w
    <3> QED BY <2>4, <2>5, <3>1
  <2> QED BY <2>1, <2>3, <2>6 DEF Holds
<1>5. ASSUME NEW s \in DOMAIN journal'
      PROVE  /\ journal'[s] \in Own
             /\ journal'[s].opId \in Lasting =>
                  Holds(recs, journal'[s].opId) /\ Holds(scene.objs, journal'[s].opId)
  <2>1. CASE s = seq + 1
    BY <1>2, <1>3, <1>4, <2>1
  <2>2. CASE s \in DOMAIN journal
    BY <1>1, <1>2, <2>2 DEF LInv, Durable
  <2> QED BY <1>2, <2>1, <2>2
<1> QED BY <1>1, <1>3, <1>5 DEF LInv, Durable

(* Every step keeps what is journaled on disk and in memory. *)
LEMMA NextDurable ==
    ASSUME LInv, [Next]_vars
    PROVE  Durable'
<1>1. CASE Spawn \/ Replay
  BY <1>1, SpawnDurable, ReplayDurable
<1>2. CASE ApplyRejected \/ ApplyNothing \/ ApplyOp
  BY <1>2, ApplyDurable
<1>3. CASE WriteObject \/ WriteMeta
  BY <1>3, WriteDurable
<1>4. CASE Journal
  BY <1>4, JournalDurable
<1>5. CASE Shutdown \/ Crash
  <2>1. /\ UNCHANGED <<recs, journal>> /\ phase' = "down" /\ step' = "next"
        /\ work' = <<>>
    BY <1>5 DEF Shutdown, Crash, Stop
  <2> QED BY <2>1 DEF LInv, Durable
<1>6. CASE Recovered \/ \E id \in OpId : SubmitSeen(id)
  <2>1. /\ UNCHANGED <<recs, journal, scene, step, work>> /\ phase # "down"
        /\ step = "next"
    BY <1>6 DEF Recovered, SubmitSeen, Idle
  <2> QED BY <2>1 DEF LInv, Durable
<1>7. CASE \/ \E id \in OpId : SubmitNew(id)
           \/ \E ops \in Features : Feature(ops)
  <2>1. UNCHANGED <<recs, journal, scene, step, phase>> /\ step = "next"
    BY <1>7 DEF SubmitNew, Feature, Idle
  <2>2. work' \in Seq(Own)
    <3>1. CASE \E id \in OpId : SubmitNew(id)
      <4>1. PICK id \in OpId : work' = <<[opId |-> id, op |-> OpOf[id]]>>
        BY <3>1 DEF SubmitNew
      <4>2. [opId |-> id, op |-> OpOf[id]] \in Own
        BY DEF Own, Entry, AnyOp
      <4> QED BY <4>1, <4>2
    <3>2. CASE \E ops \in Features : Feature(ops)
      <4>1. PICK ops \in Features :
              work' = [n \in DOMAIN ops |-> [opId |-> NoOpId, op |-> ops[n]]]
        BY <3>2 DEF Feature
      <4>2. ops \in Seq(Range(ops)) /\ \A n \in DOMAIN ops : ops[n] \in AnyOp
        BY DEF AnyOp, Range
      <4>3. \A n \in DOMAIN ops : [opId |-> NoOpId, op |-> ops[n]] \in Own
        BY <4>2 DEF Own, Entry
      <4>4. Len(ops) \in Nat /\ DOMAIN ops = 1..Len(ops)
        BY <4>2
      <4> QED BY <4>1, <4>3, <4>4
    <3> QED BY <1>7, <3>1, <3>2
  <2> QED BY <2>1, <2>2 DEF LInv, Durable
<1>8. CASE UNCHANGED vars
  BY <1>8 DEF vars, LInv, Durable
<1> QED BY <1>1, <1>2, <1>3, <1>4, <1>5, <1>6, <1>7, <1>8 DEF Next

(* What a client was told is done is never lost: a comment whose op was once
   acknowledged is in the scene of every actor that comes after, wherever
   the ones before it ended, as long as no op takes comments from its object
   (handle_apply journals before it answers, ObjectStore::apply writes the
   objects before that).                                                   *)
THEOREM CommentsLast == Spec => []AckedCommentKept
<1>1. Init => LInv
  BY InitIInv, InitStored, InitDurable DEF RInv, LInv
<1>2. LInv /\ [Next]_vars => LInv'
  <2> SUFFICES ASSUME LInv, [Next]_vars PROVE LInv'
    OBVIOUS
  <2>1. RInv'
    BY NextIInv, NextStored DEF RInv, LInv
  <2> QED BY <2>1, NextDurable DEF LInv
<1>3. LInv => AckedCommentKept
  <2> SUFFICES ASSUME LInv, Idle, NEW a \in acks,
                      OpOf[a.opId].kind = "add-comment", Lasts(OpOf[a.opId].id)
               PROVE  Holds(scene.objs, a.opId)
    BY DEF AckedCommentKept, Holds
  <2>1. a.opId \in OpId /\ a.seq \in DOMAIN journal /\ journal[a.seq].opId = a.opId
    BY DEF LInv, RInv, IInv, TypeOK, AckNamesEntry
  <2>2. a.opId \in Lasting
    BY <2>1 DEF Lasting
  <2> QED BY <2>1, <2>2 DEF LInv, Durable, Idle
<1> QED BY <1>1, <1>2, <1>3, PTL DEF Spec

=============================================================================
