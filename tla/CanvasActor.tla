---------------------------- MODULE CanvasActor -----------------------------
(***************************************************************************)
(* One canvas across the lives of its actor: canvas_actor.rs driving       *)
(* ObjectStore (object_store.rs) and DedupTable (sync.rs) over a store     *)
(* that outlives the actor.                                                *)
(*                                                                         *)
(* A command is served to its end before the next is taken, but what it    *)
(* writes it writes one record at a time: each object of target_ids, the   *)
(* canvas meta, the journal entry.  The process may end between any two    *)
(* of these, and the next actor recovers from whatever is there.           *)
(*                                                                         *)
(* A client resends an op (same opId, same op) until it is answered, and   *)
(* may do so at any time, after an answer as well: the answer may have     *)
(* been lost.                                                              *)
(***************************************************************************)
EXTENDS ObjectOps, Functions

CONSTANTS OpId,         \* opIds the clients use
          OpOf,         \* the op each opId stands for
          NoOpId,       \* the opId of a bare op
          Features,     \* op sequences Feature and ApplyOp commands lower to
          FirstOps,     \* ops journaled and written through before the start
          MaxSeen,      \* MAX_SEEN_OPS
          MaxSeq,       \* bound: the sequence numbers
          MaxCrashes    \* bound: how often the process ends in mid-command

ASSUME OpIdAssumption == NoOpId \notin OpId
ASSUME BoundsAssumption == /\ MaxSeen \in Nat \ {0}
                           /\ MaxSeq \in Nat /\ MaxCrashes \in Nat
                           /\ FirstOps \in Seq(Range(FirstOps))
                           /\ \A ops \in Features : ops \in Seq(Range(ops))

(* Every op that any command brings. *)
AnyOp == {OpOf[id] : id \in OpId} \cup Range(FirstOps)
         \cup (UNION {Range(ops) : ops \in Features})

ASSUME BatchAssumption ==
    \A op \in AnyOp : op.kind = "batch" => op.ops \in Seq(Range(op.ops))
ASSUME OpsAssumption ==
    \A op \in AnyOp : \A p \in Does(op) :
        /\ p.id \in ObjId
        /\ p.kind = "insert" =>
             /\ "comments" \in DOMAIN p.object
             /\ p.object.comments \in Seq(Range(p.object.comments))
        /\ p.kind = "set-comments" => p.value \in Seq(Range(p.value))

VARIABLES
    recs,     \* disk: the object records
    meta,     \* disk: scene_version of the canvas meta, 0 when there is none
    journal,  \* disk: the journal, seq -> [opId, op]
    phase,    \* "down", "recover" or "serve"
    step,     \* "next" op, "write" its records, or "journal" it
    scene,    \* the working set's scene and PropertyStore
    seq,      \* the last sequence number; recovering, the last one replayed
    seen,     \* DedupTable: opId -> ack.  Acks are recorded in ascending seq,
              \* so its queue's order is the order of their seq
    work,     \* the ops of the command being served, or the entry replayed
    todo,     \* the objects still to be written
    acks,     \* history: every ack a client was given
    crashes   \* how often the process ended in mid-command

disk == <<recs, meta, journal>>
vars == <<recs, meta, journal, phase, step, scene, seq, seen, work, todo, acks,
          crashes>>

Unwon == [p \in ObjId \X Field |-> 0]
Cold(objs, version) == [objs |-> objs, version |-> version, won |-> Unwon]
NoObjects == [o \in {} |-> o]

Init ==
    /\ recs = ApplyAll(NoObjects, FirstOps).objs
    /\ meta = Len(FirstOps)
    /\ journal = [n \in 1..Len(FirstOps) |-> [opId |-> NoOpId, op |-> FirstOps[n]]]
    /\ phase = "down" /\ step = "next"
    /\ scene = Cold(NoObjects, 0) /\ seq = 0 /\ seen = NoObjects
    /\ work = <<>> /\ todo = <<>>
    /\ acks = {} /\ crashes = 0

Idle == phase = "serve" /\ step = "next" /\ work = <<>>

-----------------------------------------------------------------------------

(* DedupTable::record: keeps the first ack of an id; past MaxSeen the oldest
   goes.                                                                   *)
Record(table, id, ack) ==
    IF id \in DOMAIN table THEN table
    ELSE LET t == [i \in DOMAIN table \cup {id} |->
                     IF i = id THEN ack ELSE table[i]]
             oldest == {i \in DOMAIN t : \A k \in DOMAIN t : t[i].seq <= t[k].seq}
         IN  IF Cardinality(DOMAIN t) <= MaxSeen THEN t
             ELSE Restrict(t, DOMAIN t \ oldest)

(* The last MaxSeen entries of the journal. *)
Suffix == {s \in DOMAIN journal :
             Cardinality({t \in DOMAIN journal : s <= t}) <= MaxSeen}

M_RebuiltEmpty == NoObjects
M_RebuiltWithBare ==
    [id \in {journal[s].opId : s \in Suffix} |->
        LET first == CHOOSE s \in Suffix : journal[s].opId = id
        IN  [seq |-> first, revision |-> first]]

(* rebuild_dedup_from_suffix: revision is the entry's seq. *)
Rebuilt ==
    LET entries(id) == {s \in Suffix : journal[s].opId = id} IN
    [id \in {i \in OpId : entries(i) # {}} |->
        LET first == CHOOSE s \in entries(id) : \A t \in entries(id) : s <= t
        IN  [seq |-> first, revision |-> first]]

-----------------------------------------------------------------------------

(* CanvasActor::spawn, up to the replay: the scene is loaded from the records
   and the meta.                                                           *)
Spawn ==
    /\ phase = "down"
    /\ phase' = "recover"
    /\ scene' = Cold(recs, meta)
    /\ seq' = meta
    /\ UNCHANGED <<recs, meta, journal, step, seen, work, todo, acks, crashes>>

(* recover_durable_state takes up the next entry past the loaded revision. *)
Replay ==
    /\ phase = "recover" /\ step = "next" /\ work = <<>>
    /\ \E s \in DOMAIN journal :
         /\ s > seq
         /\ \A t \in DOMAIN journal : t > seq => s <= t
         /\ seq' = s
         /\ LET r == ApplyLww(scene, journal[s].op, s) IN
            /\ scene' = r.scene
            /\ IF r.ok /\ ~r.noop
               THEN /\ work' = <<journal[s]>>
                    /\ todo' = TargetIds(journal[s].op) /\ step' = "write"
               ELSE UNCHANGED <<work, todo, step>>
    /\ UNCHANGED <<recs, meta, journal, phase, seen, acks, crashes>>

M_RecoveredFromMeta == scene.version

(* The greatest seq journaled, or the revision loaded if that is greater. *)
RecoveredSeq ==
    CHOOSE s \in DOMAIN journal \cup {seq} :
        \A t \in DOMAIN journal \cup {seq} : t <= s

Recovered ==
    /\ phase = "recover" /\ step = "next" /\ work = <<>>
    /\ \A s \in DOMAIN journal : s <= seq
    /\ phase' = "serve"
    /\ seq' = RecoveredSeq
    /\ seen' = Rebuilt
    /\ UNCHANGED <<recs, meta, journal, step, scene, work, todo, acks, crashes>>

-----------------------------------------------------------------------------

(* handle_apply_envelope *)
SubmitSeen(id) ==
    /\ Idle
    /\ id \in DOMAIN seen
    /\ acks' = acks \cup {[opId |-> id, seq |-> seen[id].seq,
                           revision |-> seen[id].revision]}
    /\ UNCHANGED <<recs, meta, journal, phase, step, scene, seq, seen, work,
                   todo, crashes>>

SubmitNew(id) ==
    /\ Idle
    /\ id \notin DOMAIN seen
    /\ seq < MaxSeq
    /\ work' = <<[opId |-> id, op |-> OpOf[id]]>>
    /\ UNCHANGED <<recs, meta, journal, phase, step, scene, seq, seen, todo,
                   acks, crashes>>

(* handle_feature, and an ApplyOp as a sequence of one: bare ops. *)
Feature(ops) ==
    /\ Idle
    /\ seq + Len(ops) <= MaxSeq
    /\ work' = [n \in DOMAIN ops |-> [opId |-> NoOpId, op |-> ops[n]]]
    /\ UNCHANGED <<recs, meta, journal, phase, step, scene, seq, seen, todo,
                   acks, crashes>>

(* handle_apply asks the store to apply the head of the work. *)
Serving == phase = "serve" /\ step = "next" /\ work # <<>>
HeadApplied == ApplyLww(scene, Head(work).op, seq + 1)

ApplyRejected ==
    /\ Serving
    /\ ~HeadApplied.ok
    /\ work' = Tail(work)
    /\ UNCHANGED <<recs, meta, journal, phase, step, scene, seq, seen, todo,
                   acks, crashes>>

ApplyNothing ==
    /\ Serving
    /\ HeadApplied.ok /\ HeadApplied.noop
    /\ scene' = HeadApplied.scene
    /\ step' = "journal"
    /\ UNCHANGED <<recs, meta, journal, phase, seq, seen, work, todo, acks,
                   crashes>>

ApplyOp ==
    /\ Serving
    /\ HeadApplied.ok /\ ~HeadApplied.noop
    /\ scene' = HeadApplied.scene
    /\ todo' = TargetIds(Head(work).op)
    /\ step' = "write"
    /\ UNCHANGED <<recs, meta, journal, phase, seq, seen, work, acks, crashes>>

(* The store then saves each object touched, or deletes its record. *)
M_WriteOnlyNew(id) ==
    IF id \notin DOMAIN recs /\ id \in DOMAIN scene.objs
    THEN With(recs, id, scene.objs[id]) ELSE recs
M_WriteNoDelete(id) ==
    IF id \in DOMAIN scene.objs THEN With(recs, id, scene.objs[id]) ELSE recs

Written(id) ==
    IF id \in DOMAIN scene.objs THEN With(recs, id, scene.objs[id])
    ELSE Restrict(recs, DOMAIN recs \ {id})

WriteObject ==
    /\ step = "write" /\ todo # <<>>
    /\ recs' = Written(Head(todo))
    /\ todo' = Tail(todo)
    /\ UNCHANGED <<meta, journal, phase, step, scene, seq, seen, work, acks,
                   crashes>>

(* save_meta ends the store's apply.  Replay has nothing more to do. *)
WriteMeta ==
    /\ step = "write" /\ todo = <<>>
    /\ meta' = scene.version
    /\ IF phase = "recover" THEN step' = "next" /\ work' = <<>>
                            ELSE step' = "journal" /\ UNCHANGED work
    /\ UNCHANGED <<recs, journal, phase, scene, seq, seen, todo, acks, crashes>>

(* The rest of handle_apply: journal, then record the ack and give it.  The
   client of a bare op has no ack to keep.                                 *)
Journal ==
    LET e == Head(work)
        ack == [seq |-> seq + 1, revision |-> scene.version]
    IN
    /\ step = "journal"
    /\ seq' = seq + 1
    /\ journal' = With(journal, seq + 1, e)
    /\ IF e.opId = NoOpId THEN UNCHANGED <<seen, acks>>
       ELSE /\ seen' = Record(seen, e.opId, ack)
            /\ acks' = acks \cup {[opId |-> e.opId, seq |-> ack.seq,
                                   revision |-> ack.revision]}
    /\ work' = Tail(work)
    /\ step' = "next"
    /\ UNCHANGED <<recs, meta, phase, scene, todo, crashes>>

-----------------------------------------------------------------------------

Stop ==
    /\ phase' = "down" /\ step' = "next"
    /\ scene' = Cold(NoObjects, 0) /\ seq' = 0 /\ seen' = NoObjects
    /\ work' = <<>> /\ todo' = <<>>
    /\ UNCHANGED <<recs, meta, journal, acks>>

(* The Shutdown command, between two others. *)
Shutdown == Idle /\ Stop /\ UNCHANGED crashes

(* The process ends in the middle of a command or of a recovery. *)
Crash ==
    /\ phase # "down" /\ ~Idle
    /\ crashes < MaxCrashes
    /\ crashes' = crashes + 1
    /\ Stop

Next ==
    \/ Spawn \/ Replay \/ Recovered
    \/ \E id \in OpId : SubmitSeen(id) \/ SubmitNew(id)
    \/ \E ops \in Features : Feature(ops)
    \/ ApplyRejected \/ ApplyNothing \/ ApplyOp
    \/ WriteObject \/ WriteMeta \/ Journal
    \/ Shutdown \/ Crash

Spec == Init /\ [][Next]_vars

-----------------------------------------------------------------------------

Ack == [seq : Nat, revision : Nat]

(* The ranges of the variables. *)
TypeOK ==
    /\ meta \in Nat /\ seq \in Nat /\ crashes \in Nat
    /\ DOMAIN journal \subseteq Nat \ {0}
    /\ \A s \in DOMAIN journal : journal[s].opId \in OpId \cup {NoOpId}
    /\ phase \in {"down", "recover", "serve"}
    /\ step \in {"next", "write", "journal"}
    /\ scene.version \in Nat /\ scene.won \in [ObjId \X Field -> Nat]
    /\ DOMAIN seen \subseteq OpId
    /\ \A id \in DOMAIN seen : seen[id] \in Ack
    /\ \A n \in DOMAIN work : work[n].opId \in OpId \cup {NoOpId}
    /\ acks \subseteq [opId : OpId, seq : Nat, revision : Nat]

(* The journal is append-only: no step overwrites or drops an entry, so the
   seq an actor stamps after any number of crashes and recoveries is one no
   earlier actor of the canvas has used (handle_apply saves under
   `<canvas>:journal:<seq>', which would silently replace the old entry).  *)
JournalAppendOnly ==
    [][\A s \in DOMAIN journal :
         s \in DOMAIN journal' /\ journal'[s] = journal[s]]_vars

(* An ack is for good: whatever ack a client was ever given for its opId, by
   this actor or an earlier one, fresh or from the DedupTable, names a
   journal entry of that very op.                                          *)
AckNamesEntry ==
    \A a \in acks : a.seq \in DOMAIN journal /\ journal[a.seq].opId = a.opId

(* recover_durable_state skips the entries up to the revision it loads, and
   handle_apply stamps seq + 1: both are right only while no revision runs
   ahead of the seq, the stored one never ahead of the one in memory, and no
   journal entry is past the seq.                                          *)
RevisionWithinSeq ==
    Idle => /\ meta <= scene.version
            /\ scene.version <= seq
            /\ \A s \in DOMAIN journal : s <= seq

(* The last arrival wins: no property was ever won by a seq that the actor
   is still to stamp, so apply_object_op_lww never discards an op the actor
   accepts, not even right after a replay.                                 *)
LastArrivalWins == Idle => \A p \in ObjId \X Field : scene.won[p] <= seq

(* A resend is answered with the seq of the first answer, also by an actor
   that recovered in between.  Only an op that MaxSeen others have pushed
   out of the DedupTable is taken for a new one.                           *)
OriginalAck ==
    \A a, b \in acks : a.opId = b.opId /\ a.seq < b.seq =>
        MaxSeen <= Cardinality({s \in DOMAIN journal : a.seq < s /\ s < b.seq})

IgnoringAnchors(objs) ==
    [o \in DOMAIN objs |-> [objs[o] EXCEPT !.anchors = {}]]

(* Between commands the records are the objects in memory, anchors aside:
   an actor that starts now has the same objects as the one that ran.      *)
ReloadKeepsObjects ==
    Idle => IgnoringAnchors(recs) = IgnoringAnchors(scene.objs)

(* No op deletes o or puts other comments in place of its. *)
Lasts(o) ==
    \A op \in AnyOp : \A p \in Does(op) :
        p.id = o => p.kind \notin {"delete", "set-comments"}

(* An acknowledged comment is in the scene of every later actor, on an
   object from which no op takes comments.                                 *)
AckedCommentKept ==
    Idle => \A a \in acks :
              LET op == OpOf[a.opId] IN
              op.kind = "add-comment" /\ Lasts(op.id) =>
                /\ op.id \in DOMAIN scene.objs
                /\ op.value \in Range(scene.objs[op.id].comments)

=============================================================================
