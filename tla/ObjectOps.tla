----------------------------- MODULE ObjectOps ------------------------------
(***************************************************************************)
(* The object operations of scene-core (object/kernel/apply.rs, op.rs) as  *)
(* functions of a scene's objects.  A scene's objects are a function from  *)
(* the ids present to objects; the vector's order is not kept (records are *)
(* reloaded id-sorted, drawing follows `order').                           *)
(*                                                                         *)
(* Of an object the model keeps                                            *)
(*   prop     any property that is written blindly: geometry, transform,   *)
(*            fill, stroke, layout, clip, sizing, name, hidden, locked,    *)
(*            tags, order                                                  *)
(*   text     which a write of the same value leaves alone                 *)
(*   anchors  the ids its anchors target                                   *)
(*   parent   an id, or NoParent                                           *)
(*   comments the comments, in order                                       *)
(* Canonicalize, Split and Merge rewrite geometry and are not in this      *)
(* module.                                                                 *)
(***************************************************************************)
EXTENDS Naturals, SequencesExt

CONSTANTS ObjId, NoParent

Insert(id, object) == [kind |-> "insert", id |-> id, object |-> object]
Delete(id) == [kind |-> "delete", id |-> id]
SetProp(id, v) == [kind |-> "set-prop", id |-> id, value |-> v]
SetText(id, v) == [kind |-> "set-text", id |-> id, value |-> v]
SetAnchor(id, targets) == [kind |-> "set-anchor", id |-> id, anchors |-> targets]
AddComment(id, c) == [kind |-> "add-comment", id |-> id, value |-> c]
SetComments(id, cs) == [kind |-> "set-comments", id |-> id, value |-> cs]
Reparent(id, p) == [kind |-> "reparent", id |-> id, parent |-> p]
Batch(ops) == [kind |-> "batch", ops |-> ops]

NoOp == Batch(<<>>)

(* An op is one thing to do, or a Batch of them. *)
Does(op) == IF op.kind = "batch" THEN Range(op.ops) ELSE {op}

Object(v) == [prop |-> v, text |-> v, anchors |-> {}, parent |-> NoParent,
              comments |-> <<>>]

-----------------------------------------------------------------------------

(* The id n steps up the parent chain from p, NoParent past its end.  An id
   that is not in the scene ends the chain.                                *)
Ancestor(objs, p, n) ==
    LET up[k \in 0..n] ==
          IF k = 0 THEN p
          ELSE IF up[k - 1] \in DOMAIN objs THEN objs[up[k - 1]].parent
          ELSE NoParent
    IN up[n]

(* would_cycle: id is p or above it, or the chain is longer than the scene. *)
WouldCycle(objs, id, p) ==
    LET bound == Cardinality(DOMAIN objs) + 1 IN
    \/ \E n \in 0..bound : Ancestor(objs, p, n) = id
    \/ Ancestor(objs, p, bound) # NoParent

(* The checks of apply_inner that make it return an error. *)
Accepts(objs, op) ==
    \/ op.kind = "insert" /\ op.id \notin DOMAIN objs
    \/ op.kind \in {"delete", "set-prop", "set-text", "add-comment",
                    "set-comments"} /\ op.id \in DOMAIN objs
    \/ op.kind = "set-anchor"
    \/ /\ op.kind = "reparent" /\ op.id \in DOMAIN objs
       /\ op.parent = NoParent \/ ~WouldCycle(objs, op.id, op.parent)

(* Ops that degrade to nothing, with an empty Batch as inverse. *)
Degrades(objs, op) ==
    \/ op.kind = "set-text" /\ objs[op.id].text = op.value
    \/ op.kind = "set-anchor" /\ op.id \notin DOMAIN objs

Peers(objs, id) == {p \in DOMAIN objs \ {id} : id \in objs[p].anchors}

Without(objs, id) ==
    [p \in DOMAIN objs \ {id} |-> [objs[p] EXCEPT !.anchors = @ \ {id}]]

With(objs, id, object) ==
    [p \in DOMAIN objs \cup {id} |-> IF p = id THEN object ELSE objs[p]]

(* What one op that is accepted and does not degrade does to the objects. *)
Effect(objs, op) ==
    CASE op.kind = "insert" -> With(objs, op.id, op.object)
      [] op.kind = "delete" -> Without(objs, op.id)
      [] op.kind = "set-prop" -> [objs EXCEPT ![op.id].prop = op.value]
      [] op.kind = "set-text" -> [objs EXCEPT ![op.id].text = op.value]
      [] op.kind = "set-anchor" ->
           [objs EXCEPT ![op.id].anchors = op.anchors \cap DOMAIN objs]
      [] op.kind = "add-comment" ->
           [objs EXCEPT ![op.id].comments = Append(@, op.value)]
      [] op.kind = "set-comments" -> [objs EXCEPT ![op.id].comments = op.value]
      [] op.kind = "reparent" -> [objs EXCEPT ![op.id].parent = op.parent]

(* The inverse such an op returns, as the list of ops of a Batch. *)
M_InverseNoPeers(objs, op) ==
    CASE op.kind = "insert" -> <<Delete(op.id)>>
      [] op.kind = "delete" -> <<Insert(op.id, objs[op.id])>>
      [] op.kind = "set-prop" -> <<SetProp(op.id, objs[op.id].prop)>>
      [] op.kind = "set-text" -> <<SetText(op.id, objs[op.id].text)>>
      [] op.kind = "set-anchor" -> <<SetAnchor(op.id, objs[op.id].anchors)>>
      [] op.kind \in {"add-comment", "set-comments"} ->
           <<SetComments(op.id, objs[op.id].comments)>>
      [] op.kind = "reparent" -> <<Reparent(op.id, objs[op.id].parent)>>

InverseOps(objs, op) ==
    CASE op.kind = "insert" -> <<Delete(op.id)>>
      [] op.kind = "delete" ->
           <<Insert(op.id, objs[op.id])>>
           \o SetToSeq({SetAnchor(p, objs[p].anchors) : p \in Peers(objs, op.id)})
      [] op.kind = "set-prop" -> <<SetProp(op.id, objs[op.id].prop)>>
      [] op.kind = "set-text" -> <<SetText(op.id, objs[op.id].text)>>
      [] op.kind = "set-anchor" -> <<SetAnchor(op.id, objs[op.id].anchors)>>
      [] op.kind \in {"add-comment", "set-comments"} ->
           <<SetComments(op.id, objs[op.id].comments)>>
      [] op.kind = "reparent" -> <<Reparent(op.id, objs[op.id].parent)>>

-----------------------------------------------------------------------------

(* apply_inner on a Batch: on a clone, every op or none; the inverses are
   collected last first.  A Batch inside a Batch is the same list of ops.  *)
ApplyOne(acc, op) ==
    IF ~acc.ok \/ ~Accepts(acc.objs, op) THEN [acc EXCEPT !.ok = FALSE]
    ELSE IF Degrades(acc.objs, op) THEN acc
    ELSE [ok |-> TRUE, objs |-> Effect(acc.objs, op),
          inverse |-> InverseOps(acc.objs, op) \o acc.inverse]

ApplyAll(objs, ops) ==
    FoldLeft(ApplyOne, [ok |-> TRUE, objs |-> objs, inverse |-> <<>>], ops)

(* apply_object_op: ok, the objects after, the inverse, and whether that is
   the empty Batch the store and the undo stack take for "nothing happened". *)
Apply(objs, op) ==
    LET ops == IF op.kind = "batch" THEN op.ops ELSE <<op>>
        r == ApplyAll(objs, ops)
    IN  [ok |-> r.ok,
         objs |-> IF r.ok THEN r.objs ELSE objs,
         inverse |-> Batch(r.inverse),
         noop |-> r.ok /\ IF op.kind = "batch" THEN ops = <<>>
                          ELSE r.inverse = <<>>]

(* ObjectOp::target_ids: the objects the store persists after the op. *)
TargetIds(op) ==
    LET of(o) == CASE o.kind = "insert" /\ o.object.parent # NoParent ->
                        <<o.id, o.object.parent>>
                   [] o.kind = "reparent" /\ o.parent # NoParent ->
                        <<o.id, o.parent>>
                   [] OTHER -> <<o.id>>
    IN  IF op.kind = "batch"
        THEN FlattenSeq([n \in DOMAIN op.ops |-> of(op.ops[n])])
        ELSE of(op)

-----------------------------------------------------------------------------

Field == {"prop", "text", "anchors", "comments", "parent"}

(* touched_properties: what the last-writer-wins gate compares.  Structural
   ops touch nothing and always apply.                                     *)
Touches(op) ==
    CASE op.kind = "set-prop" -> {<<op.id, "prop">>}
      [] op.kind = "set-text" -> {<<op.id, "text">>}
      [] op.kind = "set-anchor" -> {<<op.id, "anchors">>}
      [] op.kind \in {"add-comment", "set-comments"} -> {<<op.id, "comments">>}
      [] op.kind = "reparent" -> {<<op.id, "parent">>}
      [] op.kind \in {"insert", "delete", "batch"} -> {}

(* apply_object_op_lww on a working scene: its objects, its version and, per
   property, the sequence number that last won it (0: none has).           *)
ApplyLww(scene, op, seq) ==
    LET r == Apply(scene.objs, op)
        stale == \E p \in Touches(op) : seq <= scene.won[p]
        won == [p \in DOMAIN scene.won |->
                  IF p \in Touches(op) THEN seq ELSE scene.won[p]]
    IN  IF stale THEN [ok |-> TRUE, noop |-> TRUE, scene |-> scene]
        ELSE IF ~r.ok THEN [ok |-> FALSE, noop |-> FALSE, scene |-> scene]
        ELSE [ok |-> TRUE, noop |-> r.noop,
              scene |-> [objs |-> r.objs, version |-> scene.version + 1,
                         won |-> won]]

=============================================================================
