--------------------------- MODULE SceneStructure ---------------------------
(***************************************************************************)
(* The structural operations of scene-core on a whole scene: Split, Merge, *)
(* Canonicalize, Reparent and the Batches that grouping and z-order author *)
(* (object/kernel/apply.rs, object/binding/grouping.rs, fractional.rs),    *)
(* with the inverses apply_object_op returns.  ObjectOps has the writes of *)
(* one property.                                                           *)
(*                                                                         *)
(* Of an object the model keeps                                            *)
(*   contours  its contours, in order, each [name, nodes], a name and a    *)
(*             number of nodes                                             *)
(*   space     the local space its geometry is written in: "tilted" until  *)
(*             Canonicalize makes it "upright"                             *)
(*   anchors   in order, each [node, target, at]; `at', a local point of   *)
(*             the target, is known by the space it is written in          *)
(*   parent    an id, or NoParent                                          *)
(*   order     its order key                                               *)
(* Ids are numbers: 0 is no id, and their order is the one ties take.      *)
(***************************************************************************)
EXTENDS OrderKeys, FiniteSetsExt

CONSTANTS MaxId,      \* bound on the ids
          Starts,     \* the initial scenes, each with a menu of edits
          MaxEdits    \* bound on the edits of a behaviour

ASSUME BoundAssumption == MaxId \in Nat /\ MaxEdits \in Nat

VARIABLES objects,    \* id -> object
          used,       \* the ids that were ever given
          menu,       \* the kinds of edits this behaviour makes
          edits       \* the number of edits made

vars == <<objects, used, menu, edits>>

NoParent == 0
Id == 1..MaxId

-----------------------------------------------------------------------------
(* Ops *)

Insert(id, object) == [kind |-> "insert", id |-> id, object |-> object]
Delete(id) == [kind |-> "delete", id |-> id]
SetShape(id, contours, space) ==      \* EditGeometry, then SetTransform
    [kind |-> "set-shape", id |-> id, contours |-> contours, space |-> space]
SetAnchor(id, anchors) == [kind |-> "set-anchor", id |-> id, anchors |-> anchors]
Reorder(id, order) == [kind |-> "reorder", id |-> id, order |-> order]
Reparent(id, parent, order) ==
    [kind |-> "reparent", id |-> id, parent |-> parent, order |-> order]
Canonicalize(id) == [kind |-> "canonicalize", id |-> id]
Split(id, new_ids, peel) ==
    [kind |-> "split", id |-> id, new_ids |-> new_ids, peel |-> peel]
Merge(ids, into) == [kind |-> "merge", ids |-> ids, into |-> into]

Err == [ok |-> FALSE]
Done(objs, inverse) == [ok |-> TRUE, objs |-> objs, inverse |-> inverse]

-----------------------------------------------------------------------------
(* Flat node indices *)

(* subpath_offsets: the nodes before contour n. *)
Offset(contours, n) ==
    LET sum[m \in 1..n] == IF m = 1 THEN 0 ELSE sum[m - 1] + contours[m - 1].nodes
    IN  sum[n]

NodeCount(contours) == Offset(contours, Len(contours) + 1)

(* The contour that owns a flat index, if any does. *)
OwnersOf(contours, flat) ==
    {n \in DOMAIN contours :
        Offset(contours, n) <= flat /\ flat < Offset(contours, n + 1)}

(* The contour and node an anchor names when its index is one of its
   target's, as apply_split and apply_merge take it to be.                 *)
Named(objs, anchor) ==
    {<<objs[anchor.target].contours[n].name,
       anchor.node - Offset(objs[anchor.target].contours, n)>> :
        n \in OwnersOf(objs[anchor.target].contours, anchor.node)}

AnchoredTo(objs, ids) ==
    {p \in DOMAIN objs : \E n \in DOMAIN objs[p].anchors :
                            objs[p].anchors[n].target \in ids}

(* capture_peer_anchors, as the SetAnchors that restore them. *)
RestoreAnchors(objs, ids) ==
    SetToSeq({SetAnchor(p, objs[p].anchors) : p \in AnchoredTo(objs, ids)})

(* The anchors, in order, whose target is one of `ids'. *)
Retained(anchors, ids) ==
    LET kept[n \in 0..Len(anchors)] ==
          IF n = 0 THEN <<>>
          ELSE IF anchors[n].target \in ids THEN Append(kept[n - 1], anchors[n])
          ELSE kept[n - 1]
    IN  kept[Len(anchors)]

MapAnchors(objs, peers, change(_)) ==
    [p \in DOMAIN objs |->
        IF p \in peers
        THEN [objs[p] EXCEPT !.anchors = [n \in DOMAIN @ |-> change(@[n])]]
        ELSE objs[p]]

-----------------------------------------------------------------------------
(* apply_inner, one op at a time: Err, or the objects after and the ops of
   the inverse.                                                            *)

ApplyInsert(objs, op) ==
    IF op.id \in DOMAIN objs THEN Err
    ELSE Done([p \in DOMAIN objs \cup {op.id} |->
                  IF p = op.id THEN op.object ELSE objs[p]],
              <<Delete(op.id)>>)

M_ApplyDelete(objs, op) ==
    IF op.id \notin DOMAIN objs THEN Err
    ELSE LET rest == [p \in DOMAIN objs \ {op.id} |-> objs[p]] IN
         Done([p \in DOMAIN rest |-> [rest[p] EXCEPT !.anchors =
                  Retained(@, Id \ {op.id})]],
              <<Insert(op.id, objs[op.id])>>)

ApplyDelete(objs, op) ==
    IF op.id \notin DOMAIN objs THEN Err
    ELSE LET rest == [p \in DOMAIN objs \ {op.id} |-> objs[p]] IN
         Done([p \in DOMAIN rest |-> [rest[p] EXCEPT !.anchors =
                  Retained(@, Id \ {op.id})]],
              <<Insert(op.id, objs[op.id])>> \o RestoreAnchors(rest, {op.id}))

ApplySetShape(objs, op) ==
    IF op.id \notin DOMAIN objs THEN Err
    ELSE Done([objs EXCEPT ![op.id].contours = op.contours,
                           ![op.id].space = op.space],
              <<SetShape(op.id, objs[op.id].contours, objs[op.id].space)>>)

(* Targets that are gone are dropped; a missing owner makes it nothing. *)
ApplySetAnchor(objs, op) ==
    IF op.id \notin DOMAIN objs THEN Done(objs, <<>>)
    ELSE Done([objs EXCEPT ![op.id].anchors =
                  Retained(op.anchors, DOMAIN objs)],
              <<SetAnchor(op.id, objs[op.id].anchors)>>)

ApplyReorder(objs, op) ==
    IF op.id \notin DOMAIN objs THEN Err
    ELSE Done([objs EXCEPT ![op.id].order = op.order],
              <<Reorder(op.id, objs[op.id].order)>>)

Parent(objs, p) == IF p \in DOMAIN objs THEN objs[p].parent ELSE NoParent

(* The ids met on the way up from p, in as many steps as would_cycle takes. *)
Chain(objs, p) ==
    LET up[n \in 0..(Cardinality(DOMAIN objs) + 1)] ==
          IF n = 0 THEN p ELSE Parent(objs, up[n - 1])
    IN  up

(* would_cycle: id is met, or the chain does not end. *)
M_WouldCycle(objs, id, p) == id = p

WouldCycle(objs, id, p) ==
    LET up == Chain(objs, p) IN
    id \in Range(up) \/ up[Cardinality(DOMAIN objs) + 1] # NoParent

ApplyReparent(objs, op) ==
    IF \/ op.id \notin DOMAIN objs
       \/ op.parent # NoParent /\ WouldCycle(objs, op.id, op.parent) THEN Err
    ELSE Done([objs EXCEPT ![op.id].parent = op.parent,
                           ![op.id].order = op.order],
              <<Reparent(op.id, objs[op.id].parent, objs[op.id].order)>>)

(* Canonicalize: the object is rewritten in an upright space; anchors of its
   peers are rewritten to it, each by the change of space.                 *)
ApplyCanonicalize(objs, op) ==
    IF op.id \notin DOMAIN objs THEN Err
    ELSE IF objs[op.id].space = "upright" THEN Done(objs, <<>>)
    ELSE LET rehomed(a) == IF a.target = op.id /\ a.at = "tilted"
                           THEN [a EXCEPT !.at = "upright"] ELSE a
         IN  Done([MapAnchors(objs, DOMAIN objs \ {op.id}, rehomed)
                     EXCEPT ![op.id].space = "upright"],
                  <<SetShape(op.id, objs[op.id].contours, "tilted")>>
                  \o RestoreAnchors(objs, {op.id}))

(* Split: which contours leave, which stay, both by their index. *)
Peel(contours, op) ==
    IF op.peel = <<>> THEN [n \in DOMAIN contours |-> n] ELSE op.peel

Kept(contours, op) ==
    LET kept[n \in 0..Len(contours)] ==
          IF n = 0 THEN <<>>
          ELSE IF n \in Range(Peel(contours, op)) THEN kept[n - 1]
          ELSE Append(kept[n - 1], n)
    IN  kept[Len(contours)]

Pick(contours, indices) == [n \in DOMAIN indices |-> contours[indices[n]]]

SplitFails(objs, op) ==
    \/ op.id \notin DOMAIN objs
    \/ LET contours == objs[op.id].contours IN
       \/ ~(Range(op.peel) \subseteq DOMAIN contours) \/ ~IsInjective(op.peel)
       \/ Peel(contours, op) = <<>>
       \/ Len(op.new_ids) # Len(Peel(contours, op))
    \/ Range(op.new_ids) \cap DOMAIN objs # {}

(* The anchor of a peer follows the contour its index falls into, to the
   contour's new object or to its new place among those that stay; an index
   past the last node is left as it is.                                    *)
FollowSplit(contours, op, a) ==
    LET peel == Peel(contours, op)
        kept == Kept(contours, op)
    IN  IF a.target # op.id \/ OwnersOf(contours, a.node) = {} THEN a
        ELSE LET n == CHOOSE n \in OwnersOf(contours, a.node) : TRUE
                 local == a.node - Offset(contours, n)
             IN  IF n \in Range(peel)
                 THEN [a EXCEPT !.target =
                             op.new_ids[SelectInSeq(peel, LAMBDA m : m = n)],
                                !.node = local]
                 ELSE [a EXCEPT !.node = local
                         + Offset(Pick(contours, kept),
                                  SelectInSeq(kept, LAMBDA m : m = n))]

(* apply_split: every contour of `peel' (all of them when it is empty)
   becomes an object; a source left without contours is removed.           *)
ApplySplit(objs, op) ==
    LET source == objs[op.id]
        contours == source.contours
        peel == Peel(contours, op)
        rest == Pick(contours, Kept(contours, op))
        orders == KeysAbove(source.order, Len(peel))
        piece(k) == [source EXCEPT !.contours = <<contours[peel[k]]>>,
                                   !.order = orders[k], !.anchors = <<>>]
        follow(a) == FollowSplit(contours, op, a)
        peers == MapAnchors(objs, DOMAIN objs \ {op.id}, follow)
        gone == IF rest = <<>> THEN {op.id} ELSE {}
        produced == Range(op.new_ids)
    IN  Done([p \in (DOMAIN objs \ gone) \cup produced |->
                IF p \in produced
                THEN piece(SelectInSeq(op.new_ids, LAMBDA i : i = p))
                ELSE IF p = op.id THEN [source EXCEPT !.contours = rest]
                ELSE peers[p]],
             [k \in DOMAIN op.new_ids |-> Delete(op.new_ids[k])]
             \o (IF rest = <<>> THEN <<>> ELSE <<Delete(op.id)>>)
             \o <<Insert(op.id, source)>>
             \o RestoreAnchors(objs, {op.id}))

(* apply_merge: the survivor's contours, then those of the others in the
   order of ids; every anchor on one of them moves to the survivor, its index
   shifted by where that object's nodes now begin.                         *)
MergeFails(objs, op) ==
    \/ op.ids = <<>> \/ ~(Range(op.ids) \subseteq DOMAIN objs)
    \/ ~IsInjective(op.ids)
    \/ op.into # NoParent /\ op.into \notin Range(op.ids)

Survivor(op) == IF op.into = NoParent THEN op.ids[1] ELSE op.into

Merged(op) ==
    <<Survivor(op)>>
    \o RemoveAt(op.ids, SelectInSeq(op.ids, LAMBDA i : i = Survivor(op)))

(* The contours of the first n merged objects, in merge order. *)
MergedContours(objs, op, n) ==
    FlattenSeq([m \in 1..n |-> objs[Merged(op)[m]].contours])

M_FollowMerge(objs, op, a) ==
    IF a.target \in Range(op.ids) THEN [a EXCEPT !.target = Survivor(op)] ELSE a

FollowMerge(objs, op, a) ==
    LET place == SelectInSeq(Merged(op), LAMBDA i : i = a.target) IN
    IF place = 0 THEN a
    ELSE [a EXCEPT !.node = @ + NodeCount(MergedContours(objs, op, place - 1)),
                   !.target = Survivor(op)]

ApplyMerge(objs, op) ==
    LET kept == (DOMAIN objs \ Range(op.ids)) \cup {Survivor(op)}
        follow(a) == FollowMerge(objs, op, a)
        peers == MapAnchors(objs, kept, follow)
    IN  Done([p \in kept |->
                IF p # Survivor(op) THEN peers[p]
                ELSE [peers[p] EXCEPT !.contours =
                        MergedContours(objs, op, Len(op.ids))]],
             <<Delete(Survivor(op))>>
             \o [n \in DOMAIN op.ids |-> Insert(op.ids[n], objs[op.ids[n]])]
             \o RestoreAnchors(objs, Range(op.ids)))

ApplyInner(objs, op) ==
    CASE op.kind = "insert" -> ApplyInsert(objs, op)
      [] op.kind = "delete" -> ApplyDelete(objs, op)
      [] op.kind = "set-shape" -> ApplySetShape(objs, op)
      [] op.kind = "set-anchor" -> ApplySetAnchor(objs, op)
      [] op.kind = "reorder" -> ApplyReorder(objs, op)
      [] op.kind = "reparent" -> ApplyReparent(objs, op)
      [] op.kind = "canonicalize" -> ApplyCanonicalize(objs, op)
      [] op.kind = "split" -> IF SplitFails(objs, op) THEN Err
                              ELSE ApplySplit(objs, op)
      [] op.kind = "merge" -> IF MergeFails(objs, op) THEN Err
                              ELSE ApplyMerge(objs, op)

(* A Batch: every op or none, the inverses last first. *)
Undoable(done, r) ==
    IF r.ok THEN Done(r.objs, r.inverse \o done.inverse) ELSE Err

Then(done, op) ==
    IF done.ok THEN Undoable(done, ApplyInner(done.objs, op)) ELSE Err

ApplyBatch(objs, ops) ==
    LET result[n \in 0..Len(ops)] ==
          IF n = 0 THEN Done(objs, <<>>) ELSE Then(result[n - 1], ops[n])
    IN  result[Len(ops)]

(* ObjectOp::target_ids of the ops of a Batch. *)
M_TargetIds(ops) ==
    UNION {CASE ops[n].kind = "merge" -> {ops[n].ids[1]}
             [] ops[n].kind = "split" -> {ops[n].id} \cup Range(ops[n].new_ids)
             [] OTHER -> {ops[n].id} : n \in DOMAIN ops}

TargetIds(ops) ==
    UNION {CASE ops[n].kind = "merge" -> Range(ops[n].ids) \cup ({ops[n].into} \ {NoParent})
             [] ops[n].kind = "split" -> {ops[n].id} \cup Range(ops[n].new_ids)
             [] ops[n].kind = "insert" ->
                  {ops[n].id, ops[n].object.parent} \ {NoParent}
             [] ops[n].kind = "reparent" ->
                  {ops[n].id, ops[n].parent} \ {NoParent}
             [] OTHER -> {ops[n].id} : n \in DOMAIN ops}

-----------------------------------------------------------------------------
(* What the shell authors, as the ops of a Batch *)

(* next_order_key, back_order_key *)
NextOrderKey(objs) ==
    LET top == CHOOSE p \in DOMAIN objs :
                 \A q \in DOMAIN objs : ~Before(objs[p].order, objs[q].order)
    IN  IF DOMAIN objs = {} THEN FirstKey ELSE KeyBetween(objs[top].order, Open)

BackOrderKey(objs) ==
    LET low == CHOOSE p \in DOMAIN objs :
                 \A q \in DOMAIN objs : ~Before(objs[q].order, objs[p].order)
    IN  IF DOMAIN objs = {} THEN FirstKey ELSE KeyBetween(Open, objs[low].order)

(* Canonical paint order: by key, ties by id. *)
Under(objs, p, q) ==
    \/ Before(objs[p].order, objs[q].order)
    \/ objs[p].order = objs[q].order /\ p < q

Painted(objs, ids) ==
    [n \in 1..Cardinality(ids) |->
        CHOOSE p \in ids : Cardinality({q \in ids : Under(objs, q, p)}) = n - 1]

Contour(id, n, nodes) == [name |-> <<id, n>>, nodes |-> nodes]

NewObject(id, order) ==
    [contours |-> <<Contour(id, 1, 4)>>, space |-> "upright", anchors |-> <<>>,
     parent |-> NoParent, order |-> order]

(* group_ops: a frame on top, the members into it with keys of their own. *)
M_GroupOps(objs, ids, frame) ==
    LET members == SetToSeq(ids)
        keys == <<FirstKey>> \o KeysAbove(FirstKey, Len(members) - 1)
    IN  <<Insert(frame, NewObject(frame, NextOrderKey(objs)))>>
        \o [n \in DOMAIN members |-> Reparent(members[n], frame, keys[n])]

GroupOps(objs, ids, frame) ==
    LET members == Painted(objs, ids)
        keys == <<FirstKey>> \o KeysAbove(FirstKey, Len(members) - 1)
    IN  <<Insert(frame, NewObject(frame, NextOrderKey(objs)))>>
        \o [n \in DOMAIN members |-> Reparent(members[n], frame, keys[n])]

Children(objs, id) == {c \in DOMAIN objs : objs[c].parent = id}

(* ungroup_ops: the children go up one level, the frame goes. *)
UngroupOps(objs, frame) ==
    LET children == Painted(objs, Children(objs, frame)) IN
    [n \in DOMAIN children |->
        Reparent(children[n], objs[frame].parent, objs[children[n]].order)]
    \o <<Delete(frame)>>

(* pop_out_op: up one level, to the root when the parent is gone. *)
PopOutOps(objs, id) ==
    <<Reparent(id, Parent(objs, objs[id].parent), objs[id].order)>>

(* reorder_step_ops: id swaps keys with a neighbour in the paint order.  The
   scene's vector breaks ties there, so the neighbour is any with the same
   key or, when id may be the last of them, any of the next key.           *)
Neighbours(objs, id, forward) ==
    LET further(p, q) == IF forward THEN Before(objs[p].order, objs[q].order)
                         ELSE Before(objs[q].order, objs[p].order)
        beyond == {q \in DOMAIN objs : further(id, q)}
    IN  {q \in DOMAIN objs \ {id} : objs[q].order = objs[id].order}
        \cup {q \in beyond : ~\E r \in beyond : further(r, q)}

StepOps(objs, id, other) ==
    <<Reorder(id, objs[other].order), Reorder(other, objs[id].order)>>

(* duplicate_ops: clones on top, each above the one before. *)
DuplicateOps(objs, ids, new_ids) ==
    LET keys == KeysAbove(NextOrderKey(objs), Len(ids))
        order(n) == IF n = 1 THEN NextOrderKey(objs) ELSE keys[n - 1]
    IN  [n \in DOMAIN ids |->
            Insert(new_ids[n], [objs[ids[n]] EXCEPT !.order = order(n)])]

-----------------------------------------------------------------------------
(* The edits of a user, by kind.  Each is the ops of one Batch; freshId in
   the shell gives ids that were never used.                               *)

Here == DOMAIN objects

Fresh(n) ==
    {ids \in [1..n -> Id \ used] :
        \A i \in 1..n : \A free \in Id \ used :
            free < ids[i] <=> free \in {ids[m] : m \in 1..(i - 1)}}

Orders(S, lengths) ==
    UNION {Injection(1..n, S) : n \in lengths \cap 0..Cardinality(S)}

SplitEdits ==
    LET contours(id) == objects[id].contours
        Peels(id) == {q \in Orders(1..3, 0..2) : Range(q) \subseteq DOMAIN contours(id)}
        count(id, peel) == IF peel = <<>> THEN Len(contours(id)) ELSE Len(peel)
    IN  UNION {UNION {{<<Split(id, q, peel)>> : q \in Fresh(count(id, peel))} :
                        peel \in Peels(id)} : id \in Here}

MergeEdits ==
    UNION {{<<Merge(ids, into)>> : into \in Range(ids) \cup {NoParent}} :
             ids \in Orders(DOMAIN objects, 1..3)}

CanonicalizeEdits == {<<Canonicalize(id)>> : id \in DOMAIN objects}

DeleteEdits == {<<Delete(id)>> : id \in DOMAIN objects}

(* endpoint_release_ops: one node of a line is bound to another object. *)
BindEdits ==
    {<<SetAnchor(b.id, Append(objects[b.id].anchors,
          [node |-> b.node, target |-> b.target, at |-> objects[b.target].space]))>> :
     b \in {b \in [id: Here, node: {0, 3}, target: Here] :
              /\ b.id # b.target /\ b.node < NodeCount(objects[b.id].contours)
              /\ \A n \in DOMAIN objects[b.id].anchors :
                    objects[b.id].anchors[n].node # b.node}}

ReparentEdits ==
    {<<Reparent(id, p, objects[id].order)>> :
        id \in DOMAIN objects, p \in DOMAIN objects}

GroupEdits ==
    {GroupOps(objects, g[1], g[2][1]) : g \in
        {ids \in SUBSET DOMAIN objects : Cardinality(ids) >= 2} \X Fresh(1)}

UngroupEdits ==
    {UngroupOps(objects, id) :
        id \in {f \in DOMAIN objects : Children(objects, f) # {}}}

PopOutEdits ==
    {PopOutOps(objects, id) :
        id \in {c \in DOMAIN objects : objects[c].parent # NoParent}}

InsertEdits ==
    {<<Insert(q[1], NewObject(q[1], NextOrderKey(objects)))>> : q \in Fresh(1)}

DuplicateEdits ==
    UNION {{DuplicateOps(objects, ids, q) : q \in Fresh(Len(ids))} :
             ids \in Orders(DOMAIN objects, 1..2)}

(* reorderSelection gives every selected object the same key.  Bound: the
   scene does not reach the smallest integer, which is not a valid key.    *)
RestackEdits ==
    {[n \in DOMAIN ids |-> Reorder(ids[n], key)] :
        ids \in Orders(DOMAIN objects, 1..2),
        key \in {k \in {NextOrderKey(objects), BackOrderKey(objects)} : ValidKey(k)}}

StepEdits ==
    UNION {{StepOps(objects, id, other) :
              other \in UNION {Neighbours(objects, id, f) : f \in BOOLEAN}} :
             id \in Here}

Kinds == {"split", "merge", "canonicalize", "delete", "bind", "reparent", "group",
          "ungroup", "pop-out", "insert", "duplicate", "restack", "step"}

EditsOf(kind) ==
    CASE kind = "split" -> SplitEdits
      [] kind = "merge" -> MergeEdits
      [] kind = "canonicalize" -> CanonicalizeEdits
      [] kind = "delete" -> DeleteEdits
      [] kind = "bind" -> BindEdits
      [] kind = "reparent" -> ReparentEdits
      [] kind = "group" -> GroupEdits
      [] kind = "ungroup" -> UngroupEdits
      [] kind = "pop-out" -> PopOutEdits
      [] kind = "insert" -> InsertEdits
      [] kind = "duplicate" -> DuplicateEdits
      [] kind = "restack" -> RestackEdits
      [] kind = "step" -> StepEdits

Edits == UNION {EditsOf(kind) : kind \in menu}

(* The edits that are not rejected, each with the scene and the inverse that
   apply_object_op returns.                                                *)
Applied ==
    {e \in {[ops |-> ops, r |-> ApplyBatch(objects, ops)] : ops \in Edits} : e.r.ok}

-----------------------------------------------------------------------------

(* No set of objects has all its parents inside: nobody is above itself. *)
Rooted(objs) ==
    \A S \in SUBSET DOMAIN objs : S # {} => \E p \in S : objs[p].parent \notin S

(* A loaded scene: an object is what the header says, with a valid key, and
   its parent, if it has one, is there.                                    *)
Object(ids) ==
    [contours: Seq([name: Id \X Nat, nodes: Nat]),
     space: {"tilted", "upright"},
     anchors: Seq([node: Nat, target: Id, at: {"tilted", "upright"}]),
     parent: ids \cup {NoParent},
     order: Seq(Int)]

ASSUME StartsAssumption ==
    \A start \in Starts : LET ids == DOMAIN start.objects IN
        /\ ids \subseteq Id /\ start.objects \in [ids -> Object(ids)]
        /\ \A p \in ids : ValidKey(start.objects[p].order)
        /\ Rooted(start.objects)
        /\ start.menu \subseteq Kinds

Init ==
    /\ \E start \in Starts : objects = start.objects /\ menu = start.menu
    /\ used = DOMAIN objects
    /\ edits = 0

(* apply_object_op on a Batch: a rejected one leaves the scene alone. *)
Edit ==
    /\ edits < MaxEdits
    /\ \E e \in Applied :
         /\ objects' = e.r.objs
         /\ used' = used \cup DOMAIN e.r.objs
    /\ edits' = edits + 1
    /\ UNCHANGED menu

Next == Edit

Spec == Init /\ [][Next]_vars

-----------------------------------------------------------------------------
(* Properties.  Those about an op hold of every edit in every scene. *)

AnchorsLive(objs) ==
    \A p \in DOMAIN objs : \A n \in DOMAIN objs[p].anchors :
        objs[p].anchors[n].target \in DOMAIN objs

(* The inverse apply_object_op returns restores the scene, anchors of other
   objects included, and the inverse of that inverse restores the edit, in
   every scene whose anchors have their targets.                           *)
InverseRestores ==
    AnchorsLive(objects) =>
    \A e \in Applied : \A back \in {ApplyBatch(e.r.objs, e.r.inverse)} :
        /\ back.ok /\ back.objs = objects
        /\ AnchorsLive(e.r.objs) =>
             ApplyBatch(objects, back.inverse).objs = e.r.objs

(* An anchor of a peer stays where it is when its target is rewritten: Split
   and Merge keep it on the contour and the node that its index names among
   the target's, as the comment above subpath_offsets has it (apply.rs:363),
   and Canonicalize re-expresses an `at' that was in the target's space.    *)
Stays(op, objs, before, after) ==
    IF op.kind = "canonicalize"
    THEN before.target = op.id /\ before.at = objects[op.id].space
         => after.at = objs[op.id].space
    ELSE before.target \in DOMAIN objects /\ Named(objects, before) # {} =>
         /\ after.target \in DOMAIN objs
         /\ Named(objs, after) = Named(objects, before)

Peers(op, objs) ==
    DOMAIN objs \cap (DOMAIN objects \ IF op.kind = "merge" THEN {} ELSE {op.id})

AnchorsStay ==
    \A e \in Applied :
        e.ops[1].kind \in {"split", "merge", "canonicalize"} =>
        \A p \in Peers(e.ops[1], e.r.objs) : \A n \in DOMAIN objects[p].anchors :
            Stays(e.ops[1], e.r.objs,
                  objects[p].anchors[n], e.r.objs[p].anchors[n])

(* What an op changes is among its target_ids, the ids the store persists,
   save the anchors of its peers.                                          *)
TargetsCoverChanges ==
    \A e \in Applied :
        \A p \in (DOMAIN objects \cup DOMAIN e.r.objs) \ TargetIds(e.ops) :
            /\ p \in DOMAIN objects \cap DOMAIN e.r.objs
            /\ [objects[p] EXCEPT !.anchors = <<>>]
                 = [e.r.objs[p] EXCEPT !.anchors = <<>>]

(* No object is above itself (validate_no_parent_cycle). *)
NoParentLoop ==
    \A p \in DOMAIN objects : p \notin Range(Chain(objects, objects[p].parent))

(* A group stacks its members as they were stacked (grouping.rs:71). *)
GroupKeepsStacking ==
    "group" \in menu =>
    \A e \in Applied :
        LET members == {e.ops[n].id : n \in 2..Len(e.ops)} IN
        e.ops \in GroupEdits =>
            Painted(e.r.objs, members) = Painted(objects, members)

(* The next key goes strictly above the scene, the back key strictly below,
   and a key made between two differing neighbours fits between them; all of
   them are valid (fractional.rs:6).  Below the integer that follows the
   smallest one the code makes the smallest one, which is not valid.       *)
KeysFit ==
    LET orders == {objects[p].order : p \in DOMAIN objects} IN
    /\ ValidKey(NextOrderKey(objects))
    /\ \A a \in orders :
         /\ ValidKey(a) /\ Before(a, NextOrderKey(objects))
         /\ \A b \in orders : Before(a, b) =>
              LET k == KeyBetween(a, b) IN
              ValidKey(k) /\ Before(a, k) /\ Before(k, b)
    /\ IncrementInteger(SmallestInteger) \notin orders =>
         /\ ValidKey(BackOrderKey(objects))
         /\ \A a \in orders : Before(BackOrderKey(objects), a)

(* validate_anchor_targets: the target is a live object and the index is in
   range for the owning object's geometry.                                 *)
AnchorsInRange ==
    \A p \in DOMAIN objects : \A n \in DOMAIN objects[p].anchors :
        /\ objects[p].anchors[n].target \in DOMAIN objects
        /\ objects[p].anchors[n].node \in 0..(NodeCount(objects[p].contours) - 1)

=============================================================================
