--------------------------- MODULE MC_UndoStack ----------------------------
EXTENDS UndoStack

(* Two objects, b anchored to a and inside it; c can be inserted. *)
MCScene ==
    [id \in {"a", "b"} |->
       IF id = "a" THEN Object(0)
       ELSE [Object(0) EXCEPT !.anchors = {"a"}, !.parent = "a"]]

(* Every kind of op, one that changes nothing and one that is refused
   (SetComments is what undoes an AddComment).                            *)
AllKinds ==
    {Insert("c", Object(1)), Delete("a"), SetProp("a", 1), SetText("b", 0),
     SetAnchor("b", {}), AddComment("a", 1), Reparent("b", NoParent),
     Reparent("a", "b"), Batch(<<SetProp("b", 1), Delete("a")>>)}

(* A drag: one property of one object. *)
Drag == {SetProp("a", 1), SetProp("a", 2)}

(* Two edits. *)
Few == {SetProp("a", 1), SetText("b", 1)}

(* One who does everything, but one thing at a time; one who also drags; and
   one who does not wait, beside a peer that deletes, with writes that fail. *)
MCHabits ==
    {[edits |-> AllKinds, gestures |-> {}, peers |-> {}, serial |-> TRUE,
      fails |-> FALSE],
     [edits |-> Few, gestures |-> Drag, peers |-> {}, serial |-> TRUE,
      fails |-> FALSE],
     [edits |-> Few, gestures |-> Drag, peers |-> {Delete("a")},
      serial |-> FALSE, fails |-> TRUE]}

=============================================================================
