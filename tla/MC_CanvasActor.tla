--------------------------- MODULE MC_CanvasActor ---------------------------
(* Small instances of CanvasActor: the objects a and b, b anchored to a. *)
EXTENDS CanvasActor

A == "a"
B == "b"
MCObjId == {A, B}
NoneId == "none"
NonePar == "root"

MCFirstOps == <<Insert(A, Object(0)), Insert(B, Object(0))>>

Ids3 == {"i", "j", "k"}

CommentTextDelete ==
    "i" :> AddComment(B, "i") @@ "j" :> SetText(A, 0) @@ "k" :> Delete(A)

(* A text that changes nothing; an insert that may be refused, and a Batch. *)
TwoOps == {<<SetText(B, 0)>>,
           <<Insert(A, Object(1)), Batch(<<SetProp(B, 1), Reparent(B, A)>>)>>}

=============================================================================
