--------------------------- MODULE MC_SyncSession ---------------------------
(* Two clients of one canvas. *)
EXTENDS SyncSession

CONSTANTS ann, ben, o1, o2

MCClient == {ann, ben}
MCObjs == [o \in {o1, o2} |-> Object(0)]

By(anns, bens) == [c \in MCClient |-> IF c = ann THEN anns ELSE bens]

(* Every field has one writer.  With prop = 3 an object lies outside. *)
Writing == By(<<SetProp(o1, 1), SetProp(o1, 2)>>, <<Delete(o1)>>)
Noting == By(<<SetProp(o1, 1), AddComment(o1, "a")>>, <<>>)
Leaving == By(<<AddComment(o1, "a")>>, <<SetProp(o1, 3)>>)
Together == Batch(<<SetText(o1, 1), SetText(o2, 1)>>)
Straddling == By(<<>>, <<SetProp(o1, 3), Together>>)
Returning == By(<<>>, <<SetProp(o1, 3), SetProp(o1, 2), Together>>)

Commenting == By(<<AddComment(o1, "a"), AddComment(o1, "b")>>, <<>>)

MCScripts == {Writing, Noting, Leaving, Straddling, Returning}
MCComments == {Commenting}

=============================================================================
