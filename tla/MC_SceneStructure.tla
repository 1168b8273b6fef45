------------------------- MODULE MC_SceneStructure -------------------------
EXTENDS SceneStructure

Shape(id, sizes, order) ==
    [contours |-> [n \in DOMAIN sizes |-> Contour(id, n, sizes[n])],
     space |-> "tilted", anchors |-> <<>>, parent |-> NoParent, order |-> order]

In(object, parent) == [object EXCEPT !.parent = parent]

Bound(object, anchors) == [object EXCEPT !.anchors = anchors]

On(node, target) == [node |-> node, target |-> target, at |-> "tilted"]

(* A shape of two contours, one of one contour, and a line bound to both. *)
MC_Shapes ==
    [objects |-> <<Shape(1, <<2, 3>>, <<2, 0>>), Shape(2, <<3>>, <<2, 1>>),
                   Bound(Shape(3, <<4>>, <<2, 1>>), <<On(0, 1), On(3, 1), On(1, 2)>>)>>,
     menu |-> {"split", "merge", "canonicalize", "delete", "bind"}]

(* A container in a container, and an object beside them. *)
MC_Tree ==
    [objects |-> <<Shape(1, <<4>>, <<2, 0>>), In(Shape(2, <<4>>, <<2, 1>>), 1),
                   In(Shape(3, <<4, 2>>, <<2, 0>>), 2), Shape(4, <<4>>, <<2, 0, 1>>)>>,
     menu |-> {"reparent", "group", "ungroup", "pop-out", "delete", "split"}]

MC_Stack(keys, kinds) ==
    [objects |-> [n \in DOMAIN keys |-> Shape(n, <<4>>, keys[n])], menu |-> kinds]

(* Keys around zero, at the top, and at the bottom of the widths. *)
MC_Starts ==
    {MC_Shapes, MC_Tree,
     MC_Stack(<<<<1, 2>>, <<2, 0>>, <<2, 2>>>>, {"insert", "restack", "step"}),
     MC_Stack(<<<<3, 2, 2>>, <<3, 2, 1, 2>>, <<2, 0>>>>, {"duplicate", "step"}),
     MC_Stack(<<<<0, 0, 0, 1>>, <<0, 1, 0>>>>, {"insert", "restack"})}

MC_ShapeStarts == {MC_Shapes}

=============================================================================
