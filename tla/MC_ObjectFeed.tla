--------------------------- MODULE MC_ObjectFeed ---------------------------
EXTENDS ObjectFeed

Shape(outline, place, fill, parent, anchors) ==
    [outline |-> outline, place |-> place, fill |-> fill, hidden |-> FALSE,
     clip |-> FALSE, parent |-> parent, anchors |-> anchors]

(* A frame that may clip, a child that may leave it and may be hidden, and *)
(* a line that may be anchored to the child.                               *)
MC_Variants ==
    [frame |-> {Absent} \union
        {[Shape(f[1], 0, "none", "none", {}) EXCEPT !.clip = f[2]] :
            f \in {<<"box", FALSE>>, <<"box", TRUE>>, <<"wide", TRUE>>}},
     child |-> {Shape("box", 0, "ink", "none", {}), Shape("box", 1, "red", "frame", {}),
                Shape("box", 0, "veil", "none", {}),
                Shape("star", 0, "ink", "frame", {}),
                [Shape("box", 0, "ink", "none", {}) EXCEPT !.hidden = TRUE]},
     line |-> {Shape("line", 0, "none", "none", anchors) : anchors \in {{}, {"child"}}}]

MC_Order == <<"child", "frame", "line">>
MC_Picks == {{}, {"child", "line"}}
MC_Size == [box |-> 1, wide |-> 1, star |-> 2, line |-> 1, arc |-> 1]
MC_Bent == [box |-> "box", wide |-> "wide", star |-> "star", line |-> "arc", arc |-> "line"]
MC_Open == {"line", "arc"}

MC_Starts ==
    {[obj |-> [frame |-> Absent, child |-> Shape("box", 0, "ink", "none", {}),
               line |-> Shape("line", 0, "none", "none", {})],
      picked |-> {}]}
MC_NoGestures == {{}}
MC_Menus == {{"theme"}, {"move"}, {"turn"}, {"end"}}

=============================================================================
