----------------------------- MODULE ObjectFeed -----------------------------
(***************************************************************************)
(* How the renderer keeps the GPU's copy of the scene: feeds that are      *)
(* diffed against the retained FramePlan and patched in place              *)
(* (renderer-core/plan.rs, renderer-wgpu/object_pipeline.rs), the theme    *)
(* toggle, and the live previews of a drag, which write to the GPU and     *)
(* never to the plan (renderer-wgpu/webgpu/scene_feed.rs).                 *)
(*                                                                         *)
(* Of an object the model keeps its outline, its place (the transform),    *)
(* its fill ("none", "ink" which is a theme token, "veil" which is that    *)
(* token at less than full opacity, "red" which is no token, or "clear",   *)
(* fully transparent), hidden, clip, parent and the targets its end points *)
(* are anchored to.  Two passes stand for the four: each has one buffer in *)
(* which the objects' meshes lie one after the other.                      *)
(*                                                                         *)
(* A vertex is <<outline, bend>>, a matrix <<place, delta>>; "rest" is the *)
(* bend and the delta of everything that is not previewed.                 *)
(***************************************************************************)
EXTENDS SequencesExt, FiniteSetsExt

CONSTANTS Order,       \* the ids, in scene order
          Variants,    \* id -> what the object may be, Absent included
          Absent,
          Picks,       \* the multi-selections
          Open,        \* the open outlines
          Size,        \* outline -> the vertices it expands to, in each pass
          Bent,        \* outline -> the outline a committed deform gives it
          Starts,      \* the scenes of the first load
          MaxStale,    \* bound on the parts left behind in a behaviour
          Menus        \* the kinds of gestures, with the theme toggle, a
                       \* behaviour may make

ASSUME FeedAssumption ==
    /\ IsInjective(Order)
    /\ Open \subseteq DOMAIN Size
    /\ \A outline \in DOMAIN Size :
          Size[outline] \in Nat /\ Size[Bent[outline]] = Size[outline]

VARIABLES scene,       \* object_scene: the scene fed last
          theme,       \* object_theme, the persisted bit
          dark,        \* the theme of the live ObjectRenderer
          plan,        \* its retained FramePlan
          gpu,         \* its buffers
          deformed,    \* preview_deformed
          drag,        \* the gesture under way, or Idle
          menu,        \* what this behaviour makes
          stale        \* history: see the properties

vars == <<scene, theme, dark, plan, gpu, deformed, drag, menu, stale>>

Ids == ToSet(Order)
Pass == {"fill", "stroke"}
Idle == [kind |-> "idle"]

Live(s) == {id \in Ids : s.obj[id] # Absent}
Listed(s) == SelectSeq(Order, LAMBDA id : id \in Live(s))

-----------------------------------------------------------------------------
(* The plan of a scene *)

IsContainer(s, id) == \E child \in Live(s) : s.obj[child].parent = id

(* text_only is left out: no object of the model has text. *)
Painted(o, container, pass) ==
    /\ ~ o.hidden
    /\ o.fill # "clear"
    /\ \/ pass = "stroke"
       \/ o.fill # "none"
       \/ ~ container /\ o.outline \notin Open

Vertices(outline, bend) == [k \in 1..Size[outline] |-> <<outline, bend>>]

Mesh(s, id, pass) ==
    IF Painted(s.obj[id], IsContainer(s, id), pass)
    THEN Vertices(s.obj[id].outline, "rest") ELSE <<>>

(* reexpand_single_object: the object alone in a scene, where nothing is   *)
(* its child.                                                              *)
Alone(o, bend) ==
    [pass \in Pass |->
        IF Painted(o, FALSE, pass) THEN Vertices(o.outline, bend) ELSE <<>>]

(* geometry_revision: the inputs that are hashed. *)
Revision(o) == <<o.outline, o.fill # "none", o.clip>>

Tokens == {"ink", "veil"}

(* resolve_token_f32: the token by itself. *)
Bare(night) == [hue |-> "ink", night |-> night, alpha |-> "full"]

(* paint_color: a token has the paint's opacity multiplied into its alpha. *)
Color(fill, night) ==
    CASE fill = "ink" -> Bare(night)
      [] fill = "veil" -> [Bare(night) EXCEPT !.alpha = "less"]
      [] fill = "none" -> [hue |-> "default", night |-> FALSE, alpha |-> "full"]
      [] OTHER -> [hue |-> fill, night |-> FALSE, alpha |-> "full"]

(* The objects reached from a set by so many steps. *)
Reached(from, step(_)) ==
    LET reach[n \in 0..Len(Order)] ==
            IF n = 0 THEN from ELSE reach[n - 1] \union step(reach[n - 1])
    IN reach[Len(Order)]

Ancestors(s, id) ==
    LET parents(set) == {s.obj[x].parent : x \in set} \intersect Live(s)
    IN Reached(parents({id}), parents)

ClipRef(s, id) == Cardinality({up \in Ancestors(s, id) : s.obj[up].clip})

Cuts(s, id) == s.obj[id].clip /\ ~ s.obj[id].hidden

(* The first n sequences, one after the other. *)
Joined(seqs) ==
    LET upto[n \in 0..Len(seqs)] == IF n = 0 THEN <<>> ELSE upto[n - 1] \o seqs[n]
    IN upto

DrawRange(joined, n) ==
    [from |-> Len(joined[n - 1]), len |-> Len(joined[n]) - Len(joined[n - 1])]

Build(s, night) ==
    LET ids == Listed(s)
        cutters == SelectSeq(ids, LAMBDA id : Cuts(s, id))
        mesh == [pass \in Pass |-> Joined([n \in DOMAIN ids |-> Mesh(s, ids[n], pass)])]
        clip == Joined([n \in DOMAIN cutters |-> Vertices(s.obj[cutters[n]].outline, "rest")])
    IN [ids |-> ids,
        entries |-> [n \in DOMAIN ids |->
            [revision |-> Revision(s.obj[ids[n]]),
             matrix   |-> <<s.obj[ids[n]].place, "rest">>,
             color    |-> Color(s.obj[ids[n]].fill, night),
             clip_ref |-> ClipRef(s, ids[n]),
             range    |-> [pass \in Pass |-> DrawRange(mesh[pass], n)]]],
        mesh |-> [pass \in Pass |-> mesh[pass][Len(ids)]],
        clip_draws |-> [n \in DOMAIN cutters |->
            [id |-> cutters[n], range |-> DrawRange(clip, n), depth |-> ClipRef(s, cutters[n])]],
        clip |-> clip[Len(cutters)]]

(* ObjectRenderer::new *)
Uploaded(p) ==
    [matrix |-> [n \in DOMAIN p.ids |-> p.entries[n].matrix],
     color  |-> [n \in DOMAIN p.ids |-> p.entries[n].color],
     mesh   |-> p.mesh,
     clip   |-> p.clip]

Index(p, id) == CHOOSE n \in DOMAIN p.ids : p.ids[n] = id

-----------------------------------------------------------------------------
(* A feed *)

Sliced(buffer, range) == SubSeq(buffer, range.from + 1, range.from + range.len)

(* geometry_reexpand: the mesh of entry n, out of its plan. *)
Slice(p, n) == [pass \in Pass |-> Sliced(p.mesh[pass], p.entries[n].range[pass])]

(* follower_patch_plan: the mesh fills the ranges of the draw exactly. *)
Fits(entry, mesh) == \A pass \in Pass : Len(mesh[pass]) = entry.range[pass].len

Redone(old, new) ==
    {n \in DOMAIN new.ids : old.entries[n].revision # new.entries[n].revision}

(* Mutant: the guard is forgotten. *)
M_PatchableUnguarded(old, new) ==
    /\ old.ids = new.ids
    /\ old.clip_draws = new.clip_draws
    /\ \A n \in DOMAIN new.ids : old.entries[n].clip_ref = new.entries[n].clip_ref

(* Mutant: a changed list of clippers is patched. *)
M_PatchableClips(old, new) ==
    /\ old.ids = new.ids
    /\ \A n \in DOMAIN new.ids :
          old.entries[n].revision # new.entries[n].revision =>
              Fits(old.entries[n], Slice(new, n))

(* diff_plans, and the guard of apply_plan_diff. *)
Patchable(old, new) ==
    /\ old.ids = new.ids
    /\ old.clip_draws = new.clip_draws
    /\ \A n \in DOMAIN new.ids :
          LET was == old.entries[n]
              is == new.entries[n]
          IN /\ was.clip_ref = is.clip_ref
             /\ was.revision # is.revision => Fits(was, Slice(new, n))

(* A queue.write_buffer beyond the end of the buffer writes nothing. *)
Written(buffer, from, cells) ==
    IF from + Len(cells) > Len(buffer) THEN buffer
    ELSE [k \in DOMAIN buffer |->
             IF k > from /\ k <= from + Len(cells) THEN cells[k - from] ELSE buffer[k]]

(* patch_follower_geometry *)
PatchMesh(g, p, n, mesh) ==
    IF ~ Fits(p.entries[n], mesh) THEN g
    ELSE [g EXCEPT !.mesh = [pass \in Pass |->
                                Written(@[pass], p.entries[n].range[pass].from, mesh[pass])]]

(* Mutant: a color is sent with a new mesh only. *)
M_PatchedStyle(g, old, new) ==
    LET redone == Redone(old, new)
        attributes == [g EXCEPT
            !.matrix = [n \in DOMAIN @ |-> new.entries[n].matrix],
            !.color = [n \in DOMAIN @ |->
                           IF n \in redone THEN new.entries[n].color ELSE @[n]]]
    IN FoldSet(LAMBDA n, acc : PatchMesh(acc, old, n, Slice(new, n)), attributes, redone)

(* diff_entry and apply_patch: a value is sent when it differs from the    *)
(* plan's, whatever the buffer holds.                                      *)
Patched(g, old, new) ==
    LET redone == Redone(old, new)
        sent(n, field) == n \in redone \/ old.entries[n][field] # new.entries[n][field]
        attributes == [g EXCEPT
            !.matrix = [n \in DOMAIN @ |->
                           IF sent(n, "matrix") THEN new.entries[n].matrix ELSE @[n]],
            !.color = [n \in DOMAIN @ |->
                           IF sent(n, "color") THEN new.entries[n].color ELSE @[n]]]
    IN FoldSet(LAMBDA n, acc : PatchMesh(acc, old, n, Slice(new, n)), attributes, redone)

-----------------------------------------------------------------------------
(* What a gesture moves *)

(* preview_roots *)
Roots(s, id) == IF id \in s.picked THEN s.picked ELSE {id}

(* propagation_closure: the objects that take the delta, with the children *)
(* of what moves, and those anchored to them that do not.                  *)
Moved(s, id) ==
    LET children(set) == {x \in Live(s) : s.obj[x].parent \in set}
    IN Live(s) \intersect Reached(Roots(s, id), children)

Followers(s, id) ==
    {x \in Live(s) \ Moved(s, id) : s.obj[x].anchors \intersect Moved(s, id) # {}}

(* route_preview_member, and push_member_op on the commit. *)
Route(s, moved, id, delta) ==
    LET o == s.obj[id]
        pins == o.anchors \ moved
    IN CASE o.outline \notin Open -> "matrix"
         [] Cardinality(pins) = 2 -> "pinned"
         [] pins = {} /\ delta # "turn" -> "matrix"
         [] OTHER -> "deform"

Routed(s, id, delta, route) ==
    {x \in Moved(s, id) : Route(s, Moved(s, id), x, delta) = route}

(* How the drag under way is carried out on a scene. *)
Reach(s) ==
    LET moved == Moved(s, drag.id)
    IN [moved |-> moved, followers |-> Followers(s, drag.id),
        routes |-> [x \in moved |-> Route(s, moved, x, drag.kind)]]

(* reexpand_geometries, then a patch of each. *)
Reexpanded(g, who, bend) ==
    FoldSet(LAMBDA id, acc : PatchMesh(acc, plan, Index(plan, id), Alone(scene.obj[id], bend)),
            g, who \intersect Live(scene))

Placed(g, who, delta) ==
    [g EXCEPT !.matrix = [n \in DOMAIN @ |->
        IF plan.ids[n] \in who THEN <<scene.obj[plan.ids[n]].place, delta>> ELSE @[n]]]

-----------------------------------------------------------------------------
(* Actions *)

(* The first load builds an ObjectRenderer, in the light theme. *)
Init ==
    /\ scene \in Starts
    /\ theme = FALSE
    /\ dark = theme
    /\ plan = Build(scene, theme)
    /\ gpu = Uploaded(plan)
    /\ deformed = {}
    /\ drag = Idle
    /\ menu \in Menus
    /\ stale = {}

(* refreshEndpointPreview: the host sends a held end point drag's last     *)
(* sample again after each feed.                                           *)
Resampled(s) ==
    {id \in Live(s) : /\ drag # Idle
                      /\ drag.kind = "end" /\ drag.held /\ drag.id = id
                      /\ s.obj[id].outline \in Open}

(* What a patched feed leaves behind: a mesh that changed under the same   *)
(* handle; the mask of a clipper whose outline changed; what a preview     *)
(* wrote and no later clear will look for, since preview_deformed is       *)
(* emptied or the drag now moves other objects, or by another route.       *)
Left(s, new) ==
    LET body == drag # Idle /\ drag.kind # "end"
        diverted == body /\ Reach(scene) # Reach(s)
        forgotten == deformed \ Resampled(s) # {}
        mistaken == \E n \in DOMAIN new.ids \ Redone(plan, new) :
                        Slice(plan, n) # Slice(new, n)
    IN {part \in {"mesh", "clip", "matrix"} :
          \/ part = "mesh" /\ (mistaken \/ forgotten \/ diverted)
          \/ part = "clip" /\ plan.clip_draws = new.clip_draws /\ plan.clip # new.clip
          \/ part = "matrix" /\ diverted}

(* load_object_scene *)
LoadObjectScene(s) ==
    LET new == Build(s, theme)
        patched == theme = dark /\ Patchable(plan, new)
        fed == IF patched THEN Patched(gpu, plan, new) ELSE Uploaded(new)
    IN /\ scene' = s
       /\ dark' = theme
       /\ plan' = new
       /\ deformed' = Resampled(s)
       /\ gpu' = FoldSet(LAMBDA id, g : PatchMesh(g, new, Index(new, id),
                                                   Alone(s.obj[id], "end")),
                         fed, Resampled(s))
       /\ stale' = IF patched THEN (stale \ {"alpha"}) \union Left(s, new) ELSE {}
       /\ UNCHANGED <<theme, menu>>

(* The scene changes, by an edit here or an op from elsewhere. *)
Feed ==
    /\ \/ \E id \in Ids : \E o \in Variants[id] \ {scene.obj[id]} :
             LoadObjectScene([scene EXCEPT !.obj[id] = o])
       \/ \E picked \in Picks \ {scene.picked} :
             LoadObjectScene([scene EXCEPT !.picked = picked])
    /\ UNCHANGED drag

(* set_theme: the colors that are tokens are resolved again, on the GPU    *)
(* and in the plan's entries.  The paint's opacity is not multiplied in.   *)
Toggled(night) ==
    LET veiled == {id \in Live(scene) : scene.obj[id].fill = "veil"}
        toned(n, color) ==
            IF scene.obj[plan.ids[n]].fill \in Tokens THEN Bare(night) ELSE color
    IN /\ gpu' = [gpu EXCEPT !.color = [n \in DOMAIN @ |-> toned(n, @[n])]]
       /\ plan' = [plan EXCEPT !.entries = [n \in DOMAIN @ |->
                      [@[n] EXCEPT !.color = toned(n, @)]]]
       /\ stale' = stale \union (IF veiled = {} THEN {} ELSE {"alpha"})

(* set_object_theme: nothing to do if the renderer has the theme. *)
SetObjectTheme ==
    /\ "theme" \in menu
    /\ \E night \in BOOLEAN :
         /\ theme' = night
         /\ dark' = night
         /\ IF night = dark THEN UNCHANGED <<plan, gpu, stale>> ELSE Toggled(night)
    /\ UNCHANGED <<scene, deformed, drag, menu>>

(* set_ui_model: the persisted bit alone. *)
SetUiModel ==
    /\ "theme" \in menu
    /\ theme' = ~ theme
    /\ UNCHANGED <<scene, dark, plan, gpu, deformed, drag, menu, stale>>

Holding(id, kind) ==
    drag = Idle \/ (drag.kind = kind /\ drag.held /\ drag.id = id)

(* set_object_preview_transform *)
Preview(id, kind, delta) ==
    LET moved == Moved(scene, id)
        bent == Routed(scene, id, delta, "deform")
        back == (moved \ bent) \intersect deformed
        placed == Placed(gpu, Routed(scene, id, delta, "matrix"), delta)
    IN /\ Holding(id, kind)
       /\ gpu' = Reexpanded(Reexpanded(Reexpanded(placed,
                     Followers(scene, id), delta), bent, delta), back, "rest")
       /\ deformed' = (deformed \ moved) \union bent
       /\ drag' = [kind |-> kind, id |-> id, delta |-> delta, held |-> TRUE, ops |-> <<>>]
       /\ UNCHANGED <<scene, theme, dark, plan, menu, stale>>

(* set_object_endpoint_preview *)
PreviewEndpoint(id) ==
    /\ Holding(id, "end")
    /\ scene.obj[id].outline \in Open
    /\ gpu' = Reexpanded(gpu, {id}, "end")
    /\ deformed' = deformed \union {id}
    /\ drag' = [kind |-> "end", id |-> id, delta |-> "end", held |-> TRUE, ops |-> <<>>]
    /\ UNCHANGED <<scene, theme, dark, plan, menu, stale>>

Sample ==
    \E id \in Live(scene), kind \in menu \ {"theme"} :
        \/ kind = "end" /\ PreviewEndpoint(id)
        \/ kind # "end" /\ \E delta \in {"rest", kind} : Preview(id, kind, delta)

(* commitObjectDrag and commitEndpointDrag: the ops are made from the      *)
(* scene of the release; a body that came back to where it was makes none. *)
Release ==
    /\ drag # Idle
    /\ drag.held
    /\ LET body == [x \in Moved(scene, drag.id) \union Followers(scene, drag.id) |->
                       IF x \in Followers(scene, drag.id) THEN "deform"
                       ELSE Route(scene, Moved(scene, drag.id), x, drag.delta)]
       IN drag' = CASE drag.delta = "rest" -> Idle
                    [] drag.kind = "end" ->
                          [drag EXCEPT !.held = FALSE, !.ops = (drag.id :> "deform")]
                    [] OTHER -> [drag EXCEPT !.held = FALSE, !.ops = body]
    /\ UNCHANGED <<scene, theme, dark, plan, gpu, deformed, menu, stale>>

(* The op was authored: the scene with it is fed. *)
Committed(s, ops) ==
    [s EXCEPT !.obj = [id \in Ids |->
        IF id \notin DOMAIN ops \/ @[id] = Absent \/ ops[id] = "pinned" THEN @[id]
        ELSE IF ops[id] = "deform" THEN [@[id] EXCEPT !.outline = Bent[@]]
        ELSE [@[id] EXCEPT !.place = 1 - @]]]

Land ==
    /\ drag # Idle
    /\ ~ drag.held
    /\ LoadObjectScene(Committed(scene, drag.ops))
    /\ drag' = Idle

(* Mutant: the picked object alone is put back. *)
M_ClearPreview(id) ==
    /\ gpu' = Reexpanded(Reexpanded(Placed(gpu, {id}, "rest"),
                  Followers(scene, id), "rest"), deformed, "rest")
    /\ deformed' = {}

(* clear_object_preview *)
ClearPreview(id) ==
    /\ gpu' = Reexpanded(Reexpanded(Placed(gpu, Moved(scene, id), "rest"),
                  Followers(scene, id), "rest"), deformed, "rest")
    /\ deformed' = {}

(* clear_object_endpoint_preview *)
ClearEndpoint(id) ==
    /\ gpu' = IF id \in deformed THEN Reexpanded(gpu, {id}, "rest") ELSE gpu
    /\ deformed' = deformed \ {id}

(* The op was refused, or the object is gone; the pointer-cancel of an end *)
(* point drag comes to the same.                                           *)
Refuse ==
    /\ drag # Idle
    /\ drag.held => drag.kind = "end"
    /\ IF drag.kind = "end" THEN ClearEndpoint(drag.id) ELSE ClearPreview(drag.id)
    /\ drag' = Idle
    /\ UNCHANGED <<scene, theme, dark, plan, menu, stale>>

(* The pointer-cancel of a body drag: engine and renderer forget the drag, *)
(* and neither clears the preview.                                         *)
Cancel ==
    /\ drag # Idle
    /\ drag.held
    /\ drag.kind # "end"
    /\ drag' = Idle
    /\ stale' = stale \union (IF drag.delta = "rest" THEN {} ELSE {"matrix", "mesh"})
    /\ UNCHANGED <<scene, theme, dark, plan, gpu, deformed, menu>>

Next ==
    /\ Cardinality(stale \ {"alpha"}) <= MaxStale
    /\ \/ Feed
       \/ SetObjectTheme
       \/ SetUiModel
       \/ Sample
       \/ Release
       \/ Land
       \/ Refuse
       \/ Cancel

Spec == Init /\ [][Next]_vars

-----------------------------------------------------------------------------
(* Properties.  `stale' names the parts of the picture that the code is    *)
(* known to leave behind (see Left, Cancel and Toggled): a rebuild clears  *)
(* it, and every feed the part "alpha", with which a behaviour goes on.    *)

(* What the passes draw for entry n out of the buffers.                    *)
Drawn(n) ==
    [pass \in Pass |->
        LET range == plan.entries[n].range[pass]
        IN IF range.from + range.len > Len(gpu.mesh[pass]) THEN <<"fault">>
           ELSE Sliced(gpu.mesh[pass], range)]

(* Every color on the GPU is what the fed scene has in the live theme, also *)
(* in the middle of a drag: the toggle writes past the plan and mirrors     *)
(* itself into it, or the next diff would compare with the old theme.  Only *)
(* from a toggle until the next feed a translucent paint with a token may   *)
(* lack its opacity: set_theme (renderer-wgpu/object_pipeline.rs:1276)      *)
(* drops what paint_color multiplies in.  The plan holds the same wrong     *)
(* color, so that any feed, of another object too, puts it right.           *)
ColorsAreFed ==
    \A n \in DOMAIN plan.ids :
        LET fill == scene.obj[plan.ids[n]].fill
        IN /\ gpu.color[n] = plan.entries[n].color
           /\ \/ gpu.color[n] = Color(fill, dark)
              \/ /\ "alpha" \in stale /\ fill \in Tokens
                 /\ gpu.color[n] = Bare(dark)

(* With no drag under way every object stands where the fed scene has it:   *)
(* what a preview placed, a landing feed or a clear has put back.           *)
MatricesAreFed ==
    drag = Idle /\ "matrix" \notin stale =>
        \A n \in DOMAIN plan.ids : gpu.matrix[n] = <<scene.obj[plan.ids[n]].place, "rest">>

(* With no drag under way every object is drawn with its own mesh and with  *)
(* nobody else's: patches stay within ranges that still are the object's.   *)
MeshesAreFed ==
    drag = Idle /\ "mesh" \notin stale =>
        \A n \in DOMAIN plan.ids : \A pass \in Pass :
            Drawn(n)[pass] = Mesh(scene, plan.ids[n], pass)

(* Every clipper cuts with its own outline, to its own depth, at its own    *)
(* instance: the clip buffers are uploaded by a rebuild only.               *)
ClipsAreFed ==
    "clip" \notin stale =>
        /\ {plan.clip_draws[n].id : n \in DOMAIN plan.clip_draws} =
              {id \in Live(scene) : Cuts(scene, id)}
        /\ \A n \in DOMAIN plan.clip_draws :
              LET draw == plan.clip_draws[n]
              IN /\ draw.range.from + draw.range.len <= Len(gpu.clip)
                 /\ Sliced(gpu.clip, draw.range) = Vertices(scene.obj[draw.id].outline, "rest")
                 /\ draw.depth = ClipRef(scene, draw.id)
        /\ \A n \in DOMAIN plan.ids : plan.entries[n].clip_ref = ClipRef(scene, plan.ids[n])

(* An object the shell no longer previews is drawn as the scene has it, in  *)
(* every part.  plan.rs:37: "Same handle => byte-identical geometry".       *)
SameHandleSameMesh ==
    drag = Idle =>
        \A n \in DOMAIN plan.ids : \A pass \in Pass :
            Drawn(n)[pass] = Mesh(scene, plan.ids[n], pass)

=============================================================================
