---------------------------- MODULE SyncSession -----------------------------
(***************************************************************************)
(* Clients of one canvas and their websocket sessions: the sync engine     *)
(* (client-runtime/sync_engine.rs, outbox.rs), its shell (web/runtime      *)
(* syncEngine.ts, sceneClient.ts, wsTransport.ts) and the server's         *)
(* handle_socket (server/ws.rs) with the actor behind it.                  *)
(*                                                                         *)
(* A session has three tasks that run in parallel: the reader serves the   *)
(* client's frames one by one through the actor, the patch task forwards   *)
(* the actor's broadcasts, the writer sends what both put in one queue.    *)
(*   sess[c].state   "down", "joining" (hello seen, broadcasts subscribed, *)
(*                   snapshot still to come) or "open"                     *)
(*   sess[c].inq     the client's frames on their way, an `ops' frame as   *)
(*                   its ops one by one                                    *)
(*   sess[c].doing   the answer the reader is about to queue               *)
(*   sess[c].bq      broadcasts the patch task has not taken               *)
(*   sess[c].hand    the patch the patch task is about to queue            *)
(*   sess[c].out     queued for the client                                 *)
(*   sess[c].mine    the client's own author id is in self_authors         *)
(*   sess[c].top     history: the highest seq of a patch queued            *)
(*   sess[c].strays  history: the objects of ops taken across the edge of  *)
(*                   the window since the last snapshot                    *)
(*   old[c]          ops of broken connections the server still has        *)
(*                                                                         *)
(* The actor is one step per op here: its writes and crashes are the       *)
(* subject of CanvasActor, whose seq and revision agree while it runs.     *)
(* The shell's outbox is the in-memory store the application uses, whose   *)
(* rows are those of the engine's own.                                     *)
(***************************************************************************)
EXTENDS ObjectOps

CONSTANTS
    Client,
    Scripts,     \* what the clients author: the ops of each, in order
    InitObjs,    \* the objects of the first welcome
    Inside,      \* the values of prop that put an object in the window
    SameId,      \* a client's hello names the id it authors under
    Late,        \* clients go on authoring after a second welcome
    Roaming,     \* the clients whose connection and window change
    MaxUpsets    \* dropped connections, new windows and resyncs, together

ASSUME ScriptsAssumption ==
    \A s \in Scripts : \A c \in Client :
        /\ s[c] \in Seq(Range(s[c]))
        /\ \A op \in Range(s[c]) : op.kind = "batch" => op.ops \in Seq(Range(op.ops))
ASSUME ObjsAssumption ==
    \A o \in DOMAIN InitObjs : {"prop", "text"} \subseteq DOMAIN InitObjs[o]

(* The lists of comments an op writes, and the comments it names. *)
CommentLists(op) ==
    {p.value : p \in {q \in Does(op) : q.kind = "set-comments"}}
    \cup {p.object.comments : p \in {q \in Does(op) : q.kind = "insert"}}
Mentions(op, v) ==
    \/ \E p \in Does(op) : p.kind = "add-comment" /\ p.value = v
    \/ \E cs \in CommentLists(op) : v \in Range(cs)

(* An object has a list of comments.  A comment has an id of its own: the one
   that a client adds is in no other op of the scripts, and nowhere before. *)
ASSUME CommentsAssumption ==
    /\ \A o \in DOMAIN InitObjs :
         /\ "comments" \in DOMAIN InitObjs[o]
         /\ InitObjs[o].comments \in Seq(Range(InitObjs[o].comments))
    /\ \A s \in Scripts : \A c \in Client : \A i \in DOMAIN s[c] :
         /\ \A p \in Does(s[c][i]) : p.kind = "insert" => "comments" \in DOMAIN p.object
         /\ \A cs \in CommentLists(s[c][i]) : cs \in Seq(Range(cs))
         /\ s[c][i].kind = "add-comment" =>
              /\ \A o \in DOMAIN InitObjs :
                    s[c][i].value \notin Range(InitObjs[o].comments)
              /\ \A d \in Client : \A j \in DOMAIN s[d] :
                    Mentions(s[d][j], s[c][i].value) => d = c /\ j = i

(* What may happen to a client's frames, recorded in skew as it happens:
     overtaken   a patch was queued ahead of a welcome that is older
     echoed      the client was sent an op of its own
     swapped     an op of the client was taken, or settled, before an older *)
Skews == {"overtaken", "echoed", "swapped"}

VARIABLES script, scene, seen, sess, old, eng, view, skew, upsets

vars == <<script, scene, seen, sess, old, eng, view, skew, upsets>>

Whole == "whole"
Window == "window"

Key == ObjId \X {"prop", "text"}

-----------------------------------------------------------------------------
(* The engine, as functions of its state.                                  *)

(* owned_keys: prop stands here for transform, geometry and style. *)
OwnedKeys(op) ==
    LET of(o) == CASE o.kind = "set-prop" -> <<<<o.id, "prop">>>>
                   [] o.kind = "set-text" -> <<<<o.id, "text">>>>
                   [] OTHER -> <<>>
    IN  IF op.kind = "batch"
        THEN FlattenSeq([n \in DOMAIN op.ops |-> of(op.ops[n])])
        ELSE of(op)

Times(keys, k) == Cardinality({n \in DOMAIN keys : keys[n] = k})

NoneHeld == [n \in {} |-> <<>>]

NewEngine(objs, base) ==
    [objs |-> objs, base |-> base, seq |-> 0, rows |-> <<>>, pending |-> <<>>,
     held |-> NoneHeld, owned |-> [k \in Key |-> 0], fresh |-> TRUE, made |-> 0]

TakeOwnership(e, n, keys) ==
    [e EXCEPT !.held = With(@, n, keys),
              !.owned = [k \in Key |-> @[k] + Times(keys, k)]]

HeldBy(e, n) == IF n \in DOMAIN e.held THEN e.held[n] ELSE <<>>

Less(count, n) == IF count > n THEN count - n ELSE 0

ReleaseOwnership(e, n) ==
    [e EXCEPT !.owned = [k \in Key |-> Less(@[k], Times(HeldBy(e, n), k))],
              !.held = Restrict(@, DOMAIN @ \ {n})]

(* apply_remote: dropped if it writes a key the client owns, or fails. *)
M_ApplyRemoteAny(e, op) == [e EXCEPT !.objs = Apply(e.objs, op).objs]

ApplyRemote(e, op) ==
    IF \E n \in DOMAIN OwnedKeys(op) : e.owned[OwnedKeys(op)[n]] > 0 THEN e
    ELSE [e EXCEPT !.objs = Apply(@, op).objs]

(* on_rejected, and the part of on_ack that is the same.  No two rows of an
   outbox have one local_seq.                                              *)
Dropped(rows, n) == RemoveFirstMatch(rows, LAMBDA r : r.n = n)

Settle(e, n) == [ReleaseOwnership(e, n) EXCEPT !.rows = Dropped(@, n)]

M_OnAckKeepsHeld(e, n, revision) ==
    [e EXCEPT !.rows = Dropped(@, n),
              !.base = IF revision > @ THEN revision ELSE @]
M_OnAckNext(e, n, revision) ==
    [Settle(e, n) EXCEPT !.base = IF revision >= @ THEN revision + 1 ELSE @]

OnAck(e, n, revision) ==
    [Settle(e, n) EXCEPT !.base = IF revision > @ THEN revision ELSE @]

Replay(e, row) ==
    TakeOwnership([e EXCEPT !.objs = Apply(@, row.op).objs],
                  row.n, OwnedKeys(row.op))

(* The outbox's reseed with its own rows: the counter restarts from them. *)
Reseed(e) ==
    [e EXCEPT !.seq = Max({0} \cup {r.n : r \in Range(e.rows)})]

(* reconcile_snapshot: the rows are reseeded in any case; a snapshot older
   than the base is ignored.                                               *)
Stale(e, snap) == snap.version < e.base

Reconcile(e, snap) ==
    IF Stale(e, snap) THEN [Reseed(e) EXCEPT !.fresh = FALSE]
    ELSE FoldLeft(Replay,
                  [Reseed(e) EXCEPT !.fresh = FALSE, !.base = snap.version,
                                    !.objs = snap.objs, !.held = NoneHeld,
                                    !.owned = [k \in Key |-> 0]],
                  e.rows)

M_ResentNothing(e, snap) == <<>>

Resent(e, snap) == IF Stale(e, snap) THEN <<>> ELSE e.rows

-----------------------------------------------------------------------------
(* Windows.                                                                *)

(* Here prop stands for geometry and transform: where an object now lies. *)
InWindow(objs, o) == objs[o].prop \in Inside

Visible(objs, region) ==
    IF region = Whole THEN objs
    ELSE Restrict(objs, {o \in DOMAIN objs : InWindow(objs, o)})

(* On which sides of the edge the targets lie that are in the scene. *)
Sides(objs, op) ==
    {InWindow(objs, o) : o \in Range(TargetIds(op)) \cap DOMAIN objs}

(* op_touches_region looks at the scene after the op: an op whose targets
   have all left the window, or are outside it, is not forwarded.          *)
M_TouchesLocated(b, region) == region = Whole \/ TRUE \in b.after

TouchesRegion(b, region) ==
    region = Whole \/ b.after = {} \/ TRUE \in b.after

(* A target moves over the edge, or one lies on each side of it. *)
Crosses(b) == b.before \cup b.after = BOOLEAN

-----------------------------------------------------------------------------

Down == [state |-> "down", region |-> Whole, inq |-> <<>>, doing |-> <<>>,
         bq |-> <<>>, hand |-> <<>>, out |-> <<>>, mine |-> FALSE, top |-> 0,
         strays |-> {}]

Send(s, items) == IF s.state = "down" THEN s ELSE [s EXCEPT !.inq = @ \o items]

OpItems(rows) == [n \in DOMAIN rows |->
                    [type |-> "op", n |-> rows[n].n, op |-> rows[n].op]]

(* Every client has connected, and its engine was made from its welcome. *)
Init ==
    /\ script \in Scripts
    /\ scene = [objs |-> InitObjs, version |-> 0]
    /\ seen = [i \in {} |-> 0]
    /\ sess = [c \in Client |-> [Down EXCEPT !.state = "open", !.mine = SameId]]
    /\ old = [c \in Client |-> {}]
    /\ eng = [c \in Client |-> NewEngine(InitObjs, 0)]
    /\ view = [c \in Client |-> Whole]
    /\ skew = {}
    /\ upsets = 0

(* author: an op that fails or changes nothing leaves no trace. *)
Author(c, op) ==
    LET e == eng[c]
        r == Apply(e.objs, op)
        row == [n |-> e.seq + 1, op |-> op]
    IN
    /\ Late \/ e.fresh
    /\ r.ok /\ ~r.noop
    /\ eng' = [eng EXCEPT ![c] =
                 [TakeOwnership(e, row.n, OwnedKeys(op)) EXCEPT
                    !.objs = r.objs, !.seq = row.n, !.made = @ + 1,
                    !.rows = Append(@, row), !.pending = Append(@, row)]]
    /\ UNCHANGED <<scene, seen, sess, old, view, skew, upsets>>

(* on_flush_due, drained onto the transport: nothing is sent offline. *)
Flush(c) ==
    /\ eng[c].pending # <<>>
    /\ eng' = [eng EXCEPT ![c].pending = <<>>]
    /\ sess' = [sess EXCEPT ![c] = Send(@, OpItems(eng[c].pending))]
    /\ UNCHANGED <<scene, seen, old, view, skew, upsets>>

(* setViewport: a window that is not the one subscribed.  Offline it is kept
   for the next hello.                                                     *)
SetViewport(c, region) ==
    /\ upsets < MaxUpsets /\ view[c] # region
    /\ view' = [view EXCEPT ![c] = region]
    /\ sess' = [sess EXCEPT ![c] =
                  Send(@, <<[type |-> "subscribe", region |-> region]>>)]
    /\ upsets' = upsets + 1
    /\ UNCHANGED <<scene, seen, old, eng, skew>>

(* SceneClient.resync on an open socket. *)
Resync(c) ==
    /\ upsets < MaxUpsets /\ sess[c].state = "open"
    /\ sess' = [sess EXCEPT ![c] = Send(@, <<[type |-> "resume"]>>)]
    /\ upsets' = upsets + 1
    /\ UNCHANGED <<scene, seen, old, eng, view, skew>>

(* WsTransport.handleMessage with the callbacks of the attached engine, one
   action for each kind of frame.                                          *)
Frame(c) == Head(sess[c].out)
Incoming(c, type) == sess[c].out # <<>> /\ Frame(c).type = type
Taken(c) == [sess[c] EXCEPT !.out = Tail(@)]

SwapNoted(c) ==
    IF \E n \in DOMAIN eng[c].rows : eng[c].rows[n].n < Frame(c).n
    THEN skew \cup {<<c, "swapped">>} ELSE skew

ReceiveAck(c) ==
    /\ Incoming(c, "ack")
    /\ eng' = [eng EXCEPT ![c] = OnAck(@, Frame(c).n, Frame(c).revision)]
    /\ sess' = [sess EXCEPT ![c] = Taken(c)]
    /\ skew' = SwapNoted(c)
    /\ UNCHANGED <<scene, seen, old, view, upsets>>

ReceiveRejected(c) ==
    /\ Incoming(c, "rejected")
    /\ eng' = [eng EXCEPT ![c] = Settle(@, Frame(c).n)]
    /\ sess' = [sess EXCEPT ![c] = Taken(c)]
    /\ skew' = SwapNoted(c)
    /\ UNCHANGED <<scene, seen, old, view, upsets>>

ReceivePatch(c) ==
    /\ Incoming(c, "patch")
    /\ eng' = [eng EXCEPT ![c] = ApplyRemote(@, Frame(c).op)]
    /\ sess' = [sess EXCEPT ![c] = Taken(c)]
    /\ UNCHANGED <<scene, seen, old, view, skew, upsets>>

ReceiveWelcome(c) ==
    LET snap == Frame(c).scene IN
    /\ Incoming(c, "welcome")
    /\ eng' = [eng EXCEPT ![c] = Reconcile(@, snap)]
    /\ sess' = [sess EXCEPT ![c] = Send(Taken(c), OpItems(Resent(eng[c], snap)))]
    /\ UNCHANGED <<scene, seen, old, view, skew, upsets>>

-----------------------------------------------------------------------------
(* The server.                                                             *)

(* The actor's handle_envelope: a duplicate gets the ack of the original, an
   op the kernel refuses is rejected, any other is applied, recorded and
   broadcast to every session.                                             *)
Answer(c, item) ==
    LET r == Apply(scene.objs, item.op) IN
    IF <<c, item.n>> \in DOMAIN seen
    THEN [type |-> "ack", n |-> item.n, revision |-> seen[<<c, item.n>>]]
    ELSE IF r.ok
    THEN [type |-> "ack", n |-> item.n, revision |-> scene.version + 1]
    ELSE [type |-> "rejected", n |-> item.n]

Fresh(c, item) ==
    <<c, item.n>> \notin DOMAIN seen /\ Apply(scene.objs, item.op).ok

(* An older op of the client, neither taken nor settled, is overtaken. *)
TakenEarly(c, item) ==
    \E n \in DOMAIN eng[c].rows :
        /\ eng[c].rows[n].n < item.n
        /\ <<c, eng[c].rows[n].n>> \notin DOMAIN seen

Broadcast(s, patch) ==
    [d \in Client |-> IF s[d].state = "down" THEN s[d]
                      ELSE [s[d] EXCEPT !.bq = Append(@, patch)]]

Applied(c, item, objs) ==
    [seq |-> scene.version + 1, op |-> item.op, author |-> c,
     before |-> Sides(scene.objs, item.op), after |-> Sides(objs, item.op)]

M_HandleNoDedup(c, item, s) ==
    LET r == Apply(scene.objs, item.op) IN
    IF r.ok
    THEN /\ scene' = [objs |-> r.objs, version |-> scene.version + 1]
         /\ seen' = [i \in DOMAIN seen \cup {<<c, item.n>>} |->
                       IF i = <<c, item.n>> THEN scene.version + 1 ELSE seen[i]]
         /\ sess' = Broadcast(s, Applied(c, item, r.objs))
         /\ skew' = IF TakenEarly(c, item)
                    THEN skew \cup {<<c, "swapped">>} ELSE skew
    ELSE UNCHANGED <<scene, seen, skew>> /\ sess' = s

Handle(c, item, s) ==
    LET r == Apply(scene.objs, item.op) IN
    IF Fresh(c, item)
    THEN /\ scene' = [objs |-> r.objs, version |-> scene.version + 1]
         /\ seen' = [i \in DOMAIN seen \cup {<<c, item.n>>} |->
                       IF i = <<c, item.n>> THEN scene.version + 1 ELSE seen[i]]
         /\ sess' = Broadcast(s, Applied(c, item, r.objs))
         /\ skew' = IF TakenEarly(c, item)
                    THEN skew \cup {<<c, "swapped">>} ELSE skew
    ELSE UNCHANGED <<scene, seen, skew>> /\ sess' = s

(* The reader takes an op to the actor and waits for its answer. *)
ServeOp(c) ==
    LET item == Head(sess[c].inq)
        s == [sess EXCEPT ![c].inq = Tail(@), ![c].mine = TRUE,
                          ![c].doing = <<Answer(c, item)>>]
    IN
    /\ sess[c].state = "open" /\ sess[c].doing = <<>> /\ sess[c].inq # <<>>
    /\ item.type = "op"
    /\ Handle(c, item, s)
    /\ UNCHANGED <<old, eng, view, upsets>>

Snapshot(region) ==
    [type |-> "welcome",
     scene |-> [objs |-> Visible(scene.objs, region), version |-> scene.version]]

(* Subscribe and Resume: re-aim the filter and get the snapshot, in two
   steps with the mailbox of the actor in between.                         *)
ServeSubscribe(c) ==
    LET item == Head(sess[c].inq) IN
    /\ sess[c].state = "open" /\ sess[c].doing = <<>> /\ sess[c].inq # <<>>
    /\ item.type = "subscribe"
    /\ sess' = [sess EXCEPT ![c].inq = <<[type |-> "resume"]>> \o Tail(@),
                            ![c].region = item.region]
    /\ UNCHANGED <<scene, seen, old, eng, view, skew, upsets>>

ServeResume(c) ==
    /\ sess[c].state = "open" /\ sess[c].doing = <<>> /\ sess[c].inq # <<>>
    /\ Head(sess[c].inq).type = "resume"
    /\ sess' = [sess EXCEPT ![c].inq = Tail(@), ![c].strays = {},
                            ![c].doing = <<Snapshot(sess[c].region)>>]
    /\ UNCHANGED <<scene, seen, old, eng, view, skew, upsets>>

(* The reader queues the answer. *)
QueueAnswer(c) ==
    LET m == Head(sess[c].doing) IN
    /\ sess[c].doing # <<>>
    /\ sess' = [sess EXCEPT ![c].out = Append(@, m), ![c].doing = <<>>]
    /\ skew' = IF m.type = "welcome" /\ m.scene.version < sess[c].top
               THEN skew \cup {<<c, "overtaken">>} ELSE skew
    /\ UNCHANGED <<scene, seen, old, eng, view, upsets>>

(* The patch task takes a broadcast and drops it or makes it a patch ... *)
Forwards(c, b) ==
    ~(b.author = c /\ sess[c].mine) /\ TouchesRegion(b, sess[c].region)

(* History: what crosses the edge strays, and what a batch ties to a stray. *)
Strayed(s, b) ==
    LET ids == Range(TargetIds(b.op)) IN
    IF s.region = Window /\ (Crosses(b) \/ ids \cap s.strays # {})
    THEN s.strays \cup ids ELSE s.strays

TakeBroadcast(c) ==
    LET s == sess[c]
        b == Head(s.bq)
        patch == [type |-> "patch", seq |-> b.seq, op |-> b.op, author |-> b.author]
    IN
    /\ s.state = "open" /\ s.bq # <<>> /\ s.hand = <<>>
    /\ sess' = [sess EXCEPT ![c].bq = Tail(@),
                            ![c].hand = IF Forwards(c, b)
                                        THEN <<patch>> ELSE <<>>,
                            ![c].strays = Strayed(s, b)]
    /\ UNCHANGED <<scene, seen, old, eng, view, skew, upsets>>

(* ... and queues it. *)
QueuePatch(c) ==
    LET p == Head(sess[c].hand) IN
    /\ sess[c].hand # <<>>
    /\ sess' = [sess EXCEPT ![c].out = Append(@, p), ![c].hand = <<>>,
                            ![c].top = p.seq]
    /\ skew' = IF p.author = c THEN skew \cup {<<c, "echoed">>} ELSE skew
    /\ UNCHANGED <<scene, seen, old, eng, view, upsets>>

-----------------------------------------------------------------------------
(* Connections.                                                            *)

(* The connection breaks.  What the client sent up to some point is with the
   server, which serves it later; all else on the way is lost.  The client's
   transport is offline and its engine keeps its state.                    *)
Drop(c) ==
    /\ sess[c].state # "down" /\ upsets < MaxUpsets
    /\ \E k \in 0..Len(sess[c].inq) :
         LET q == sess[c].inq
             got == FlattenSeq([n \in 1..k |-> IF q[n].type = "op"
                                               THEN <<q[n]>> ELSE <<>>])
         IN old' = [old EXCEPT ![c] = IF got = <<>> THEN @ ELSE @ \cup {got}]
    /\ sess' = [sess EXCEPT ![c] = Down]
    /\ upsets' = upsets + 1
    /\ UNCHANGED <<scene, seen, eng, view, skew>>

(* The reader of a broken connection goes on with the frames it has. *)
ServeOld(c, q) ==
    /\ Handle(c, Head(q), sess)
    /\ old' = [old EXCEPT ![c] = (@ \ {q}) \cup
                                 (IF Len(q) = 1 THEN {} ELSE {Tail(q)})]
    /\ UNCHANGED <<eng, view, upsets>>

(* The reconnect timer opens a socket and the server takes its hello:
   subscribed to the broadcasts before the snapshot is asked for.          *)
Hello(c) ==
    /\ sess[c].state = "down"
    /\ sess' = [sess EXCEPT ![c] = [Down EXCEPT !.state = "joining",
                                                !.region = view[c],
                                                !.mine = SameId]]
    /\ UNCHANGED <<scene, seen, old, eng, view, skew, upsets>>

Welcome(c) ==
    /\ sess[c].state = "joining"
    /\ sess' = [sess EXCEPT ![c].state = "open",
                            ![c].out = <<Snapshot(sess[c].region)>>]
    /\ UNCHANGED <<scene, seen, old, eng, view, skew, upsets>>

(* The coalescing timer, the socket's events, the tasks of a session and the
   reconnect timer.                                                        *)
Work(c) ==
    \/ Flush(c) \/ Hello(c) \/ Welcome(c)
    \/ ReceiveAck(c) \/ ReceiveRejected(c) \/ ReceivePatch(c) \/ ReceiveWelcome(c)
    \/ ServeOp(c) \/ ServeSubscribe(c) \/ ServeResume(c) \/ QueueAnswer(c)
    \/ TakeBroadcast(c) \/ QueuePatch(c)

(* The user, the network, and the readers of broken connections. *)
Other(c) ==
    \/ /\ eng[c].made < Len(script[c])
       /\ Author(c, script[c][eng[c].made + 1])
    \/ /\ c \in Roaming
       /\ \/ \E region \in {Whole, Window} : SetViewport(c, region)
          \/ Resync(c) \/ Drop(c)
    \/ \E q \in old[c] : ServeOld(c, q)

Next == (\E c \in Client : Work(c) \/ Other(c)) /\ UNCHANGED script

Spec == Init /\ [][Next]_vars

(* Timers fire, events are dispatched, tasks run, and the reconnect timer is
   re-armed for ever: some of the work that is due is always done.         *)
FairSpec == Spec /\ WF_vars((\E c \in Client : Work(c)) /\ UNCHANGED script)

-----------------------------------------------------------------------------

Rows(c) == Range(eng[c].rows)

(* Transient ownership is exactly that of the unacked ops: whatever order
   acks, rejections, patches and welcomes come in, a key is owned once for
   each outbox row that writes it.  A key owned for longer would shut out
   every peer's write to it (take_ownership, release_ownership,
   reconcile_snapshot).                                                    *)
OwnershipIsUnacked ==
    \A c \in Client :
        /\ DOMAIN eng[c].held = {r.n : r \in Rows(c)}
        /\ \A k \in Key : eng[c].owned[k] =
             MapThenSumSet(LAMBDA r : Times(OwnedKeys(r.op), k), Rows(c))

(* The objects that some op a client authors inserts. *)
InsertedBy(ops) ==
    {o.id : o \in {p \in UNION {Does(op) : op \in ops} : p.kind = "insert"}}
Authorable == UNION {Range(script[c]) : c \in Client}

(* The newest of the rows that write a key. *)
LastWrite(rows, k) ==
    LET writes == {r \in rows : k \in Range(OwnedKeys(r.op))}
    IN  {r \in writes : \A q \in writes : q.n <= r.n}

(* While a write is unacked the client shows it: neither a peer's patch nor
   an echo nor a welcome takes back the last value the user gave a field, as
   long as the object is there and the server took the ops in order.  Two
   things may: an Insert, which owns no key, that brings a deleted object
   back; and a batch, replayed onto a welcome that lacks one of its objects. *)
UnackedWriteStands ==
    \A c \in Client : <<c, "swapped">> \in skew \/ \A k \in Key :
        k[1] \notin InsertedBy(Authorable) =>
            \A r \in LastWrite(Rows(c), k) :
                r.op.kind # "batch" /\ k[1] \in DOMAIN eng[c].objs =>
                    eng[c].objs[k[1]][k[2]] = r.op.value

(* reconcile_snapshot ignores a welcome older than the base revision, and
   then nothing is resent: no welcome on its way to a client is older than
   what its engine will have acknowledged by then.  The code's own comment
   (sync_engine.rs:313) says otherwise: a windowed subscribe "can race a
   just-acked local mutation and return a snapshot generated before it
   landed", and "the server's current snapshot follows".  With one actor it
   cannot: the reader (ws.rs:366) serves a client's ops and subscribes one
   after the other, waits for the actor each time and alone queues the acks
   and the welcomes; the guard is for an actor that goes on after its
   eviction, which Registry has and this module leaves out.  And nothing
   would follow: no frame asks for another snapshot on account of the one
   that is ignored.                                                        *)
WelcomeNotStale ==
    \A c \in Client : \A n \in DOMAIN sess[c].out :
        LET m == sess[c].out[n] IN
        m.type = "welcome" =>
            /\ eng[c].base <= m.scene.version
            /\ \A p \in 1..n : sess[c].out[p].type = "ack" =>
                                 sess[c].out[p].revision <= m.scene.version

MaxComments == MapThenSumSet(LAMBDA c : Len(script[c]), Client)
CommentsOn(objs, c) ==
    {p \in (DOMAIN objs) \X (1..2 * MaxComments) :
       p[2] \in DOMAIN objs[p[1]].comments /\ objs[p[1]].comments[p[2]] = c}

(* An op that is sent on several connections, the frames of the earlier ones
   served late, moves the scene once.                                      *)
AppliedOnce ==
    \A c \in Client : \A op \in Range(script[c]) :
        op.kind = "add-comment" =>
            Cardinality(CommentsOn(scene.objs, op.value)) <= 1

(* Nothing is on its way and nothing is unacked. *)
AtRest ==
    \A c \in Client :
        /\ eng[c].rows = <<>> /\ eng[c].pending = <<>> /\ old[c] = {}
        /\ sess[c].state = "open"
        /\ <<>> = sess[c].inq \o sess[c].doing \o sess[c].bq \o sess[c].hand
                  \o sess[c].out

Shown(objs, region, strays) ==
    LET seenObjs == Visible(objs, region)
    IN  [o \in DOMAIN seenObjs \ strays |->
           [seenObjs[o] EXCEPT !.comments = Range(seenObjs[o].comments)]]

(* When each field has one writer, every client ends up with the objects of
   the server that lie in its window, a comment that a snapshot and a patch
   both brought counted once.  The exceptions are the races skew records,
   and the strays: op_touches_region (ws.rs:156) looks at the scene after the
   op only, so a client with a window is never told that an object left it
   and keeps a copy that no later op reaches; when one comes in, the patch
   finds no object there, or that old copy; and a batch with a target outside
   fails as a whole.  Those objects stay wrong until the next snapshot, which
   a resync, a reconnect or a new window brings and nothing else; all other
   objects are as the server has them.                                      *)
Converged ==
    AtRest => \A c \in Client :
                \/ \E why \in Skews : <<c, why>> \in skew
                \/ Shown(eng[c].objs, view[c], sess[c].strays)
                     = Shown(scene.objs, view[c], sess[c].strays)

(* Every authored op leaves the outbox, acked or rejected, once the user and
   the network have done their worst (both are bounded here).              *)
OutboxDrains == <>[](\A c \in Client : eng[c].rows = <<>>)

(* Doc (outbox.rs:37): "must keep `local_seq` monotonic per `client_id` and
   persist that counter so it never repeats": so that the server's dedup by
   op id never takes a new op for an old one.  A comment that has left its
   author's outbox is in the server's scene.                               *)
SettledOpApplied ==
    \A c \in Client : \A op \in Range(script[c]) :
        /\ op.kind = "add-comment"
        /\ CommentsOn(eng[c].objs, op.value) # {}
        /\ \A r \in Rows(c) : r.op # op
        => CommentsOn(scene.objs, op.value) # {}

=============================================================================
