# A TLA+ model of shape.ai

shape.ai is a collaborative canvas: a Rust server keeps each canvas as a scene
of objects, clients edit it through small operations (`ObjectOp`), the same
Rust core, compiled to wasm, applies the operations optimistically in the
browser, and a renderer keeps the GPU's copy of the scene up to date. This
directory holds TLA+ modules for the parts whose correctness depends on order,
on concurrency, on crashes or on long sequences of legal calls; TLC checks small
instances and TLAPS proves some of the results for all of them. `PROJECT.json`
lists the runs, the mutants, the source lines of every definition, the hazards
and the theorems.

## The system

| Part | State | Operations | Hard because | Correct when |
|---|---|---|---|---|
| Coordinator (`crates/coordination`) | lease and presence tables, in memory or in files; a token counter | acquire, renew, release, find_owner, presence put and get | the clock is read before the lock is taken; leases expire; a process dies while it writes a file | a canvas has one lessee; find_owner names it; nothing live is taken away |
| Registry (`server/registry.rs`) | map canvas -> actor, drain flag, route cache, one renew task per entry | get_or_spawn, resolve_owner, evict, evict_idle, delete_canvas, shutdown | every operation awaits in the middle; several instances share the store; instances crash | one writer per canvas; nothing leaks; draining hands everything over |
| Canvas actor (`server/canvas_actor.rs`, `object_store.rs`, `sync.rs`) | working scene, LWW table, seq, dedup table; on disk object records, meta, journal | envelope, bare op, Feature, recovery, shutdown | a crash between any two writes; clients resend | acks stand; seqs are never reused; reload gives the scene that was served |
| Object kernel (`scene-core/object/kernel`), order keys (`fractional.rs`), grouping and duplication | none: functions on a scene | apply with inverse, LWW apply, target_ids, Split, Merge, Canonicalize, Batch, midpoints | inverses of inverses, ops that degrade to nothing, peers changed on the side, carries | an inverse restores the scene; the gate lets the last arrival win; what changed is stored; keys fit between their neighbours |
| Undo stack and its driver (`undo.rs`, `wasm_api.rs`, `App.svelte`) | undo, redo, coalescing window, handshake; the ops in flight, the chain of presses | record, undo, redo, note, abort, windows | the record happens after an await; peers change the scene in between | undo restores; an edit discards redo; the handshake never gets stuck |
| Sync engine, outbox, websocket session (`client-runtime`, `ws.rs`, `web/runtime`) | outbox, transient ownership, base revision; per session a reader, a patch task, a writer | author, apply_remote, ack, reject, reconcile, flush; hello, ops, subscribe, resume | lost, repeated and reordered frames; patches and snapshots take different ways | every authored op is applied once or reported; unacked writes stand; clients converge |
| Renderer's feed (`renderer-core/plan.rs`, `renderer-wgpu/object_pipeline.rs`, `scene_feed.rs`, the drags of `canvasHost.ts`) | retained plan, GPU buffers, deformed previews, theme in two places | load_object_scene, patch or rebuild, previews, commit, clear, cancel, theme toggle | previews write past the plan that the next diff compares with | the GPU has what the fed scene has |
| Canvas index, storage adapters | one record, a key-value store | create, rename, list; save, load, region query | errors in the middle | what was saved is loaded |
| Drawing, text layout, recognition, inspector, UI, extensions | geometry, pixels, widgets | | floats, GPU, DOM | outside what a model checker says something about |

How they interact: a client authors an op through the sync engine (applied at
once, stored in the outbox, sent over the websocket). The session asks the
registry for the canvas's actor, which the registry spawns under a lease from
the coordinator. The actor applies ops one by one through the object store to
the shared storage, journals, acknowledges and broadcasts them. Each scene the
engine emits is fed to the renderer.

## Modules

| Module | Models | Uses |
|---|---|---|
| `LeaseTable` | what one coordinator operation decides about the lease entry of a canvas | |
| `LeaseService` | abstract: what any coordinator promises about leases | `LeaseTable` |
| `Coordination` | the in-memory coordinator under concurrent calls | `LeaseTable`, refines `LeaseService` |
| `CoordinationProofs` | its theorems | `Coordination` |
| `FileCoordinator` | the coordinator of several processes over files, with crashes | `LeaseTable`, refines `LeaseService` |
| `FileCoordinatorProofs` | its theorems, and what the promise of `LeaseService` is worth | `FileCoordinator` |
| `Registry` | several instances of the registry, their tasks, actors, renew tasks and crashes | `LeaseTable` |
| `RegistryProofs` | its theorems about who answers for an actor, and who writes | `Registry` |
| `ObjectOps` | the operations of the kernel as functions on a scene | |
| `ObjectOpsProofs` | what an op leaves alone: theorems and lemmas about these functions | `ObjectOps` |
| `CanvasActor` | one canvas over the lives of its actors | `ObjectOps` |
| `CanvasActorProofs` | its theorems | `CanvasActor`, `ObjectOpsProofs` |
| `UndoStack` | one client's undo history | `ObjectOps` |
| `UndoStackProofs` | its theorems | `UndoStack` |
| `SyncSession` | several clients, their engines and sessions, and the actor behind them | `ObjectOps` |
| `SyncSessionProofs` | its theorems | `SyncSession`, `ObjectOpsProofs` |
| `OrderKeys` | fractional order keys as functions | |
| `SceneStructure` | the ops that restructure a scene, and the batches the shell authors | `OrderKeys` |
| `SceneStructureProofs` | its theorems, and those about keys | `SceneStructure` |
| `ObjectFeed` | the renderer's retained plan, buffers and previews | |
| `MC_*` | instances for TLC | |

Definitions named `M_...` are deliberate mistakes: each stands in for the
definition after it, and breaks the property it is listed with in
`PROJECT.json`.

**LeaseService, Coordination, FileCoordinator.** The abstract service has
operations that happen at one moment and are judged by the clock of that moment.
In `Coordination` a call is two steps: `Begin...` reads the clock, the second
step runs under the lock with that reading; other calls and time pass between
them. In `FileCoordinator` the second step is two more, taking the lock and
rewriting the file, and a process may die between them, which leaves the file
empty and the lock free. `handles` are the `Lease` values given out; a caller
may present any of them at any time. `until` and `current` are history: what the
lessee was last promised, and whether its own owner has replaced or released the
lease. `ActsAsLeaseService` maps each module's own `clock`, `leases` and
`handles` to the service's.

**Registry.** A task is a call of a public method; a step is what happens
between two awaits. An actor is named by the counter of the lease it was spawned
under. Of the actor's work only the mailbox, the sequence number and the author
of each journal record are kept; the coordinator's operations are taken as
atomic here, which is what `ActsAsLeaseService` is for. A process that crashed
does not come back under its owner id (`default_owner` makes a new one). How
long a canvas has been idle is not modelled: `evict_idle` may pick any live
canvases. A behaviour picks one of `Deployments` and stays with it.

**ObjectOps.** Of an object the model keeps a blindly written property, which
stands for geometry, transform, style, layout, clip, sizing, meta, tags and
order; the text, where an identical write is nothing; the anchors, which a
delete of their target prunes; the parent; and the comments, which are the one
part where applying an op twice shows. Values are taken to be valid: bad geometry
is refused before anything changes, and no property is about it. A `Batch` in a
`Batch` is the same list of ops. `Canonicalize`, `Split` and `Merge` are in
`SceneStructure`.

**CanvasActor.** A command is served to its end before the next is taken, but
its writes are separate steps (each object of `target_ids`, the meta, the
journal entry), and so are those of a replay; the process may end between any
two. A client resends an op at any time. `acks` is history.

**UndoStack.** The wasm core applies an op inside the call that authors it; the
shell gets to know the inverse after the outbox write. `flight` holds the ops in
between. Writes settle in the order they were made; an op that writes no row
settles before the next event, as microtasks do. `was`, `at`, `clean` and
`forks` are history. Coalescing windows are part of the engine's API and its
tests; `App.svelte` opens none at this commit. `GestureEdits` is what a host
authors inside one. `client` is the shell's scene client: before the first connect there
is none, edits go to the scene directly and a press returns without touching the
stack; a failed canvas switch leaves one that is torn down and throws (`Teardown`).
A behaviour picks one of `Habits`: the inputs its user makes, and whether they wait
for each op.

**SyncSession.** The engine is a record and its methods are functions of it; the
session is the queues its three tasks work on, one action for each thing a task
does between two awaits and for each kind of frame the client takes. An `ops`
frame is its ops one by one, since the reader awaits the actor between them.
Connections break at any point; what the client had sent up to some frame is
then still served, later than what the new connection brings (`old`). The actor
is one step per op, since its writes and crashes are the subject of
`CanvasActor`. `skew` is history: it records the three races under which the code
does not promise convergence (see below), so that the properties can say exactly
what is left outside them. An object lies in the window by the value of its `prop` in the scene at hand, so
an op may take it across the edge; `strays` is history too: the objects of such ops,
and what a batch ties to them, since the client's last snapshot. A behaviour picks
one of `Scripts`: what each client's user does. With `Late` off, clients stop authoring after a second
welcome, which keeps the id reuse of `sync_reuse` out of the other properties.

**OrderKeys, SceneStructure.** A key is a sequence of numbers over any number of
digits and widths, whose lexical order is the byte order of the code's strings.
An object is its contours, each a name and a number of nodes, the space its
geometry is written in, its anchors, parent and key. An anchor names a node by a
flat index, as in the code, so the re-indexing of Split and Merge is arithmetic
and `AnchorsStay` can ask where it leads. An edit is a `Batch` the shell authors;
the properties about an op quantify over every edit of the state, so that a run
judges each op in each scene it reaches and not only in those that come of it.

**ObjectFeed.** A buffer is a sequence of vertices in which the objects' meshes
lie one after the other, and a draw range is where one of them lies, so a patch
into the wrong range overwrites a neighbour. A vertex is an outline and its bend,
a matrix a place and a delta. Two passes stand for fill, stroke, shadow and text.
The mesh of an object is compared with what the fed scene would give it; the plan
is what the code compares with. A color is a hue, the theme it was resolved in and
an opacity; the fill `veil` is a token at less than full opacity, which a build
multiplies in and a toggle (`Toggled`) does not. `Left` and `Cancel` note in `stale` which part of
the picture the code is known to leave behind, by the cases named there; with
`MaxStale = 0` a behaviour ends when something is noted. Only `alpha`, which a
toggle notes for a `veil`, lasts until the next feed and lets the behaviour go on:
the feed has to put the opacity back.

## Runs

Bounds are chosen so that the event in question happens with room to spare.

| Run | Instance | Shows |
|---|---|---|
| `coordination` | 2 owners, 2 concurrent calls, TTL 2, clock to 4, 3 tokens | a lease expires, is stolen, and its old holder comes back, with readings up to two TTLs old: still one lessee, it is the routed one, and the whole acts as `LeaseService` |
| `file_coordinator` | 2 processes with a call each, TTL 2, clock to 3, 2 tokens a process, a crash of each | readings, locks and half-written files of two processes act as `LeaseService`; presence is lost only with the process that rewrote it |
| `registry` | four deployments: 2 instances with a call at a time each, crashes, renewals at most 1 late, clock to 4, 2 leases, an op of each actor; the same without crashes or time, 2 ops; 1 instance with 2 concurrent calls, 2 leases, an op; the same with 3 leases; fairness | one writer per canvas and no acknowledged op overwritten (serial calls); the map holds running actors only; no actor, renew task or lease is forgotten; a drain ends with every canvas given up (serial calls) |
| `actor_crash` | 3 envelopes (a comment, a text that changes nothing, a delete), Features of one and two ops, a dedup table of 2, 6 ops, 2 crashes | acks, journal, sequence, LWW and reload survive a crash at any write; a resend is answered like the original as long as the table can |
| `undo` | three habits: every kind of op, one after the other; two edits and windows that drag one property, one after the other; the same without waiting, beside a peer that deletes, failing outbox writes and a client that never connected or is torn down; 5 inputs, fairness | exact undo and redo, a gesture is one entry, redo is discarded by an edit; the handshake never gets stuck, every press finishes |
| `sync_session` | 2 clients, 2 objects, a value of `prop` that lies outside the window; one writes twice and the other deletes; one writes and comments; an object leaves, or leaves and returns, or a batch follows that has it and one inside; one dropped connection, new window or resync, fairness | unacked writes stand, ownership is that of the outbox, no welcome is too old, nothing is applied twice, clients converge but for the races of `skew` and the objects of `strays`, the outbox drains |
| `scene_structure` | 5 scenes of 2 to 4 objects (contours with anchors, a tree, keys about zero, at the top and at the bottom), 3 edits, 3 digits, 2 widths a sign | inverses of inverses, anchors, stored ids, parents, stacking and keys, over every edit of every scene met |
| `object_feed` | a frame that may clip, a child that may leave it, change its outline or hide, a line that may be anchored to it; fills that are a token, a translucent token, or none; a behaviour has theme toggles, or one of three kinds of drag | colors, matrices, meshes and clip masks on the GPU are those of the fed scene |

Why these bounds are enough. In `coordination` two TTLs fit into the clock, so a
reading can be older than the lease it judges. Each of `registry`'s deployments
has one call more than the race it is about needs. `actor_crash` has an op before,
between and after two crashes, and a journal longer than the dedup table.
`sync_session` has one upset: each upset puts a session back into a state like the
first, with an outbox; what a second one would add is an older connection still
being served, and `old` holds several. In `scene_structure` a key crosses each
boundary of width and digit within three edits; in `object_feed` the states of
the three objects are all combinations of their variants.

The other runs end in a counterexample on purpose: the property is a sentence of
the repository, and the code does something else.

| Run | The sentence | What happens |
|---|---|---|
| `registry_two_opens` | "While held, no other owner can spawn the same canvas" (`registry.rs:8`) | the loser of two racing opens holds the newer token and releases it: the winner runs without a lease, and a second instance spawns the canvas |
| `sync_reuse` | "must keep `local_seq` monotonic per `client_id` and persist that counter so it never repeats" (`outbox.rs:37`) | a welcome reseeds the counter from the unacked rows; with none, the next op takes an id the server has seen, is acknowledged and never applied |
| `anchor_range` | "`node_index` is in range for the *owning* object's geometry" (`validate.rs:150`) | a merge of the target shifts the index as if it counted the target's nodes |
| `feed_hide` | "Same handle => byte-identical geometry" (`plan.rs:37`) | `hidden` is no part of the handle but decides the mesh: hiding patches nothing, the old mesh stays in the buffers under new draw ranges |

The models reach further places where the code and its words part; they have no
run of their own:

* An open that passed the drain check (`registry.rs:166`) before it awaited its
  lease inserts after `shutdown` has drained the map.
* `evict` takes the entry out of the map before its actor has drained
  (`registry.rs:386`). An open in that window recovers a second actor from the
  journal; both stamp the same `seq`, which "strictly increases"
  (`canvas_actor.rs:10`), and the second journal write replaces an acknowledged op:
  `AckedOpKept` without its restriction to serial calls.
* "Any reloaded object is exact-to-the-last-op" (`canvas_actor.rs:14`): a delete
  prunes peers' anchors in memory and stores the deleted id only
  (`object_store.rs:302`), so a reload brings the anchors back.
* "The scene and server seq never move twice for one op" (`sync.rs:6`): after a
  crash between the object write and the journal write a resent comment appears
  twice.
* "Replay is harmless" (`canvas_actor.rs:488`): the property table of a loaded
  canvas is empty, and the stored revision lags after an op that changed nothing,
  so an entry the records already hold is applied again and a comment doubles.
* An edit "clears redo" (`undo.rs:64`): it is recorded after an await, outside the
  chain of presses (`App.svelte:710`); an undo pressed before that is noted after
  it and is redoable across the newer edit.
* Delete "cascades children" (`op.rs:149`): children stay, with a parent that is
  gone. While it is gone its frame can be moved beneath such a child
  (`would_cycle` ends at the missing parent), and undoing the delete closes a
  parent loop that `validate.rs:1` says is rejected.
* A coalescing window keeps the first inverse (`undo.rs:77`): over two objects,
  as in an erase drag, undo brings back the first only.
* redo hands out the captured op (`undo.rs:143`), not the re-inverse the module's
  comment speaks of; across a peer's op the two differ.
* The three races of `skew`. *Echoed*: the server "never echoes" a client's ops
  (`wsTransport.ts:43`), but a new session does not know the author until the
  first op arrives on it, so ops of the old connection come back as a peer's.
  *Swapped*: entries replay "in `local_seq` order" (`outbox.rs:5`), but a flush
  before the welcome sends a newer op first (`wsTransport.ts:223`). *Overtaken*: a
  patch is queued ahead of a snapshot that does not have it yet.
* A welcome that predates an ack: a windowed subscribe "can race a just-acked local
  mutation and return a snapshot generated before it landed" (`sync_engine.rs:313`),
  and "the server's current snapshot follows". `WelcomeNotStale`, and for any scripts
  the theorem `WelcomesFresh`, say that this cannot happen with one actor: the
  session's reader serves ops and subscribes one after the other and alone queues
  their answers. Only an actor that goes on after its eviction, while the client
  reconnects to its successor, could send one; it is not in this model. Nor would
  anything follow: no code asks for another snapshot on account of an ignored one.
* `op_touches_region`, "conservative" by its comment (`ws.rs:152`), looks at the
  scene after the op. A client with a window is not told that an object left it and
  keeps a copy no later op reaches; for an object that comes in it gets a patch
  without the object, or for that old copy; a batch with a target outside fails as a
  whole. A resync, a reconnect or a new window repairs it, nothing else does. These
  are the `strays` that `Converged` leaves out, and it leaves out no others.
* The theme toggle writes a token's color without the paint's opacity
  (`renderer-wgpu/object_pipeline.rs:1276`), which the build multiplies in
  (`renderer-core/object_pipeline.rs:1066`): a translucent token fill or stroke is
  drawn at the token's own alpha. The plan gets the same color, so that the next
  feed, of any object, writes the right one; `ColorsAreFed` allows it until then.
* "This fires only on an actual clip toggle — never on … resize" (`plan.rs:203`):
  a clipper whose outline changes into one with as many vertices is patched, and
  its mask stays the old one. The cancellation of a body drag, and a feed during
  one, leave previews on the GPU (`engine.ts:656`, `scene_feed.rs:140`).
* A torn frame is "re-read from the same offset" (`file.rs:211`): the poller has
  moved its offset past it (`file.rs:170`). Read from the code; the log is not
  modelled.
* Below the second smallest integer `decrement_integer` gives the smallest one,
  which `validate_order_key` refuses, so nothing can be put next to it
  (`fractional.rs:278`); `KeysFit` stops short of it.

Deadlock is checked where the system must not stop: `coordination`,
`actor_crash`. Elsewhere inputs are bounded and it may really come to rest: all
processes may have died (`file_coordinator`, `registry`), the user stops (`undo`,
`sync_session`, `scene_structure`), or something is noted as left behind
(`object_feed`).

**Time.** The coordinator's clock moves forward only. In `Registry` a renewal is
at most `MaxLate` ticks late with `Interval + MaxLate < Ttl` (the code: 10 s of
30 s), and what a task does under a lease nobody renews, the moment between
acquire and the renew task's start and between its stop and the release, takes
less than a tick.

**Fairness.** `Registry`: weak fairness for each step of a call that has begun,
each actor and each renew task; they are tokio tasks, and none waits for
anything but one of the others. Starting a call, a client's op, time and crashes
are not fair. `UndoStack`: weak fairness for the chain of presses and for the
settling of promises, which the event loop guarantees; inputs and peers are not
fair. `SyncSession`: weak fairness of the work that is due as a whole, timers,
socket events, session tasks and the reconnect timer, which is re-armed for ever;
no single task is promised its turn, and the user, the network and late frames
are not fair. The other modules have safety properties only.

## Proofs

**`CoordinationProofs`**, for all owners, canvases, callers, keys and bounds, from
`Ttl > 0` and `NoLease` being no entry:

* `TypeCorrect`, `LeaseSafety`, `RoutingSafety`: the type invariant,
  `LeaseExclusive` and `HolderIsRoutable`.
* `NoSteal`: no step moves a live lease to another owner.
* `ImplementsLeaseService`: the specification implements `LeaseService`. A
  granted acquire or renewal is one `Acquire` or `Renew` of the service, since
  an old reading refuses at least what the clock would refuse and promises no
  more; a release is a release, and every other step changes nothing the service
  shows.

Exclusiveness is not inductive: it does not say what the table has to do with
the promises. The inductive invariant adds that a waiting call's reading is not
in the future (`CallsInPast`), that tokens up to the counter only are in use
(`TokensUsed`), that a token identifies its handle (`TokenIdentifies`), and that
a standing promise is exactly what the table holds (`Backed`). A stale reading is
harmless because it makes an acquire see leases as living longer, and its own
promise shorter.

**`ObjectOpsProofs`**, for any finite scene and any op, a Batch of any ops included:

* `ApplyElsewhere`: the objects an op changes are its `target_ids`, anchors aside.
* `NothingUndone`: an op whose inverse is empty has changed nothing.
* `ApplyOnField`: an op that does not insert an object does not bring it back, and
  changes a field of it only where it writes that field.
* `EffectOnComments`, `ApplyAllOnComments` (lemmas): a comment comes to an object only by
  an op that brings it, and goes only by a Delete or a SetComments of that object.

The server relies on the first two: it stores the targets and nothing else, and what has an
empty inverse it does not store at all (`object_store.rs`); a client's engine relies on
the third when a peer's op comes under an unacked write. The fold over a Batch
is a recursion over the sets of positions still to come; `ApplySteps` turns it into
one over the positions, and what holds after each follows from the least
counterexample. The first is about a Batch that holds a list (`op.ops` is a
sequence), the one assumption about ops.

**`CanvasActorProofs`**, for any ops, op ids, Features, dedup window and number of
crashes, from batches that hold lists (`BatchAssumption`); `CommentsLast` also from
ops about objects that have a list of comments (`OpsAssumption`):

* `TypeCorrect`, `AcksStand`, `RevisionBounded`, `ArrivalWins`: the type
  invariant, `AckNamesEntry`, `RevisionWithinSeq` and `LastArrivalWins`.
* `JournalKept`: the journal is append-only.
* `ResendsAnswered`: `OriginalAck`, a resend gets the seq of the first answer.
* `ReloadKeeps`: `ReloadKeepsObjects`, a recovery has the objects of the actor before.
* `CommentsLast`: `AckedCommentKept`, an acknowledged comment is in the scene of every
  actor that comes after, on an object from which no op takes comments.

The inductive invariant ties the steps together: where in a command the actor can
be (`Control`), that a serving actor's seq is at or above every journal entry
(`JournalBehind`), that the dedup table names journal entries
(`SeenNamesEntry`), and how meta, scene version, the winners of properties and
the seq are ordered at each step, recovery included (`Versions`). The journal is
kept because the one action that writes it stamps `seq + 1`, and the sequence
number recovery arrives at is not below an entry.

For a resend the invariant (`DInv`) counts journal entries. Two acks of one opId
with different seqs name two entries of it, and between two entries of an opId
there are at least `MaxSeen` others (`Spaced`). An op is journaled a second time
only if the table did not know it when its command came (`WorkUnseen`), and an
opId that is in the journal but not in the table has `MaxSeen` newer entries
(`Remembered`): recording an ack pushes out the oldest only when `MaxSeen` others
are in the table, each naming a journal entry of its own; and a recovery rebuilds
the table from exactly the last `MaxSeen` entries, which is where the window
stands or falls. What the table knows it answers with the last entry of the opId
(`LastSeen`). Only lower bounds on cardinalities of finite subsets of the journal
are needed, so the window may be any number from 1.

For a recovery the invariant (`RInv`) says in the middle of a command, too, what
the records are: those of the objects still to be written aside (`Unsaved`), they
are the objects in memory, anchors aside (`Stored`). A command starts with its
targets to be written, and `ApplyElsewhere` says it changes no other object; one
that is not written has an empty inverse and, by `NothingUndone`, has changed
nothing. Each write takes one object from the list, and the command is not over
before the list is empty. A crash in between loses the objects in memory, and the
next actor starts from the records, whichever they are. Anchors are left out
because an op changes anchors of objects it does not name, which are not stored;
recovery computes them again.

What an ack promises is the invariant `Durable`, on top of that. A comment whose op
is in the journal is in the records and in memory, and one whose op is about to be
journaled is in memory. When it is journaled nothing is left to be written, so it
is in the records as well (`Stored`). A replay applies old ops to records that may be
newer than they are, out of the order in which they were first applied: it may put a
comment there twice, but an op takes comments only from an object it deletes or
whose comments it sets (`EffectOnComments`). That the seq an actor stamps wins the
comments (`Versions`) is what keeps `apply_object_op_lww` from dropping the op and
acknowledging it all the same. The theorem is about objects that no op of the canvas
deletes and whose comments no op sets (`Lasts`); a Delete that is written and not yet
journaled when the process ends leaves no trace by which the loss of a comment could
be told from a mistake.

**`FileCoordinatorProofs`**, for all processes, tasks, canvases, keys and bounds and
any number of crashes, from `Ttl > 0`, `NoLease` and `Free` being no caller:

* `TypeCorrect`: the ranges of all variables.
* `ImplementsLeaseService`: taking the lock changes nothing the service shows; the
  write is its `Acquire` or `Renew`; a crash of a process that was writing a lease
  is its `Abandon`, and any other crash stutters.
* `PresenceKept`: `LivePresenceKept`.

An operation is decided when it takes the lock and takes effect when it has
written. The inductive invariant says that the decision stands until then
(`Decided`), because whoever is writing has the lock of that canvas and nobody
else is (`Locked`); tokens are taken before the lock, so it also says that no two
acquires in progress have the same one, nor one that a handle has (`TokensUsed`).

Of the service itself, from the same assumptions: `ServiceIsExclusive` (no two
standing promises about a canvas) and `ServiceIsRoutable` (`find_owner` names the
holder of each). The invariant is that of the tokens and of `Backed` above,
without calls in progress: there are none. Both coordinators implement the
service, so both have these properties; `LesseeUnique` draws that conclusion for
the file coordinator, whose run checks the refinement only.

**`RegistryProofs`**, for all instances, tasks, canvases and bounds, any interleaving
of calls, and crashes anywhere, from finitely many tasks and canvases:

* `MapEntriesRun`: `MapEntryRunning`.
* `NoneForgotten`: `NothingLeaks`.

An actor is in one hand at a time (`Handed`): the task that builds it, then the
map, then the task that tears it down; a task in one of its places has in its
locals what that place calls for (`Steady`). Only the task that has an actor in
hand queues its `Shutdown`, so an actor in the map has none in its mailbox
(`Mapped`), which is why it runs. What runs, renews or is held by a lease is in
some hand (`Answered`, `LeaseHeld`); a renew task may outlive that only until the
raced-out `get_or_spawn` that started it returns. Every acquire in progress has a
token left (`Fresh`), so no two actors share a number.

The second half, in a deployment where the calls of an instance follow one another
(`Serial`; the findings show what overlapping calls do), needs
`Interval + MaxLate < Ttl` as well:

* `OneWriter`: `SingleWriter`, across instances, expiries and crashes.
* `AckedOpsKept`: `AckedOpKept`.

The lease gives the single writer only as long as its holder is in time. The
invariant (`SInv`) says so for every running actor: it has a live lease under its
own token (`LeasedAt`), and either its renewal is due before that lease expires or
its task is about to stop it in the same tick (`RenewedAt`). For other instances
that settles it; against its own instance, which an acquire does not refuse, a task
that may acquire must be the only one of its instance for that canvas (`AloneAt`).
Two running actors of one canvas then hold one token and are one (`OneRunner`). It
follows that no record is past what the running actor has stamped (`RecordedAt`),
and that its next op hits no acknowledged one.

**`UndoStackProofs`**, for any scene, ops, users and number of inputs:

* `HandshakeSafety`: `HandshakeMatched`, under every interleaving of presses,
  edits, peers and failing writes.
* `RedoIsRecent`: `EditForksHistory`, for users who wait for each op (others can
  break it, see above).

Neither depends on what ops do. The invariant is about the order the chain of
presses imposes: one step is in flight at most (`OneStep`), its press is at the
head of the chain (`Held`), and a user who waits has an edit in flight only while
no press is queued (`InTurn`).

**`SyncSessionProofs`**, for any clients, windows and number of upsets, and for any
scripts that are lists of ops (`ScriptsAssumption`; a batch is a list as well);
`WritesStand` also from objects that have the fields a client writes
(`ObjsAssumption`), and `CommentsAddedOnce` from comments that have an id of their
own (`CommentsAssumption`: what a client adds is in no other op and in no initial
object; a `Comment` carries an `id`, `model.rs:567`):

* `SessionsJoined`: the inductive invariant `SInv`.
* `OwnershipExact`: `OwnershipIsUnacked`.
* `WelcomesFresh`: `WelcomeNotStale` (with one actor; see "Runs" for the comment it
  contradicts).
* `WritesStand`: `UnackedWriteStands`.
* `CommentsAddedOnce`: `AppliedOnce`.

An engine is `Sound` when it owns exactly what its outbox writes and its rows are
numbered upwards, up to its counter; each of the engine's functions keeps that,
whatever it is called with. The numbers matter because `release_ownership` finds
what to give back by the number of the row: two rows of one number would release
one's keys for the other. `SInv` says of the queues that every ack and welcome
tells a version the scene has had, and that a welcome tells no less than the
engine's base and whatever is queued before it (`Ordered`). That holds although
patches take another way, since only the reader queues acks and welcomes, and it
asks the actor for one after the other; a broken connection's late ops change the
scene, but their answers reach nobody.

What a client shows is a second invariant, `FInv`, that rests on the first. An op
changes a field only if it writes it or inserts its object (`ApplyOnField`), so a
patch that writes no owned key leaves every unacked write alone, and `SInv` says
that the owned keys are those of the outbox. A replay writes them in the order of
their numbers, so the newest is last, whatever the welcome had (`ReplayStands`).
An ack that comes out of order would leave an older row as the newest; `skew`
records it. For the replay to write anything the welcome's objects must have the
fields, which is carried through all queues (`Brings`): everything on its way is an
op some client authors, or a snapshot of a scene those ops made. The theorem speaks
of objects no client inserts and writes that are not a batch's, which is where the
property stops as well: an Insert owns no key, and a batch may fail as a whole.

That a comment is added once is a third invariant, `CInv`. A client's op gets one
number when it is authored, and from then on every copy of it, in the outbox, on the
connection and in the frames that the readers of broken connections still hold, has
that number (`Carry`; one lemma for each action says that only `author` makes a
client carry more). A scene that has the comment has it once and has seen the number
(`Placed`), so the actor answers every later copy from its dedup table. What is in
the table without being in the scene is harmless: a copy is not applied again. The
step that needs care is the one that places the comment: nothing else in the ops may
put it anywhere (`ApplyOnComments`), which is where `CommentsAssumption` comes in. A
SetComments or an Insert with which an undo brings a comment back is therefore
outside these scripts. So is a resend that the table has forgotten: `seen` is
unbounded here, and its window is the subject of `CanvasActor` (`OriginalAck`).

`owned` counts, and its specification is a sum over the rows, computed by a fold;
`reconcile_snapshot` is a fold as well. Both are recursions on a finite set. The
library's induction theorems cannot be used (see below), so existence of the
recursion's solution and what it computes are shown by the least counterexample
instead (`OwesSum`, `ReplaySteps`, `ReplayOwns`).

**`SceneStructureProofs`**, for scenes, edits and menus of any number, from at least
two digits and one width of each sign (`KeyAssumption`), bounds that are numbers
(`BoundAssumption`) and initial scenes that are well formed
(`StartsAssumption`: objects of the kind described above, valid keys, parents that
are there, nobody above itself):

* `KeysBetween`: `generate_key_between` gives a valid key strictly inside its
  bounds.
* `KeysAlwaysFit`: `KeysFit`. In every scene there is room above, below and between.
* `ParentsNeverLoop`: `NoParentLoop`.
* `TargetsAlwaysCover`: `TargetsCoverChanges`.
* `GroupsKeepStacking`: `GroupKeepsStacking`.
* `AnchorsAlwaysStay`: `AnchorsStay`.
* `SceneInductive`: the inductive invariant `SceneInv`.

*Keys.* The string order is a strict total order (`BeforeIsTransitive`,
`BeforeIsStrict`, `BeforeIsTotal`), shown on the first place where two strings
part. A key consists of an integer, whose head tells its length so that no
integer is a prefix of another, and a fraction without a trailing zero. Incrementing
the integer goes up whatever carries, and fails only where all numbers are at the
top (`IncrementFits`). A midpoint lies strictly between two fractions and does not
end in zero (`MidpointFits`): after the common prefix it takes a digit between
the two, or, of neighbouring digits, the upper one when more follows it, and else
the lower one and goes on above what follows that. `KeyBetween` chooses between
the two, and each of its cases stays inside. The one exclusion is a key equal to
the integer that follows the smallest one, below which there is no valid key; this
is the bound in `KeysFit`.

*Scenes.* `NoParentLoop` speaks of the walk up from each object, in one step more
than there are objects. The invariant says instead that no set of objects has all
its parents inside (`Rooted`), which speaks of no walk. The two agree: a
walk that comes back passes a set with all its parents inside, and where there is
no such set a walk ends within as many steps as there are objects. `would_cycle`
takes the same walk, so a Reparent it lets pass keeps `Rooted`. `Rooted` rests on
what a parent may be: an id that was given, `used`, which may be gone but is never
given again. Otherwise an Insert could close a loop with those that still name it.
The rest of `SceneInv` is that every object is well formed, its contours, its space
and its anchors included, and every key valid.

*Ops and Batches.* `OpEffect` says of each op what ids it gives (`Given`), what it
takes away (`Taken`) and what it writes (`Written`), and that all else keeps all
but its anchors. It asks that the op fits: its keys are valid, its new ids new, its
parent given. A Batch is a recursion over its ops; the scenes it goes through
(`BatchTrace`) are each made from the one before, so what holds of an op holds of
a Batch whose ops fit in turn (`FitsAll`). That everything the shell authors does
fit is shown for each of the thirteen kinds of edit. `TargetsAlwaysCover` then
compares what is written with `target_ids`.

*Stacking.* `Painted` takes an object for each rank, the rank being how many of the
set lie under it; since `Under` is a strict total order there is exactly one
(`PaintRanks`), and two scenes that agree on what lies under what paint alike
(`PaintedAlike`). A group gives its members, in paint order, keys of which each
lies above the one before (`StacksInOrder`), and each of its ops writes the key of
one of them (`GroupWritesKeys`).

*Anchors.* An anchor names a node by one index for all the contours of its target,
so the index of a contour's first node is a sum of node counts. These sums are
steps (`OffsetSteps`), which makes the owner of an index unique (`OwnerIs`).
`SplitStays`: a contour that leaves becomes all of a new object, whose nodes begin
at zero, and one that stays begins where those that stay before it end. A merge
puts the contours of an object behind those of the objects before it, so their
nodes begin that many further on (`NodesBehind`, `MergeStays`). `CanonicalizeStays`
rests on there being two spaces only. An edit that begins with one of these ops has
no other (`RewritesAlone`), so what holds of the op holds of the edit.

**Left to TLC.**

* Liveness (`DrainHandsOver`, `PressesDrain`, `OutboxDrains`): the prover does no
  fairness.
* What holds for the ops of a run and not for any: `UndoRestores`, `RedoRestores` and
  `InverseRestores`. An inverse restores a scene whose parents have no loop and whose
  anchors point at objects; the kernel does not check either, and a Delete leaves the
  children's parent dangling.
* What a list of ops makes of the values: `Converged` depends on what two ops
  of different clients make of a scene in either order.
* The four properties of `ObjectFeed`, whose buffers are sums over the whole scene
  and whose deformation is a recursion over a tree.

The library's theorems on induction take an operator as a parameter, which no
installed prover can instantiate; an induction has to be done by hand, as for the
folds above.

## Not modelled

Most of the source by lines is the renderer, text layout, path geometry,
recognition of sketches, the inspector, and the web and native shells: functions
of floats, pixels and widgets without state that outlives a call, or calls into
the GPU and the DOM. What goes wrong there is a number or a picture. A model of it
would be its arithmetic once more, so it is left out, and with it most of the
repository's lines; what state these parts keep across calls, and may keep too
long, is in `ObjectFeed`.

Of the modelled parts these are left out:

* coordinator: `publish` and `subscribe`, whose log in files may be torn or
  interleaved (`file.rs:170`, `204`); I/O errors; clocks that step back;
* registry: the canvas index, the presence broadcasters, the age of idle canvases;
* actor: the read commands, storage errors, region rows and region queries, an
  actor that ends under a live session, a broadcast that lags, Features sent over
  the socket;
* client: switching canvases, reloading the page with a durable outbox (the
  application uses the in-memory one), the first connect;
* kernel: validation of values, geometry beyond contours and node counts;
* renderer: passes, level of detail, hit testing, eviction of GPU memory;
* and the parts marked `not_modelled` in `PROJECT.json`.

## Hazards without a property

`PROJECT.json` lists four with the reason. These are real as well, and narrower:

* the clock is wall time, and a step makes expired leases live or live ones
  expired (`inmem.rs:25`);
* `delete_canvas` prunes records after the eviction, also those of a canvas that
  was opened again in between (`registry.rs:326`);
* a cached route outlives the instance it names (`registry.rs:243`);
* a Feature's ops are applied one by one, and a crash or a refusal in the middle
  leaves a part of them (`canvas_actor.rs:456`);
* an op queued behind `Shutdown` is answered `Rejected`, and a client drops what
  is rejected (`canvas_actor.rs:164`);
* `abort` drops the entry its press was about (`undo.rs:164`);
* a canvas switch replaces the undo stack under a press that waits
  (`App.svelte:600`);
* lines that two processes append to a log may interleave (`file.rs:204`);
* an Insert owns no key: a peer who deletes an object and undoes that puts the old
  value of a field over a newer unacked write of it (`sync_engine.rs:61`);
* a batch is replayed whole or not at all: when a welcome lacks one of its objects,
  its unacked writes to the others are not shown either (`sync_engine.rs:334`).

## What is left

1. An abstract log with a single writer, implemented by `CanvasActor` across its
   crashes and by `Registry` for serial calls.
2. Storage errors in `CanvasActor`; `delete_canvas` with the records it prunes;
   an actor that ends under a session in `SyncSession`.
3. The publish/subscribe log of `file.rs` and the presence built on it.
