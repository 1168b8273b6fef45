------------------------------ MODULE UndoStack -----------------------------
(***************************************************************************)
(* One client's undo history: the stack of scene-core (object/kernel/      *)
(* undo.rs), the handshake of its wasm wrapper (wasm_api.rs) and the web   *)
(* shell that drives it (App.svelte: authorOp, undo, redo, runUndoStep).   *)
(*                                                                         *)
(* The wasm core applies an op inside the call that authors it; the shell  *)
(* learns the inverse only after the row is in the outbox.  `flight' holds *)
(* the ops in between, in the order they were authored.  Writes to the     *)
(* outbox settle in that order; an op the core refuses, or one that        *)
(* changes nothing, writes no row and settles before the next event.       *)
(*                                                                         *)
(* A Habit is what a user, its peers and its browser do, in all of a       *)
(* behaviour: `edits' it makes, in a coalescing window `gestures' (App.svelte *)
(* opens none, the API and its tests have them for drags); `peers' are the *)
(* ops of others; serial: it waits for an op to settle before the next     *)
(* input; fails: a write to the outbox may fail.                           *)
(***************************************************************************)
EXTENDS ObjectOps, FiniteSets

CONSTANTS Scene0,
          Habits,
          MaxInputs    \* bound on the key presses and edits

ASSUME InputsAssumption ==
    /\ MaxInputs \in Nat
    /\ \A h \in Habits : h.serial \in BOOLEAN /\ h.fails \in BOOLEAN

VARIABLES
    habit,
    client,   \* of the scene: "none" before the first connect, "open", or "torn"
              \* down by a switchCanvas whose connect fails
    objs,     \* the optimistic scene
    undo, redo,
    open,     \* coalescing_open
    gesture,  \* coalescing: an entry in a sequence of length 0 or 1
    pending,  \* the handshake: a record in a sequence of length 0 or 1
    flight,   \* ops applied, whose author() promise has not settled
    chain,    \* presses on the undoChain, the running one first
    inputs,   \* edits and presses so far
    clean,    \* history: only this client's settled ops have moved the scene
    forks     \* history: how many edits have been recorded

vars == <<habit, client, objs, undo, redo, open, gesture, pending, flight, chain,
          inputs, clean, forks>>

stack == <<undo, redo, open, gesture, pending>>

Init ==
    /\ habit \in Habits
    /\ client \in {"none", "open"} /\ objs = Scene0
    /\ undo = <<>> /\ redo = <<>> /\ open = FALSE /\ gesture = <<>>
    /\ pending = <<>> /\ flight = <<>> /\ chain = <<>>
    /\ inputs = 0 /\ clean = TRUE /\ forks = 0

-----------------------------------------------------------------------------

(* An entry of the stack; `was' is history: the scene its inverse is to
   bring back, and `at' how many edits were recorded when it was authored. *)
Entry(forward, inverse, was, at) ==
    [forward |-> forward, inverse |-> inverse, was |-> was, at |-> at]

Running == \E n \in DOMAIN flight : flight[n].by # "edit"

(* The browser runs every microtask before the next event. *)
MicrotasksDone ==
    /\ chain = <<>> \/ Running
    /\ \A n \in DOMAIN flight : flight[n].row

Input ==
    /\ inputs < MaxInputs /\ MicrotasksDone
    /\ habit.serial => flight = <<>>
    /\ inputs' = inputs + 1

(* What author() leaves in flight: a row is written unless the op is refused
   or changes nothing.                                                     *)
Authored(op, by) ==
    LET r == Apply(objs, op) IN
    [op |-> op, by |-> by, ok |-> r.ok, noop |-> r.noop, was |-> objs,
     inverse |-> r.inverse, row |-> r.ok /\ ~r.noop, at |-> forks]

(* UndoStack::record. *)
M_RecordKeepsRedo(entry, noop) ==
    IF noop THEN UNCHANGED <<undo, redo, gesture, forks>>
    ELSE /\ forks' = forks + 1
         /\ redo' = redo
         /\ gesture' = IF ~open THEN gesture
                       ELSE IF gesture = <<>> THEN <<entry>>
                       ELSE <<[gesture[1] EXCEPT !.forward = entry.forward]>>
         /\ undo' = IF open THEN undo ELSE Append(undo, entry)

M_RecordFirstForward(entry, noop) ==
    IF noop THEN UNCHANGED <<undo, redo, gesture, forks>>
    ELSE /\ forks' = forks + 1
         /\ redo' = <<>>
         /\ gesture' = IF open /\ gesture = <<>> THEN <<entry>> ELSE gesture
         /\ undo' = IF open THEN undo ELSE Append(undo, entry)

RecordEntry(entry, noop) ==
    IF noop THEN UNCHANGED <<undo, redo, gesture, forks>>
    ELSE /\ forks' = forks + 1
         /\ redo' = <<>>
         /\ gesture' = IF ~open THEN gesture
                       ELSE IF gesture = <<>> THEN <<entry>>
                       ELSE <<[gesture[1] EXCEPT !.forward = entry.forward]>>
         /\ undo' = IF open THEN undo ELSE Append(undo, entry)

(* authorOp while connected: the core applies the op and author() waits. *)
Edit(op) ==
    /\ client = "open" /\ Input /\ (open => op \in habit.gestures)
    /\ objs' = Apply(objs, op).objs
    /\ flight' = Append(flight, Authored(op, "edit"))
    /\ UNCHANGED <<habit, client, stack, chain, clean, forks>>

(* authorOp before the client is connected: applied and recorded at once. *)
EditOffline(op) ==
    LET a == Authored(op, "edit") IN
    /\ client = "none" /\ Input /\ (open => op \in habit.gestures)
    /\ objs' = Apply(objs, op).objs
    /\ IF a.ok THEN RecordEntry(Entry(op, a.inverse, objs, forks), a.noop)
               ELSE UNCHANGED <<undo, redo, gesture, forks>>
    /\ UNCHANGED <<habit, client, open, pending, flight, chain, clean>>

(* The key: queue a step on the undoChain. *)
Press(dir) ==
    /\ Input
    /\ chain' = Append(chain, dir)
    /\ UNCHANGED <<habit, client, objs, stack, flight, clean, forks>>

BeginCoalesce ==
    /\ habit.gestures # {} /\ Input /\ ~open
    /\ open' = TRUE
    /\ UNCHANGED <<habit, client, objs, undo, redo, gesture, pending, flight, chain,
                   clean, forks>>

EndCoalesce ==
    /\ Input /\ open
    /\ open' = FALSE /\ gesture' = <<>> /\ undo' = undo \o gesture
    /\ UNCHANGED <<habit, client, objs, redo, pending, flight, chain, clean, forks>>

(* A peer's op reaches the scene (apply_remote).  `prop' stands for properties
   that an unacked write protects and for ones it does not, so a peer may
   write it at any time.                                                   *)
Remote(op) ==
    /\ client = "open" /\ MicrotasksDone /\ inputs < MaxInputs
    /\ objs' = Apply(objs, op).objs
    /\ objs' # objs /\ clean' = FALSE
    /\ UNCHANGED <<habit, client, stack, flight, chain, inputs, forks>>

(* switchCanvas tears the client's engine down and then connects; when that
   fails the shell keeps its canvas, its stack and a client that refuses ops.
   (When it does not, the stack is a new one.)                             *)
Teardown ==
    /\ client = "open" /\ Input
    /\ client' = "torn"
    /\ UNCHANGED <<habit, objs, stack, flight, chain, clean, forks>>

-----------------------------------------------------------------------------

(* undo()/redo(): close the window, take the top entry and hand out its op. *)
Committed == IF open THEN undo \o gesture ELSE undo

StepDue == chain # <<>> /\ ~Running

Closed ==
    /\ open' = FALSE
    /\ gesture' = IF open THEN <<>> ELSE gesture

(* runUndoStep returns at once while there is no scene client. *)
StepUnconnected ==
    /\ StepDue /\ client = "none"
    /\ chain' = Tail(chain)
    /\ UNCHANGED <<habit, client, objs, stack, flight, inputs, clean, forks>>

(* The stack is empty: runUndoStep returns. *)
M_StepNothingHangs ==
    /\ StepDue /\ client # "none" /\ Closed
    /\ (IF Head(chain) = "undo" THEN Committed ELSE redo) = <<>>
    /\ undo' = Committed
    /\ UNCHANGED <<habit, client, objs, redo, pending, flight, chain, inputs,
                   clean, forks>>

StepNothing ==
    /\ StepDue /\ client # "none" /\ Closed
    /\ (IF Head(chain) = "undo" THEN Committed ELSE redo) = <<>>
    /\ undo' = Committed /\ chain' = Tail(chain)
    /\ UNCHANGED <<habit, client, objs, redo, pending, flight, inputs, clean,
                   forks>>

HandsOut(dir, entry) == IF dir = "undo" THEN entry.inverse ELSE entry.forward

(* The op is handed out and re-authored through the same path. *)
StepBegin ==
    LET dir == Head(chain)
        from == IF dir = "undo" THEN Committed ELSE redo
        entry == Last(from)
        op == HandsOut(dir, entry)
    IN
    /\ StepDue /\ client = "open" /\ from # <<>> /\ Closed
    /\ undo' = IF dir = "undo" THEN Front(from) ELSE Committed
    /\ redo' = IF dir = "undo" THEN redo ELSE Front(from)
    /\ pending' = <<[dir |-> dir, forward |-> entry.forward]>>
    /\ objs' = Apply(objs, op).objs
    /\ flight' = Append(flight, Authored(op, dir))
    /\ UNCHANGED <<habit, client, chain, inputs, clean, forks>>

(* No engine: applyObjectOp throws and the handshake is aborted. *)
StepThrows ==
    LET dir == Head(chain)
        from == IF dir = "undo" THEN Committed ELSE redo
    IN
    /\ StepDue /\ client = "torn" /\ from # <<>> /\ Closed
    /\ undo' = IF dir = "undo" THEN Front(from) ELSE Committed
    /\ redo' = IF dir = "undo" THEN redo ELSE Front(from)
    /\ pending' = <<>> /\ chain' = Tail(chain) /\ clean' = FALSE
    /\ UNCHANGED <<habit, client, objs, flight, inputs, forks>>

-----------------------------------------------------------------------------

(* The n-th op in flight may settle: no row, or the oldest one with a row. *)
Settles(n) ==
    /\ n \in DOMAIN flight
    /\ flight[n].row => /\ MicrotasksDone
                        /\ \A m \in 1..(n - 1) : ~flight[m].row
    /\ flight' = RemoveAt(flight, n)

(* The continuation of authorOp. *)
SettleEdit(n) ==
    LET a == flight[n] IN
    /\ Settles(n) /\ a.by = "edit"
    /\ IF a.ok THEN RecordEntry(Entry(a.op, a.inverse, a.was, a.at), a.noop)
               ELSE UNCHANGED <<undo, redo, gesture, forks>>
    /\ UNCHANGED <<habit, client, objs, open, pending, chain, inputs, clean>>

(* note_undo_applied / note_redo_applied, behind the wrapper's guard. *)
NoteApplied(a) ==
    LET moved == Entry(pending[1].forward, a.inverse, a.was, a.at)
        matches == pending # <<>> /\ pending[1].dir = a.by
    IN  /\ redo' = IF matches /\ a.by = "undo" THEN Append(redo, moved) ELSE redo
        /\ undo' = IF matches /\ a.by = "redo" THEN Append(undo, moved) ELSE undo
        /\ pending' = IF matches THEN <<>> ELSE pending

SettleStep(n) ==
    LET a == flight[n] IN
    /\ Settles(n) /\ a.by # "edit" /\ a.ok
    /\ NoteApplied(a)
    /\ chain' = Tail(chain)
    /\ UNCHANGED <<habit, client, objs, open, gesture, inputs, clean, forks>>

(* The core refused the op: abort() drops the handshake and its entry. *)
M_AbortForgotten(n) ==
    LET a == flight[n] IN
    /\ Settles(n) /\ a.by # "edit" /\ ~a.ok
    /\ chain' = Tail(chain)
    /\ UNCHANGED <<habit, client, objs, undo, redo, open, gesture, pending, inputs,
                   clean, forks>>

StepRefused(n) ==
    LET a == flight[n] IN
    /\ Settles(n) /\ a.by # "edit" /\ ~a.ok
    /\ pending' = <<>> /\ chain' = Tail(chain)
    /\ UNCHANGED <<habit, client, objs, undo, redo, open, gesture, inputs,
                   clean, forks>>

(* The outbox write failed: author() throws after the core applied the op.
   An edit is then never recorded; a step is aborted.                      *)
AppendFailed(n) ==
    LET a == flight[n] IN
    /\ habit.fails /\ Settles(n) /\ a.row
    /\ clean' = FALSE
    /\ IF a.by = "edit" THEN UNCHANGED <<pending, chain>>
                        ELSE pending' = <<>> /\ chain' = Tail(chain)
    /\ UNCHANGED <<habit, client, objs, undo, redo, open, gesture, inputs, forks>>

Settle(n) ==
    SettleEdit(n) \/ SettleStep(n) \/ StepRefused(n) \/ AppendFailed(n)

Step == StepUnconnected \/ StepNothing \/ StepBegin \/ StepThrows

Next ==
    \/ \E op \in habit.edits \cup habit.gestures : Edit(op) \/ EditOffline(op)
    \/ \E dir \in {"undo", "redo"} : Press(dir)
    \/ BeginCoalesce \/ EndCoalesce \/ Teardown
    \/ \E op \in habit.peers : Remote(op)
    \/ Step
    \/ \E n \in DOMAIN flight : Settle(n)

(* Promises settle and queued steps run: the event loop is never starved. *)
Spec ==
    /\ Init /\ [][Next]_vars
    /\ WF_vars(Step) /\ WF_vars(\E n \in DOMAIN flight : Settle(n))

-----------------------------------------------------------------------------

Quiet == flight = <<>> /\ chain = <<>>

(* While only this client's own settled ops have moved the scene, the next
   undo is accepted and brings back exactly the scene before the edit (or
   before the whole gesture): what apply_object_op's inverses and the
   stack's discipline are for.  It takes a user who waits: an edit that
   settles in a window opened later is taken for a part of that gesture.   *)
UndoRestores ==
    habit.serial /\ clean /\ Quiet /\ Committed # <<>> =>
        LET r == Apply(objs, Last(Committed).inverse)
        IN  r.ok /\ r.objs = Last(Committed).was

(* Likewise the next redo brings back exactly the scene the undo left. *)
RedoRestores ==
    habit.serial /\ clean /\ Quiet /\ redo # <<>> =>
        LET r == Apply(objs, Last(redo).forward)
        IN  r.ok /\ r.objs = Last(redo).was

(* Recording an edit discards what could be redone before it: no edit was
   recorded since any entry of the redo stack was handed out by undo().  A
   user who does not wait for an op to settle can break this.              *)
EditForksHistory == habit.serial => \A n \in DOMAIN redo : redo[n].at = forks

(* A handshake is open exactly while the step that opened it is in flight,
   in the same direction: undo() never overwrites one (the debug_assert that
   release builds drop) and no note_*_applied is refused or panics.        *)
HandshakeMatched ==
    /\ pending # <<>> <=> Running
    /\ \A n \in DOMAIN flight :
          flight[n].by # "edit" => flight[n].by = pending[1].dir

(* Every press runs and every handshake closes, whatever settles or fails:
   the undoChain is never poisoned and no step waits for ever.             *)
PressesDrain == (chain # <<>> \/ pending # <<>>) ~> (chain = <<>> /\ pending = <<>>)

=============================================================================
