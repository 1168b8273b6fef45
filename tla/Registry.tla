------------------------------ MODULE Registry ------------------------------
(***************************************************************************)
(* CanvasRegistry (crates/server/src/registry.rs): several server          *)
(* instances, each with a map of running canvas actors, share a lease      *)
(* table and a store.  Each public method is an async task; a step of the  *)
(* model is the code between two awaits, so tasks of one instance and of   *)
(* several interleave there.                                               *)
(*                                                                         *)
(* An actor is spawned under exactly one lease, so both go by the counter  *)
(* of that lease's token.  Of an actor the model keeps its mailbox and the *)
(* sequence number it stamps; of the store, which actor wrote each journal *)
(* record `canvas:journal:seq'.  What the actor does with an op is the     *)
(* subject of CanvasActor.                                                 *)
(***************************************************************************)
EXTENDS LeaseTable, SequencesExt

CONSTANTS Task,            \* async tasks
          InstanceOf(_),   \* the instance a task runs on
          Interval,        \* LEASE_RENEW_INTERVAL, in clock ticks
          MaxLate,         \* how late a renewal may run, in clock ticks
          MaxClock,        \* bound on the clock
          MaxActors,       \* bound on the leases taken
          MaxSeq,          \* bound on the ops of a canvas
          Deployments      \* the tasks that make calls, whether instances
                           \* crash, and how much of the bounds is used

ASSUME RenewAssumption ==
    Interval \in Nat \ {0} /\ MaxLate \in Nat /\ Interval + MaxLate < Ttl

ASSUME InstanceAssumption == \A t \in Task : InstanceOf(t) \in Owner

ASSUME BoundAssumption ==
    /\ MaxActors \in Nat /\ MaxSeq \in Nat
    /\ IsFiniteSet(Task) /\ IsFiniteSet(Canvas)

ASSUME DeploymentAssumption ==
    Deployments \subseteq
        [tasks : SUBSET Task, crashes : BOOLEAN, clock : 0..MaxClock,
         leases : 0..MaxActors, ops : 0..MaxSeq]

VARIABLES clock,       \* the coordinator's clock
          leases,      \* the coordinator's lease table
          counter,     \* the coordinator's token counter
          inner,       \* instance -> canvas -> actor in the map, or None
          draining,    \* instance -> the drain flag
          route_cache, \* instance -> canvas -> cached owner, or None
          actors,      \* actor -> its state
          renewers,    \* actor -> when its lease is renewed next, or None
          journal,     \* canvas -> seq -> the actor that wrote the record
          acked,       \* the acknowledged ops, as <<canvas, seq, actor>>
          pc,          \* task -> where it is
          loc,         \* task -> its locals: canvas, actor, todo, owner
          deployed     \* which of the Deployments this is

vars == <<clock, leases, counter, inner, draining, route_cache, actors,
          renewers, journal, acked, pc, loc, deployed>>
coordVars == <<clock, leases, counter>>
actorVars == <<actors, renewers, journal, acked>>
mapVars == <<inner, draining, route_cache>>

None == 0
Actor == 1..MaxActors
Seqs == 1..MaxSeq

NoActor == [status |-> "none"]
NoLocals == [canvas |-> CHOOSE c \in Canvas : TRUE, actor |-> None,
             todo |-> <<>>, delete |-> FALSE]

LeaseToken(i, a) == <<i, a>>

Init ==
    /\ clock = 0
    /\ leases = [c \in Canvas |-> NoLease]
    /\ counter = 1
    /\ inner = [i \in Owner |-> [c \in Canvas |-> None]]
    /\ draining = [i \in Owner |-> FALSE]
    /\ route_cache = [i \in Owner |-> [c \in Canvas |-> {}]]
    /\ actors = [a \in Actor |-> NoActor]
    /\ renewers = [a \in Actor |-> None]
    /\ journal = [c \in Canvas |-> [s \in Seqs |-> None]]
    /\ acked = {}
    /\ pc = [t \in Task |-> "idle"]
    /\ loc = [t \in Task |-> NoLocals]
    /\ deployed \in Deployments

(* The calls of one instance follow one another. *)
Serial == \A t, u \in deployed.tasks : InstanceOf(t) = InstanceOf(u) => t = u

Running(a) == actors[a] # NoActor /\ actors[a].status = "running"

Goto(t, where) == pc' = [pc EXCEPT ![t] = where]

CacheInsert(i, c, o) == route_cache' = [route_cache EXCEPT ![i][c] = {o}]
CacheRemove(i, c) == route_cache' = [route_cache EXCEPT ![i][c] = {}]

(* coordinator.release: a no-op when the table holds another token. *)
ReleaseLease(i, c, a) ==
    leases' = IF Matches(leases[c], LeaseToken(i, a))
              THEN [leases EXCEPT ![c] = NoLease] ELSE leases

(* Bound: every acquire that has begun can still be given a token. *)
TokenBudget ==
    counter + Cardinality({t \in Task : pc[t] \in {"acquire", "claim"}})
        <= deployed.leases

-----------------------------------------------------------------------------
(* get_or_spawn *)

(* The fast path returns the live handle; a draining registry refuses. *)
OpenBegin(t, c) ==
    LET i == InstanceOf(t) IN
    /\ pc[t] = "idle"
    /\ inner[i][c] = None
    /\ ~draining[i]
    /\ TokenBudget
    /\ loc' = [loc EXCEPT ![t].canvas = c]
    /\ Goto(t, "acquire")
    /\ UNCHANGED <<coordVars, mapVars, actorVars>>

(* acquire_lease is refused: find_owner, then NotOwner. *)
OpenNotOwner(t) ==
    LET c == loc[t].canvas IN
    /\ pc[t] = "acquire"
    /\ Refused(leases[c], InstanceOf(t), clock)
    /\ Goto(t, "idle")
    /\ loc' = [loc EXCEPT ![t] = NoLocals]
    /\ UNCHANGED <<coordVars, mapVars, actorVars>>

OpenAcquire(t) ==
    LET c == loc[t].canvas
        i == InstanceOf(t)
    IN
    /\ pc[t] = "acquire"
    /\ ~Refused(leases[c], i, clock)
    /\ leases' = [leases EXCEPT ![c] = Granted(i, counter, clock)]
    /\ counter' = counter + 1
    /\ loc' = [loc EXCEPT ![t].actor = counter]
    /\ Goto(t, "spawn")
    /\ UNCHANGED <<clock, mapVars, actorVars>>

M_LastSeqUnread(c) == 0

(* CanvasActor::spawn recovers the sequence number from the journal, and
   spawn_renew_task starts renewing the lease.                             *)
LastSeq(c) == Max({0} \cup {s \in Seqs : journal[c][s] # None})

OpenSpawn(t) ==
    LET c == loc[t].canvas
        a == loc[t].actor
    IN
    /\ pc[t] = "spawn"
    /\ actors' = [actors EXCEPT ![a] =
                    [status |-> "running", instance |-> InstanceOf(t),
                     canvas |-> c, seq |-> LastSeq(c), inbox |-> <<>>,
                     open |-> FALSE]]
    /\ renewers' = [renewers EXCEPT ![a] = clock + Interval]
    /\ Goto(t, "insert")
    /\ UNCHANGED <<coordVars, mapVars, journal, acked, loc>>

M_OpenInsertOverwrites(t) ==
    LET c == loc[t].canvas
        i == InstanceOf(t)
        a == loc[t].actor
    IN
    /\ pc[t] = "insert"
    /\ inner' = [inner EXCEPT ![i][c] = a]
    /\ actors' = [actors EXCEPT ![a].open = TRUE]
    /\ Goto(t, "opened")
    /\ UNCHANGED <<coordVars, draining, route_cache, renewers, journal, acked,
                   loc>>

(* Under the map's lock: insert, unless a racing open was faster.  From here
   on other tasks find the handle, and its clients send ops.               *)
OpenInsert(t) ==
    LET c == loc[t].canvas
        i == InstanceOf(t)
        a == loc[t].actor
    IN
    /\ pc[t] = "insert"
    /\ inner[i][c] = None
    /\ inner' = [inner EXCEPT ![i][c] = a]
    /\ actors' = [actors EXCEPT ![a].open = TRUE]
    /\ Goto(t, "opened")
    /\ UNCHANGED <<coordVars, draining, route_cache, renewers, journal, acked,
                   loc>>

M_OpenRacedOutStopsWinner(t) ==
    LET c == loc[t].canvas
        a == inner[InstanceOf(t)][c]
    IN
    /\ pc[t] = "insert"
    /\ a # None
    /\ actors' = [actors EXCEPT ![a].inbox = Append(@, "shutdown")]
    /\ Goto(t, "raced")
    /\ UNCHANGED <<coordVars, mapVars, renewers, journal, acked, loc>>

(* The raced-out opener shuts its own actor down, awaits the reply ... *)
OpenRacedOut(t) ==
    LET c == loc[t].canvas
        a == loc[t].actor
    IN
    /\ pc[t] = "insert"
    /\ inner[InstanceOf(t)][c] # None
    /\ actors' = [actors EXCEPT ![a].inbox = Append(@, "shutdown")]
    /\ Goto(t, "raced")
    /\ UNCHANGED <<coordVars, mapVars, renewers, journal, acked, loc>>

(* ... and releases its own lease. *)
OpenRacedRelease(t) ==
    LET c == loc[t].canvas
        a == loc[t].actor
    IN
    /\ pc[t] = "raced"
    /\ ~Running(a)
    /\ ReleaseLease(InstanceOf(t), c, a)
    /\ Goto(t, "opened")
    /\ UNCHANGED <<clock, counter, mapVars, actorVars, loc>>

(* The route cache learns the canvas; a raced-out opener's renew_stop is
   dropped when the call returns.                                          *)
OpenReturn(t) ==
    LET c == loc[t].canvas
        i == InstanceOf(t)
        a == loc[t].actor
    IN
    /\ pc[t] = "opened"
    /\ CacheInsert(i, c, i)
    /\ renewers' = IF actors[a].open THEN renewers
                   ELSE [renewers EXCEPT ![a] = None]
    /\ Goto(t, "idle")
    /\ loc' = [loc EXCEPT ![t] = NoLocals]
    /\ UNCHANGED <<coordVars, inner, draining, actors, journal, acked>>

-----------------------------------------------------------------------------
(* evict, evict_idle, shutdown and delete_canvas take entries out of the map
   and tear them down one by one.                                          *)

Entries(i, cs) ==
    { <<c, inner[i][c]>> : c \in {d \in cs : inner[i][d] # None} }

TakeOut(t, cs) ==
    LET i == InstanceOf(t) IN
    /\ inner' = [inner EXCEPT ![i] =
                   [c \in Canvas |-> IF c \in cs THEN None ELSE @[c]]]
    /\ \E order \in SetToSeqs(Entries(i, cs)) :
          loc' = [loc EXCEPT ![t].todo = order]
    /\ Goto(t, "teardown")

(* evict of one live canvas, evict_idle of the live canvases cs that are idle;
   how long a canvas has been idle is left open.                           *)
EvictBegin(t, cs) ==
    /\ pc[t] = "idle"
    /\ cs # {} /\ \A c \in cs : inner[InstanceOf(t)][c] # None
    /\ TakeOut(t, cs)
    /\ UNCHANGED <<coordVars, draining, route_cache, actorVars>>

(* evict of a canvas that is not live only forgets the route. *)
EvictAbsent(t, c) ==
    LET i == InstanceOf(t) IN
    /\ pc[t] = "idle"
    /\ inner[i][c] = None
    /\ route_cache[i][c] # {}
    /\ CacheRemove(i, c)
    /\ UNCHANGED <<coordVars, inner, draining, actorVars, pc, loc>>

(* delete_canvas evicts first; with no live actor it goes straight on. *)
DeleteBegin(t, c) ==
    LET i == InstanceOf(t) IN
    /\ pc[t] = "idle"
    /\ inner' = [inner EXCEPT ![i][c] = None]
    /\ loc' = [loc EXCEPT ![t] = [NoLocals EXCEPT
                 !.canvas = c, !.delete = TRUE,
                 !.todo = SetToSeq(Entries(i, {c}))]]
    /\ Goto(t, "teardown")
    /\ UNCHANGED <<coordVars, draining, route_cache, actorVars>>

(* shutdown sets the drain flag, then drains the map: two steps. *)
ShutdownBegin(t) ==
    LET i == InstanceOf(t) IN
    /\ pc[t] = "idle"
    /\ ~draining[i]
    /\ draining' = [draining EXCEPT ![i] = TRUE]
    /\ Goto(t, "drain")
    /\ UNCHANGED <<coordVars, inner, route_cache, actorVars, loc>>

ShutdownDrain(t) ==
    /\ pc[t] = "drain"
    /\ TakeOut(t, Canvas)
    /\ UNCHANGED <<coordVars, draining, route_cache, actorVars>>

(* One entry: drop renew_stop, queue Shutdown behind the pending commands ... *)
TeardownStop(t) ==
    LET a == Head(loc[t].todo)[2] IN
    /\ pc[t] = "teardown"
    /\ loc[t].todo # <<>>
    /\ renewers' = [renewers EXCEPT ![a] = None]
    /\ actors' = [actors EXCEPT ![a].inbox = Append(@, "shutdown")]
    /\ Goto(t, "stopping")
    /\ UNCHANGED <<coordVars, mapVars, journal, acked, loc>>

M_TeardownDoesNotWait(t) ==
    LET c == Head(loc[t].todo)[1]
        a == Head(loc[t].todo)[2]
        i == InstanceOf(t)
    IN
    /\ pc[t] = "stopping"
    /\ ReleaseLease(i, c, a)
    /\ CacheRemove(i, c)
    /\ loc' = [loc EXCEPT ![t].todo = Tail(@)]
    /\ Goto(t, "teardown")
    /\ UNCHANGED <<clock, counter, inner, draining, actorVars>>

M_TeardownWaitsForLease(t) ==
    LET c == Head(loc[t].todo)[1]
        a == Head(loc[t].todo)[2]
        i == InstanceOf(t)
    IN
    /\ pc[t] = "stopping"
    /\ ~Running(a) /\ FindOwner(leases[c], clock) # {i}
    /\ ReleaseLease(i, c, a)
    /\ CacheRemove(i, c)
    /\ loc' = [loc EXCEPT ![t].todo = Tail(@)]
    /\ Goto(t, "teardown")
    /\ UNCHANGED <<clock, counter, inner, draining, actorVars>>

(* ... await its reply, release the lease and forget the route. *)
TeardownRelease(t) ==
    LET c == Head(loc[t].todo)[1]
        a == Head(loc[t].todo)[2]
        i == InstanceOf(t)
    IN
    /\ pc[t] = "stopping"
    /\ ~Running(a)
    /\ ReleaseLease(i, c, a)
    /\ CacheRemove(i, c)
    /\ loc' = [loc EXCEPT ![t].todo = Tail(@)]
    /\ Goto(t, "teardown")
    /\ UNCHANGED <<clock, counter, inner, draining, actorVars>>

TeardownReturn(t) ==
    /\ pc[t] = "teardown"
    /\ loc[t].todo = <<>>
    /\ ~loc[t].delete
    /\ Goto(t, "idle")
    /\ loc' = [loc EXCEPT ![t] = NoLocals]
    /\ UNCHANGED <<coordVars, mapVars, actorVars>>

(* delete_canvas then prunes every record of the canvas from the store. *)
DeletePrune(t) ==
    LET c == loc[t].canvas IN
    /\ pc[t] = "teardown"
    /\ loc[t].todo = <<>>
    /\ loc[t].delete
    /\ journal' = [journal EXCEPT ![c] = [s \in Seqs |-> None]]
    /\ acked' = {x \in acked : x[1] # c}
    /\ CacheRemove(InstanceOf(t), c)
    /\ Goto(t, "idle")
    /\ loc' = [loc EXCEPT ![t] = NoLocals]
    /\ UNCHANGED <<coordVars, inner, draining, actors, renewers>>

-----------------------------------------------------------------------------
(* resolve_owner, on a cache miss *)

ResolveKnown(t, c) ==
    LET i == InstanceOf(t)
        o == FindOwner(leases[c], clock)
    IN
    /\ pc[t] = "idle"
    /\ route_cache[i][c] = {}
    /\ o # {}
    /\ route_cache' = [route_cache EXCEPT ![i][c] = o]
    /\ UNCHANGED <<coordVars, inner, draining, actorVars, pc, loc>>

ResolveFree(t, c) ==
    /\ pc[t] = "idle"
    /\ route_cache[InstanceOf(t)][c] = {}
    /\ FindOwner(leases[c], clock) = {}
    /\ TokenBudget
    /\ loc' = [loc EXCEPT ![t].canvas = c]
    /\ Goto(t, "claim")
    /\ UNCHANGED <<coordVars, mapVars, actorVars>>

ResolveClaim(t) ==
    LET c == loc[t].canvas
        i == InstanceOf(t)
    IN
    /\ pc[t] = "claim"
    /\ ~Refused(leases[c], i, clock)
    /\ leases' = [leases EXCEPT ![c] = Granted(i, counter, clock)]
    /\ counter' = counter + 1
    /\ loc' = [loc EXCEPT ![t].actor = counter]
    /\ Goto(t, "unclaim")
    /\ UNCHANGED <<clock, mapVars, actorVars>>

ResolveUnclaim(t) ==
    LET c == loc[t].canvas
        i == InstanceOf(t)
    IN
    /\ pc[t] = "unclaim"
    /\ ReleaseLease(i, c, loc[t].actor)
    /\ CacheInsert(i, c, i)
    /\ Goto(t, "idle")
    /\ loc' = [loc EXCEPT ![t] = NoLocals]
    /\ UNCHANGED <<clock, counter, inner, draining, actorVars>>

(* Someone claimed in between: re-read, and fall back to this instance. *)
ResolveReread(t) ==
    LET c == loc[t].canvas
        i == InstanceOf(t)
        o == FindOwner(leases[c], clock)
    IN
    /\ pc[t] = "claim"
    /\ Refused(leases[c], i, clock)
    /\ route_cache' = [route_cache EXCEPT ![i][c] = IF o = {} THEN {i} ELSE o]
    /\ Goto(t, "idle")
    /\ loc' = [loc EXCEPT ![t] = NoLocals]
    /\ UNCHANGED <<coordVars, inner, draining, actorVars>>

-----------------------------------------------------------------------------
(* The environment of the tasks: actors, renew tasks, time, crashes. *)

(* A client with a handle sends an op. *)
ClientSend(a) ==
    /\ Running(a)
    /\ actors[a].open
    /\ actors[a].inbox = <<>>
    /\ actors[a].seq < deployed.ops
    /\ actors' = [actors EXCEPT ![a].inbox = Append(@, "op")]
    /\ UNCHANGED <<coordVars, mapVars, renewers, journal, acked, pc, loc>>

(* handle_apply stamps the next seq, journals the op and acknowledges it. *)
ActorApply(a) ==
    LET c == actors[a].canvas
        s == actors[a].seq + 1
    IN
    /\ Running(a)
    /\ actors[a].inbox # <<>>
    /\ Head(actors[a].inbox) = "op"
    /\ actors' = [actors EXCEPT ![a].inbox = Tail(@), ![a].seq = s]
    /\ journal' = [journal EXCEPT ![c][s] = a]
    /\ acked' = acked \cup {<<c, s, a>>}
    /\ UNCHANGED <<coordVars, mapVars, renewers, pc, loc>>

(* Shutdown ends the actor task; what is queued behind it is dropped. *)
ActorStop(a) ==
    /\ Running(a)
    /\ actors[a].inbox # <<>>
    /\ Head(actors[a].inbox) = "shutdown"
    /\ actors' = [actors EXCEPT ![a].inbox = <<>>, ![a].status = "stopped"]
    /\ UNCHANGED <<coordVars, mapVars, renewers, journal, acked, pc, loc>>

(* The renew task of actor a: renew, or give up when the lease is lost.  The
   actor is not told.                                                      *)
Renew(a) ==
    LET c == actors[a].canvas
        token == LeaseToken(actors[a].instance, a)
    IN
    /\ renewers[a] # None
    /\ renewers[a] <= clock
    /\ IF Renewable(leases[c], token, clock)
       THEN /\ leases' = [leases EXCEPT ![c].expires_at = clock + Ttl]
            /\ renewers' = [renewers EXCEPT ![a] = clock + Interval]
       ELSE /\ renewers' = [renewers EXCEPT ![a] = None]
            /\ UNCHANGED leases
    /\ UNCHANGED <<clock, counter, mapVars, actors, journal, acked, pc, loc>>

(* Time passes; a renewal is at most MaxLate ticks late, and what a task does
   under a lease that nobody renews (between acquire_lease and the start of
   the renew task, between its stop and the release) takes less than a tick. *)
Tick ==
    /\ clock < deployed.clock
    /\ \A t \in Task : pc[t] \notin {"spawn", "stopping", "unclaim"}
    /\ \A a \in Actor : renewers[a] # None => clock < renewers[a] + MaxLate
    /\ clock' = clock + 1
    /\ UNCHANGED <<leases, counter, mapVars, actorVars, pc, loc>>

(* The process dies: its map, actors and tasks are gone, its leases stay.  A
   process that is started again has another owner id (default_owner), so
   this one does not come back.                                            *)
Crash(i) ==
    /\ deployed.crashes
    /\ \A t \in Task : InstanceOf(t) = i => pc[t] # "dead"
    /\ inner' = [inner EXCEPT ![i] = [c \in Canvas |-> None]]
    /\ draining' = [draining EXCEPT ![i] = FALSE]
    /\ route_cache' = [route_cache EXCEPT ![i] = [c \in Canvas |-> {}]]
    /\ actors' = [a \in Actor |->
                    IF Running(a) /\ actors[a].instance = i
                    THEN [actors[a] EXCEPT !.status = "stopped", !.inbox = <<>>]
                    ELSE actors[a]]
    /\ renewers' = [a \in Actor |->
                      IF actors[a] # NoActor /\ actors[a].instance = i
                      THEN None ELSE renewers[a]]
    /\ pc' = [t \in Task |-> IF InstanceOf(t) = i THEN "dead" ELSE pc[t]]
    /\ loc' = [t \in Task |-> IF InstanceOf(t) = i THEN NoLocals ELSE loc[t]]
    /\ UNCHANGED <<coordVars, journal, acked>>

-----------------------------------------------------------------------------

(* A new call into the registry. *)
Call(t) ==
    \/ \E c \in Canvas : \/ OpenBegin(t, c)
                         \/ EvictAbsent(t, c)
                         \/ DeleteBegin(t, c)
                         \/ ResolveKnown(t, c)
                         \/ ResolveFree(t, c)
    \/ \E cs \in SUBSET Canvas : EvictBegin(t, cs)
    \/ ShutdownBegin(t)

(* A step of a call that has begun. *)
Step(t) ==
    \/ OpenNotOwner(t) \/ OpenAcquire(t) \/ OpenSpawn(t) \/ OpenInsert(t)
    \/ OpenRacedOut(t) \/ OpenRacedRelease(t) \/ OpenReturn(t)
    \/ ShutdownDrain(t) \/ TeardownStop(t) \/ TeardownRelease(t)
    \/ TeardownReturn(t) \/ DeletePrune(t)
    \/ ResolveClaim(t) \/ ResolveUnclaim(t) \/ ResolveReread(t)

ActorStep(a) == ActorApply(a) \/ ActorStop(a)

Next ==
    /\ \/ \E t \in deployed.tasks : Call(t) \/ Step(t)
       \/ \E a \in Actor : ClientSend(a) \/ ActorStep(a) \/ Renew(a)
       \/ Tick
       \/ \E i \in {InstanceOf(t) : t \in deployed.tasks} : Crash(i)
    /\ UNCHANGED deployed

(* The runtime schedules every task, actor and renew task. *)
Fairness ==
    /\ \A t \in Task : WF_vars(Step(t) /\ UNCHANGED deployed)
    /\ \A a \in Actor : /\ WF_vars(ActorStep(a) /\ UNCHANGED deployed)
                        /\ WF_vars(Renew(a) /\ UNCHANGED deployed)

Spec == Init /\ [][Next]_vars /\ Fairness

-----------------------------------------------------------------------------

(* Who answers for an actor, its lease and its renew task: an entry of the
   map, or a task that has still to insert it or tear it down.             *)
Owned(a) ==
    \/ \E i \in Owner, c \in Canvas : inner[i][c] = a
    \/ \E t \in Task : \/ loc[t].actor = a
                       \/ \E n \in DOMAIN loc[t].todo : loc[t].todo[n][2] = a

(* The map of get_or_spawn, evict, evict_idle and shutdown only holds handles
   of running actors of that canvas: no racing teardown stops an actor the
   fast path still hands out.                                              *)
MapEntryRunning ==
    \A i \in Owner, c \in Canvas : inner[i][c] # None =>
        /\ Running(inner[i][c])
        /\ actors[inner[i][c]].canvas = c
        /\ actors[inner[i][c]].instance = i

(* No interleaving of opens, evictions and shutdowns forgets an actor that
   runs, or a renew task that keeps a lease alive; and without a crash a
   lease in the table has someone who will release it.                     *)
NothingLeaks ==
    /\ \A a \in Actor : Running(a) \/ renewers[a] # None => Owned(a)
    /\ ~ deployed.crashes =>
          \A c \in Canvas : leases[c] # NoLease => Owned(leases[c].token[2])

(* Two actors that were handed out for one canvas run on one instance.
   registry.rs:8: "While held, no other owner can spawn the same canvas".  *)
OneInstancePerCanvas ==
    \A a, b \in Actor :
        /\ Running(a) /\ Running(b)
        /\ actors[a].open /\ actors[b].open
        /\ actors[a].canvas = actors[b].canvas
        => actors[a].instance = actors[b].instance

(* Single writer: where calls do not overlap, at most one actor that was ever
   handed out runs for a canvas, across all instances, crashes and lease
   takeovers.                                                              *)
SingleWriter ==
    Serial =>
        \A a, b \in Actor :
            /\ Running(a) /\ Running(b)
            /\ actors[a].open /\ actors[b].open
            /\ actors[a].canvas = actors[b].canvas
            => a = b

(* The record of an acknowledged op stays: where calls do not overlap, no
   other actor stamps the same sequence number and overwrites
   `canvas:journal:seq'.                                                   *)
AckedOpKept == Serial => \A x \in acked : journal[x[1]][x[2]] = x[3]

(* A draining instance eventually gives every canvas up for handoff, unless
   it crashes first or an open slips past the drain.                       *)
DrainHandsOver ==
    \A i \in Owner : \A c \in Canvas :
        Serial /\ draining[i] ~>
            \/ ~draining[i]
            \/ inner[i][c] = None /\ FindOwner(leases[c], clock) # {i}

=============================================================================
