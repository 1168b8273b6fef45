--------------------------- MODULE RegistryProofs ---------------------------
(***************************************************************************)
(* Who answers for an actor.  Whatever calls race on however many          *)
(* instances, and whichever of them crash: the map of an instance only     *)
(* holds running actors of that canvas, and no actor, renew task or lease  *)
(* is forgotten.                                                           *)
(*                                                                         *)
(* What carries the proof is that an actor is in one hand at a time: the   *)
(* task that builds it, then the map, then the task that tears it down     *)
(* (`Handed').  Only the task that has it in hand queues a Shutdown, so    *)
(* an entry of the map has none in its mailbox (`Mapped').                 *)
(*                                                                         *)
(* The second half is about the single writer, which needs time as well.   *)
(***************************************************************************)
EXTENDS Registry, FiniteSetTheorems, TLAPS

Building == {"spawn", "insert", "raced", "unclaim"}

Waits(where) == where \in {"acquire", "claim"}
Waiting == {t \in Task : Waits(pc[t])}

Place == {"idle", "dead", "acquire", "claim", "opened", "drain", "teardown",
          "stopping"} \cup Building

Local == [canvas : Canvas \cup {NoLocals.canvas}, actor : Actor \cup {None},
          todo : Seq(Canvas \X Actor), delete : BOOLEAN]

State(s) == [status : {"running", "stopped"}, instance : Owner, canvas : Canvas,
             seq : {s}, inbox : Seq({"op", "shutdown"}), open : BOOLEAN]

Shapes ==
    /\ clock \in Nat /\ counter \in Nat \ {0}
    /\ leases \in [Canvas -> LeaseEntry \cup {NoLease}]
    /\ inner \in [Owner -> [Canvas -> Actor \cup {None}]]
    /\ actors = [a \in Actor |-> actors[a]]
    /\ \A a \in Actor : actors[a] # NoActor => actors[a] \in State(actors[a].seq)
    /\ renewers \in [Actor -> Nat]
    /\ pc \in [Task -> Place]
    /\ loc \in [Task -> Local]
    /\ deployed \in Deployments

(* Every acquire that has begun can still be given a number of its own. *)
Fresh ==
    /\ counter + Cardinality(Waiting) <= deployed.leases + 1
    /\ \A a \in Actor : actors[a] # NoActor => a < counter
    /\ \A t \in Task : loc[t].actor < counter
    /\ \A c \in Canvas : leases[c] # NoLease =>
          /\ leases[c].owner = leases[c].token[1]
          /\ leases[c].token[2] \in Actor

Works(a, i, c) ==
    actors[a] # NoActor /\ actors[a].canvas = c /\ actors[a].instance = i

(* What a task has in its locals, by where it is. *)
Fit(t) ==
    /\ pc[t] \in {"acquire", "claim"} \cup Building => loc[t].canvas \in Canvas
    /\ pc[t] \in Building \cup {"opened"} => loc[t].actor \in Actor
    /\ pc[t] \in {"spawn", "unclaim"} => actors[loc[t].actor] = NoActor
    /\ pc[t] \in {"insert", "raced", "opened"} =>
          Works(loc[t].actor, InstanceOf(t), loc[t].canvas)
    /\ pc[t] \in {"insert", "raced"} => ~actors[loc[t].actor].open
    /\ pc[t] = "insert" => /\ Running(loc[t].actor)
                           /\ actors[loc[t].actor].inbox \in Seq({"op"})
    /\ pc[t] \notin {"teardown", "stopping"} => loc[t].todo = <<>>
    /\ pc[t] = "stopping" => /\ loc[t].todo # <<>>
                             /\ renewers[Head(loc[t].todo)[2]] = None
    /\ \A n \in DOMAIN loc[t].todo :
          Works(loc[t].todo[n][2], InstanceOf(t), loc[t].todo[n][1])

Steady == \A t \in Task : Fit(t)

Mapped ==
    \A i \in Owner, c \in Canvas : inner[i][c] # None =>
        /\ Running(inner[i][c]) /\ Works(inner[i][c], i, c)
        /\ actors[inner[i][c]].inbox \in Seq({"op"})

InMap(a) == \E i \in Owner, c \in Canvas : inner[i][c] = a
Builds(t, a) == pc[t] \in Building /\ loc[t].actor = a
TearsDown(t, a) == \E n \in DOMAIN loc[t].todo : loc[t].todo[n][2] = a

(* An actor is in one hand. *)
Handed ==
    /\ \A t \in Task, a \in Actor : TearsDown(t, a) => ~InMap(a)
    /\ \A t \in Task, a \in Actor : Builds(t, a) =>
          /\ ~InMap(a)
          /\ \A u \in Task : ~TearsDown(u, a) /\ (Builds(u, a) => u = t)

Held(a) == \/ InMap(a)
           \/ \E t \in Task : Builds(t, a) \/ TearsDown(t, a)

(* What runs, renews or is held by a lease is in a hand. *)
Answered ==
    \A a \in Actor :
        /\ Running(a) => Held(a)
        /\ renewers[a] # None =>
              /\ actors[a] # NoActor
              /\ \/ Held(a)
                 \/ \E t \in Task : /\ pc[t] = "opened" /\ loc[t].actor = a
                                    /\ ~actors[a].open

HoldsLease(t, c, token) ==
    /\ InstanceOf(t) = token[1]
    /\ \/ Builds(t, token[2]) /\ loc[t].canvas = c
       \/ \E n \in DOMAIN loc[t].todo : loc[t].todo[n] = <<c, token[2]>>

LeaseHeld ==
    ~deployed.crashes =>
        \A c \in Canvas : leases[c] # NoLease =>
            \/ inner[leases[c].token[1]][c] = leases[c].token[2]
            \/ \E t \in Task : HoldsLease(t, c, leases[c].token)

IInv == Shapes /\ Fresh /\ Steady /\ Mapped /\ Handed /\ Answered /\ LeaseHeld

-----------------------------------------------------------------------------

USE TtlAssumption, NoLeaseAssumption, RenewAssumption, InstanceAssumption,
    BoundAssumption, DeploymentAssumption
USE DEF None, Actor

(* The locals of a task between calls. *)
LEMMA LocalsOfIdle ==
    /\ NoLocals \in Local /\ NoLocals.todo = <<>> /\ NoLocals.actor = 0
    /\ NoLocals.delete = FALSE
<1>1. <<>> \in Seq(Canvas \X Actor)
  OBVIOUS
<1> QED BY <1>1 DEF NoLocals, Local

(* A registry that was just started satisfies the inductive invariant. *)
LEMMA InitIInv == Init => IInv
<1> SUFFICES ASSUME Init PROVE IInv
  OBVIOUS
<1>1. Waiting = {}
  BY DEF Init, Waiting, Waits
<1>2. Cardinality(Waiting) = 0
  BY <1>1, FS_EmptySet
<1>3. Shapes
  BY LocalsOfIdle DEF Init, Shapes, Place
<1>4. Fresh
  BY <1>2, LocalsOfIdle DEF Init, Fresh
<1>5. Steady
  BY LocalsOfIdle DEF Init, Steady, Fit, Building
<1>6. Mapped /\ LeaseHeld
  BY DEF Init, Mapped, LeaseHeld
<1>7. Handed
  BY LocalsOfIdle DEF Init, Handed, Builds, TearsDown, Building
<1>8. Answered
  BY DEF Init, Answered, Running
<1> QED BY <1>3, <1>4, <1>5, <1>6, <1>7, <1>8 DEF IInv

(* How a step of a task changes the number of acquires that have begun. *)
LEMMA WaitingMoves ==
    ASSUME IInv, NEW t \in Task, \A u \in Task \ {t} : pc'[u] = pc[u]
    PROVE  /\ Cardinality(Waiting) \in Nat
           /\ Waits(pc'[t]) /\ ~Waits(pc[t]) =>
                 Cardinality(Waiting') = Cardinality(Waiting) + 1
           /\ ~Waits(pc'[t]) /\ Waits(pc[t]) =>
                 /\ Cardinality(Waiting') = Cardinality(Waiting) - 1
                 /\ Cardinality(Waiting) >= 1
           /\ ~Waits(pc'[t]) /\ ~Waits(pc[t]) =>
                 Cardinality(Waiting') = Cardinality(Waiting)
<1>1. IsFiniteSet(Waiting) /\ Cardinality(Waiting) \in Nat
  BY FS_Subset, FS_CardinalityType DEF Waiting
<1>2. CASE Waits(pc'[t]) /\ ~Waits(pc[t])
  <2>1. Waiting' = Waiting \cup {t} /\ t \notin Waiting
    BY <1>2 DEF Waiting
  <2> QED BY <1>1, <1>2, <2>1, FS_AddElement
<1>3. CASE ~Waits(pc'[t]) /\ Waits(pc[t])
  <2>1. Waiting' = Waiting \ {t} /\ t \in Waiting
    BY <1>3 DEF Waiting
  <2>2. Cardinality(Waiting) >= 1
    BY <1>1, <2>1, FS_EmptySet
  <2> QED BY <1>1, <1>3, <2>1, <2>2, FS_RemoveElement
<1>4. CASE ~Waits(pc'[t]) /\ ~Waits(pc[t])
  <2>1. Waiting' = Waiting
    BY <1>4 DEF Waiting
  <2> QED BY <1>1, <1>4, <2>1
<1>5. CASE Waits(pc'[t]) /\ Waits(pc[t])
  BY <1>1, <1>5
<1> QED BY <1>2, <1>3, <1>4, <1>5

(* The numbers of a deployment. *)
LEMMA Bounds ==
    IInv => /\ deployed.leases \in Nat /\ deployed.leases <= MaxActors
            /\ counter \in Nat \ {0}
<1> SUFFICES ASSUME IInv
             PROVE  /\ deployed.leases \in Nat /\ deployed.leases <= MaxActors
                    /\ counter \in Nat \ {0}
  OBVIOUS
<1>1. deployed \in [tasks : SUBSET Task, crashes : BOOLEAN, clock : 0..MaxClock,
                    leases : 0..MaxActors, ops : 0..MaxSeq]
  BY DEF IInv, Shapes
<1>2. deployed.leases \in 0..MaxActors
  BY <1>1
<1> QED BY <1>2 DEF IInv, Shapes

(* Steps that leave the tasks, the map, the actors and the leases alone. *)
LEMMA QuietIInv ==
    ASSUME IInv, clock' \in Nat,
           UNCHANGED <<leases, counter, inner, actors, renewers, pc, loc, deployed>>
    PROVE  IInv'
<1>1. Shapes'
  BY DEF IInv, Shapes
<1>2. Fresh'
  BY DEF IInv, Fresh, Waiting
<1>3. Steady'
  BY DEF IInv, Steady, Fit, Works, Running
<1>4. Mapped'
  BY DEF IInv, Mapped, Works, Running
<1>5. Handed'
  BY DEF IInv, Handed, InMap, Builds, TearsDown
<1>6. Answered'
  BY DEF IInv, Answered, Held, InMap, Builds, TearsDown, Running
<1>7. LeaseHeld'
  BY DEF IInv, LeaseHeld, HoldsLease, Builds
<1> QED BY <1>1, <1>2, <1>3, <1>4, <1>5, <1>6, <1>7 DEF IInv

(* Steps of a task that has no actor in hand, before and after. *)
LEMMA EmptyHandedIInv ==
    ASSUME IInv, NEW t \in Task,
           NEW where \in {"idle", "acquire", "claim", "drain"}, NEW l \in Local,
           UNCHANGED <<clock, leases, counter, inner, actors, renewers, deployed>>,
           pc' = [pc EXCEPT ![t] = where], loc' = [loc EXCEPT ![t] = l],
           pc[t] \notin Building \cup {"opened"}, loc[t].todo = <<>>,
           l.todo = <<>>, l.actor < counter,
           where \in {"acquire", "claim"} => l.canvas \in Canvas,
           counter + Cardinality(Waiting') <= deployed.leases + 1
    PROVE  IInv'
<1>1. /\ loc' \in [Task -> Local] /\ pc' \in [Task -> Place]
      /\ pc'[t] = where /\ loc'[t] = l
      /\ \A u \in Task : u # t => pc'[u] = pc[u] /\ loc'[u] = loc[u]
  BY DEF IInv, Shapes, Place
<1>2. Shapes'
  BY <1>1 DEF IInv, Shapes
<1>3. Fresh'
  BY <1>1 DEF IInv, Fresh
<1>4. Steady'
  BY <1>1 DEF IInv, Steady, Fit, Works, Running, Building
<1>5. Mapped'
  BY DEF IInv, Mapped, Works, Running
<1>6. \A u \in Task, a \in Actor : /\ Builds(u, a)' <=> Builds(u, a)
                                   /\ TearsDown(u, a)' <=> TearsDown(u, a)
  BY <1>1 DEF Builds, TearsDown, Building
<1>7. Handed'
  BY <1>6 DEF IInv, Handed, InMap
<1>8. Answered'
  BY <1>1, <1>6 DEF IInv, Answered, Held, InMap, Running
<1>9. LeaseHeld'
  <2>1. \A u \in Task, c \in Canvas : \A token :
           HoldsLease(u, c, token)' <=> HoldsLease(u, c, token)
    BY <1>1 DEF HoldsLease, Builds, Building
  <2> QED BY <2>1 DEF IInv, LeaseHeld
<1> QED BY <1>2, <1>3, <1>4, <1>5, <1>7, <1>8, <1>9 DEF IInv

(* get_or_spawn and resolve_owner up to their acquire of a lease. *)
LEMMA OpenBeginIInv ==
    ASSUME IInv, NEW t \in Task, NEW c \in Canvas, UNCHANGED deployed,
           OpenBegin(t, c) \/ ResolveFree(t, c)
    PROVE  IInv'
<1> DEFINE l == [loc[t] EXCEPT !.canvas = c]
<1> DEFINE where == IF OpenBegin(t, c) THEN "acquire" ELSE "claim"
<1>1. /\ pc[t] = "idle" /\ loc[t] \in Local /\ loc[t].todo = <<>>
      /\ loc[t].actor < counter /\ loc \in [Task -> Local]
  BY DEF IInv, Shapes, Fresh, Steady, Fit, OpenBegin, ResolveFree
<1>2. l \in Local /\ l.todo = <<>> /\ l.actor < counter /\ l.canvas = c
  BY <1>1 DEF Local
<1>3. /\ pc' = [pc EXCEPT ![t] = where] /\ loc' = [loc EXCEPT ![t] = l]
      /\ UNCHANGED <<clock, leases, counter, inner, actors, renewers>>
      /\ where \in {"acquire", "claim"}
      /\ counter + Cardinality(Waiting) <= deployed.leases
  <2>1. CASE OpenBegin(t, c)
    BY <2>1 DEF OpenBegin, Goto, coordVars, actorVars, mapVars, TokenBudget,
                Waiting, Waits
  <2>2. CASE ~OpenBegin(t, c)
    BY <2>2 DEF ResolveFree, Goto, coordVars, actorVars, mapVars, TokenBudget,
                Waiting, Waits
  <2> QED BY <2>1, <2>2
<1>4. counter + Cardinality(Waiting') <= deployed.leases + 1
  <2>1. Waits(pc'[t]) /\ ~Waits(pc[t]) /\ \A u \in Task \ {t} : pc'[u] = pc[u]
    BY <1>1, <1>3 DEF Waits, IInv, Shapes
  <2>2. /\ Cardinality(Waiting') = Cardinality(Waiting) + 1
        /\ Cardinality(Waiting) \in Nat
    BY <2>1, WaitingMoves
  <2> QED BY <1>3, <2>1, <2>2, Bounds
<1> HIDE DEF l, where
<1> QED BY <1>1, <1>2, <1>3, <1>4, EmptyHandedIInv DEF Building

(* A call that ends with nothing in hand. *)
LEMMA CallEndsIInv ==
    ASSUME IInv, NEW t \in Task, UNCHANGED deployed,
           \/ OpenNotOwner(t) \/ ResolveReread(t)
           \/ TeardownReturn(t) \/ DeletePrune(t)
    PROVE  IInv'
<1>1. /\ pc' = [pc EXCEPT ![t] = "idle"] /\ loc' = [loc EXCEPT ![t] = NoLocals]
      /\ UNCHANGED <<clock, leases, counter, inner, actors, renewers>>
      /\ \/ pc[t] \in {"acquire", "claim"}
         \/ pc[t] = "teardown" /\ loc[t].todo = <<>>
  <2>1. CASE OpenNotOwner(t)
    BY <2>1 DEF OpenNotOwner, Goto, coordVars, actorVars, mapVars
  <2>2. CASE ResolveReread(t)
    BY <2>2 DEF ResolveReread, Goto, coordVars, actorVars
  <2>3. CASE TeardownReturn(t)
    BY <2>3 DEF TeardownReturn, Goto, coordVars, actorVars, mapVars
  <2>4. CASE DeletePrune(t)
    BY <2>4 DEF DeletePrune, Goto, coordVars
  <2> QED BY <2>1, <2>2, <2>3, <2>4
<1>2. loc[t].todo = <<>> /\ pc[t] \notin Building \cup {"opened"}
  BY <1>1 DEF IInv, Steady, Fit, Building
<1>3. counter + Cardinality(Waiting') <= deployed.leases + 1
  <2>1. ~Waits(pc'[t]) /\ \A u \in Task \ {t} : pc'[u] = pc[u]
    BY <1>1 DEF Waits, IInv, Shapes
  <2>2. /\ Cardinality(Waiting) \in Nat
        /\ \/ Cardinality(Waiting') = Cardinality(Waiting)
           \/ Cardinality(Waiting') = Cardinality(Waiting) - 1
    BY <2>1, WaitingMoves
  <2> QED BY <1>1, <2>2, Bounds DEF IInv, Fresh
<1>4. NoLocals.actor < counter
  BY Bounds, LocalsOfIdle
<1>5. "idle" \in {"idle", "acquire", "claim", "drain"}
  OBVIOUS
<1>6. NoLocals \in Local /\ NoLocals.todo = <<>>
  BY LocalsOfIdle
<1> HIDE DEF NoLocals
<1> QED BY <1>1, <1>2, <1>3, <1>4, <1>5, <1>6, EmptyHandedIInv

(* The first step of shutdown: the drain flag. *)
LEMMA ShutdownBeginIInv ==
    ASSUME IInv, NEW t \in Task, UNCHANGED deployed, ShutdownBegin(t)
    PROVE  IInv'
<1>1. /\ pc[t] = "idle" /\ pc' = [pc EXCEPT ![t] = "drain"] /\ loc' = loc
      /\ UNCHANGED <<clock, leases, counter, inner, actors, renewers>>
  BY DEF ShutdownBegin, Goto, coordVars, actorVars
<1>2. /\ loc[t] \in Local /\ loc[t].todo = <<>> /\ loc[t].actor < counter
      /\ loc' = [loc EXCEPT ![t] = loc[t]]
  BY <1>1 DEF IInv, Shapes, Fresh, Steady, Fit
<1>3. Cardinality(Waiting') = Cardinality(Waiting)
  <2>1. /\ ~Waits(pc'[t]) /\ ~Waits(pc[t])
        /\ \A u \in Task \ {t} : pc'[u] = pc[u]
    BY <1>1 DEF Waits, IInv, Shapes
  <2> QED BY <2>1, WaitingMoves
<1>4. counter + Cardinality(Waiting') <= deployed.leases + 1
  BY <1>3 DEF IInv, Fresh
<1> QED BY <1>1, <1>2, <1>4, EmptyHandedIInv DEF Building

(* An acquire that is granted gives its task a new actor to build, or a lease
   to give back at once.                                                   *)
LEMMA AcquireIInv ==
    ASSUME IInv, NEW t \in Task, UNCHANGED deployed,
           OpenAcquire(t) \/ ResolveClaim(t)
    PROVE  IInv'
<1> DEFINE c == loc[t].canvas
<1> DEFINE i == InstanceOf(t)
<1> DEFINE where == IF OpenAcquire(t) THEN "spawn" ELSE "unclaim"
<1>1. /\ pc[t] \in {"acquire", "claim"}
      /\ pc' = [pc EXCEPT ![t] = where]
      /\ loc' = [loc EXCEPT ![t].actor = counter]
      /\ leases' = [leases EXCEPT ![c] = Granted(i, counter, clock)]
      /\ counter' = counter + 1
      /\ UNCHANGED <<clock, inner, actors, renewers>>
      /\ where \in {"spawn", "unclaim"}
  <2>1. CASE OpenAcquire(t)
    BY <2>1 DEF OpenAcquire, Goto, mapVars, actorVars
  <2>2. CASE ~OpenAcquire(t)
    BY <2>2 DEF ResolveClaim, Goto, mapVars, actorVars
  <2> QED BY <2>1, <2>2
<1> HIDE DEF where
<1>2. /\ Cardinality(Waiting) \in Nat /\ Cardinality(Waiting) >= 1
      /\ Cardinality(Waiting') = Cardinality(Waiting) - 1
  <2>1. /\ ~Waits(pc'[t]) /\ Waits(pc[t])
        /\ \A u \in Task \ {t} : pc'[u] = pc[u]
    BY <1>1 DEF Waits, IInv, Shapes
  <2> QED BY <2>1, WaitingMoves
<1>3. counter \in Actor /\ counter + 1 \in Nat \ {0}
  BY <1>2, Bounds DEF IInv, Fresh
<1>4. /\ c \in Canvas /\ i \in Owner /\ loc[t].todo = <<>>
      /\ loc \in [Task -> Local] /\ pc \in [Task -> Place]
      /\ leases \in [Canvas -> LeaseEntry \cup {NoLease}]
  BY <1>1 DEF IInv, Shapes, Steady, Fit
<1>5. /\ loc' \in [Task -> Local] /\ pc' \in [Task -> Place]
      /\ pc'[t] = where /\ loc'[t].actor = counter
      /\ loc'[t].canvas = c /\ loc'[t].todo = <<>>
      /\ \A u \in Task : u # t => pc'[u] = pc[u] /\ loc'[u] = loc[u]
      /\ \A u \in Task : loc'[u].todo = loc[u].todo
  BY <1>1, <1>3, <1>4 DEF Local, Place, Building
<1>6. /\ leases' \in [Canvas -> LeaseEntry \cup {NoLease}]
      /\ leases'[c] = [owner |-> i, token |-> <<i, counter>>,
                       expires_at |-> clock + Ttl]
      /\ \A d \in Canvas : d # c => leases'[d] = leases[d]
  BY <1>1, <1>3, <1>4 DEF Granted, LeaseEntry, Token, IInv, Shapes
<1>7. Shapes'
  BY <1>1, <1>3, <1>5, <1>6 DEF IInv, Shapes
<1>8. Fresh'
  <2>1. counter' + Cardinality(Waiting') <= deployed'.leases + 1
    BY <1>1, <1>2, Bounds DEF IInv, Fresh
  <2>2. \A a \in Actor : actors'[a] # NoActor => a < counter'
    BY <1>1, <1>3 DEF IInv, Fresh
  <2>3. \A u \in Task : loc'[u].actor < counter'
    <3> TAKE u \in Task
    <3>1. loc[u].actor < counter /\ loc[u].actor \in Nat /\ counter \in Nat
      BY DEF IInv, Fresh, Shapes, Local
    <3> QED BY <1>1, <1>3, <1>5, <3>1
  <2>4. \A d \in Canvas : leases'[d] # NoLease =>
           leases'[d].owner = leases'[d].token[1] /\ leases'[d].token[2] \in Actor
    BY <1>3, <1>6 DEF IInv, Fresh
  <2> QED BY <2>1, <2>2, <2>3, <2>4 DEF Fresh
<1>9. actors[counter] = NoActor
  BY <1>3 DEF IInv, Fresh
<1>10. Steady'
  BY <1>1, <1>3, <1>4, <1>5, <1>9 DEF IInv, Steady, Fit, Works, Running, Building
<1>11. Mapped'
  BY <1>1 DEF IInv, Mapped, Works, Running
<1>12. /\ \A u \in Task, a \in Actor : TearsDown(u, a)' <=> TearsDown(u, a)
       /\ \A u \in Task, a \in Actor :
             Builds(u, a)' <=> Builds(u, a) \/ (u = t /\ a = counter)
  BY <1>1, <1>4, <1>5 DEF Builds, TearsDown, Building
<1>13. /\ ~InMap(counter)
       /\ \A u \in Task : ~Builds(u, counter) /\ ~TearsDown(u, counter)
  BY <1>3, <1>9 DEF IInv, Mapped, InMap, Builds, TearsDown, Fresh, Steady, Fit, Works
<1>14. Handed'
  BY <1>1, <1>12, <1>13 DEF IInv, Handed, InMap
<1>15. Answered'
  BY <1>1, <1>5, <1>12 DEF IInv, Answered, Held, InMap, Running, Building
<1>16. LeaseHeld'
  <2>1. HoldsLease(t, c, leases[c].token)'
    BY <1>1, <1>5, <1>6 DEF HoldsLease, Builds, Building
  <2>2. \A u \in Task, d \in Canvas : \A token :
           HoldsLease(u, d, token) => HoldsLease(u, d, token)'
    BY <1>1, <1>5 DEF HoldsLease, Builds, Building
  <2> QED BY <1>1, <1>6, <2>1, <2>2 DEF IInv, LeaseHeld
<1> QED BY <1>7, <1>8, <1>10, <1>11, <1>14, <1>15, <1>16 DEF IInv

(* A step that begins no acquire leaves every begun one its number. *)
LEMMA BudgetKept ==
    ASSUME IInv, NEW t \in Task, UNCHANGED <<counter, deployed>>,
           \A u \in Task \ {t} : pc'[u] = pc[u], ~Waits(pc'[t])
    PROVE  counter' + Cardinality(Waiting') <= deployed'.leases + 1
<1>1. /\ Cardinality(Waiting) \in Nat
      /\ \/ Cardinality(Waiting') = Cardinality(Waiting)
         \/ Cardinality(Waiting') = Cardinality(Waiting) - 1
  BY WaitingMoves
<1> QED BY <1>1, Bounds DEF IInv, Fresh

(* A task stays as it is while the actors it has in hand do. *)
LEMMA OthersFit ==
    ASSUME IInv, NEW u \in Task, pc'[u] = pc[u], loc'[u] = loc[u],
           \A b \in Actor : Builds(u, b) => actors'[b] = actors[b],
           \A b \in Actor : actors[b] # NoActor =>
               /\ actors'[b] # NoActor /\ actors'[b].canvas = actors[b].canvas
               /\ actors'[b].instance = actors[b].instance,
           \A b \in Actor : TearsDown(u, b) => renewers'[b] \in {renewers[b], None}
    PROVE  Fit(u)'
<1>1. Fit(u)
  BY DEF IInv, Steady
<1>2. pc[u] \in Building => actors'[loc[u].actor] = actors[loc[u].actor]
  BY <1>1 DEF Fit, Builds
<1>3. \A b \in Actor : \A i, c : Works(b, i, c) => Works(b, i, c)'
  BY DEF Works
<1>4. pc[u] = "opened" => Works(loc[u].actor, InstanceOf(u), loc[u].canvas)'
  BY <1>1, <1>3 DEF Fit, Building
<1>5. \A n \in DOMAIN loc[u].todo :
         Works(loc[u].todo[n][2], InstanceOf(u), loc[u].todo[n][1])'
  BY <1>1, <1>3 DEF Fit, IInv, Shapes, Local
<1>6. pc[u] = "stopping" => renewers'[Head(loc[u].todo)[2]] = None
  <2>1. SUFFICES ASSUME pc[u] = "stopping"
                 PROVE  renewers'[Head(loc[u].todo)[2]] = None
    OBVIOUS
  <2>2. /\ loc[u].todo \in Seq(Canvas \X Actor) /\ loc[u].todo # <<>>
        /\ renewers[Head(loc[u].todo)[2]] = None
    BY <1>1, <2>1 DEF Fit, IInv, Shapes, Local
  <2>3. 1 \in DOMAIN loc[u].todo /\ Head(loc[u].todo) = loc[u].todo[1]
        /\ loc[u].todo[1] \in Canvas \X Actor
    BY <2>2
  <2>4. TearsDown(u, Head(loc[u].todo)[2])
    BY <2>3 DEF TearsDown
  <2> QED BY <2>2, <2>3, <2>4
<1>7. pc[u] \in {"insert", "raced"} =>
         Works(loc[u].actor, InstanceOf(u), loc[u].canvas)'
  BY <1>1, <1>3 DEF Fit, Building
<1> QED BY <1>1, <1>2, <1>4, <1>5, <1>6, <1>7 DEF Fit, Running, Building, Works

(* Who has an actor in hand depends on the map and the tasks only. *)
LEMMA HandsKept ==
    ASSUME UNCHANGED <<inner, loc>>,
           \A u \in Task : pc'[u] # pc[u] =>
               (pc'[u] \in Building <=> pc[u] \in Building)
    PROVE  /\ \A u \in Task, b \in Actor : /\ TearsDown(u, b)' <=> TearsDown(u, b)
                                           /\ Builds(u, b)' <=> Builds(u, b)
           /\ \A b \in Actor : InMap(b)' <=> InMap(b)
           /\ \A b \in Actor : Held(b)' <=> Held(b)
           /\ \A u \in Task, d \in Canvas : \A token :
                 HoldsLease(u, d, token)' <=> HoldsLease(u, d, token)
<1>1. \A u \in Task : \A b : /\ TearsDown(u, b)' <=> TearsDown(u, b)
                             /\ Builds(u, b)' <=> Builds(u, b)
  BY DEF Builds, TearsDown
<1>2. \A b : InMap(b)' <=> InMap(b)
  BY DEF InMap
<1>3. \A b : Held(b)' <=> Held(b)
  BY <1>1, <1>2 DEF Held
<1>4. \A u \in Task, d \in Canvas : \A token :
         HoldsLease(u, d, token)' <=> HoldsLease(u, d, token)
  BY <1>1 DEF HoldsLease
<1> QED BY <1>1, <1>2, <1>3, <1>4

(* Entries of the map stay as they are while their actors do. *)
LEMMA MapKept ==
    ASSUME IInv, UNCHANGED inner,
           \A b \in Actor : InMap(b) => actors'[b] = actors[b]
    PROVE  Mapped'
<1>1. \A i \in Owner, c \in Canvas : inner[i][c] # None =>
         inner[i][c] \in Actor /\ actors'[inner[i][c]] = actors[inner[i][c]]
  BY DEF IInv, Shapes, InMap
<1> QED BY <1>1 DEF IInv, Mapped, Works, Running

(* The new actor stays in the hand of the task that builds it. *)
LEMMA OpenSpawnIInv ==
    ASSUME IInv, NEW t \in Task, UNCHANGED deployed, OpenSpawn(t)
    PROVE  IInv'
<1> DEFINE a == loc[t].actor
<1> DEFINE new == [status |-> "running", instance |-> InstanceOf(t),
                   canvas |-> loc[t].canvas, seq |-> LastSeq(loc[t].canvas),
                   inbox |-> <<>>, open |-> FALSE]
<1>1. /\ pc[t] = "spawn" /\ pc' = [pc EXCEPT ![t] = "insert"] /\ loc' = loc
      /\ actors' = [actors EXCEPT ![a] = new]
      /\ renewers' = [renewers EXCEPT ![a] = clock + Interval]
      /\ UNCHANGED <<clock, leases, counter, inner>>
  BY DEF OpenSpawn, Goto, coordVars, mapVars
<1>2. /\ a \in Actor /\ loc[t].canvas \in Canvas /\ actors[a] = NoActor
      /\ loc[t].todo = <<>>
  BY <1>1 DEF IInv, Steady, Fit, Building
<1>3. /\ new \in State(new.seq) /\ new # NoActor /\ new.inbox \in Seq({"op"})
      /\ new.status = "running" /\ new.canvas = loc[t].canvas
      /\ new.instance = InstanceOf(t) /\ new.open = FALSE
  <2>1. new # NoActor
    <3>1. new.status # NoActor.status
      BY DEF NoActor
    <3> QED BY <3>1
  <2>2. <<>> \in Seq({"op", "shutdown"}) /\ <<>> \in Seq({"op"})
    OBVIOUS
  <2>3. new \in State(new.seq)
    BY <1>2, <2>2 DEF State
  <2> QED BY <2>1, <2>2, <2>3
<1> HIDE DEF new
<1>4. /\ pc \in [Task -> Place] /\ renewers \in [Actor -> Nat]
      /\ actors = [b \in Actor |-> actors[b]] /\ clock \in Nat
      /\ clock + Interval \in Nat /\ clock + Interval # 0
  BY DEF IInv, Shapes
<1>5. /\ actors'[a] = new /\ renewers'[a] # None
      /\ \A b \in Actor : b # a =>
            actors'[b] = actors[b] /\ renewers'[b] = renewers[b]
      /\ pc'[t] = "insert" /\ \A u \in Task \ {t} : pc'[u] = pc[u]
      /\ pc' \in [Task -> Place] /\ renewers' \in [Actor -> Nat]
      /\ actors' = [b \in Actor |-> actors'[b]]
  BY <1>1, <1>2, <1>4 DEF Place, Building
<1>6. Shapes'
  <2>1. \A b \in Actor : actors'[b] # NoActor => actors'[b] \in State(actors'[b].seq)
    BY <1>3, <1>5 DEF IInv, Shapes
  <2> QED BY <1>1, <1>5, <2>1 DEF IInv, Shapes
<1>7. /\ Builds(t, a) /\ ~InMap(a)
      /\ \A u \in Task : ~TearsDown(u, a) /\ (Builds(u, a) => u = t)
  BY <1>1, <1>2 DEF IInv, Handed, Builds, Building
<1>8. Fresh'
  <2>1. counter' + Cardinality(Waiting') <= deployed'.leases + 1
    BY <1>1, <1>5, BudgetKept DEF Waits
  <2>2. a < counter
    BY DEF IInv, Fresh
  <2> QED BY <1>1, <1>5, <2>1, <2>2 DEF IInv, Fresh
<1>9. Steady'
  <2>1. Fit(t)'
    BY <1>1, <1>2, <1>3, <1>5 DEF Fit, Works, Running, Building
  <2>2. ASSUME NEW u \in Task \ {t} PROVE Fit(u)'
    <3>1. \A b \in Actor : Builds(u, b) => actors'[b] = actors[b]
      BY <1>5, <1>7
    <3>2. \A b \in Actor : actors[b] # NoActor => actors'[b] = actors[b]
      BY <1>2, <1>5
    <3>3. \A b \in Actor : TearsDown(u, b) => renewers'[b] = renewers[b]
      BY <1>5, <1>7
    <3> QED BY <1>1, <1>5, <3>1, <3>2, <3>3, OthersFit
  <2> QED BY <2>1, <2>2 DEF Steady
<1>10. Mapped'
  BY <1>1, <1>5, <1>7, MapKept
<1>11. /\ \A u \in Task, b \in Actor : /\ TearsDown(u, b)' <=> TearsDown(u, b)
                                       /\ Builds(u, b)' <=> Builds(u, b)
       /\ \A b \in Actor : (InMap(b)' <=> InMap(b)) /\ (Held(b)' <=> Held(b))
       /\ \A u \in Task, d \in Canvas : \A token :
             HoldsLease(u, d, token)' <=> HoldsLease(u, d, token)
  BY <1>1, <1>5, HandsKept DEF Building
<1>12. Handed'
  BY <1>11 DEF IInv, Handed
<1>13. Answered'
  <2>1. Held(a)
    BY <1>7 DEF Held
  <2> QED BY <1>1, <1>3, <1>5, <1>11, <2>1 DEF IInv, Answered, Running
<1>14. LeaseHeld'
  BY <1>1, <1>11 DEF IInv, LeaseHeld
<1> QED BY <1>6, <1>8, <1>9, <1>10, <1>12, <1>13, <1>14 DEF IInv

(* An actor changes its mailbox or its flag and nothing else. *)
LEMMA SameActor ==
    ASSUME IInv, NEW a \in Actor, actors[a] # NoActor, NEW new,
           new \in State(new.seq), new.canvas = actors[a].canvas,
           new.instance = actors[a].instance,
           actors' = [actors EXCEPT ![a] = new]
    PROVE  /\ actors' = [b \in Actor |-> actors'[b]] /\ actors'[a] = new
           /\ new # NoActor
           /\ \A b \in Actor : b # a => actors'[b] = actors[b]
           /\ \A b \in Actor : actors'[b] # NoActor =>
                 actors[b] # NoActor /\ actors'[b] \in State(actors'[b].seq)
           /\ \A b \in Actor : actors[b] # NoActor =>
                 /\ actors'[b] # NoActor /\ actors'[b].canvas = actors[b].canvas
                 /\ actors'[b].instance = actors[b].instance
<1>1. actors = [b \in Actor |-> actors[b]]
  BY DEF IInv, Shapes
<1>2. new # NoActor
  <2>1. new.status # NoActor.status
    BY DEF State, NoActor
  <2> QED BY <2>1
<1>3. /\ actors'[a] = new /\ \A b \in Actor : b # a => actors'[b] = actors[b]
      /\ actors' = [b \in Actor |-> actors'[b]]
  BY <1>1
<1> QED BY <1>2, <1>3 DEF IInv, Shapes

(* The map takes the actor over from the task that has built it. *)
LEMMA OpenInsertIInv ==
    ASSUME IInv, NEW t \in Task, UNCHANGED deployed, OpenInsert(t)
    PROVE  IInv'
<1> DEFINE a == loc[t].actor
<1> DEFINE c == loc[t].canvas
<1> DEFINE i == InstanceOf(t)
<1> DEFINE new == [actors[a] EXCEPT !.open = TRUE]
<1>1. /\ pc[t] = "insert" /\ pc' = [pc EXCEPT ![t] = "opened"] /\ loc' = loc
      /\ inner[i][c] = None /\ inner' = [inner EXCEPT ![i][c] = a]
      /\ actors' = [actors EXCEPT ![a] = new]
      /\ UNCHANGED <<clock, leases, counter, renewers>>
  BY DEF OpenInsert, Goto, coordVars
<1>2. /\ a \in Actor /\ c \in Canvas /\ i \in Owner /\ loc[t].todo = <<>>
      /\ Works(a, i, c) /\ Running(a) /\ actors[a].inbox \in Seq({"op"})
  BY <1>1 DEF IInv, Steady, Fit, Building
<1>3. actors[a] # NoActor /\ actors[a] \in State(actors[a].seq)
  BY <1>2 DEF IInv, Shapes, Works
<1>4. /\ new \in State(new.seq) /\ new.open = TRUE
      /\ new.status = actors[a].status /\ new.canvas = actors[a].canvas
      /\ new.instance = actors[a].instance /\ new.inbox = actors[a].inbox
  BY <1>3 DEF State
<1> HIDE DEF new
<1>5. /\ actors' = [b \in Actor |-> actors'[b]] /\ actors'[a] = new
      /\ new # NoActor
      /\ \A b \in Actor : b # a => actors'[b] = actors[b]
      /\ \A b \in Actor : actors'[b] # NoActor =>
            actors[b] # NoActor /\ actors'[b] \in State(actors'[b].seq)
      /\ \A b \in Actor : actors[b] # NoActor =>
            /\ actors'[b] # NoActor /\ actors'[b].canvas = actors[b].canvas
            /\ actors'[b].instance = actors[b].instance
  BY <1>1, <1>2, <1>3, <1>4, SameActor
<1>6. /\ inner' \in [Owner -> [Canvas -> Actor \cup {None}]]
      /\ inner'[i][c] = a
      /\ \A j \in Owner, d \in Canvas :
            <<j, d>> # <<i, c>> => inner'[j][d] = inner[j][d]
  BY <1>1, <1>2 DEF IInv, Shapes
<1>7. /\ pc'[t] = "opened" /\ \A u \in Task \ {t} : pc'[u] = pc[u]
      /\ pc' \in [Task -> Place]
  BY <1>1 DEF IInv, Shapes, Place
<1>8. /\ Builds(t, a) /\ ~InMap(a)
      /\ \A u \in Task : ~TearsDown(u, a) /\ (Builds(u, a) => u = t)
  BY <1>1, <1>2 DEF IInv, Handed, Builds, Building
<1>9. Shapes'
  BY <1>1, <1>5, <1>6, <1>7 DEF IInv, Shapes
<1>10. Fresh'
  <2>1. counter' + Cardinality(Waiting') <= deployed'.leases + 1
    BY <1>1, <1>7, BudgetKept DEF Waits
  <2> QED BY <1>1, <1>5, <2>1 DEF IInv, Fresh
<1>11. Steady'
  <2>1. Fit(t)'
    BY <1>1, <1>2, <1>4, <1>5, <1>7 DEF Fit, Works, Building
  <2>2. ASSUME NEW u \in Task \ {t} PROVE Fit(u)'
    <3>1. \A b \in Actor : Builds(u, b) => actors'[b] = actors[b]
      BY <1>5, <1>8
    <3> QED BY <1>1, <1>5, <1>7, <3>1, OthersFit
  <2> QED BY <2>1, <2>2 DEF Steady
<1>12. Mapped'
  <2> SUFFICES ASSUME NEW j \in Owner, NEW d \in Canvas, inner'[j][d] # None
               PROVE  /\ Running(inner[j][d])' /\ Works(inner[j][d], j, d)'
                      /\ actors'[inner'[j][d]].inbox \in Seq({"op"})
    BY DEF Mapped
  <2>1. CASE <<j, d>> = <<i, c>>
    BY <1>2, <1>4, <1>5, <1>6, <2>1 DEF Running, Works
  <2>2. CASE <<j, d>> # <<i, c>>
    <3>1. /\ inner'[j][d] = inner[j][d] /\ inner[j][d] \in Actor
          /\ inner[j][d] # a
      BY <1>6, <1>8, <2>2 DEF IInv, Shapes, InMap
    <3>2. actors'[inner'[j][d]] = actors[inner[j][d]]
      BY <1>5, <3>1
    <3> QED BY <3>1, <3>2 DEF IInv, Mapped, Running, Works
  <2> QED BY <2>1, <2>2
<1>13. /\ \A u \in Task, b \in Actor : /\ TearsDown(u, b)' <=> TearsDown(u, b)
                                       /\ Builds(u, b)' <=> Builds(u, b) /\ u # t
       /\ \A b \in Actor : InMap(b)' <=> InMap(b) \/ b = a
  <2>1. \A u \in Task, b \in Actor : /\ TearsDown(u, b)' <=> TearsDown(u, b)
                                     /\ Builds(u, b)' <=> Builds(u, b) /\ u # t
    BY <1>1, <1>7 DEF TearsDown, Builds, Building
  <2>2. ASSUME NEW b \in Actor PROVE InMap(b)' <=> InMap(b) \/ b = a
    BY <1>1, <1>2, <1>6 DEF InMap
  <2> QED BY <2>1, <2>2
<1>14. Handed'
  BY <1>8, <1>13 DEF IInv, Handed
<1>15. \A b \in Actor : Held(b) => Held(b)'
  BY <1>8, <1>13 DEF Held, Builds
<1>16. Answered'
  <2>1. \A b \in Actor : b = a => Held(b)'
    BY <1>13 DEF Held
  <2>2. ASSUME NEW b \in Actor, b # a
        PROVE  /\ Running(b)' => Held(b)'
               /\ renewers'[b] # None =>
                     /\ actors'[b] # NoActor
                     /\ \/ Held(b)'
                        \/ \E u \in Task : /\ pc'[u] = "opened"
                                           /\ loc'[u].actor = b
                                           /\ ~actors'[b].open
    <3>1. actors'[b] = actors[b]
      BY <1>5, <2>2
    <3>2. \A u \in Task : pc[u] = "opened" => pc'[u] = "opened"
      BY <1>1, <1>7
    <3>3. Running(b)' <=> Running(b)
      BY <3>1 DEF Running
    <3>4. renewers'[b] = renewers[b] /\ loc' = loc
      BY <1>1
    <3> QED BY <1>15, <3>1, <3>2, <3>3, <3>4 DEF IInv, Answered
  <2>3. actors'[a] # NoActor
    BY <1>2, <1>5
  <2> QED BY <1>2, <2>1, <2>2, <2>3 DEF Answered
<1>17. LeaseHeld'
  <2> SUFFICES ASSUME ~deployed.crashes, NEW d \in Canvas, leases[d] # NoLease
               PROVE  \/ inner'[leases[d].token[1]][d] = leases[d].token[2]
                      \/ \E u \in Task : HoldsLease(u, d, leases[d].token)'
    BY <1>1 DEF LeaseHeld
  <2>1. /\ leases[d].token \in Token /\ leases[d].token[2] \in Actor
        /\ leases[d].token[1] \in Owner
    BY DEF IInv, Shapes, Fresh, LeaseEntry, Token
  <2>2. CASE inner[leases[d].token[1]][d] = leases[d].token[2]
    BY <1>1, <1>6, <2>1, <2>2
  <2>3. ASSUME NEW u \in Task, HoldsLease(u, d, leases[d].token)
        PROVE  \/ inner'[leases[d].token[1]][d] = leases[d].token[2]
               \/ HoldsLease(u, d, leases[d].token)'
    <3>1. CASE u = t
      BY <1>2, <1>6, <2>3, <3>1 DEF HoldsLease, Builds
    <3>2. CASE u # t
      BY <1>1, <1>7, <2>3, <3>2 DEF HoldsLease, Builds
    <3> QED BY <3>1, <3>2
  <2> QED BY <2>2, <2>3 DEF IInv, LeaseHeld
<1> QED BY <1>9, <1>10, <1>11, <1>12, <1>14, <1>16, <1>17 DEF IInv

(* The first entry of a teardown. *)
LEMMA FirstEntry ==
    ASSUME IInv, NEW t \in Task, loc[t].todo # <<>>
    PROVE  /\ Head(loc[t].todo)[1] \in Canvas /\ Head(loc[t].todo)[2] \in Actor
           /\ Head(loc[t].todo) = loc[t].todo[1] /\ 1 \in DOMAIN loc[t].todo
           /\ Head(loc[t].todo)
                 = <<Head(loc[t].todo)[1], Head(loc[t].todo)[2]>>
           /\ TearsDown(t, Head(loc[t].todo)[2])
           /\ Works(Head(loc[t].todo)[2], InstanceOf(t), Head(loc[t].todo)[1])
           /\ loc[t].todo \in Seq(Canvas \X Actor)
<1>1. loc[t].todo \in Seq(Canvas \X Actor)
  BY DEF IInv, Shapes, Local
<1>2. /\ Head(loc[t].todo) = loc[t].todo[1] /\ 1 \in DOMAIN loc[t].todo
      /\ loc[t].todo[1] \in Canvas \X Actor
  BY <1>1
<1> QED BY <1>1, <1>2 DEF TearsDown, IInv, Steady, Fit

(* The task that has an actor in hand queues its Shutdown: a raced-out opener,
   or a teardown that has just stopped the renew task.                     *)
LEMMA QueueShutdownIInv ==
    ASSUME IInv, NEW t \in Task, UNCHANGED deployed,
           OpenRacedOut(t) \/ TeardownStop(t)
    PROVE  IInv'
<1> DEFINE a == IF OpenRacedOut(t) THEN loc[t].actor ELSE Head(loc[t].todo)[2]
<1> DEFINE where == IF OpenRacedOut(t) THEN "raced" ELSE "stopping"
<1> DEFINE new == [actors[a] EXCEPT !.inbox = Append(@, "shutdown")]
<1>1. /\ pc' = [pc EXCEPT ![t] = where] /\ loc' = loc
      /\ actors' = [actors EXCEPT ![a] = new]
      /\ UNCHANGED <<clock, leases, counter, inner>>
      /\ where \in {"raced", "stopping"}
      /\ where = "raced" => /\ pc[t] = "insert" /\ a = loc[t].actor
                            /\ renewers' = renewers
      /\ where = "stopping" =>
            /\ pc[t] = "teardown" /\ loc[t].todo # <<>>
            /\ a = Head(loc[t].todo)[2]
            /\ renewers' = [renewers EXCEPT ![a] = None]
  <2>1. CASE OpenRacedOut(t)
    BY <2>1 DEF OpenRacedOut, Goto, coordVars, mapVars
  <2>2. CASE ~OpenRacedOut(t)
    BY <2>2 DEF TeardownStop, Goto, coordVars, mapVars
  <2> QED BY <2>1, <2>2
<1> HIDE DEF where, a
<1>2. /\ a \in Actor /\ actors[a] # NoActor /\ ~InMap(a)
      /\ \A u \in Task \ {t} : ~Builds(u, a)
      /\ Builds(t, a) \/ TearsDown(t, a)
  <2>1. CASE where = "raced"
    <3>1. a \in Actor /\ Builds(t, a) /\ Works(a, InstanceOf(t), loc[t].canvas)
      BY <1>1, <2>1 DEF IInv, Steady, Fit, Builds, Building
    <3> QED BY <3>1 DEF IInv, Handed, Works
  <2>2. CASE where = "stopping"
    <3>1. a \in Actor /\ TearsDown(t, a) /\ actors[a] # NoActor
      BY <1>1, <2>2, FirstEntry DEF Works
    <3> QED BY <3>1 DEF IInv, Handed
  <2> QED BY <1>1, <2>1, <2>2
<1>3. /\ new \in State(new.seq) /\ new.open = actors[a].open
      /\ new.status = actors[a].status /\ new.canvas = actors[a].canvas
      /\ new.instance = actors[a].instance
  <2>1. actors[a] \in State(actors[a].seq)
    BY <1>2 DEF IInv, Shapes
  <2>2. Append(actors[a].inbox, "shutdown") \in Seq({"op", "shutdown"})
    BY <2>1 DEF State
  <2> QED BY <2>1, <2>2 DEF State
<1> HIDE DEF new
<1>4. /\ actors' = [b \in Actor |-> actors'[b]] /\ actors'[a] = new
      /\ new # NoActor
      /\ \A b \in Actor : b # a => actors'[b] = actors[b]
      /\ \A b \in Actor : actors'[b] # NoActor =>
            actors[b] # NoActor /\ actors'[b] \in State(actors'[b].seq)
      /\ \A b \in Actor : actors[b] # NoActor =>
            /\ actors'[b] # NoActor /\ actors'[b].canvas = actors[b].canvas
            /\ actors'[b].instance = actors[b].instance
  BY <1>1, <1>2, <1>3, SameActor
<1>5. \A b \in Actor : /\ Running(b)' <=> Running(b)
                       /\ actors'[b] # NoActor => actors'[b].open = actors[b].open
  BY <1>2, <1>3, <1>4 DEF Running
<1>6. /\ renewers' \in [Actor -> Nat]
      /\ \A b \in Actor : renewers'[b] \in {renewers[b], None}
      /\ where = "stopping" => renewers'[a] = None
  BY <1>1, <1>2 DEF IInv, Shapes
<1>7. /\ pc'[t] = where /\ \A u \in Task \ {t} : pc'[u] = pc[u]
      /\ pc' \in [Task -> Place]
  BY <1>1 DEF IInv, Shapes, Place, Building
<1>8. Shapes'
  BY <1>1, <1>4, <1>6, <1>7 DEF IInv, Shapes
<1>9. Fresh'
  <2>1. counter' + Cardinality(Waiting') <= deployed'.leases + 1
    BY <1>1, <1>7, BudgetKept DEF Waits
  <2> QED BY <1>1, <1>4, <2>1 DEF IInv, Fresh
<1>10. Steady'
  <2>1. Fit(t)'
    <3>1. \A b \in Actor : \A i, c : Works(b, i, c) => Works(b, i, c)'
      BY <1>4 DEF Works
    <3>2. \A n \in DOMAIN loc[t].todo :
             Works(loc[t].todo[n][2], InstanceOf(t), loc[t].todo[n][1])'
      BY <1>1, <3>1 DEF IInv, Shapes, Local, Steady, Fit
    <3>3. CASE where = "raced"
      <4>1. /\ Works(a, InstanceOf(t), loc[t].canvas) /\ ~actors[a].open
            /\ loc[t].todo = <<>> /\ loc[t].canvas \in Canvas
        BY <1>1, <3>3 DEF IInv, Steady, Fit, Building
      <4> QED BY <1>1, <1>2, <1>4, <1>5, <1>7, <3>1, <3>3, <4>1 DEF Fit, Building
    <3>4. CASE where = "stopping"
      BY <1>1, <1>6, <1>7, <3>2, <3>4 DEF Fit, Building
    <3> QED BY <1>1, <3>3, <3>4
  <2>2. ASSUME NEW u \in Task \ {t} PROVE Fit(u)'
    <3>1. \A b \in Actor : Builds(u, b) => actors'[b] = actors[b]
      BY <1>2, <1>4
    <3> QED BY <1>1, <1>4, <1>6, <1>7, <3>1, OthersFit
  <2> QED BY <2>1, <2>2 DEF Steady
<1>11. Mapped'
  BY <1>1, <1>2, <1>4, MapKept
<1>12. /\ \A u \in Task, b \in Actor : /\ TearsDown(u, b)' <=> TearsDown(u, b)
                                       /\ Builds(u, b)' <=> Builds(u, b)
       /\ \A b \in Actor : (InMap(b)' <=> InMap(b)) /\ (Held(b)' <=> Held(b))
       /\ \A u \in Task, d \in Canvas : \A token :
             HoldsLease(u, d, token)' <=> HoldsLease(u, d, token)
  BY <1>1, <1>7, HandsKept DEF Building
<1>13. Handed'
  BY <1>12 DEF IInv, Handed
<1>14. Answered'
  <2>1. \A u \in Task : pc[u] = "opened" => pc'[u] = "opened"
    BY <1>1, <1>7
  <2>2. loc' = loc
    BY <1>1
  <2> QED BY <1>4, <1>5, <1>6, <1>12, <2>1, <2>2 DEF IInv, Answered
<1>15. LeaseHeld'
  BY <1>1, <1>12 DEF IInv, LeaseHeld
<1> QED BY <1>8, <1>9, <1>10, <1>11, <1>13, <1>14, <1>15 DEF IInv

(* get_or_spawn returns; a raced-out opener's renew task ends with it. *)
LEMMA OpenReturnIInv ==
    ASSUME IInv, NEW t \in Task, UNCHANGED deployed, OpenReturn(t)
    PROVE  IInv'
<1> DEFINE a == loc[t].actor
<1>1. /\ pc[t] = "opened" /\ pc' = [pc EXCEPT ![t] = "idle"]
      /\ loc' = [loc EXCEPT ![t] = NoLocals]
      /\ renewers' = IF actors[a].open THEN renewers
                     ELSE [renewers EXCEPT ![a] = None]
      /\ UNCHANGED <<clock, leases, counter, inner, actors>>
  BY DEF OpenReturn, Goto, coordVars
<1>2. a \in Actor /\ loc[t].todo = <<>>
  BY <1>1 DEF IInv, Steady, Fit
<1>3. /\ renewers' \in [Actor -> Nat]
      /\ \A b \in Actor : renewers'[b] \in {renewers[b], None}
      /\ ~actors[a].open => renewers'[a] = None
  BY <1>1, <1>2 DEF IInv, Shapes
<1>4. /\ pc'[t] = "idle" /\ loc'[t] = NoLocals
      /\ \A u \in Task \ {t} : pc'[u] = pc[u] /\ loc'[u] = loc[u]
      /\ pc' \in [Task -> Place] /\ loc' \in [Task -> Local]
  BY <1>1, LocalsOfIdle DEF IInv, Shapes, Place
<1>5. Shapes'
  BY <1>1, <1>3, <1>4 DEF IInv, Shapes
<1>6. Fresh'
  <2>1. counter' + Cardinality(Waiting') <= deployed'.leases + 1
    BY <1>1, <1>4, BudgetKept DEF Waits
  <2>2. \A u \in Task : loc'[u].actor < counter'
    BY <1>1, <1>4, LocalsOfIdle, Bounds DEF IInv, Fresh
  <2> QED BY <1>1, <2>1, <2>2 DEF IInv, Fresh
<1>7. Steady'
  <2>1. Fit(t)'
    BY <1>4, LocalsOfIdle DEF Fit, Building
  <2>2. ASSUME NEW u \in Task \ {t} PROVE Fit(u)'
    BY <1>1, <1>3, <1>4, OthersFit
  <2> QED BY <2>1, <2>2 DEF Steady
<1>8. Mapped'
  BY <1>1, MapKept
<1>9. /\ \A u \in Task, b \in Actor : /\ TearsDown(u, b)' <=> TearsDown(u, b)
                                      /\ Builds(u, b)' <=> Builds(u, b)
      /\ \A b \in Actor : InMap(b)' <=> InMap(b)
  BY <1>1, <1>2, <1>4, LocalsOfIdle DEF TearsDown, Builds, InMap, Building
<1>10. \A b \in Actor : Held(b)' <=> Held(b)
  BY <1>9 DEF Held
<1>11. Handed'
  BY <1>9 DEF IInv, Handed
<1>12. Answered'
  <2> SUFFICES ASSUME NEW b \in Actor
               PROVE  /\ Running(b)' => Held(b)'
                      /\ renewers'[b] # None =>
                            /\ actors'[b] # NoActor
                            /\ \/ Held(b)'
                               \/ \E u \in Task : /\ pc'[u] = "opened"
                                                  /\ loc'[u].actor = b
                                                  /\ ~actors'[b].open
    BY DEF Answered
  <2>1. Running(b)' => Held(b)'
    BY <1>1, <1>10 DEF IInv, Answered, Running
  <2>2. ASSUME renewers'[b] # None
        PROVE  /\ actors'[b] # NoActor
               /\ \/ Held(b)'
                  \/ \E u \in Task : /\ pc'[u] = "opened" /\ loc'[u].actor = b
                                     /\ ~actors'[b].open
    <3>1. /\ actors[b] # NoActor
          /\ \/ Held(b)
             \/ \E u \in Task : /\ pc[u] = "opened" /\ loc[u].actor = b
                                /\ ~actors[b].open
      BY <1>3, <2>2 DEF IInv, Answered
    <3>2. ASSUME NEW u \in Task, pc[u] = "opened", loc[u].actor = b,
                 ~actors[b].open
          PROVE  pc'[u] = "opened" /\ loc'[u].actor = b
      BY <1>3, <1>4, <2>2, <3>2
    <3> QED BY <1>1, <1>10, <3>1, <3>2
  <2> QED BY <2>1, <2>2
<1>13. LeaseHeld'
  <2>1. \A u \in Task, d \in Canvas : \A token :
           HoldsLease(u, d, token)' <=> HoldsLease(u, d, token)
    BY <1>1, <1>2, <1>4, LocalsOfIdle DEF HoldsLease, Builds, Building
  <2> QED BY <1>1, <2>1 DEF IInv, LeaseHeld
<1> QED BY <1>5, <1>6, <1>7, <1>8, <1>11, <1>12, <1>13 DEF IInv

(* A release takes at most the lease it names out of the table. *)
LEMMA ReleaseTakesOne ==
    ASSUME IInv, NEW i \in Owner, NEW c \in Canvas, NEW a \in Actor,
           ReleaseLease(i, c, a)
    PROVE  /\ leases' \in [Canvas -> LeaseEntry \cup {NoLease}]
           /\ \A d \in Canvas : leases'[d] # NoLease =>
                 leases'[d] = leases[d] /\ (d = c => leases[d].token # <<i, a>>)
<1>1. leases \in [Canvas -> LeaseEntry \cup {NoLease}]
  BY DEF IInv, Shapes
<1>2. leases[c] # NoLease => leases[c].owner = leases[c].token[1]
  BY DEF IInv, Fresh
<1>3. CASE Matches(leases[c], <<i, a>>)
  BY <1>1, <1>3 DEF ReleaseLease, LeaseToken
<1>4. CASE ~Matches(leases[c], <<i, a>>)
  BY <1>1, <1>2, <1>4 DEF ReleaseLease, LeaseToken, Matches
<1> QED BY <1>3, <1>4

(* A raced-out opener and a resolve give the lease of their own back. *)
LEMMA GiveBackIInv ==
    ASSUME IInv, NEW t \in Task, UNCHANGED deployed,
           OpenRacedRelease(t) \/ ResolveUnclaim(t)
    PROVE  IInv'
<1> DEFINE a == loc[t].actor
<1> DEFINE c == loc[t].canvas
<1> DEFINE i == InstanceOf(t)
<1>1. /\ ReleaseLease(i, c, a)
      /\ UNCHANGED <<clock, counter, inner, actors, renewers>>
      /\ \A u \in Task \ {t} : pc'[u] = pc[u] /\ loc'[u] = loc[u]
      /\ pc' \in [Task -> Place] /\ loc' \in [Task -> Local]
      /\ \/ pc[t] = "raced" /\ pc'[t] = "opened" /\ loc' = loc /\ ~Running(a)
         \/ pc[t] = "unclaim" /\ pc'[t] = "idle" /\ loc'[t] = NoLocals
  <2>1. CASE OpenRacedRelease(t)
    BY <2>1 DEF OpenRacedRelease, Goto, mapVars, actorVars, IInv, Shapes, Place
  <2>2. CASE ResolveUnclaim(t)
    BY <2>2, LocalsOfIdle
       DEF ResolveUnclaim, Goto, actorVars, IInv, Shapes, Place
  <2> QED BY <2>1, <2>2
<1>2. a \in Actor /\ c \in Canvas /\ i \in Owner /\ loc[t].todo = <<>>
  BY <1>1 DEF IInv, Steady, Fit, Building
<1>3. /\ Builds(t, a) /\ ~InMap(a)
      /\ \A u \in Task : ~TearsDown(u, a) /\ (Builds(u, a) => u = t)
  BY <1>1, <1>2 DEF IInv, Handed, Builds, Building
<1>4. /\ leases' \in [Canvas -> LeaseEntry \cup {NoLease}]
      /\ \A d \in Canvas : leases'[d] # NoLease =>
            leases'[d] = leases[d] /\ (d = c => leases[d].token # <<i, a>>)
  BY <1>1, <1>2, ReleaseTakesOne
<1>5. Shapes'
  BY <1>1, <1>4 DEF IInv, Shapes
<1>6. Fresh'
  <2>1. counter' + Cardinality(Waiting') <= deployed'.leases + 1
    BY <1>1, BudgetKept DEF Waits
  <2>2. \A u \in Task : loc'[u].actor < counter'
    BY <1>1, LocalsOfIdle, Bounds DEF IInv, Fresh
  <2> QED BY <1>1, <1>4, <2>1, <2>2 DEF IInv, Fresh
<1>7. Steady'
  <2>1. Fit(t)'
    <3>1. CASE pc[t] = "raced"
      BY <1>1, <1>2, <3>1 DEF IInv, Steady, Fit, Works, Building
    <3>2. CASE pc[t] = "unclaim"
      BY <1>1, <3>2, LocalsOfIdle DEF Fit, Building
    <3> QED BY <1>1, <3>1, <3>2
  <2>2. ASSUME NEW u \in Task \ {t} PROVE Fit(u)'
    BY <1>1, OthersFit
  <2> QED BY <2>1, <2>2 DEF Steady
<1>8. Mapped'
  BY <1>1, MapKept
<1>9. /\ \A u \in Task, b \in Actor :
            /\ TearsDown(u, b)' <=> TearsDown(u, b)
            /\ Builds(u, b)' <=> Builds(u, b) /\ u # t
      /\ \A b \in Actor : InMap(b)' <=> InMap(b)
  BY <1>1, <1>2, LocalsOfIdle DEF TearsDown, Builds, InMap, Building
<1>10. \A b \in Actor : b # a /\ Held(b) => Held(b)'
  BY <1>9 DEF Held, Builds
<1>11. Handed'
  BY <1>9 DEF IInv, Handed
<1>12. Answered'
  <2> SUFFICES ASSUME NEW b \in Actor
               PROVE  /\ Running(b)' => Held(b)'
                      /\ renewers'[b] # None =>
                            /\ actors'[b] # NoActor
                            /\ \/ Held(b)'
                               \/ \E u \in Task : /\ pc'[u] = "opened"
                                                  /\ loc'[u].actor = b
                                                  /\ ~actors'[b].open
    BY DEF Answered
  <2>1. Running(b)' <=> Running(b)
    BY <1>1 DEF Running
  <2>2. \A u \in Task : pc[u] = "opened" =>
           pc'[u] = "opened" /\ loc'[u].actor = loc[u].actor
    BY <1>1
  <2>3. CASE b # a
    BY <1>1, <1>10, <2>1, <2>2, <2>3 DEF IInv, Answered
  <2>4. CASE b = a /\ pc[t] = "raced"
    <3>1. actors[a] # NoActor /\ ~actors[a].open /\ ~Running(a)
      BY <1>1, <2>4 DEF IInv, Steady, Fit, Works
    <3>2. pc'[t] = "opened" /\ loc'[t].actor = b /\ ~actors'[b].open
      BY <1>1, <2>4, <3>1
    <3> QED BY <1>1, <2>1, <2>4, <3>1, <3>2
  <2>5. CASE b = a /\ pc[t] = "unclaim"
    <3>1. actors[b] = NoActor
      BY <2>5 DEF IInv, Steady, Fit
    <3> QED BY <1>1, <2>1, <3>1 DEF IInv, Answered, Running
  <2> QED BY <1>1, <2>3, <2>4, <2>5
<1>13. LeaseHeld'
  <2> SUFFICES ASSUME ~deployed.crashes, NEW d \in Canvas, leases'[d] # NoLease
               PROVE  \/ inner[leases[d].token[1]][d] = leases[d].token[2]
                      \/ \E u \in Task : HoldsLease(u, d, leases[d].token)'
    BY <1>1, <1>4 DEF LeaseHeld
  <2>1. /\ leases[d] # NoLease /\ leases'[d] = leases[d] /\ leases[d].token \in Token
        /\ d = c => leases[d].token # <<i, a>>
    BY <1>4 DEF LeaseEntry
  <2>2. ~HoldsLease(t, d, leases[d].token)
    BY <1>2, <2>1 DEF HoldsLease, Builds, Token
  <2>3. \A u \in Task \ {t} : \A token :
           HoldsLease(u, d, token)' <=> HoldsLease(u, d, token)
    BY <1>1 DEF HoldsLease, Builds
  <2> QED BY <2>1, <2>2, <2>3 DEF IInv, LeaseHeld
<1> QED BY <1>5, <1>6, <1>7, <1>8, <1>11, <1>12, <1>13 DEF IInv

(* The entries that are left of a teardown. *)
LEMMA TailEntries ==
    ASSUME NEW S, NEW s \in Seq(S), s # <<>>
    PROVE  /\ Tail(s) \in Seq(S)
           /\ \A n \in DOMAIN Tail(s) : n + 1 \in DOMAIN s /\ Tail(s)[n] = s[n + 1]
           /\ \A n \in DOMAIN s : s[n] = Head(s) \/ \E m \in DOMAIN Tail(s) :
                                                       Tail(s)[m] = s[n]
<1>1. /\ Tail(s) \in Seq(S) /\ Len(s) \in Nat /\ Len(s) > 0
      /\ DOMAIN s = 1..Len(s) /\ Head(s) = s[1]
      /\ DOMAIN Tail(s) = 1..(Len(s) - 1)
      /\ \A m \in 1..(Len(s) - 1) : Tail(s)[m] = s[m + 1]
  OBVIOUS
<1>2. ASSUME NEW n \in DOMAIN s, n # 1
      PROVE  \E m \in DOMAIN Tail(s) : Tail(s)[m] = s[n]
  <2>1. n - 1 \in DOMAIN Tail(s) /\ (n - 1) + 1 = n
    BY <1>1, <1>2
  <2> QED BY <1>1, <2>1
<1> QED BY <1>1, <1>2

(* A teardown whose actor has stopped releases the lease and goes on. *)
LEMMA TeardownReleaseIInv ==
    ASSUME IInv, NEW t \in Task, UNCHANGED deployed, TeardownRelease(t)
    PROVE  IInv'
<1> DEFINE todo == loc[t].todo
<1> DEFINE c == Head(todo)[1]
<1> DEFINE a == Head(todo)[2]
<1> DEFINE i == InstanceOf(t)
<1> DEFINE l == [loc[t] EXCEPT !.todo = Tail(@)]
<1>1. /\ ReleaseLease(i, c, a) /\ ~Running(a) /\ pc[t] = "stopping"
      /\ pc' = [pc EXCEPT ![t] = "teardown"] /\ loc' = [loc EXCEPT ![t] = l]
      /\ UNCHANGED <<clock, counter, inner, actors, renewers>>
  BY DEF TeardownRelease, Goto, actorVars
<1>2. /\ todo \in Seq(Canvas \X Actor) /\ todo # <<>> /\ renewers[a] = None
      /\ loc[t] \in Local /\ loc \in [Task -> Local] /\ pc \in [Task -> Place]
  BY <1>1 DEF IInv, Shapes, Steady, Fit, Local
<1>3. c \in Canvas /\ a \in Actor /\ i \in Owner /\ Head(todo) = <<c, a>>
  BY <1>2, FirstEntry
<1>4. /\ Tail(todo) \in Seq(Canvas \X Actor)
      /\ \A n \in DOMAIN Tail(todo) :
            n + 1 \in DOMAIN todo /\ Tail(todo)[n] = todo[n + 1]
      /\ \A n \in DOMAIN todo : todo[n] = Head(todo) \/
            \E m \in DOMAIN Tail(todo) : Tail(todo)[m] = todo[n]
  BY <1>2, TailEntries
<1>5. l \in Local /\ l.todo = Tail(todo) /\ l.actor = loc[t].actor
  BY <1>2, <1>4 DEF Local
<1> HIDE DEF l
<1>6. /\ pc'[t] = "teardown" /\ loc'[t] = l
      /\ \A u \in Task \ {t} : pc'[u] = pc[u] /\ loc'[u] = loc[u]
      /\ pc' \in [Task -> Place] /\ loc' \in [Task -> Local]
  BY <1>1, <1>2, <1>5 DEF Place
<1>7. /\ leases' \in [Canvas -> LeaseEntry \cup {NoLease}]
      /\ \A d \in Canvas : leases'[d] # NoLease =>
            leases'[d] = leases[d] /\ (d = c => leases[d].token # <<i, a>>)
  BY <1>1, <1>3, ReleaseTakesOne
<1>8. Shapes'
  BY <1>1, <1>6, <1>7 DEF IInv, Shapes
<1>9. Fresh'
  <2>1. counter' + Cardinality(Waiting') <= deployed'.leases + 1
    BY <1>1, <1>6, BudgetKept DEF Waits
  <2>2. \A u \in Task : loc'[u].actor < counter'
    BY <1>1, <1>5, <1>6 DEF IInv, Fresh
  <2> QED BY <1>1, <1>7, <2>1, <2>2 DEF IInv, Fresh
<1>10. Steady'
  <2>1. Fit(t)'
    <3>1. ASSUME NEW n \in DOMAIN Tail(todo)
          PROVE  Works(Tail(todo)[n][2], i, Tail(todo)[n][1])
      BY <1>4 DEF IInv, Steady, Fit
    <3>2. \A n \in DOMAIN Tail(todo) :
             /\ actors'[Tail(todo)[n][2]] # NoActor
             /\ actors'[Tail(todo)[n][2]].canvas = Tail(todo)[n][1]
             /\ actors'[Tail(todo)[n][2]].instance = i
      BY <1>1, <3>1 DEF Works
    <3> QED BY <1>5, <1>6, <3>2 DEF Fit, Works, Building
  <2>2. ASSUME NEW u \in Task \ {t} PROVE Fit(u)'
    BY <1>1, <1>6, OthersFit
  <2> QED BY <2>1, <2>2 DEF Steady
<1>11. Mapped'
  BY <1>1, MapKept
<1>12. /\ \A u \in Task, b \in Actor :
             /\ TearsDown(u, b)' => TearsDown(u, b)
             /\ TearsDown(u, b) /\ b # a => TearsDown(u, b)'
             /\ Builds(u, b)' <=> Builds(u, b)
       /\ \A b \in Actor : InMap(b)' <=> InMap(b)
  <2>1. \A b \in Actor : /\ TearsDown(t, b)' => TearsDown(t, b)
                         /\ TearsDown(t, b) /\ b # a => TearsDown(t, b)'
    <3> TAKE b \in Actor
    <3>1. TearsDown(t, b)' <=> \E n \in DOMAIN Tail(todo) : Tail(todo)[n][2] = b
      BY <1>5, <1>6 DEF TearsDown
    <3>2. TearsDown(t, b) <=> \E n \in DOMAIN todo : todo[n][2] = b
      BY DEF TearsDown
    <3> HIDE DEF todo
    <3> QED BY <1>4, <3>1, <3>2
  <2>2. \A u \in Task \ {t}, b \in Actor : TearsDown(u, b)' <=> TearsDown(u, b)
    BY <1>6 DEF TearsDown
  <2>3. \A u \in Task, b \in Actor : Builds(u, b)' <=> Builds(u, b)
    BY <1>1, <1>6 DEF Builds, Building
  <2>4. \A b \in Actor : InMap(b)' <=> InMap(b)
    BY <1>1 DEF InMap
  <2> QED BY <2>1, <2>2, <2>3, <2>4
<1>13. \A b \in Actor : b # a /\ Held(b) => Held(b)'
  BY <1>12 DEF Held
<1>14. Handed'
  BY <1>12 DEF IInv, Handed
<1>15. Answered'
  <2>1. \A b \in Actor : Running(b)' <=> Running(b)
    BY <1>1 DEF Running
  <2>2. \A u \in Task : pc[u] = "opened" =>
           pc'[u] = "opened" /\ loc'[u].actor = loc[u].actor
    BY <1>1, <1>6
  <2>3. ASSUME NEW b \in Actor, b # a
        PROVE  /\ Running(b)' => Held(b)'
               /\ renewers'[b] # None =>
                     /\ actors'[b] # NoActor
                     /\ \/ Held(b)'
                        \/ \E u \in Task : /\ pc'[u] = "opened"
                                           /\ loc'[u].actor = b
                                           /\ ~actors'[b].open
    BY <1>1, <1>13, <2>1, <2>2, <2>3 DEF IInv, Answered
  <2>4. ~Running(a) /\ renewers'[a] = None
    BY <1>1, <1>2
  <2> QED BY <1>3, <2>1, <2>3, <2>4 DEF Answered
<1>16. LeaseHeld'
  <2> SUFFICES ASSUME ~deployed.crashes, NEW d \in Canvas, leases'[d] # NoLease
               PROVE  \/ inner[leases[d].token[1]][d] = leases[d].token[2]
                      \/ \E u \in Task : HoldsLease(u, d, leases[d].token)'
    BY <1>1, <1>7 DEF LeaseHeld
  <2>1. /\ leases[d] # NoLease /\ leases'[d] = leases[d]
        /\ leases[d].token \in Token
        /\ d = c => leases[d].token # <<i, a>>
    BY <1>7 DEF LeaseEntry
  <2>2. ASSUME NEW token \in Token, d = c => token # <<i, a>>,
               HoldsLease(t, d, token)
        PROVE  HoldsLease(t, d, token)'
    <3>1. ~Builds(t, token[2]) /\ token = <<token[1], token[2]>>
      BY <1>1, <2>2 DEF Builds, Building, Token
    <3>2. PICK n \in DOMAIN todo : todo[n] = <<d, token[2]>>
      BY <2>2, <3>1 DEF HoldsLease
    <3>3. todo[n] # Head(todo)
      BY <1>3, <2>2, <3>1, <3>2 DEF HoldsLease
    <3>4. \E m \in DOMAIN Tail(todo) : Tail(todo)[m] = <<d, token[2]>>
      BY <1>4, <3>2, <3>3
    <3> QED BY <1>5, <1>6, <2>2, <3>4 DEF HoldsLease
  <2>3. \A u \in Task \ {t} : \A token :
           HoldsLease(u, d, token) => HoldsLease(u, d, token)'
    BY <1>6 DEF HoldsLease, Builds
  <2> QED BY <2>1, <2>2, <2>3 DEF IInv, LeaseHeld
<1> QED BY <1>8, <1>9, <1>10, <1>11, <1>14, <1>15, <1>16 DEF IInv

(* s lists the members of S. *)
Lists(s, S) == s \in Seq(S) /\ \A x \in S : \E n \in DOMAIN s : s[n] = x

(* SetToSeqs and SetToSeq list a finite set. *)
LEMMA Listing ==
    ASSUME NEW S, IsFiniteSet(S), NEW s, s \in SetToSeqs(S) \/ s = SetToSeq(S)
    PROVE  Lists(s, S)
<1> DEFINE N == Cardinality(S)
<1>1. N \in Nat /\ ExistsBijection(1..N, S)
  BY FS_CardinalityType
<1>2. s \in [1..N -> S] /\ \A m, n \in 1..N : m # n => s[m] # s[n]
  <2>1. CASE s \in SetToSeqs(S)
    BY <2>1 DEF SetToSeqs
  <2>2. CASE s = SetToSeq(S)
    <3>1. PICK f \in Bijection(1..N, S) : TRUE
      BY <1>1 DEF ExistsBijection
    <3>2. f \in [1..N -> S] /\ IsInjective(f)
      BY <3>1 DEF Bijection, Injection, IsInjective
    <3>3. s \in [1..N -> S] /\ IsInjective(s)
      BY <2>2, <3>2 DEF SetToSeq
    <3> QED BY <3>3 DEF IsInjective
  <2> QED BY <2>1, <2>2
<1>3. s \in Injection(1..N, S)
  BY <1>2 DEF Injection, IsInjective
<1>4. s \in Surjection(1..N, S)
  <2>1. Cardinality(1..N) = N
    BY <1>1, FS_Interval
  <2> QED BY <1>3, <2>1, FS_Injection
<1>5. \A x \in S : \E n \in DOMAIN s : s[n] = x
  BY <1>2, <1>4 DEF Surjection
<1>6. s \in Seq(S)
  BY <1>1, <1>2
<1> QED BY <1>5, <1>6 DEF Lists

(* A sequence over a set is one over a larger set. *)
LEMMA SeqOfMore ==
    ASSUME NEW S, NEW T, S \subseteq T, NEW s \in Seq(S)
    PROVE  s \in Seq(T)
OBVIOUS

(* The map of an instance has finitely many entries. *)
LEMMA EntriesFinite ==
    ASSUME NEW i, NEW cs \in SUBSET Canvas
    PROVE  IsFiniteSet(Entries(i, cs))
<1> DEFINE live == {d \in cs : inner[i][d] # None}
<1> DEFINE entry == [c \in live |-> <<c, inner[i][c]>>]
<1>1. IsFiniteSet(live)
  BY FS_Subset
<1>2. entry \in Surjection(live, Entries(i, cs))
  BY DEF Entries, Surjection
<1> QED BY <1>1, <1>2, FS_Surjection

(* A task takes the entries of some canvases out of its instance's map, to
   tear them down.                                                         *)
LEMMA TakesOutIInv ==
    ASSUME IInv, NEW t \in Task, NEW cs \in SUBSET Canvas, NEW l \in Local,
           NEW order, l.todo = order, l.actor < counter,
           UNCHANGED <<clock, leases, counter, actors, renewers, deployed>>,
           pc[t] \in {"idle", "drain"},
           pc' = [pc EXCEPT ![t] = "teardown"], loc' = [loc EXCEPT ![t] = l],
           inner' \in [Owner -> [Canvas -> Actor \cup {None}]],
           \A j \in Owner, d \in Canvas :
               inner'[j][d] = IF j = InstanceOf(t) /\ d \in cs THEN None
                              ELSE inner[j][d],
           Lists(order, Entries(InstanceOf(t), cs))
    PROVE  IInv'
<1> DEFINE i == InstanceOf(t)
<1> DEFINE E == Entries(i, cs)
<1>1. order \in Seq(E) /\ \A x \in E : \E n \in DOMAIN order : order[n] = x
  BY DEF Lists
<1>2. i \in Owner /\ inner \in [Owner -> [Canvas -> Actor \cup {None}]]
  BY DEF IInv, Shapes
<1>3. /\ \A x \in E : /\ x[1] \in cs /\ x[2] \in Actor /\ x[2] = inner[i][x[1]]
                      /\ x = <<x[1], x[2]>>
      /\ \A d \in cs : inner[i][d] # None => <<d, inner[i][d]>> \in E
  BY <1>2 DEF Entries
<1> HIDE DEF E
<1>4. /\ \A n \in DOMAIN order : order[n] \in E
      /\ \A d \in cs : inner[i][d] # None =>
            \E n \in DOMAIN order : order[n] = <<d, inner[i][d]>>
  <2>1. \A n \in DOMAIN order : order[n] \in E
    BY <1>1
  <2> QED BY <1>1, <1>3, <2>1
<1>5. /\ pc'[t] = "teardown" /\ loc'[t] = l
      /\ \A u \in Task \ {t} : pc'[u] = pc[u] /\ loc'[u] = loc[u]
      /\ pc' \in [Task -> Place] /\ loc' \in [Task -> Local]
      /\ loc[t].todo = <<>>
  BY DEF IInv, Shapes, Place, Steady, Fit
<1>6. Shapes'
  BY <1>5 DEF IInv, Shapes
<1>7. Fresh'
  <2>1. counter' + Cardinality(Waiting') <= deployed'.leases + 1
    BY <1>5, BudgetKept DEF Waits
  <2>2. \A u \in Task : loc'[u].actor < counter'
    BY <1>5 DEF IInv, Fresh
  <2> QED BY <2>1, <2>2 DEF IInv, Fresh
<1>8. \A j \in Owner, d \in Canvas : inner[j][d] # None =>
         Running(inner[j][d]) /\ Works(inner[j][d], j, d)
  BY DEF IInv, Mapped
<1>9. Steady'
  <2>1. Fit(t)'
    <3>1. \A n \in DOMAIN order : Works(order[n][2], i, order[n][1])
      BY <1>2, <1>3, <1>4, <1>8
    <3>2. \A n \in DOMAIN order :
             /\ actors'[order[n][2]] # NoActor
             /\ actors'[order[n][2]].canvas = order[n][1]
             /\ actors'[order[n][2]].instance = i
      BY <3>1 DEF Works
    <3> QED BY <1>5, <3>2 DEF Fit, Works, Building
  <2>2. ASSUME NEW u \in Task \ {t} PROVE Fit(u)'
    BY <1>5, OthersFit
  <2> QED BY <2>1, <2>2 DEF Steady
<1>10. Mapped'
  BY DEF IInv, Mapped, Running, Works
<1>11. \A b \in Actor : InMap(b)' => InMap(b)
  BY DEF InMap
<1>12. /\ \A u \in Task, b \in Actor : Builds(u, b)' <=> Builds(u, b)
       /\ \A u \in Task \ {t}, b \in Actor : TearsDown(u, b)' <=> TearsDown(u, b)
       /\ \A b \in Actor : ~TearsDown(t, b)
       /\ \A b \in Actor : TearsDown(t, b)' <=> \E d \in cs : inner[i][d] = b
  <2>1. \A u \in Task, b \in Actor : Builds(u, b)' <=> Builds(u, b)
    BY <1>5 DEF Builds, Building
  <2>2. \A u \in Task \ {t}, b \in Actor : TearsDown(u, b)' <=> TearsDown(u, b)
    BY <1>5 DEF TearsDown
  <2>3. \A b \in Actor : ~TearsDown(t, b)
    BY <1>5 DEF TearsDown
  <2>4. ASSUME NEW b \in Actor
        PROVE  TearsDown(t, b)' <=> \E d \in cs : inner[i][d] = b
    <3>1. TearsDown(t, b)' <=> \E n \in DOMAIN order : order[n][2] = b
      BY <1>5 DEF TearsDown
    <3> QED BY <1>3, <1>4, <3>1
  <2> QED BY <2>1, <2>2, <2>3, <2>4
<1>13. \A b \in Actor : TearsDown(t, b)' => InMap(b) /\ ~InMap(b)'
  <2> SUFFICES ASSUME NEW b \in Actor, NEW d \in cs, inner[i][d] = b
               PROVE  InMap(b) /\ ~InMap(b)'
    BY <1>12
  <2>1. ASSUME NEW j \in Owner, NEW e \in Canvas, inner'[j][e] = b
        PROVE  FALSE
    <3>1. inner[j][e] = b /\ ~(j = i /\ e \in cs)
      BY <2>1
    <3>2. Works(b, j, e) /\ Works(b, i, d)
      BY <1>2, <1>8, <3>1
    <3> QED BY <3>1, <3>2 DEF Works
  <2> QED BY <1>2, <2>1 DEF InMap
<1>14. Handed'
  BY <1>11, <1>12, <1>13 DEF IInv, Handed
<1>15. \A b \in Actor : Held(b) => Held(b)'
  <2>1. \A b \in Actor : InMap(b) => InMap(b)' \/ TearsDown(t, b)'
    BY <1>12 DEF InMap
  <2> QED BY <1>12, <2>1 DEF Held
<1>16. Answered'
  <2>1. \A b \in Actor : Running(b)' <=> Running(b)
    BY DEF Running
  <2>2. \A u \in Task : pc[u] = "opened" =>
           pc'[u] = "opened" /\ loc'[u].actor = loc[u].actor
    BY <1>5
  <2> QED BY <1>15, <2>1, <2>2 DEF IInv, Answered
<1>17. LeaseHeld'
  <2> SUFFICES ASSUME ~deployed.crashes, NEW d \in Canvas, leases[d] # NoLease
               PROVE  \/ inner'[leases[d].token[1]][d] = leases[d].token[2]
                      \/ \E u \in Task : HoldsLease(u, d, leases[d].token)'
    BY DEF LeaseHeld
  <2>1. leases[d].token[1] \in Owner /\ leases[d].token[2] \in Actor
    BY DEF IInv, Shapes, Fresh, LeaseEntry, Token
  <2>2. ASSUME inner[leases[d].token[1]][d] = leases[d].token[2]
        PROVE  \/ inner'[leases[d].token[1]][d] = leases[d].token[2]
               \/ HoldsLease(t, d, leases[d].token)'
    <3>1. CASE leases[d].token[1] = i /\ d \in cs
      <4>1. \E n \in DOMAIN order : order[n] = <<d, leases[d].token[2]>>
        <5>1. inner[i][d] = leases[d].token[2] /\ inner[i][d] # None
          BY <2>1, <2>2, <3>1
        <5> QED BY <1>4, <3>1, <5>1
      <4> QED BY <1>5, <3>1, <4>1 DEF HoldsLease
    <3>2. CASE ~(leases[d].token[1] = i /\ d \in cs)
      BY <2>1, <2>2, <3>2
    <3> QED BY <3>1, <3>2
  <2>3. \A u \in Task : \A token :
           HoldsLease(u, d, token) => u # t /\ HoldsLease(u, d, token)'
    <3>1. \A token : ~HoldsLease(t, d, token)
      BY <1>5 DEF HoldsLease, Builds, Building
    <3>2. \A u \in Task \ {t} : \A token :
             HoldsLease(u, d, token) => HoldsLease(u, d, token)'
      BY <1>5 DEF HoldsLease, Builds
    <3> QED BY <3>1, <3>2
  <2> QED BY <2>2, <2>3 DEF IInv, LeaseHeld
<1> QED BY <1>6, <1>7, <1>9, <1>10, <1>14, <1>16, <1>17 DEF IInv

(* evict, evict_idle and the second step of shutdown. *)
LEMMA TakeOutIInv ==
    ASSUME IInv, NEW t \in Task, UNCHANGED deployed,
           (\E cs \in SUBSET Canvas : EvictBegin(t, cs)) \/ ShutdownDrain(t)
    PROVE  IInv'
<1> DEFINE i == InstanceOf(t)
<1>1. PICK cs \in SUBSET Canvas : TakeOut(t, cs) /\ pc[t] \in {"idle", "drain"}
  BY DEF EvictBegin, ShutdownDrain
<1>2. UNCHANGED <<clock, leases, counter, actors, renewers>>
  BY DEF EvictBegin, ShutdownDrain, coordVars, actorVars
<1>3. /\ i \in Owner /\ inner \in [Owner -> [Canvas -> Actor \cup {None}]]
      /\ loc \in [Task -> Local] /\ loc[t] \in Local /\ loc[t].actor < counter
  BY DEF IInv, Shapes, Fresh
<1>4. PICK order \in SetToSeqs(Entries(i, cs)) :
         loc' = [loc EXCEPT ![t].todo = order]
  BY <1>1 DEF TakeOut
<1> DEFINE l == [loc[t] EXCEPT !.todo = order]
<1>5. Lists(order, Entries(i, cs)) /\ order \in Seq(Canvas \X Actor)
  <2>1. Lists(order, Entries(i, cs)) /\ order \in Seq(Entries(i, cs))
    <3>1. IsFiniteSet(Entries(i, cs))
      BY EntriesFinite
    <3>2. Lists(order, Entries(i, cs))
      BY <1>4, <3>1, Listing
    <3> QED BY <3>2 DEF Lists
  <2>2. Entries(i, cs) \subseteq Canvas \X Actor
    BY <1>3 DEF Entries
  <2> QED BY <2>1, <2>2, SeqOfMore
<1>6. l \in Local /\ l.todo = order /\ l.actor = loc[t].actor
  BY <1>3, <1>5 DEF Local
<1>7. loc' = [loc EXCEPT ![t] = l] /\ pc' = [pc EXCEPT ![t] = "teardown"]
  BY <1>1, <1>4 DEF TakeOut, Goto
<1> HIDE DEF l
<1>8. inner' = [inner EXCEPT ![i] = [c \in Canvas |->
                   IF c \in cs THEN None ELSE inner[i][c]]]
  BY <1>1, <1>3 DEF TakeOut
<1>9. /\ inner' \in [Owner -> [Canvas -> Actor \cup {None}]]
      /\ \A j \in Owner, d \in Canvas :
            inner'[j][d] = IF j = i /\ d \in cs THEN None ELSE inner[j][d]
  BY <1>3, <1>8
<1>10. l.todo = order /\ l.actor < counter
  BY <1>3, <1>6
<1> QED BY <1>1, <1>2, <1>5, <1>6, <1>7, <1>9, <1>10, TakesOutIInv

(* delete_canvas evicts the canvas first. *)
LEMMA DeleteBeginIInv ==
    ASSUME IInv, NEW t \in Task, NEW c \in Canvas, UNCHANGED deployed,
           DeleteBegin(t, c)
    PROVE  IInv'
<1> DEFINE i == InstanceOf(t)
<1>1. PICK cs \in SUBSET Canvas : cs = {c}
  OBVIOUS
<1>2. PICK order : order = SetToSeq(Entries(i, cs))
  OBVIOUS
<1> DEFINE l == [NoLocals EXCEPT !.canvas = c, !.delete = TRUE, !.todo = order]
<1>3. /\ pc[t] \in {"idle", "drain"} /\ pc' = [pc EXCEPT ![t] = "teardown"]
      /\ loc' = [loc EXCEPT ![t] = l]
      /\ inner' = [inner EXCEPT ![i][c] = None]
      /\ UNCHANGED <<clock, leases, counter, actors, renewers>>
  BY <1>1, <1>2 DEF DeleteBegin, Goto, coordVars, actorVars
<1>4. /\ i \in Owner /\ inner \in [Owner -> [Canvas -> Actor \cup {None}]]
      /\ 0 < counter
  BY Bounds DEF IInv, Shapes
<1>5. Lists(order, Entries(i, cs)) /\ order \in Seq(Canvas \X Actor)
  <2>1. Lists(order, Entries(i, cs)) /\ order \in Seq(Entries(i, cs))
    <3>1. IsFiniteSet(Entries(i, cs))
      BY EntriesFinite
    <3>2. Lists(order, Entries(i, cs))
      BY <1>2, <3>1, Listing
    <3> QED BY <3>2 DEF Lists
  <2>2. Entries(i, cs) \subseteq Canvas \X Actor
    BY <1>4 DEF Entries
  <2> QED BY <2>1, <2>2, SeqOfMore
<1>6. l \in Local /\ l.todo = order /\ l.actor < counter
  BY <1>4, <1>5, LocalsOfIdle DEF Local
<1> HIDE DEF l
<1>7. /\ inner' \in [Owner -> [Canvas -> Actor \cup {None}]]
      /\ \A j \in Owner, d \in Canvas :
            inner'[j][d] = IF j = i /\ d \in cs THEN None ELSE inner[j][d]
  BY <1>1, <1>3, <1>4
<1>8. UNCHANGED <<clock, leases, counter, actors, renewers, deployed>>
  BY <1>3
<1>9. /\ pc[t] \in {"idle", "drain"} /\ pc' = [pc EXCEPT ![t] = "teardown"]
      /\ loc' = [loc EXCEPT ![t] = l]
  BY <1>3
<1> QED BY <1>5, <1>6, <1>7, <1>8, <1>9, TakesOutIInv, ZenonT(60)

(* An actor takes a message or gets one.  While no Shutdown is queued it goes
   on running, and none gets queued.                                       *)
LEMMA ActorChangesIInv ==
    ASSUME IInv, NEW a \in Actor, Running(a), NEW new,
           UNCHANGED <<clock, leases, counter, inner, renewers, pc, loc, deployed>>,
           actors' = [actors EXCEPT ![a] = new],
           new \in State(new.seq), new.canvas = actors[a].canvas,
           new.instance = actors[a].instance, new.open = actors[a].open,
           actors[a].inbox \in Seq({"op"}) =>
               new.status = "running" /\ new.inbox \in Seq({"op"})
    PROVE  IInv'
<1>1. actors[a] # NoActor /\ actors[a].status = "running"
  BY DEF Running
<1>2. /\ actors' = [b \in Actor |-> actors'[b]] /\ actors'[a] = new
      /\ new # NoActor
      /\ \A b \in Actor : b # a => actors'[b] = actors[b]
      /\ \A b \in Actor : actors'[b] # NoActor =>
            actors[b] # NoActor /\ actors'[b] \in State(actors'[b].seq)
      /\ \A b \in Actor : actors[b] # NoActor =>
            /\ actors'[b] # NoActor /\ actors'[b].canvas = actors[b].canvas
            /\ actors'[b].instance = actors[b].instance
  BY <1>1, SameActor
<1>3. \A b \in Actor : /\ Running(b)' => Running(b)
                       /\ actors[b] # NoActor => actors'[b].open = actors[b].open
                       /\ \A i, c : Works(b, i, c) => Works(b, i, c)'
                       /\ Running(b) /\ actors[b].inbox \in Seq({"op"}) =>
                             Running(b)' /\ actors'[b].inbox \in Seq({"op"})
                       /\ actors[b] = NoActor => actors'[b] = NoActor
  BY <1>1, <1>2 DEF Running, Works
<1>4. Shapes'
  BY <1>2 DEF IInv, Shapes
<1>5. Fresh'
  <2>1. Waiting' = Waiting
    BY DEF Waiting
  <2> QED BY <1>2, <2>1 DEF IInv, Fresh
<1>6. Steady'
  <2> SUFFICES ASSUME NEW u \in Task PROVE Fit(u)'
    BY DEF Steady
  <2>1. Fit(u) /\ loc[u] \in Local
    BY DEF IInv, Shapes, Steady
  <2>2. \A n \in DOMAIN loc[u].todo :
           Works(loc[u].todo[n][2], InstanceOf(u), loc[u].todo[n][1])'
    <3>1. \A n \in DOMAIN loc[u].todo : loc[u].todo[n][2] \in Actor
      BY <2>1 DEF Local
    <3> QED BY <1>3, <2>1, <3>1 DEF Fit
  <2>3. pc[u] \in {"insert", "raced", "opened"} =>
           Works(loc[u].actor, InstanceOf(u), loc[u].canvas)'
    BY <1>3, <2>1 DEF Fit, Building
  <2>4. pc[u] \in {"insert", "raced"} => ~actors'[loc[u].actor].open
    BY <1>3, <2>1 DEF Fit, Building, Works
  <2>5. pc[u] \in {"spawn", "unclaim"} => actors'[loc[u].actor] = NoActor
    BY <1>3, <2>1 DEF Fit, Building
  <2>6. pc[u] = "insert" => /\ Running(loc[u].actor)'
                            /\ actors'[loc[u].actor].inbox \in Seq({"op"})
    BY <1>3, <2>1 DEF Fit, Building
  <2> QED BY <2>1, <2>2, <2>3, <2>4, <2>5, <2>6 DEF Fit
<1>7. Mapped'
  <2>1. \A i \in Owner, c \in Canvas : inner[i][c] # None => inner[i][c] \in Actor
    BY DEF IInv, Shapes
  <2> QED BY <1>3, <2>1 DEF IInv, Mapped
<1>8. /\ \A u \in Task, b \in Actor : /\ TearsDown(u, b)' <=> TearsDown(u, b)
                                      /\ Builds(u, b)' <=> Builds(u, b)
      /\ \A b \in Actor : (InMap(b)' <=> InMap(b)) /\ (Held(b)' <=> Held(b))
      /\ \A u \in Task, d \in Canvas : \A token :
            HoldsLease(u, d, token)' <=> HoldsLease(u, d, token)
  BY HandsKept
<1>9. Handed'
  BY <1>8 DEF IInv, Handed
<1>10. Answered'
  BY <1>2, <1>3, <1>8 DEF IInv, Answered
<1>11. LeaseHeld'
  BY <1>8 DEF IInv, LeaseHeld
<1> QED BY <1>4, <1>5, <1>6, <1>7, <1>9, <1>10, <1>11 DEF IInv

(* What clients and the actor task do to an actor. *)
LEMMA ActorStepIInv ==
    ASSUME IInv, NEW a \in Actor, UNCHANGED deployed,
           ClientSend(a) \/ ActorApply(a) \/ ActorStop(a)
    PROVE  IInv'
<1>1. /\ Running(a) /\ actors[a] \in State(actors[a].seq)
      /\ actors[a].inbox \in Seq({"op", "shutdown"})
  BY DEF ClientSend, ActorApply, ActorStop, Running, IInv, Shapes, State
<1>2. UNCHANGED <<clock, leases, counter, inner, renewers, pc, loc, deployed>>
  BY DEF ClientSend, ActorApply, ActorStop, coordVars, mapVars
<1>3. CASE ClientSend(a)
  <2> DEFINE new == [actors[a] EXCEPT !.inbox = Append(@, "op")]
  <2>1. /\ Append(actors[a].inbox, "op") \in Seq({"op", "shutdown"})
        /\ actors[a].inbox \in Seq({"op"}) =>
              Append(actors[a].inbox, "op") \in Seq({"op"})
    BY <1>1
  <2>2. /\ new \in State(new.seq) /\ new.canvas = actors[a].canvas
        /\ new.instance = actors[a].instance /\ new.open = actors[a].open
        /\ new.status = actors[a].status
        /\ new.inbox = Append(actors[a].inbox, "op")
    BY <1>1, <2>1 DEF State
  <2>3. actors' = [actors EXCEPT ![a] = new]
    BY <1>3 DEF ClientSend
  <2> HIDE DEF new
  <2> QED BY <1>1, <1>2, <2>1, <2>2, <2>3, ActorChangesIInv DEF Running
<1>4. CASE ActorApply(a)
  <2> DEFINE new == [actors[a] EXCEPT !.inbox = Tail(@), !.seq = actors[a].seq + 1]
  <2>1. actors[a].inbox # <<>>
    BY <1>4 DEF ActorApply
  <2>2. /\ Tail(actors[a].inbox) \in Seq({"op", "shutdown"})
        /\ actors[a].inbox \in Seq({"op"}) =>
              Tail(actors[a].inbox) \in Seq({"op"})
    BY <1>1, <2>1
  <2>3. /\ new \in State(new.seq) /\ new.canvas = actors[a].canvas
        /\ new.instance = actors[a].instance /\ new.open = actors[a].open
        /\ new.status = actors[a].status
        /\ new.inbox = Tail(actors[a].inbox)
    BY <1>1, <2>2 DEF State
  <2>4. actors' = [actors EXCEPT ![a] = new]
    <3>1. actors' = [actors EXCEPT ![a].inbox = Tail(@),
                                   ![a].seq = actors[a].seq + 1]
      BY <1>4 DEF ActorApply
    <3>2. actors = [b \in Actor |-> actors[b]]
      BY DEF IInv, Shapes
    <3> QED BY <3>1, <3>2
  <2> HIDE DEF new
  <2> QED BY <1>1, <1>2, <2>2, <2>3, <2>4, ActorChangesIInv DEF Running
<1>5. CASE ActorStop(a)
  <2> DEFINE new == [actors[a] EXCEPT !.inbox = <<>>, !.status = "stopped"]
  <2>1. actors[a].inbox \notin Seq({"op"})
    <3>1. actors[a].inbox # <<>> /\ Head(actors[a].inbox) = "shutdown"
      BY <1>5 DEF ActorStop
    <3>2. ASSUME actors[a].inbox \in Seq({"op"}) PROVE FALSE
      <4>1. Head(actors[a].inbox) \in {"op"}
        BY <3>1, <3>2
      <4> QED BY <3>1, <4>1
    <3> QED BY <3>2
  <2>2. <<>> \in Seq({"op", "shutdown"})
    OBVIOUS
  <2>3. /\ new \in State(new.seq) /\ new.canvas = actors[a].canvas
        /\ new.instance = actors[a].instance /\ new.open = actors[a].open
    BY <1>1, <2>2 DEF State
  <2>4. actors' = [actors EXCEPT ![a] = new]
    <3>1. actors' = [actors EXCEPT ![a].inbox = <<>>, ![a].status = "stopped"]
      BY <1>5 DEF ActorStop
    <3>2. actors = [b \in Actor |-> actors[b]]
      BY DEF IInv, Shapes
    <3> QED BY <3>1, <3>2
  <2> HIDE DEF new
  <2> QED BY <1>1, <1>2, <2>1, <2>3, <2>4, ActorChangesIInv
<1> QED BY <1>3, <1>4, <1>5

(* A renewal moves the expiry of a lease, or ends the renew task. *)
LEMMA RenewIInv ==
    ASSUME IInv, NEW a \in Actor, UNCHANGED deployed, Renew(a)
    PROVE  IInv'
<1> DEFINE c == actors[a].canvas
<1>1. /\ renewers[a] # None
      /\ UNCHANGED <<clock, counter, inner, actors, pc, loc, deployed>>
      /\ \/ /\ leases' = [leases EXCEPT ![c].expires_at = clock + Ttl]
            /\ leases[c] # NoLease
            /\ renewers' = [renewers EXCEPT ![a] = clock + Interval]
         \/ leases' = leases /\ renewers' = [renewers EXCEPT ![a] = None]
  BY DEF Renew, mapVars, Renewable, Matches
<1>2. actors[a] # NoActor
  BY <1>1 DEF IInv, Answered
<1>3. /\ c \in Canvas /\ clock \in Nat /\ clock + Interval \in Nat
      /\ renewers \in [Actor -> Nat] /\ clock + Ttl \in Nat
      /\ leases \in [Canvas -> LeaseEntry \cup {NoLease}]
  BY <1>2 DEF IInv, Shapes, State
<1>4. /\ renewers' \in [Actor -> Nat]
      /\ \A b \in Actor : b # a => renewers'[b] = renewers[b]
  <2>1. \E n \in {None, clock + Interval} : renewers' = [renewers EXCEPT ![a] = n]
    BY <1>1
  <2> QED BY <1>3, <2>1
<1>5. /\ leases' \in [Canvas -> LeaseEntry \cup {NoLease}]
      /\ \A d \in Canvas : leases'[d] # NoLease =>
            /\ leases[d] # NoLease /\ leases'[d].owner = leases[d].owner
            /\ leases'[d].token = leases[d].token
  <2>1. CASE leases' = leases
    BY <1>3, <2>1
  <2>2. CASE leases' = [leases EXCEPT ![c].expires_at = clock + Ttl]
             /\ leases[c] # NoLease
    <3>1. leases[c] \in LeaseEntry
      BY <1>3, <2>2
    <3>2. /\ [leases[c] EXCEPT !.expires_at = clock + Ttl] \in LeaseEntry
          /\ [leases[c] EXCEPT !.expires_at = clock + Ttl].owner = leases[c].owner
          /\ [leases[c] EXCEPT !.expires_at = clock + Ttl].token = leases[c].token
      BY <1>3, <3>1 DEF LeaseEntry
    <3>3. /\ leases'[c] = [leases[c] EXCEPT !.expires_at = clock + Ttl]
          /\ \A d \in Canvas : d # c => leases'[d] = leases[d]
          /\ leases' = [d \in Canvas |-> leases'[d]]
      BY <1>3, <2>2
    <3> QED BY <1>3, <2>2, <3>2, <3>3
  <2> QED BY <1>1, <2>1, <2>2
<1>6. Shapes'
  BY <1>1, <1>4, <1>5 DEF IInv, Shapes
<1>7. Fresh'
  <2>1. Waiting' = Waiting
    BY <1>1 DEF Waiting
  <2> QED BY <1>1, <1>5, <2>1 DEF IInv, Fresh
<1>8. Steady'
  <2> SUFFICES ASSUME NEW u \in Task PROVE Fit(u)'
    BY DEF Steady
  <2>1. Fit(u)
    BY DEF IInv, Steady
  <2>2. pc[u] = "stopping" => renewers'[Head(loc[u].todo)[2]] = None
    <3> SUFFICES ASSUME pc[u] = "stopping"
                 PROVE  renewers'[Head(loc[u].todo)[2]] = None
      OBVIOUS
    <3>1. loc[u].todo # <<>> /\ renewers[Head(loc[u].todo)[2]] = None
      BY <2>1 DEF Fit
    <3>2. Head(loc[u].todo)[2] \in Actor /\ Head(loc[u].todo)[2] # a
      BY <1>1, <3>1, FirstEntry
    <3> QED BY <1>4, <3>1, <3>2
  <2> QED BY <1>1, <2>1, <2>2 DEF Fit, Works, Running
<1>9. Mapped'
  BY <1>1, MapKept
<1>10. /\ \A u \in Task, b \in Actor : /\ TearsDown(u, b)' <=> TearsDown(u, b)
                                       /\ Builds(u, b)' <=> Builds(u, b)
       /\ \A b \in Actor : (InMap(b)' <=> InMap(b)) /\ (Held(b)' <=> Held(b))
       /\ \A u \in Task, d \in Canvas : \A token :
             HoldsLease(u, d, token)' <=> HoldsLease(u, d, token)
  BY <1>1, HandsKept
<1>11. Handed'
  BY <1>10 DEF IInv, Handed
<1>12. Answered'
  <2>1. \A b \in Actor : renewers'[b] # None => renewers[b] # None
    BY <1>1, <1>4
  <2>2. \A b \in Actor : Running(b)' <=> Running(b)
    BY <1>1 DEF Running
  <2>3. pc' = pc /\ loc' = loc /\ actors' = actors
    BY <1>1
  <2> QED BY <1>10, <2>1, <2>2, <2>3 DEF IInv, Answered
<1>13. LeaseHeld'
  <2> SUFFICES ASSUME ~deployed.crashes, NEW d \in Canvas, leases'[d] # NoLease
               PROVE  \/ inner[leases[d].token[1]][d] = leases[d].token[2]
                      \/ \E u \in Task : HoldsLease(u, d, leases[d].token)'
    BY <1>1, <1>5 DEF LeaseHeld
  <2>1. leases[d] # NoLease /\ leases'[d].token = leases[d].token
    BY <1>5
  <2>2. \A u \in Task : \A token :
           HoldsLease(u, d, token)' <=> HoldsLease(u, d, token)
    BY <1>10
  <2> QED BY <2>1, <2>2 DEF IInv, LeaseHeld
<1> QED BY <1>6, <1>7, <1>8, <1>9, <1>11, <1>12, <1>13 DEF IInv

(* A crash takes the map of an instance, its tasks and its actors with it. *)
LEMMA CrashIInv ==
    ASSUME IInv, NEW i \in Owner, UNCHANGED deployed, Crash(i)
    PROVE  IInv'
<1> DEFINE dead(t) == InstanceOf(t) = i
<1>1. /\ inner' = [inner EXCEPT ![i] = [c \in Canvas |-> None]]
      /\ pc' = [t \in Task |-> IF dead(t) THEN "dead" ELSE pc[t]]
      /\ loc' = [t \in Task |-> IF dead(t) THEN NoLocals ELSE loc[t]]
      /\ deployed.crashes /\ UNCHANGED <<clock, leases, counter>>
  BY DEF Crash, coordVars
<1>2. /\ actors' = [a \in Actor |->
                       IF Running(a) /\ actors[a].instance = i
                       THEN [actors[a] EXCEPT !.status = "stopped", !.inbox = <<>>]
                       ELSE actors[a]]
      /\ renewers' = [a \in Actor |->
                         IF actors[a] # NoActor /\ actors[a].instance = i
                         THEN None ELSE renewers[a]]
  BY DEF Crash
<1>3. /\ inner' \in [Owner -> [Canvas -> Actor \cup {None}]]
      /\ \A j \in Owner, d \in Canvas :
            inner'[j][d] = IF j = i THEN None ELSE inner[j][d]
  BY <1>1 DEF IInv, Shapes
<1>4. /\ pc' \in [Task -> Place] /\ loc' \in [Task -> Local]
      /\ \A t \in Task : dead(t) => pc'[t] = "dead" /\ loc'[t] = NoLocals
      /\ \A t \in Task : ~dead(t) => pc'[t] = pc[t] /\ loc'[t] = loc[t]
  BY <1>1, LocalsOfIdle DEF IInv, Shapes, Place
<1>5. ASSUME NEW b \in Actor
      PROVE  /\ Running(b)' => Running(b) /\ actors[b].instance # i
             /\ actors[b] = NoActor \/ actors[b].instance # i =>
                   actors'[b] = actors[b]
             /\ actors'[b] # NoActor =>
                   actors[b] # NoActor /\ actors'[b] \in State(actors'[b].seq)
             /\ actors[b] # NoActor =>
                   /\ actors'[b] # NoActor
                   /\ actors'[b].canvas = actors[b].canvas
                   /\ actors'[b].instance = actors[b].instance
  <2> DEFINE new == [actors[b] EXCEPT !.status = "stopped", !.inbox = <<>>]
  <2>1. CASE Running(b) /\ actors[b].instance = i
    <3>1. actors[b] # NoActor /\ actors[b] \in State(actors[b].seq)
      BY <2>1 DEF Running, IInv, Shapes
    <3>2. <<>> \in Seq({"op", "shutdown"})
      OBVIOUS
    <3>3. /\ new \in State(new.seq) /\ new.status = "stopped"
          /\ new.canvas = actors[b].canvas /\ new.instance = actors[b].instance
      BY <3>1, <3>2 DEF State
    <3>4. actors'[b] = new
      BY <1>2, <2>1
    <3> HIDE DEF new
    <3>5. new # NoActor
      <4>1. new.status # NoActor.status
        BY <3>3 DEF NoActor
      <4> QED BY <4>1
    <3> QED BY <2>1, <3>1, <3>3, <3>4, <3>5 DEF Running
  <2>2. CASE ~(Running(b) /\ actors[b].instance = i)
    <3>1. actors'[b] = actors[b]
      BY <1>2, <2>2
    <3> QED BY <2>2, <3>1 DEF Running, IInv, Shapes
  <2> QED BY <2>1, <2>2
<1>6. actors' = [b \in Actor |-> actors'[b]]
  BY <1>2
<1>7. /\ renewers' \in [Actor -> Nat]
      /\ \A b \in Actor : renewers'[b] \in {renewers[b], None}
      /\ \A b \in Actor : actors[b] # NoActor /\ renewers'[b] # None =>
            actors[b].instance # i
  BY <1>2 DEF IInv, Shapes
<1>8. Shapes'
  BY <1>1, <1>3, <1>4, <1>5, <1>6, <1>7 DEF IInv, Shapes
<1>9. Fresh'
  <2>1. Waiting' \subseteq Waiting
    BY <1>4 DEF Waiting, Waits
  <2>2. IsFiniteSet(Waiting) /\ Cardinality(Waiting) \in Nat
    BY FS_Subset, FS_CardinalityType DEF Waiting
  <2>3. Cardinality(Waiting') <= Cardinality(Waiting) /\ Cardinality(Waiting') \in Nat
    BY <2>1, <2>2, FS_Subset, FS_CardinalityType
  <2>4. counter' + Cardinality(Waiting') <= deployed'.leases + 1
    BY <1>1, <2>2, <2>3, Bounds DEF IInv, Fresh
  <2>5. \A u \in Task : loc'[u].actor < counter'
    BY <1>1, <1>4, LocalsOfIdle, Bounds DEF IInv, Fresh
  <2> QED BY <1>1, <1>5, <2>4, <2>5 DEF IInv, Fresh
<1>10. Steady'
  <2> SUFFICES ASSUME NEW u \in Task PROVE Fit(u)'
    BY DEF Steady
  <2>1. CASE dead(u)
    BY <1>4, <2>1, LocalsOfIdle DEF Fit, Building
  <2>2. CASE ~dead(u)
    <3>1. \A b \in Actor : Builds(u, b) =>
             actors[b] = NoActor \/ actors[b].instance # i
      BY <2>2 DEF IInv, Steady, Fit, Builds, Building, Works
    <3>2. \A b \in Actor : Builds(u, b) => actors'[b] = actors[b]
      BY <1>5, <3>1
    <3> HIDE DEF dead
    <3> QED BY <1>4, <1>5, <1>7, <2>2, <3>2, OthersFit
  <2> QED BY <2>1, <2>2
<1>11. /\ \A u \in Task, b \in Actor :
             /\ TearsDown(u, b)' <=> TearsDown(u, b) /\ ~dead(u)
             /\ Builds(u, b)' <=> Builds(u, b) /\ ~dead(u)
       /\ \A b \in Actor : InMap(b)' <=>
             \E j \in Owner \ {i}, d \in Canvas : inner[j][d] = b
  <2>1. \A u \in Task, b \in Actor : TearsDown(u, b)' <=> TearsDown(u, b) /\ ~dead(u)
    BY <1>4, LocalsOfIdle DEF TearsDown
  <2>2. \A u \in Task, b \in Actor : Builds(u, b)' <=> Builds(u, b) /\ ~dead(u)
    BY <1>4 DEF Builds, Building
  <2>3. \A b \in Actor : InMap(b)' <=>
           \E j \in Owner \ {i}, d \in Canvas : inner[j][d] = b
    BY <1>3 DEF InMap
  <2> QED BY <2>1, <2>2, <2>3
<1>12. Mapped'
  <2> SUFFICES ASSUME NEW j \in Owner, NEW d \in Canvas, inner'[j][d] # None
               PROVE  /\ Running(inner[j][d])' /\ Works(inner[j][d], j, d)'
                      /\ actors'[inner'[j][d]].inbox \in Seq({"op"})
    BY DEF Mapped
  <2>1. /\ j # i /\ inner'[j][d] = inner[j][d] /\ inner[j][d] \in Actor
        /\ Running(inner[j][d]) /\ Works(inner[j][d], j, d)
        /\ actors[inner[j][d]].inbox \in Seq({"op"})
    BY <1>3 DEF IInv, Shapes, Mapped
  <2>2. actors'[inner[j][d]] = actors[inner[j][d]]
    BY <1>5, <2>1 DEF Works
  <2> QED BY <2>1, <2>2 DEF Running, Works
<1>13. Handed'
  <2>1. \A b \in Actor : InMap(b)' => InMap(b)
    BY <1>11 DEF InMap
  <2> HIDE DEF dead
  <2> QED BY <1>11, <2>1 DEF IInv, Handed
<1>14. \A b \in Actor :
          Held(b) /\ actors[b] # NoActor /\ actors[b].instance # i => Held(b)'
  <2> SUFFICES ASSUME NEW b \in Actor, Held(b), actors[b] # NoActor,
                      actors[b].instance # i
               PROVE  Held(b)'
    OBVIOUS
  <2>1. CASE InMap(b)
    <3>1. PICK j \in Owner, d \in Canvas : inner[j][d] = b
      BY <2>1 DEF InMap
    <3>2. Works(b, j, d)
      BY <3>1 DEF IInv, Mapped
    <3> QED BY <1>11, <3>1, <3>2 DEF Held, Works
  <2>2. ASSUME NEW u \in Task, Builds(u, b) PROVE Held(b)'
    <3>1. actors[b].instance = InstanceOf(u)
      BY <2>2 DEF IInv, Steady, Fit, Builds, Building, Works
    <3> QED BY <1>11, <2>2, <3>1 DEF Held
  <2>3. ASSUME NEW u \in Task, TearsDown(u, b) PROVE Held(b)'
    <3>1. actors[b].instance = InstanceOf(u)
      BY <2>3 DEF IInv, Steady, Fit, TearsDown, Works
    <3> QED BY <1>11, <2>3, <3>1 DEF Held
  <2> QED BY <2>1, <2>2, <2>3 DEF Held
<1>15. Answered'
  <2> SUFFICES ASSUME NEW b \in Actor
               PROVE  /\ Running(b)' => Held(b)'
                      /\ renewers'[b] # None =>
                            /\ actors'[b] # NoActor
                            /\ \/ Held(b)'
                               \/ \E u \in Task : /\ pc'[u] = "opened"
                                                  /\ loc'[u].actor = b
                                                  /\ ~actors'[b].open
    BY DEF Answered
  <2>1. Running(b)' => Held(b)'
    BY <1>5, <1>14 DEF IInv, Answered, Running
  <2>2. ASSUME renewers'[b] # None
        PROVE  /\ actors'[b] # NoActor
               /\ \/ Held(b)'
                  \/ \E u \in Task : /\ pc'[u] = "opened" /\ loc'[u].actor = b
                                     /\ ~actors'[b].open
    <3>1. /\ actors[b] # NoActor
          /\ \/ Held(b)
             \/ \E u \in Task : /\ pc[u] = "opened" /\ loc[u].actor = b
                                /\ ~actors[b].open
      BY <1>7, <2>2 DEF IInv, Answered
    <3>2. actors[b].instance # i /\ actors'[b] = actors[b]
      BY <1>5, <1>7, <2>2, <3>1
    <3>3. ASSUME NEW u \in Task, pc[u] = "opened", loc[u].actor = b
          PROVE  pc'[u] = "opened" /\ loc'[u].actor = b
      <4>1. actors[b].instance = InstanceOf(u)
        BY <3>3 DEF IInv, Steady, Fit, Works
      <4> QED BY <1>4, <3>2, <3>3, <4>1
    <3> QED BY <1>14, <3>1, <3>2, <3>3
  <2> QED BY <2>1, <2>2
<1>16. LeaseHeld'
  BY <1>1 DEF LeaseHeld
<1> QED BY <1>8, <1>9, <1>10, <1>12, <1>13, <1>15, <1>16 DEF IInv

-----------------------------------------------------------------------------

(* Every step of the registry preserves the inductive invariant. *)
LEMMA NextIInv == ASSUME IInv, [Next]_vars PROVE IInv'
<1>1. ASSUME NEW t \in Task, UNCHANGED deployed, Call(t)
      PROVE  IInv'
  <2>1. ASSUME NEW c \in Canvas, EvictAbsent(t, c) \/ ResolveKnown(t, c)
        PROVE  IInv'
    <3>1. /\ clock' \in Nat
          /\ UNCHANGED <<leases, counter, inner, actors, renewers, pc, loc,
                         deployed>>
      BY <1>1, <2>1 DEF EvictAbsent, ResolveKnown, coordVars, actorVars,
                        IInv, Shapes
    <3> QED BY <3>1, QuietIInv
  <2>2. ASSUME NEW c \in Canvas, OpenBegin(t, c) \/ ResolveFree(t, c)
        PROVE  IInv'
    BY <1>1, <2>2, OpenBeginIInv
  <2>3. ASSUME NEW c \in Canvas, DeleteBegin(t, c) PROVE IInv'
    BY <1>1, <2>3, DeleteBeginIInv
  <2>4. CASE \E cs \in SUBSET Canvas : EvictBegin(t, cs)
    BY <1>1, <2>4, TakeOutIInv
  <2>5. CASE ShutdownBegin(t)
    BY <1>1, <2>5, ShutdownBeginIInv
  <2> QED BY <1>1, <2>1, <2>2, <2>3, <2>4, <2>5 DEF Call
<1>2. ASSUME NEW t \in Task, UNCHANGED deployed, Step(t)
      PROVE  IInv'
  <2>1. CASE \/ OpenNotOwner(t) \/ ResolveReread(t)
             \/ TeardownReturn(t) \/ DeletePrune(t)
    BY <1>2, <2>1, CallEndsIInv
  <2>2. CASE OpenAcquire(t) \/ ResolveClaim(t)
    BY <1>2, <2>2, AcquireIInv
  <2>3. CASE OpenSpawn(t)
    BY <1>2, <2>3, OpenSpawnIInv
  <2>4. CASE OpenInsert(t)
    BY <1>2, <2>4, OpenInsertIInv
  <2>5. CASE OpenRacedOut(t) \/ TeardownStop(t)
    BY <1>2, <2>5, QueueShutdownIInv
  <2>6. CASE OpenRacedRelease(t) \/ ResolveUnclaim(t)
    BY <1>2, <2>6, GiveBackIInv
  <2>7. CASE OpenReturn(t)
    BY <1>2, <2>7, OpenReturnIInv
  <2>8. CASE ShutdownDrain(t)
    BY <1>2, <2>8, TakeOutIInv
  <2>9. CASE TeardownRelease(t)
    BY <1>2, <2>9, TeardownReleaseIInv
  <2> QED BY <1>2, <2>1, <2>2, <2>3, <2>4, <2>5, <2>6, <2>7, <2>8, <2>9 DEF Step
<1>3. ASSUME NEW a \in Actor, UNCHANGED deployed,
             ClientSend(a) \/ ActorStep(a) \/ Renew(a)
      PROVE  IInv'
  <2>1. CASE ClientSend(a) \/ ActorApply(a) \/ ActorStop(a)
    BY <1>3, <2>1, ActorStepIInv
  <2>2. CASE Renew(a)
    BY <1>3, <2>2, RenewIInv
  <2> QED BY <1>3, <2>1, <2>2 DEF ActorStep
<1>4. ASSUME UNCHANGED deployed, Tick PROVE IInv'
  <2>1. /\ clock' \in Nat
        /\ UNCHANGED <<leases, counter, inner, actors, renewers, pc, loc, deployed>>
    BY <1>4 DEF Tick, mapVars, actorVars, IInv, Shapes
  <2> QED BY <2>1, QuietIInv
<1>5. ASSUME NEW i \in Owner, UNCHANGED deployed, Crash(i) PROVE IInv'
  BY <1>5, CrashIInv
<1>6. CASE UNCHANGED vars
  <2>1. /\ clock' \in Nat
        /\ UNCHANGED <<leases, counter, inner, actors, renewers, pc, loc, deployed>>
    BY <1>6 DEF vars, IInv, Shapes
  <2> QED BY <2>1, QuietIInv
<1>7. deployed.tasks \subseteq Task
  <2>1. deployed \in [tasks : SUBSET Task, crashes : BOOLEAN, clock : 0..MaxClock,
                      leases : 0..MaxActors, ops : 0..MaxSeq]
    BY DEF IInv, Shapes
  <2> QED BY <2>1
<1>8. CASE Next
  BY <1>1, <1>2, <1>3, <1>4, <1>5, <1>7, <1>8 DEF Next
<1> QED BY <1>6, <1>8

(* The inductive invariant holds in every reachable state. *)
LEMMA Inductive == Spec => []IInv
<1> QED BY InitIInv, NextIInv, PTL DEF Spec

(* Whatever calls race, on however many instances and with crashes between
   any two steps: the handle the fast path of get_or_spawn finds belongs to a
   running actor of that canvas and instance.                              *)
THEOREM MapEntriesRun == Spec => []MapEntryRunning
<1>1. IInv => MapEntryRunning
  BY DEF IInv, Mapped, MapEntryRunning, Works
<1> QED BY <1>1, Inductive, PTL

(* No actor that runs, no renew task and, without a crash, no lease in the
   table is ever left without an entry of the map or a task that will end it. *)
THEOREM NoneForgotten == Spec => []NothingLeaks
<1>1. ASSUME IInv PROVE NothingLeaks
  <2>1. ASSUME NEW b \in Actor, Held(b) PROVE Owned(b)
    BY <2>1 DEF Held, InMap, Builds, TearsDown, Owned
  <2>2. ASSUME NEW a \in Actor, Running(a) \/ renewers[a] # None
        PROVE  Owned(a)
    <3>1. \/ Held(a)
          \/ \E t \in Task : loc[t].actor = a
      BY <1>1, <2>2 DEF IInv, Answered
    <3> QED BY <2>1, <3>1 DEF Owned
  <2>3. ASSUME ~deployed.crashes, NEW c \in Canvas, leases[c] # NoLease
        PROVE  Owned(leases[c].token[2])
    <3>1. leases[c].token[1] \in Owner /\ leases[c].token[2] \in Actor
      BY <1>1, <2>3 DEF IInv, Shapes, Fresh, LeaseEntry, Token
    <3>2. CASE inner[leases[c].token[1]][c] = leases[c].token[2]
      BY <3>1, <3>2 DEF Owned
    <3>3. ASSUME NEW t \in Task, HoldsLease(t, c, leases[c].token)
          PROVE  Owned(leases[c].token[2])
      <4>1. CASE Builds(t, leases[c].token[2])
        BY <4>1 DEF Builds, Owned
      <4>2. ASSUME NEW n \in DOMAIN loc[t].todo,
                   loc[t].todo[n] = <<c, leases[c].token[2]>>
            PROVE  Owned(leases[c].token[2])
        BY <4>2 DEF Owned
      <4> QED BY <3>3, <4>1, <4>2 DEF HoldsLease
    <3> QED BY <1>1, <2>3, <3>2, <3>3 DEF IInv, LeaseHeld
  <2> QED BY <2>2, <2>3 DEF NothingLeaks
<1> QED BY <1>1, Inductive, PTL

-----------------------------------------------------------------------------

(***************************************************************************)
(* The single writer.  Where the calls of an instance follow one another,  *)
(* at most one actor runs for a canvas, across all instances, and the      *)
(* record of an acknowledged op is not overwritten.                        *)
(*                                                                         *)
(* The lease does it, by way of time: a running actor has a live lease     *)
(* (`LeasedAt'), because its renew task is at most MaxLate ticks late and  *)
(* Interval + MaxLate < Ttl (`RenewedAt'), and because nobody of its own   *)
(* instance acquires the canvas once more (`AloneAt').                     *)
(***************************************************************************)

(* Only the tasks of the deployment make calls. *)
Employed == \A t \in Task : pc[t] \notin {"idle", "dead"} => t \in deployed.tasks

(* The table holds the lease that actor a of instance i was given. *)
Promised(i, c, a) ==
    /\ leases[c] # NoLease
    /\ leases[c].owner = i /\ leases[c].token = <<i, a>>
    /\ leases[c].expires_at > clock

LeasedAt(a) == Running(a) => Promised(actors[a].instance, actors[a].canvas, a)

Stopping(t, a) ==
    pc[t] = "stopping" /\ loc[t].todo # <<>> /\ Head(loc[t].todo)[2] = a

(* Its renewal is due before it expires, or the actor is about to stop. *)
RenewedAt(a) ==
    Running(a) =>
        \/ /\ renewers[a] # None
           /\ clock <= renewers[a] + MaxLate
           /\ leases[actors[a].canvas].expires_at + Interval = renewers[a] + Ttl
        \/ \E t \in Task : Stopping(t, a)

(* A task that may acquire a canvas is the only one of its instance for it. *)
AloneAt(t) ==
    /\ pc[t] \in {"acquire", "claim"} =>
          \A a \in Actor : Running(a) /\ actors[a].instance = InstanceOf(t) =>
              actors[a].canvas # loc[t].canvas
    /\ pc[t] \in {"acquire", "spawn", "insert"} =>
          inner[InstanceOf(t)][loc[t].canvas] = None
    /\ pc[t] = "spawn" =>
          /\ Promised(InstanceOf(t), loc[t].canvas, loc[t].actor)
          /\ leases[loc[t].canvas].expires_at = clock + Ttl
    /\ pc[t] # "raced"
    /\ pc[t] = "opened" => actors[loc[t].actor].open

Timed == /\ \A a \in Actor : LeasedAt(a) /\ RenewedAt(a)
         /\ \A t \in Task : AloneAt(t)

(* The journal has no record past what the running actor has stamped. *)
RecordedAt(a) ==
    Running(a) => \A s \in Seqs :
        journal[actors[a].canvas][s] # None => s <= actors[a].seq

AckKept(x) ==
    x \in Canvas \X Seqs \X Actor /\ journal[x[1]][x[2]] = x[3]

Stamped ==
    /\ journal = [c \in Canvas |-> [s \in Seqs |-> journal[c][s]]]
    /\ \A a \in Actor : RecordedAt(a)
    /\ \A x \in acked : AckKept(x)

(* An op in a mailbox is the first message, and within the bound. *)
MailboxAt(a) ==
    Running(a) =>
        /\ actors[a].seq \in Nat
        /\ \A n \in DOMAIN actors[a].inbox : actors[a].inbox[n] = "op" =>
              n = 1 /\ actors[a].seq < deployed.ops

Mailboxes == \A a \in Actor : MailboxAt(a)

SInv == IInv /\ Employed /\ Mailboxes /\ (Serial => Timed /\ Stamped)

-----------------------------------------------------------------------------

(* A bounded set of numbers has a greatest one. *)
LEMMA MaxExists ==
    ASSUME NEW n \in Nat, NEW S \in SUBSET (0..n), S # {}
    PROVE  Max(S) \in S /\ \A s \in S : s <= Max(S)
<1> DEFINE Uppers == {m \in Nat : \A s \in S : s <= m}
<1> DEFINE R == OpToRel(<, Nat)
<1>1. IsWellFoundedOn(R, Nat)
  BY NatLessThanWellFounded
<1>2. \A x, y \in Nat : x < y => <<x, y>> \in R
  BY DEF OpToRel
<1> HIDE DEF R
<1>3. Uppers \subseteq Nat /\ Uppers # {}
  <2>1. n \in Uppers
    OBVIOUS
  <2> QED BY <2>1
<1>4. PICK m \in Uppers : \A y \in Uppers : <<y, m>> \notin R
  <2> HIDE DEF Uppers
  <2> QED BY <1>1, <1>3, WFMin
<1>5. m \in S
  <2> SUFFICES ASSUME m \notin S PROVE FALSE
    OBVIOUS
  <2>1. \A s \in S : s \in Nat /\ s <= m /\ s # m
    BY <1>4
  <2>2. m \in Nat
    BY <1>4
  <2>3. PICK s \in S : TRUE
    OBVIOUS
  <2>4. m > 0
    BY <2>1, <2>2, <2>3
  <2>5. m - 1 \in Nat /\ m - 1 < m /\ \A r \in S : r <= m - 1
    BY <2>1, <2>2, <2>4
  <2>6. <<m - 1, m>> \in R /\ m - 1 \in Uppers
    BY <1>2, <2>2, <2>5
  <2> QED BY <1>4, <2>6
<1>6. \A s \in S : m >= s
  BY <1>4
<1> QED BY <1>5, <1>6 DEF Max

(* Recovery starts at or above every record of the canvas. *)
LEMMA LastSeqBounds ==
    ASSUME NEW c
    PROVE  /\ LastSeq(c) \in Nat
           /\ \A s \in Seqs : journal[c][s] # None => s <= LastSeq(c)
<1> DEFINE S == {0} \cup {s \in Seqs : journal[c][s] # None}
<1>1. S \in SUBSET (0..MaxSeq) /\ S # {}
  BY DEF Seqs
<1>2. Max(S) \in S /\ \A s \in S : s <= Max(S)
  <2> HIDE DEF S
  <2> QED BY <1>1, MaxExists
<1>3. LastSeq(c) \in S /\ \A s \in S : s <= LastSeq(c)
  BY <1>2 DEF LastSeq
<1> QED BY <1>1, <1>3

(* Actors that an instance runs are in the map, or in the hand of its only
   task.                                                                   *)
LEMMA OwnHand ==
    ASSUME IInv, Employed, Serial, NEW t \in deployed.tasks, t \in Task,
           NEW a \in Actor, Running(a), actors[a].instance = InstanceOf(t)
    PROVE  \/ inner[InstanceOf(t)][actors[a].canvas] = a
           \/ Builds(t, a) \/ TearsDown(t, a)
<1>1. Held(a)
  BY DEF IInv, Answered
<1>2. ASSUME InMap(a) PROVE inner[InstanceOf(t)][actors[a].canvas] = a
  <2>1. PICK j \in Owner, d \in Canvas : inner[j][d] = a
    BY <1>2 DEF InMap
  <2>2. Works(a, j, d)
    BY <2>1 DEF IInv, Mapped
  <2> QED BY <2>1, <2>2 DEF Works
<1>3. ASSUME NEW u \in Task, Builds(u, a) \/ TearsDown(u, a) PROVE u = t
  <2>1. Works(a, InstanceOf(u), actors[a].canvas)
    <3>1. CASE Builds(u, a)
      BY <3>1 DEF IInv, Steady, Fit, Builds, Building, Works, Running
    <3>2. CASE TearsDown(u, a)
      BY <3>2 DEF IInv, Steady, Fit, TearsDown, Works
    <3> QED BY <1>3, <3>1, <3>2
  <2>2. pc[u] \notin {"idle", "dead"}
    BY <1>3 DEF IInv, Steady, Fit, Builds, Building, TearsDown
  <2>3. u \in deployed.tasks
    BY <2>2 DEF Employed
  <2> QED BY <2>1, <2>3 DEF Serial, Works
<1> QED BY <1>1, <1>2, <1>3 DEF Held

(* What a step has to leave alone for its other actors and tasks to keep
   their leases.                                                           *)
LEMMA TimedKept ==
    ASSUME IInv, Timed, NEW A \in SUBSET Actor, NEW T \in SUBSET Task,
           clock' = clock,
           \A u \in T : /\ pc'[u] = pc[u] /\ loc'[u] = loc[u]
                        /\ /\ pc[u] \in {"acquire", "spawn", "insert"}
                           /\ inner[InstanceOf(u)][loc[u].canvas] = None
                           => inner'[InstanceOf(u)][loc[u].canvas] = None,
           \A u \in T : pc[u] = "spawn" =>
               leases'[loc[u].canvas] = leases[loc[u].canvas],
           \A u \in T : pc[u] = "opened" /\ actors[loc[u].actor].open =>
               actors'[loc[u].actor].open,
           \A b \in A : Running(b)' =>
               /\ Running(b) /\ actors'[b].canvas = actors[b].canvas
               /\ actors'[b].instance = actors[b].instance
               /\ leases'[actors[b].canvas] = leases[actors[b].canvas]
               /\ renewers'[b] = renewers[b] \/ \E u \in Task : Stopping(u, b)',
           \A b \in A, u \in Task \ T : Stopping(u, b) => ~Running(b)',
           \A b \in Actor \ A, u \in T :
               /\ pc[u] \in {"acquire", "claim"}
               /\ Running(b)' /\ actors'[b].instance = InstanceOf(u)
               => actors'[b].canvas # loc[u].canvas
    PROVE  /\ \A b \in A : LeasedAt(b)' /\ RenewedAt(b)'
           /\ \A u \in T : AloneAt(u)'
<1>1. ASSUME NEW b \in A PROVE LeasedAt(b)'
  <2>1. LeasedAt(b)
    BY DEF Timed
  <2> QED BY <2>1 DEF LeasedAt, Promised
<1>2. ASSUME NEW b \in A PROVE RenewedAt(b)'
  <2> SUFFICES ASSUME Running(b)', ~\E u \in Task : Stopping(u, b)'
               PROVE  /\ renewers'[b] # None
                      /\ clock' <= renewers'[b] + MaxLate
                      /\ leases'[actors'[b].canvas].expires_at + Interval
                            = renewers'[b] + Ttl
    BY DEF RenewedAt
  <2>1. RenewedAt(b) /\ Running(b) /\ renewers'[b] = renewers[b]
    BY DEF Timed
  <2>2. ASSUME NEW u \in Task, Stopping(u, b) PROVE FALSE
    <3>1. u \in T
      BY <2>2
    <3>2. Stopping(u, b)'
      BY <2>2, <3>1 DEF Stopping
    <3> QED BY <3>2
  <2> QED BY <2>1, <2>2 DEF RenewedAt
<1>3. ASSUME NEW u \in T PROVE AloneAt(u)'
  <2>1. AloneAt(u)
    BY DEF Timed
  <2>2. pc[u] \in {"acquire", "claim"} =>
           \A b \in Actor : Running(b)' /\ actors'[b].instance = InstanceOf(u) =>
               actors'[b].canvas # loc[u].canvas
    BY <2>1 DEF AloneAt
  <2>3. pc[u] = "spawn" =>
           /\ Promised(InstanceOf(u), loc[u].canvas, loc[u].actor)'
           /\ leases'[loc[u].canvas].expires_at = clock' + Ttl
    BY <2>1 DEF AloneAt, Promised
  <2> QED BY <2>1, <2>2, <2>3 DEF AloneAt
<1> QED BY <1>1, <1>2, <1>3

(* Only the task of an instance has that instance. *)
LEMMA OnlyTask ==
    ASSUME IInv, Employed, Serial, NEW t \in Task, t \in deployed.tasks,
           NEW u \in Task, u # t, pc[u] \notin {"idle", "dead"}
    PROVE  InstanceOf(u) # InstanceOf(t)
BY DEF Employed, Serial

(* What a task does touches no other task. *)
LEMMA CallMoves ==
    ASSUME IInv, NEW t \in Task, Call(t) \/ Step(t)
    PROVE  \A u \in Task \ {t} : pc'[u] = pc[u] /\ loc'[u] = loc[u]
<1>1. pc \in [Task -> Place] /\ loc \in [Task -> Local]
  BY DEF IInv, Shapes
<1>2. CASE Call(t)
  <2>1. ASSUME NEW c \in Canvas, OpenBegin(t, c) \/ ResolveFree(t, c)
        PROVE  \A u \in Task \ {t} : pc'[u] = pc[u] /\ loc'[u] = loc[u]
    BY <1>1, <2>1 DEF OpenBegin, ResolveFree, Goto
  <2>2. ASSUME NEW c \in Canvas, EvictAbsent(t, c) \/ ResolveKnown(t, c)
        PROVE  \A u \in Task \ {t} : pc'[u] = pc[u] /\ loc'[u] = loc[u]
    BY <2>2 DEF EvictAbsent, ResolveKnown
  <2>3. ASSUME NEW c \in Canvas, DeleteBegin(t, c)
        PROVE  \A u \in Task \ {t} : pc'[u] = pc[u] /\ loc'[u] = loc[u]
    BY <1>1, <2>3 DEF DeleteBegin, Goto
  <2>4. ASSUME NEW cs \in SUBSET Canvas, EvictBegin(t, cs)
        PROVE  \A u \in Task \ {t} : pc'[u] = pc[u] /\ loc'[u] = loc[u]
    BY <1>1, <2>4 DEF EvictBegin, TakeOut, Goto
  <2>5. CASE ShutdownBegin(t)
    BY <1>1, <2>5 DEF ShutdownBegin, Goto
  <2> QED BY <1>2, <2>1, <2>2, <2>3, <2>4, <2>5 DEF Call
<1>3. CASE Step(t)
  BY <1>1, <1>3 DEF Step, OpenNotOwner, OpenAcquire, OpenSpawn, OpenInsert,
     OpenRacedOut, OpenRacedRelease, OpenReturn, ShutdownDrain, TakeOut,
     TeardownStop, TeardownRelease, TeardownReturn, DeletePrune, ResolveClaim,
     ResolveUnclaim, ResolveReread, Goto
<1> QED BY <1>2, <1>3

(* Steps of a task that leave the leases and the actors alone. *)
LEMMA TaskTimed ==
    ASSUME IInv, Employed, Serial, Timed, NEW t \in Task, t \in deployed.tasks,
           \A u \in Task \ {t} : pc'[u] = pc[u] /\ loc'[u] = loc[u],
           UNCHANGED <<clock, leases, actors, renewers>>,
           \A j \in Owner, d \in Canvas :
               j # InstanceOf(t) => inner'[j][d] = inner[j][d],
           pc[t] # "stopping", AloneAt(t)'
    PROVE  Timed'
<1> DEFINE T == Task \ {t}
<1>1. \A u \in T : /\ pc[u] \in {"acquire", "spawn", "insert"}
                   /\ inner[InstanceOf(u)][loc[u].canvas] = None
                   => inner'[InstanceOf(u)][loc[u].canvas] = None
  <2> SUFFICES ASSUME NEW u \in T, pc[u] \in {"acquire", "spawn", "insert"},
                      inner[InstanceOf(u)][loc[u].canvas] = None
               PROVE  inner'[InstanceOf(u)][loc[u].canvas] = None
    OBVIOUS
  <2>1. InstanceOf(u) # InstanceOf(t) /\ InstanceOf(u) \in Owner
    BY OnlyTask
  <2>2. loc[u].canvas \in Canvas
    BY DEF IInv, Steady, Fit, Building
  <2> QED BY <2>1, <2>2
<1>2. \A b \in Actor : Running(b)' => Running(b)
  BY DEF Running
<1>3. \A u \in Task \ T : \A b : ~Stopping(u, b)
  BY DEF Stopping
<1>4. /\ \A b \in Actor : LeasedAt(b)' /\ RenewedAt(b)'
      /\ \A u \in T : AloneAt(u)'
  <2> HIDE DEF T
  <2>1. T \in SUBSET Task /\ \A u \in T : pc'[u] = pc[u] /\ loc'[u] = loc[u]
    BY DEF T
  <2>2. /\ \A u \in T : pc[u] = "opened" /\ actors[loc[u].actor].open =>
              actors'[loc[u].actor].open
        /\ \A u \in T : pc[u] = "spawn" =>
              leases'[loc[u].canvas] = leases[loc[u].canvas]
        /\ clock' = clock
    OBVIOUS
  <2>3. \A b \in Actor : Running(b)' =>
           /\ Running(b) /\ actors'[b].canvas = actors[b].canvas
           /\ actors'[b].instance = actors[b].instance
           /\ leases'[actors[b].canvas] = leases[actors[b].canvas]
           /\ renewers'[b] = renewers[b] \/ \E u \in Task : Stopping(u, b)'
    BY <1>2
  <2>4. \A b \in Actor, u \in Task \ T : Stopping(u, b) => ~Running(b)'
    BY <1>3
  <2> QED BY <1>1, <2>1, <2>2, <2>3, <2>4, TimedKept
<1> QED BY <1>4 DEF Timed

(* A canvas is only opened or resolved by an instance that does not run it. *)
LEMMA OpenBeginTimed ==
    ASSUME IInv, Employed, Serial, Timed, NEW t \in Task, t \in deployed.tasks,
           NEW c \in Canvas, OpenBegin(t, c) \/ ResolveFree(t, c)
    PROVE  Timed'
<1>1. /\ UNCHANGED <<clock, leases, actors, renewers, inner>>
      /\ pc[t] = "idle" /\ pc'[t] \in {"acquire", "claim"} /\ loc'[t].canvas = c
      /\ pc'[t] = "acquire" => inner[InstanceOf(t)][c] = None
      /\ pc'[t] = "claim" => FindOwner(leases[c], clock) = {}
  <2>1. pc \in [Task -> Place] /\ loc \in [Task -> Local] /\ loc[t] \in Local
    BY DEF IInv, Shapes
  <2>2. CASE OpenBegin(t, c)
    BY <2>1, <2>2 DEF OpenBegin, Goto, coordVars, mapVars, actorVars, Local
  <2>3. CASE ResolveFree(t, c)
    BY <2>1, <2>3 DEF ResolveFree, Goto, coordVars, mapVars, actorVars, Local
  <2> QED BY <2>2, <2>3
<1>2. \A u \in Task \ {t} : pc'[u] = pc[u] /\ loc'[u] = loc[u]
  BY CallMoves DEF Call
<1>3. ASSUME NEW a \in Actor, Running(a), actors[a].instance = InstanceOf(t),
             actors[a].canvas = c
      PROVE  FALSE
  <2>1. CASE pc'[t] = "claim"
    <3>1. Promised(actors[a].instance, c, a)
      BY <1>3 DEF Timed, LeasedAt
    <3> QED BY <1>1, <2>1, <3>1 DEF Promised, FindOwner
  <2>2. CASE pc'[t] = "acquire"
    <3>1. ~Builds(t, a) /\ ~TearsDown(t, a)
      BY <1>1 DEF IInv, Steady, Fit, Builds, TearsDown, Building
    <3> QED BY <1>1, <1>3, <2>2, <3>1, OwnHand
  <2> QED BY <1>1, <2>1, <2>2
<1>4. AloneAt(t)'
  BY <1>1, <1>3 DEF AloneAt, Running
<1> QED BY <1>1, <1>2, <1>4, TaskTimed

(* Calls that end, and teardowns that begin. *)
LEMMA RestsTimed ==
    ASSUME IInv, Employed, Serial, Timed, NEW t \in Task, t \in deployed.tasks,
           \/ OpenNotOwner(t) \/ ResolveReread(t) \/ TeardownReturn(t)
           \/ DeletePrune(t) \/ ShutdownBegin(t) \/ OpenReturn(t)
           \/ ShutdownDrain(t)
           \/ \E c \in Canvas : DeleteBegin(t, c)
           \/ \E cs \in SUBSET Canvas : EvictBegin(t, cs)
    PROVE  Timed'
<1>1. /\ UNCHANGED <<clock, leases, actors, renewers>>
      /\ pc[t] # "stopping" /\ pc'[t] \in {"idle", "drain", "teardown"}
      /\ \A j \in Owner, d \in Canvas :
            j # InstanceOf(t) => inner'[j][d] = inner[j][d]
  <2>1. /\ pc \in [Task -> Place]
        /\ inner \in [Owner -> [Canvas -> Actor \cup {None}]]
    BY DEF IInv, Shapes
  <2>2. CASE \/ OpenNotOwner(t) \/ ResolveReread(t) \/ TeardownReturn(t)
             \/ DeletePrune(t) \/ ShutdownBegin(t)
    BY <2>1, <2>2 DEF OpenNotOwner, ResolveReread, TeardownReturn, DeletePrune,
       ShutdownBegin, Goto, coordVars, mapVars, actorVars
  <2>3. CASE OpenReturn(t)
    <3>1. pc[t] = "opened" => actors[loc[t].actor].open
      BY DEF Timed, AloneAt
    <3> QED BY <2>1, <2>3, <3>1 DEF OpenReturn, Goto, coordVars
  <2>4. CASE ShutdownDrain(t)
    BY <2>1, <2>4 DEF ShutdownDrain, TakeOut, Goto, coordVars, actorVars
  <2>5. ASSUME NEW c \in Canvas, DeleteBegin(t, c)
        PROVE  <1>1!:
    BY <2>1, <2>5 DEF DeleteBegin, Goto, coordVars, actorVars
  <2>6. ASSUME NEW cs \in SUBSET Canvas, EvictBegin(t, cs)
        PROVE  <1>1!:
    BY <2>1, <2>6 DEF EvictBegin, TakeOut, Goto, coordVars, actorVars
  <2> QED BY <2>2, <2>3, <2>4, <2>5, <2>6
<1>2. \A u \in Task \ {t} : pc'[u] = pc[u] /\ loc'[u] = loc[u]
  BY CallMoves DEF Call, Step
<1>3. AloneAt(t)'
  BY <1>1 DEF AloneAt
<1> QED BY <1>1, <1>2, <1>3, TaskTimed

(* Steps that change neither the leases nor the actors. *)
LEMMA QuietTimed ==
    ASSUME Timed, UNCHANGED <<clock, leases, actors, renewers, inner, pc, loc>>
    PROVE  Timed'
<1>1. \A a \in Actor : LeasedAt(a)'
  BY DEF Timed, LeasedAt, Promised, Running
<1>2. \A a \in Actor : RenewedAt(a)'
  BY DEF Timed, RenewedAt, Stopping, Running
<1>3. \A t \in Task : AloneAt(t)'
  BY DEF Timed, AloneAt, Promised, Running
<1> QED BY <1>1, <1>2, <1>3 DEF Timed

(* A lease is only granted for a canvas that nobody runs. *)
LEMMA AcquireTimed ==
    ASSUME IInv, Employed, Serial, Timed, NEW t \in Task, t \in deployed.tasks,
           OpenAcquire(t) \/ ResolveClaim(t)
    PROVE  Timed'
<1> DEFINE c == loc[t].canvas
<1> DEFINE i == InstanceOf(t)
<1> DEFINE T == Task \ {t}
<1>1. /\ UNCHANGED <<clock, actors, renewers, inner>>
      /\ pc[t] \in {"acquire", "claim"} /\ ~Refused(leases[c], i, clock)
      /\ leases' = [leases EXCEPT ![c] = Granted(i, counter, clock)]
      /\ pc'[t] \in {"spawn", "unclaim"}
      /\ pc'[t] = "spawn" => pc[t] = "acquire"
      /\ loc'[t].canvas = c /\ loc'[t].actor = counter
      /\ counter \in Nat /\ clock \in Nat
  <2>1. /\ pc \in [Task -> Place] /\ loc \in [Task -> Local] /\ loc[t] \in Local
        /\ counter \in Nat /\ clock \in Nat
    BY DEF IInv, Shapes
  <2>2. CASE OpenAcquire(t)
    BY <2>1, <2>2 DEF OpenAcquire, Goto, mapVars, actorVars, Local
  <2>3. CASE ResolveClaim(t)
    BY <2>1, <2>3 DEF ResolveClaim, Goto, mapVars, actorVars, Local
  <2> QED BY <2>2, <2>3
<1>2. c \in Canvas /\ i \in Owner
  BY <1>1 DEF IInv, Steady, Fit
<1>3. \A u \in T : pc'[u] = pc[u] /\ loc'[u] = loc[u]
  BY CallMoves DEF Step
<1>4. ASSUME NEW b \in Actor, Running(b)
      PROVE  actors[b].canvas \in Canvas /\ actors[b].canvas # c
  <2>1. actors[b].canvas \in Canvas
    BY <1>4 DEF IInv, Shapes, State, Running
  <2>2. Promised(actors[b].instance, actors[b].canvas, b) /\ AloneAt(t)
    BY <1>4 DEF Timed, LeasedAt
  <2>3. actors[b].canvas = c => actors[b].instance = i
    BY <1>1, <2>2 DEF Promised, Refused
  <2> QED BY <1>1, <1>4, <2>1, <2>2, <2>3 DEF AloneAt
<1>5. ASSUME NEW u \in T, pc[u] = "spawn"
      PROVE  loc[u].canvas \in Canvas /\ loc[u].canvas # c
  <2>1. AloneAt(u)
    BY DEF Timed
  <2>2. Promised(InstanceOf(u), loc[u].canvas, loc[u].actor)
    BY <1>5, <2>1 DEF AloneAt
  <2>3. InstanceOf(u) # i
    BY <1>5, OnlyTask
  <2>4. loc[u].canvas \in Canvas
    BY <1>5 DEF IInv, Steady, Fit, Building
  <2> QED BY <1>1, <2>2, <2>3, <2>4 DEF Promised, Refused
<1>6. /\ leases'[c] = Granted(i, counter, clock)
      /\ \A d \in Canvas : d # c => leases'[d] = leases[d]
  BY <1>1, <1>2 DEF IInv, Shapes
<1>7. AloneAt(t)'
  <2>1. AloneAt(t)
    BY DEF Timed
  <2>2. pc'[t] = "spawn" =>
           /\ inner'[i][c] = None /\ leases'[c] # NoLease
           /\ leases'[c].owner = i /\ leases'[c].token = <<i, counter>>
           /\ leases'[c].expires_at > clock'
           /\ leases'[c].expires_at = clock' + Ttl
    <3>1. Granted(i, counter, clock) \in LeaseEntry
      BY <1>1, <1>2 DEF Granted, LeaseEntry, Token
    <3>2. Granted(i, counter, clock) # NoLease
      BY <3>1 DEF LeaseEntry, Token
    <3>3. leases'[c] # NoLease /\ clock' = clock
      BY <1>1, <1>6, <3>2
    <3>4. /\ leases'[c].owner = i /\ leases'[c].token = <<i, counter>>
          /\ leases'[c].expires_at = clock + Ttl
      BY <1>6 DEF Granted
    <3>5. clock + Ttl > clock
      BY <1>1
    <3> QED BY <1>1, <2>1, <3>3, <3>4, <3>5 DEF AloneAt
  <2>3. /\ pc'[t] \notin {"acquire", "claim", "insert", "raced", "opened"}
        /\ loc'[t].canvas = c /\ loc'[t].actor = counter
    BY <1>1
  <2> QED BY <2>2, <2>3 DEF AloneAt, Promised
<1>8. /\ \A b \in Actor : LeasedAt(b)' /\ RenewedAt(b)'
      /\ \A u \in T : AloneAt(u)'
  <2>1. \A b \in Actor : Running(b)' => Running(b)
    BY <1>1 DEF Running
  <2>2. /\ \A u \in T : pc[u] = "opened" /\ actors[loc[u].actor].open =>
              actors'[loc[u].actor].open
        /\ \A u \in T : pc[u] = "spawn" =>
              leases'[loc[u].canvas] = leases[loc[u].canvas]
        /\ clock' = clock
    BY <1>1, <1>5, <1>6
  <2>3. \A b \in Actor : Running(b)' =>
           /\ Running(b) /\ actors'[b].canvas = actors[b].canvas
           /\ actors'[b].instance = actors[b].instance
           /\ leases'[actors[b].canvas] = leases[actors[b].canvas]
           /\ renewers'[b] = renewers[b] \/ \E u \in Task : Stopping(u, b)'
    BY <1>1, <1>4, <1>6, <2>1
  <2>4. \A b \in Actor, u \in Task \ T : Stopping(u, b) => ~Running(b)'
    BY <1>1 DEF Stopping
  <2>5. T \in SUBSET Task
    OBVIOUS
  <2>6. \A u \in T : /\ pc'[u] = pc[u] /\ loc'[u] = loc[u]
                     /\ /\ pc[u] \in {"acquire", "spawn", "insert"}
                        /\ inner[InstanceOf(u)][loc[u].canvas] = None
                        => inner'[InstanceOf(u)][loc[u].canvas] = None
    BY <1>1, <1>3
  <2> HIDE DEF T
  <2> QED BY <2>2, <2>3, <2>4, <2>5, <2>6, TimedKept
<1> QED BY <1>7, <1>8 DEF Timed

(* The new actor starts with the lease its task was given in the same tick. *)
LEMMA SpawnTimed ==
    ASSUME IInv, Employed, Serial, Timed, NEW t \in Task, t \in deployed.tasks,
           OpenSpawn(t)
    PROVE  Timed'
<1> DEFINE c == loc[t].canvas
<1> DEFINE i == InstanceOf(t)
<1> DEFINE a == loc[t].actor
<1> DEFINE T == Task \ {t}
<1> DEFINE new == [status |-> "running", instance |-> i, canvas |-> c,
                   seq |-> LastSeq(c), inbox |-> <<>>, open |-> FALSE]
<1>1. /\ UNCHANGED <<clock, leases, inner, loc>>
      /\ pc[t] = "spawn" /\ pc'[t] = "insert"
      /\ actors' = [actors EXCEPT ![a] = new]
      /\ renewers' = [renewers EXCEPT ![a] = clock + Interval]
  BY DEF OpenSpawn, Goto, coordVars, mapVars, IInv, Shapes
<1>2. /\ a \in Actor /\ c \in Canvas /\ i \in Owner /\ actors[a] = NoActor
      /\ clock \in Nat
  BY <1>1 DEF IInv, Shapes, Steady, Fit, Building
<1>3. new.canvas = c /\ new.instance = i
  OBVIOUS
<1> HIDE DEF new
<1>4. /\ actors'[a] = new /\ renewers'[a] = clock + Interval
      /\ \A b \in Actor : b # a =>
            actors'[b] = actors[b] /\ renewers'[b] = renewers[b]
  <2>1. actors = [b \in Actor |-> actors[b]] /\ renewers \in [Actor -> Nat]
    BY DEF IInv, Shapes
  <2> QED BY <1>1, <1>2, <2>1
<1>5. \A u \in T : pc'[u] = pc[u] /\ loc'[u] = loc[u]
  BY CallMoves DEF Step
<1>6. AloneAt(t) /\ Promised(i, c, a) /\ leases[c].expires_at = clock + Ttl
      /\ inner[i][c] = None
  <2>1. AloneAt(t)
    BY DEF Timed
  <2> QED BY <1>1, <2>1 DEF AloneAt
<1>7. LeasedAt(a)' /\ RenewedAt(a)'
  <2>1. Promised(i, c, a)'
    BY <1>1, <1>6 DEF Promised
  <2>2. clock + Interval # 0 /\ clock <= clock + Interval + MaxLate
    BY <1>2
  <2>3. leases[c].expires_at + Interval = clock + Interval + Ttl
    BY <1>2, <1>6
  <2> QED BY <1>1, <1>3, <1>4, <2>1, <2>2, <2>3 DEF LeasedAt, RenewedAt, Promised
<1>8. AloneAt(t)'
  <2>1. /\ pc'[t] \notin {"acquire", "claim", "spawn", "raced", "opened"}
        /\ inner'[i][loc'[t].canvas] = None
    BY <1>1, <1>6
  <2> QED BY <2>1 DEF AloneAt
<1>9. /\ \A b \in Actor \ {a} : LeasedAt(b)' /\ RenewedAt(b)'
      /\ \A u \in T : AloneAt(u)'
  <2>1. \A u \in T : pc[u] = "opened" /\ actors[loc[u].actor].open =>
           actors'[loc[u].actor].open
    <3> SUFFICES ASSUME NEW u \in T, pc[u] = "opened", actors[loc[u].actor].open
                 PROVE  actors'[loc[u].actor].open
      OBVIOUS
    <3>1. loc[u].actor \in Actor /\ loc[u].actor # a
      BY <1>2 DEF IInv, Steady, Fit, Works
    <3> QED BY <1>4, <3>1
  <2>2. \A b \in Actor \ {a} : Running(b)' =>
           /\ Running(b) /\ actors'[b].canvas = actors[b].canvas
           /\ actors'[b].instance = actors[b].instance
           /\ leases'[actors[b].canvas] = leases[actors[b].canvas]
           /\ renewers'[b] = renewers[b] \/ \E u \in Task : Stopping(u, b)'
    BY <1>1, <1>4 DEF Running
  <2>3. \A b \in Actor \ {a}, u \in Task \ T : Stopping(u, b) => ~Running(b)'
    BY <1>1 DEF Stopping
  <2>4. \A b \in Actor \ (Actor \ {a}), u \in T :
           /\ pc[u] \in {"acquire", "claim"}
           /\ Running(b)' /\ actors'[b].instance = InstanceOf(u)
           => actors'[b].canvas # loc[u].canvas
    <3> SUFFICES ASSUME NEW u \in T, pc[u] \in {"acquire", "claim"},
                        actors'[a].instance = InstanceOf(u)
                 PROVE  FALSE
      OBVIOUS
    <3> QED BY <1>3, <1>4, OnlyTask
  <2>5. T \in SUBSET Task /\ Actor \ {a} \in SUBSET Actor
    OBVIOUS
  <2>6. \A u \in T : /\ pc'[u] = pc[u] /\ loc'[u] = loc[u]
                     /\ /\ pc[u] \in {"acquire", "spawn", "insert"}
                        /\ inner[InstanceOf(u)][loc[u].canvas] = None
                        => inner'[InstanceOf(u)][loc[u].canvas] = None
    BY <1>1, <1>5
  <2>7. clock' = clock /\ \A u \in T : pc[u] = "spawn" =>
           leases'[loc[u].canvas] = leases[loc[u].canvas]
    BY <1>1
  <2> HIDE DEF T, a
  <2> QED BY <2>1, <2>2, <2>3, <2>4, <2>5, <2>6, <2>7, TimedKept
<1> QED BY <1>1, <1>7, <1>8, <1>9 DEF Timed

(* The map takes the new actor in, and nothing races. *)
LEMMA InsertTimed ==
    ASSUME IInv, Employed, Serial, Timed, NEW t \in Task, t \in deployed.tasks,
           OpenInsert(t) \/ OpenRacedOut(t) \/ OpenRacedRelease(t)
    PROVE  Timed'
<1> DEFINE a == loc[t].actor
<1> DEFINE T == Task \ {t}
<1>1. OpenInsert(t)
  <2>1. AloneAt(t)
    BY DEF Timed
  <2> QED BY <2>1 DEF AloneAt, OpenRacedOut, OpenRacedRelease
<1>2. /\ UNCHANGED <<clock, leases, loc, renewers>>
      /\ pc[t] = "insert" /\ pc'[t] = "opened"
      /\ actors' = [actors EXCEPT ![a].open = TRUE]
      /\ inner' = [inner EXCEPT ![InstanceOf(t)][loc[t].canvas] = a]
      /\ inner \in [Owner -> [Canvas -> Actor \cup {None}]]
  BY <1>1 DEF OpenInsert, Goto, coordVars, IInv, Shapes
<1>3. a \in Actor /\ actors[a] # NoActor
  BY <1>2 DEF IInv, Steady, Fit, Works, Building
<1>4. actors[a] \in State(actors[a].seq) /\ actors = [b \in Actor |-> actors[b]]
  BY <1>3 DEF IInv, Shapes
<1>5. /\ actors'[a] = [actors[a] EXCEPT !.open = TRUE]
      /\ \A b \in Actor : b # a => actors'[b] = actors[b]
  BY <1>2, <1>3, <1>4
<1>6. /\ actors'[a].open /\ actors'[a].status = actors[a].status
      /\ actors'[a].canvas = actors[a].canvas
      /\ actors'[a].instance = actors[a].instance
  BY <1>4, <1>5 DEF State
<1>7. \A u \in T : pc'[u] = pc[u] /\ loc'[u] = loc[u]
  BY <1>1, CallMoves DEF Step
<1>8. AloneAt(t)'
  BY <1>2, <1>6 DEF AloneAt
<1>9. /\ \A b \in Actor : LeasedAt(b)' /\ RenewedAt(b)'
      /\ \A u \in T : AloneAt(u)'
  <2>1. \A u \in T : pc[u] = "opened" /\ actors[loc[u].actor].open =>
           actors'[loc[u].actor].open
    <3>1. \A u \in T : pc[u] = "opened" => loc[u].actor \in Actor
      BY DEF IInv, Steady, Fit
    <3> QED BY <1>5, <1>6, <3>1
  <2>2. \A b \in Actor : Running(b)' =>
           /\ Running(b) /\ actors'[b].canvas = actors[b].canvas
           /\ actors'[b].instance = actors[b].instance
           /\ leases'[actors[b].canvas] = leases[actors[b].canvas]
           /\ renewers'[b] = renewers[b] \/ \E u \in Task : Stopping(u, b)'
    BY <1>2, <1>3, <1>5, <1>6 DEF Running
  <2>3. \A b \in Actor, u \in Task \ T : Stopping(u, b) => ~Running(b)'
    BY <1>2 DEF Stopping
  <2>5. T \in SUBSET Task
    OBVIOUS
  <2>6. \A u \in T : /\ pc'[u] = pc[u] /\ loc'[u] = loc[u]
                     /\ /\ pc[u] \in {"acquire", "spawn", "insert"}
                        /\ inner[InstanceOf(u)][loc[u].canvas] = None
                        => inner'[InstanceOf(u)][loc[u].canvas] = None
    <3> SUFFICES ASSUME NEW u \in T, pc[u] \in {"acquire", "spawn", "insert"},
                        inner[InstanceOf(u)][loc[u].canvas] = None
                 PROVE  inner'[InstanceOf(u)][loc[u].canvas] = None
      BY <1>7
    <3>1. InstanceOf(u) # InstanceOf(t) /\ InstanceOf(u) \in Owner
      BY OnlyTask
    <3> QED BY <1>2, <3>1
  <2>7. clock' = clock /\ \A u \in T : pc[u] = "spawn" =>
           leases'[loc[u].canvas] = leases[loc[u].canvas]
    BY <1>2
  <2> HIDE DEF T, a
  <2> QED BY <2>1, <2>2, <2>3, <2>5, <2>6, <2>7, TimedKept
<1> QED BY <1>8, <1>9 DEF Timed

(* Nobody renews the lease from now on, and its actor is about to stop. *)
LEMMA TeardownStopTimed ==
    ASSUME IInv, Employed, Serial, Timed, NEW t \in Task, t \in deployed.tasks,
           TeardownStop(t)
    PROVE  Timed'
<1> DEFINE a == Head(loc[t].todo)[2]
<1> DEFINE T == Task \ {t}
<1>1. /\ UNCHANGED <<clock, leases, loc, inner>>
      /\ pc[t] = "teardown" /\ pc'[t] = "stopping" /\ loc[t].todo # <<>>
      /\ actors' = [actors EXCEPT ![a].inbox = Append(@, "shutdown")]
      /\ renewers' = [renewers EXCEPT ![a] = None]
      /\ renewers \in [Actor -> Nat]
  BY DEF TeardownStop, Goto, coordVars, mapVars, IInv, Shapes
<1>2. a \in Actor /\ actors[a] # NoActor
  BY <1>1, FirstEntry DEF Works
<1>3. actors[a] \in State(actors[a].seq) /\ actors = [b \in Actor |-> actors[b]]
  BY <1>2 DEF IInv, Shapes
<1> HIDE DEF a
<1>4. /\ actors'[a] = [actors[a] EXCEPT !.inbox = Append(actors[a].inbox, "shutdown")]
      /\ \A b \in Actor : b # a =>
            actors'[b] = actors[b] /\ renewers'[b] = renewers[b]
  BY <1>1, <1>2, <1>3
<1>5. /\ actors'[a].status = actors[a].status
      /\ actors'[a].canvas = actors[a].canvas
      /\ actors'[a].instance = actors[a].instance
      /\ actors'[a].open = actors[a].open
  BY <1>3, <1>4 DEF State
<1>6. \A u \in T : pc'[u] = pc[u] /\ loc'[u] = loc[u]
  BY CallMoves DEF Step
<1>7. AloneAt(t)'
  BY <1>1 DEF AloneAt
<1>8. \A b \in Actor : b = a => Stopping(t, b)'
  BY <1>1 DEF Stopping, a
<1>9. /\ \A b \in Actor : LeasedAt(b)' /\ RenewedAt(b)'
      /\ \A u \in T : AloneAt(u)'
  <2>1. \A u \in T : pc[u] = "opened" /\ actors[loc[u].actor].open =>
           actors'[loc[u].actor].open
    <3>1. \A u \in T : pc[u] = "opened" => loc[u].actor \in Actor
      BY DEF IInv, Steady, Fit
    <3> QED BY <1>4, <1>5, <3>1
  <2>2. ASSUME NEW b \in Actor, Running(b)'
        PROVE  /\ Running(b) /\ actors'[b].canvas = actors[b].canvas
               /\ actors'[b].instance = actors[b].instance
               /\ leases'[actors[b].canvas] = leases[actors[b].canvas]
               /\ renewers'[b] = renewers[b] \/ \E u \in Task : Stopping(u, b)'
    <3>1. CASE b = a
      BY <1>1, <1>2, <1>5, <1>8, <2>2, <3>1 DEF Running
    <3>2. CASE b # a
      BY <1>1, <1>4, <2>2, <3>2 DEF Running
    <3> QED BY <3>1, <3>2
  <2>3. \A b \in Actor, u \in Task \ T : Stopping(u, b) => ~Running(b)'
    BY <1>1 DEF Stopping
  <2>5. T \in SUBSET Task
    OBVIOUS
  <2>6. \A u \in T : /\ pc'[u] = pc[u] /\ loc'[u] = loc[u]
                     /\ /\ pc[u] \in {"acquire", "spawn", "insert"}
                        /\ inner[InstanceOf(u)][loc[u].canvas] = None
                        => inner'[InstanceOf(u)][loc[u].canvas] = None
    BY <1>1, <1>6
  <2>7. clock' = clock /\ \A u \in T : pc[u] = "spawn" =>
           leases'[loc[u].canvas] = leases[loc[u].canvas]
    BY <1>1
  <2> HIDE DEF T
  <2> QED BY <2>1, <2>2, <2>3, <2>5, <2>6, <2>7, TimedKept
<1> QED BY <1>7, <1>9 DEF Timed

(* Only the lease of an actor that has stopped, or never ran, is released. *)
LEMMA ReleaseTimed ==
    ASSUME IInv, Employed, Serial, Timed, NEW t \in Task, t \in deployed.tasks,
           TeardownRelease(t) \/ ResolveUnclaim(t)
    PROVE  Timed'
<1> DEFINE a == IF TeardownRelease(t) THEN Head(loc[t].todo)[2] ELSE loc[t].actor
<1> DEFINE c == IF TeardownRelease(t) THEN Head(loc[t].todo)[1] ELSE loc[t].canvas
<1> DEFINE i == InstanceOf(t)
<1> DEFINE T == Task \ {t}
<1>1. /\ UNCHANGED <<clock, inner, actors, renewers>>
      /\ ReleaseLease(i, c, a)
      /\ pc'[t] \in {"teardown", "idle"}
      /\ ~Running(a) /\ c \in Canvas /\ a \in Actor
      /\ Stopping(t, a) \/ pc[t] # "stopping"
  <2>1. pc \in [Task -> Place]
    BY DEF IInv, Shapes
  <2>2. CASE TeardownRelease(t)
    <3>1. loc[t].todo # <<>>
      BY <2>2 DEF TeardownRelease, IInv, Steady, Fit
    <3>2. Head(loc[t].todo)[1] \in Canvas /\ Head(loc[t].todo)[2] \in Actor
      BY <3>1, FirstEntry
    <3> QED BY <2>1, <2>2, <3>1, <3>2 DEF TeardownRelease, Goto, actorVars, Stopping
  <2>3. CASE ~TeardownRelease(t)
    <3>1. ResolveUnclaim(t) /\ pc[t] = "unclaim"
      BY <2>3 DEF ResolveUnclaim
    <3>2. /\ loc[t].canvas \in Canvas /\ loc[t].actor \in Actor
          /\ actors[loc[t].actor] = NoActor
      BY <3>1 DEF IInv, Steady, Fit, Building
    <3> QED BY <2>1, <2>3, <3>1, <3>2 DEF ResolveUnclaim, Goto, actorVars, Running
  <2> QED BY <2>2, <2>3
<1> HIDE DEF a, c
<1>2. \A u \in T : pc'[u] = pc[u] /\ loc'[u] = loc[u]
  BY CallMoves DEF Step
<1>3. ASSUME NEW d \in Canvas, leases[d].token # <<i, a>> \/ leases[d] = NoLease
      PROVE  leases'[d] = leases[d]
  BY <1>1, <1>3 DEF ReleaseLease, LeaseToken, Matches, IInv, Shapes
<1>4. ASSUME NEW b \in Actor, Running(b)
      PROVE  leases'[actors[b].canvas] = leases[actors[b].canvas]
  <2>1. actors[b].canvas \in Canvas
    BY <1>4 DEF IInv, Shapes, State, Running
  <2>2. Promised(actors[b].instance, actors[b].canvas, b)
    BY <1>4 DEF Timed, LeasedAt
  <2>3. b # a
    BY <1>1, <1>4
  <2> QED BY <1>3, <2>1, <2>2, <2>3 DEF Promised
<1>5. ASSUME NEW u \in T, pc[u] = "spawn"
      PROVE  leases'[loc[u].canvas] = leases[loc[u].canvas]
  <2>1. AloneAt(u)
    BY DEF Timed
  <2>2. Promised(InstanceOf(u), loc[u].canvas, loc[u].actor)
    BY <1>5, <2>1 DEF AloneAt
  <2>3. InstanceOf(u) # i
    BY <1>5, OnlyTask
  <2>4. loc[u].canvas \in Canvas
    BY <1>5 DEF IInv, Steady, Fit, Building
  <2> QED BY <1>3, <2>2, <2>3, <2>4 DEF Promised
<1>6. AloneAt(t)'
  BY <1>1 DEF AloneAt
<1>7. /\ \A b \in Actor : LeasedAt(b)' /\ RenewedAt(b)'
      /\ \A u \in T : AloneAt(u)'
  <2>1. \A u \in T : pc[u] = "opened" /\ actors[loc[u].actor].open =>
           actors'[loc[u].actor].open
    BY <1>1
  <2>2. \A b \in Actor : Running(b)' => Running(b)
    BY <1>1 DEF Running
  <2>3. \A b \in Actor : Running(b)' =>
           /\ Running(b) /\ actors'[b].canvas = actors[b].canvas
           /\ actors'[b].instance = actors[b].instance
           /\ leases'[actors[b].canvas] = leases[actors[b].canvas]
           /\ renewers'[b] = renewers[b] \/ \E u \in Task : Stopping(u, b)'
    BY <1>1, <1>4, <2>2
  <2>4. \A b \in Actor, u \in Task \ T : Stopping(u, b) => ~Running(b)'
    BY <1>1, <2>2 DEF Stopping
  <2>5. T \in SUBSET Task
    OBVIOUS
  <2>6. \A u \in T : /\ pc'[u] = pc[u] /\ loc'[u] = loc[u]
                     /\ /\ pc[u] \in {"acquire", "spawn", "insert"}
                        /\ inner[InstanceOf(u)][loc[u].canvas] = None
                        => inner'[InstanceOf(u)][loc[u].canvas] = None
    BY <1>1, <1>2
  <2>7. clock' = clock /\ \A u \in T : pc[u] = "spawn" =>
           leases'[loc[u].canvas] = leases[loc[u].canvas]
    BY <1>1, <1>5
  <2> HIDE DEF T
  <2> QED BY <2>1, <2>3, <2>4, <2>5, <2>6, <2>7, TimedKept
<1> QED BY <1>6, <1>7 DEF Timed

(* What clients and the actor task do touches one running actor. *)
LEMMA OneActor ==
    ASSUME IInv, NEW a \in Actor,
           ClientSend(a) \/ ActorApply(a) \/ ActorStop(a)
    PROVE  /\ UNCHANGED <<clock, leases, inner, renewers, pc, loc>>
           /\ Running(a) /\ actors[a] \in State(actors[a].seq)
           /\ \A b \in Actor : b # a => actors'[b] = actors[b]
           /\ actors'[a].canvas = actors[a].canvas
           /\ actors'[a].instance = actors[a].instance
           /\ actors'[a].open = actors[a].open
<1>1. /\ Running(a) /\ actors[a] \in State(actors[a].seq)
      /\ actors = [b \in Actor |-> actors[b]]
  BY DEF ClientSend, ActorApply, ActorStop, Running, IInv, Shapes
<1>2. UNCHANGED <<clock, leases, inner, renewers, pc, loc>>
  BY DEF ClientSend, ActorApply, ActorStop, coordVars, mapVars
<1>3. CASE ClientSend(a)
  <2>1. actors' = [actors EXCEPT ![a].inbox = Append(@, "op")]
    BY <1>3 DEF ClientSend
  <2>2. /\ actors'[a] = [actors[a] EXCEPT !.inbox = Append(actors[a].inbox, "op")]
        /\ \A b \in Actor : b # a => actors'[b] = actors[b]
    BY <1>1, <2>1
  <2> QED BY <1>1, <1>2, <2>2 DEF State
<1>4. CASE ActorApply(a)
  <2>1. actors' = [actors EXCEPT ![a].inbox = Tail(@), ![a].seq = actors[a].seq + 1]
    BY <1>4 DEF ActorApply
  <2>2. /\ actors'[a] = [actors[a] EXCEPT !.inbox = Tail(actors[a].inbox),
                                          !.seq = actors[a].seq + 1]
        /\ \A b \in Actor : b # a => actors'[b] = actors[b]
    BY <1>1, <2>1
  <2> QED BY <1>1, <1>2, <2>2 DEF State
<1>5. CASE ActorStop(a)
  <2>1. actors' = [actors EXCEPT ![a].inbox = <<>>, ![a].status = "stopped"]
    BY <1>5 DEF ActorStop
  <2>2. /\ actors'[a] = [actors[a] EXCEPT !.inbox = <<>>, !.status = "stopped"]
        /\ \A b \in Actor : b # a => actors'[b] = actors[b]
    BY <1>1, <2>1
  <2> QED BY <1>1, <1>2, <2>2 DEF State
<1> QED BY <1>3, <1>4, <1>5

(* An actor that stops, or takes a message, leaves the leases in time. *)
LEMMA ActorTimed ==
    ASSUME IInv, Timed, NEW a \in Actor,
           ClientSend(a) \/ ActorApply(a) \/ ActorStop(a)
    PROVE  Timed'
<1> DEFINE T == Task
<1>1. /\ UNCHANGED <<clock, leases, inner, renewers, pc, loc>>
      /\ Running(a)
      /\ \A b \in Actor : b # a => actors'[b] = actors[b]
      /\ actors'[a].canvas = actors[a].canvas
      /\ actors'[a].instance = actors[a].instance
      /\ actors'[a].open = actors[a].open
  BY OneActor
<1>2. \A u \in T : pc[u] = "opened" /\ actors[loc[u].actor].open =>
         actors'[loc[u].actor].open
  <2>1. \A u \in Task : pc[u] = "opened" => loc[u].actor \in Actor
    BY DEF IInv, Steady, Fit
  <2> QED BY <1>1, <2>1
<1>3. ASSUME NEW b \in Actor, Running(b)'
      PROVE  /\ Running(b) /\ actors'[b].canvas = actors[b].canvas
             /\ actors'[b].instance = actors[b].instance
             /\ leases'[actors[b].canvas] = leases[actors[b].canvas]
             /\ renewers'[b] = renewers[b] \/ \E u \in Task : Stopping(u, b)'
  BY <1>1, <1>3 DEF Running
<1>4. /\ \A u \in T :
            /\ pc'[u] = pc[u] /\ loc'[u] = loc[u]
            /\ /\ pc[u] \in {"acquire", "spawn", "insert"}
               /\ inner[InstanceOf(u)][loc[u].canvas] = None
               => inner'[InstanceOf(u)][loc[u].canvas] = None
      /\ clock' = clock
      /\ \A u \in T : pc[u] = "spawn" =>
            leases'[loc[u].canvas] = leases[loc[u].canvas]
  BY <1>1
<1>5. /\ \A b \in Actor : LeasedAt(b)' /\ RenewedAt(b)'
      /\ \A u \in T : AloneAt(u)'
  <2>1. T \in SUBSET Task /\ \A u \in Task : u \in T
    OBVIOUS
  <2> HIDE DEF T
  <2> QED BY <1>2, <1>3, <1>4, <2>1, TimedKept
<1> QED BY <1>5 DEF Timed

(* A running actor's renewal succeeds, and no other lease is touched. *)
LEMMA RenewTimed ==
    ASSUME IInv, Timed, NEW a \in Actor, Renew(a)
    PROVE  Timed'
<1> DEFINE c == actors[a].canvas
<1> DEFINE A == Actor \ {a}
<1> DEFINE T == Task
<1> DEFINE token == <<actors[a].instance, a>>
<1>1. /\ UNCHANGED <<clock, inner, actors, pc, loc>> /\ renewers[a] # None
      /\ clock \in Nat /\ renewers \in [Actor -> Nat]
      /\ leases \in [Canvas -> LeaseEntry \cup {NoLease}]
  BY DEF Renew, mapVars, IInv, Shapes
<1>2. actors[a] # NoActor /\ c \in Canvas
  <2>1. actors[a] # NoActor
    BY <1>1 DEF IInv, Answered
  <2> QED BY <2>1 DEF IInv, Shapes, State
<1>3. /\ Renewable(leases[c], token, clock) =>
            /\ leases' = [leases EXCEPT ![c].expires_at = clock + Ttl]
            /\ renewers' = [renewers EXCEPT ![a] = clock + Interval]
      /\ ~Renewable(leases[c], token, clock) =>
            /\ leases' = leases /\ renewers' = [renewers EXCEPT ![a] = None]
  BY DEF Renew, LeaseToken
<1> HIDE DEF token, c
<1>4. Running(a) => Renewable(leases[c], token, clock)
  BY DEF Timed, LeasedAt, Promised, Renewable, Matches, token, c
<1>5. /\ \A b \in Actor : b # a => renewers'[b] = renewers[b]
      /\ \A d \in Canvas : d # c \/ leases[c].token # token =>
            leases'[d] = leases[d]
  BY <1>1, <1>2, <1>3 DEF Renewable, Matches
<1>6. ASSUME Running(a) PROVE LeasedAt(a)' /\ RenewedAt(a)'
  <2>1. /\ leases[c] # NoLease /\ leases[c].owner = actors[a].instance
        /\ leases[c].token = <<actors[a].instance, a>>
        /\ leases[c] \in LeaseEntry
    BY <1>1, <1>2, <1>6 DEF Timed, LeasedAt, Promised, c
  <2>2. /\ leases'[c] = [leases[c] EXCEPT !.expires_at = clock + Ttl]
        /\ renewers'[a] = clock + Interval
    BY <1>1, <1>2, <1>3, <1>4, <1>6
  <2>3. /\ leases'[c] \in LeaseEntry /\ leases'[c].owner = leases[c].owner
        /\ leases'[c].token = leases[c].token
        /\ leases'[c].expires_at = clock + Ttl
    <3>1. clock + Ttl \in Nat
      BY <1>1
    <3> QED BY <2>1, <2>2, <3>1 DEF LeaseEntry
  <2>4. leases'[c] # NoLease
    BY <2>3 DEF LeaseEntry, Token
  <2>5. actors' = actors /\ clock' = clock
    BY <1>1
  <2>6. Promised(actors[a].instance, actors[a].canvas, a)'
    BY <1>1, <2>1, <2>3, <2>4, <2>5 DEF Promised, c
  <2>7. /\ renewers'[a] # None /\ clock' <= renewers'[a] + MaxLate
        /\ leases'[actors'[a].canvas].expires_at + Interval
              = renewers'[a] + Ttl
    BY <1>1, <2>2, <2>3, <2>5 DEF c
  <2> QED BY <2>6, <2>7 DEF LeasedAt, RenewedAt
<1>7. LeasedAt(a)' /\ RenewedAt(a)'
  BY <1>1, <1>6 DEF LeasedAt, RenewedAt, Running
<1>8. /\ \A b \in A : LeasedAt(b)' /\ RenewedAt(b)'
      /\ \A u \in T : AloneAt(u)'
  <2>1. ASSUME NEW b \in A, Running(b)'
        PROVE  /\ Running(b) /\ actors'[b].canvas = actors[b].canvas
               /\ actors'[b].instance = actors[b].instance
               /\ leases'[actors[b].canvas] = leases[actors[b].canvas]
               /\ renewers'[b] = renewers[b] \/ \E u \in Task : Stopping(u, b)'
    <3>1. Running(b) /\ actors[b].canvas \in Canvas
      BY <1>1, <2>1 DEF Running, IInv, Shapes, State
    <3>2. Promised(actors[b].instance, actors[b].canvas, b)
      BY <3>1 DEF Timed, LeasedAt
    <3>3. leases[actors[b].canvas].token # token
      BY <3>2 DEF Promised, token
    <3> QED BY <1>1, <1>5, <3>1, <3>3
  <2>2. ASSUME NEW u \in T, pc[u] = "spawn"
        PROVE  leases'[loc[u].canvas] = leases[loc[u].canvas]
    <3>1. /\ loc[u].canvas \in Canvas /\ actors[loc[u].actor] = NoActor
          /\ AloneAt(u)
      BY <2>2 DEF IInv, Steady, Fit, Building, Timed
    <3>2. Promised(InstanceOf(u), loc[u].canvas, loc[u].actor)
      BY <2>2, <3>1 DEF AloneAt
    <3>3. leases[loc[u].canvas].token # token
      BY <1>2, <3>1, <3>2 DEF Promised, token
    <3> QED BY <1>5, <3>1, <3>3
  <2>3. \A b \in Actor \ A, u \in T :
           /\ pc[u] \in {"acquire", "claim"}
           /\ Running(b)' /\ actors'[b].instance = InstanceOf(u)
           => actors'[b].canvas # loc[u].canvas
    <3>1. \A b \in Actor : Running(b)' => Running(b)
      BY <1>1 DEF Running
    <3> QED BY <1>1, <3>1 DEF Timed, AloneAt
  <2>4. /\ \A u \in T :
              /\ pc'[u] = pc[u] /\ loc'[u] = loc[u]
              /\ /\ pc[u] \in {"acquire", "spawn", "insert"}
                 /\ inner[InstanceOf(u)][loc[u].canvas] = None
                 => inner'[InstanceOf(u)][loc[u].canvas] = None
        /\ clock' = clock
        /\ \A u \in T : pc[u] = "opened" /\ actors[loc[u].actor].open =>
              actors'[loc[u].actor].open
    BY <1>1
  <2>5. A \in SUBSET Actor /\ T \in SUBSET Task /\ Task \ T = {}
    OBVIOUS
  <2> HIDE DEF A, T
  <2> QED BY <2>1, <2>2, <2>3, <2>4, <2>5, TimedKept
<1> QED BY <1>7, <1>8 DEF Timed

(* A tick leaves every running actor a live lease: its renewal is due first. *)
LEMMA TickTimed ==
    ASSUME IInv, Timed, Tick
    PROVE  Timed'
<1>1. /\ UNCHANGED <<leases, inner, actors, renewers, pc, loc>>
      /\ clock' = clock + 1 /\ clock \in Nat /\ renewers \in [Actor -> Nat]
      /\ \A t \in Task : pc[t] \notin {"spawn", "stopping", "unclaim"}
      /\ \A a \in Actor : renewers[a] # None => clock < renewers[a] + MaxLate
  BY DEF Tick, mapVars, actorVars, IInv, Shapes
<1>2. ASSUME NEW a \in Actor PROVE LeasedAt(a)' /\ RenewedAt(a)'
  <2> SUFFICES ASSUME Running(a) PROVE LeasedAt(a)' /\ RenewedAt(a)'
    BY <1>1 DEF LeasedAt, RenewedAt, Running
  <2>1. ~\E t \in Task : Stopping(t, a)
    BY <1>1 DEF Stopping
  <2>2. /\ renewers[a] # None /\ renewers[a] \in Nat
        /\ leases[actors[a].canvas].expires_at + Interval = renewers[a] + Ttl
        /\ Promised(actors[a].instance, actors[a].canvas, a)
    BY <1>1, <2>1 DEF Timed, LeasedAt, RenewedAt
  <2>3. leases[actors[a].canvas].expires_at \in Nat
    BY <2>2 DEF IInv, Shapes, State, Running, Promised, LeaseEntry
  <2>4. clock < renewers[a] + MaxLate
    BY <1>1, <2>2
  <2>5. /\ clock' <= renewers[a] + MaxLate
        /\ leases[actors[a].canvas].expires_at > clock'
    <3>1. clock' = clock + 1 /\ clock \in Nat /\ renewers[a] \in Nat
      BY <1>1
    <3> HIDE DEF Actor, None
    <3> QED BY <2>2, <2>3, <2>4, <3>1
  <2>6. Promised(actors[a].instance, actors[a].canvas, a)'
    BY <1>1, <2>2, <2>5 DEF Promised
  <2> QED BY <1>1, <2>2, <2>5, <2>6 DEF LeasedAt, RenewedAt
<1>3. ASSUME NEW u \in Task PROVE AloneAt(u)'
  <2>1. AloneAt(u) /\ pc[u] # "spawn"
    BY <1>1 DEF Timed
  <2> QED BY <1>1, <2>1 DEF AloneAt, Running
<1> QED BY <1>2, <1>3 DEF Timed

(* The actors and tasks of a crashed instance are gone, the others keep their
   leases.                                                                 *)
LEMMA CrashTimed ==
    ASSUME IInv, Timed, NEW i \in Owner, Crash(i)
    PROVE  Timed'
<1> DEFINE T == {u \in Task : InstanceOf(u) # i}
<1>1. /\ UNCHANGED <<clock, leases>>
      /\ inner' = [inner EXCEPT ![i] = [c \in Canvas |-> None]]
      /\ actors' = [a \in Actor |->
                      IF Running(a) /\ actors[a].instance = i
                      THEN [actors[a] EXCEPT !.status = "stopped", !.inbox = <<>>]
                      ELSE actors[a]]
      /\ renewers' = [a \in Actor |->
                        IF actors[a] # NoActor /\ actors[a].instance = i
                        THEN None ELSE renewers[a]]
      /\ \A u \in T : pc'[u] = pc[u] /\ loc'[u] = loc[u]
      /\ \A u \in Task \ T : pc'[u] = "dead"
      /\ inner \in [Owner -> [Canvas -> Actor \cup {None}]]
  BY DEF Crash, coordVars, IInv, Shapes
<1>2. ASSUME NEW b \in Actor
      PROVE  /\ Running(b)' => /\ Running(b) /\ actors[b].instance # i
                               /\ actors'[b] = actors[b]
                               /\ renewers'[b] = renewers[b]
             /\ actors[b] # NoActor => actors'[b].open = actors[b].open
  <2>1. CASE Running(b) /\ actors[b].instance = i
    <3>1. actors'[b] = [actors[b] EXCEPT !.status = "stopped", !.inbox = <<>>]
      BY <1>1, <2>1
    <3>2. actors[b] \in State(actors[b].seq)
      BY <2>1 DEF IInv, Shapes, Running
    <3>3. actors'[b].status = "stopped" /\ actors'[b].open = actors[b].open
      BY <3>1, <3>2 DEF State
    <3> QED BY <3>3 DEF Running
  <2>2. CASE ~(Running(b) /\ actors[b].instance = i)
    <3>1. actors'[b] = actors[b]
      BY <1>1, <2>2
    <3> QED BY <1>1, <2>2, <3>1 DEF Running
  <2> QED BY <2>1, <2>2
<1>3. \A u \in Task \ T : AloneAt(u)'
  BY <1>1 DEF AloneAt
<1>4. /\ \A b \in Actor : LeasedAt(b)' /\ RenewedAt(b)'
      /\ \A u \in T : AloneAt(u)'
  <2>1. \A u \in T : pc[u] = "opened" /\ actors[loc[u].actor].open =>
           actors'[loc[u].actor].open
    <3>1. \A u \in T : pc[u] = "opened" =>
             loc[u].actor \in Actor /\ actors[loc[u].actor] # NoActor
      BY DEF IInv, Steady, Fit, Works
    <3> QED BY <1>2, <3>1
  <2>2. \A b \in Actor : Running(b)' =>
           /\ Running(b) /\ actors'[b].canvas = actors[b].canvas
           /\ actors'[b].instance = actors[b].instance
           /\ leases'[actors[b].canvas] = leases[actors[b].canvas]
           /\ renewers'[b] = renewers[b] \/ \E u \in Task : Stopping(u, b)'
    BY <1>1, <1>2
  <2>3. ASSUME NEW b \in Actor, NEW u \in Task \ T, Stopping(u, b)
        PROVE  ~Running(b)'
    <3>1. Works(b, i, Head(loc[u].todo)[1])
      BY <2>3, FirstEntry DEF Stopping
    <3> QED BY <1>2, <3>1 DEF Works
  <2>4. T \in SUBSET Task
    OBVIOUS
  <2>5. \A u \in T : /\ pc'[u] = pc[u] /\ loc'[u] = loc[u]
                     /\ /\ pc[u] \in {"acquire", "spawn", "insert"}
                        /\ inner[InstanceOf(u)][loc[u].canvas] = None
                        => inner'[InstanceOf(u)][loc[u].canvas] = None
    <3>1. \A u \in T : InstanceOf(u) \in Owner /\ InstanceOf(u) # i
      OBVIOUS
    <3>2. \A j \in Owner : j # i => inner'[j] = inner[j]
      BY <1>1
    <3> QED BY <1>1, <3>1, <3>2
  <2>6. clock' = clock /\ \A u \in T : pc[u] = "spawn" =>
           leases'[loc[u].canvas] = leases[loc[u].canvas]
    BY <1>1
  <2> HIDE DEF T
  <2> QED BY <2>1, <2>2, <2>3, <2>4, <2>5, <2>6, TimedKept
<1> QED BY <1>3, <1>4 DEF Timed

-----------------------------------------------------------------------------

(* Other tasks make no calls. *)
LEMMA EmployedKept ==
    ASSUME IInv, Employed, [Next]_vars
    PROVE  Employed'
<1>1. CASE Next
  <2>1. deployed' = deployed /\ deployed.tasks \subseteq Task
    <3>1. deployed \in [tasks : SUBSET Task, crashes : BOOLEAN, clock : 0..MaxClock,
                        leases : 0..MaxActors, ops : 0..MaxSeq]
      BY DEF IInv, Shapes
    <3> QED BY <1>1, <3>1 DEF Next
  <2>2. ASSUME NEW t \in deployed.tasks, Call(t) \/ Step(t) PROVE Employed'
    BY <2>1, <2>2, CallMoves DEF Employed
  <2>3. ASSUME NEW a \in Actor, ClientSend(a) \/ ActorStep(a) \/ Renew(a)
        PROVE  Employed'
    <3>1. pc' = pc
      BY <2>3 DEF ClientSend, ActorStep, ActorApply, ActorStop, Renew
    <3> QED BY <2>1, <3>1 DEF Employed
  <2>4. CASE Tick
    BY <2>1, <2>4 DEF Tick, Employed
  <2>5. ASSUME NEW i \in Owner, Crash(i) PROVE Employed'
    BY <2>1, <2>5 DEF Crash, Employed
  <2>6. \A t \in deployed.tasks : InstanceOf(t) \in Owner
    BY <2>1
  <2> QED BY <1>1, <2>2, <2>3, <2>4, <2>5, <2>6 DEF Next
<1>2. CASE UNCHANGED vars
  BY <1>2 DEF vars, Employed
<1> QED BY <1>1, <1>2

(* A step stops actors or queues their Shutdown, and is not a new actor's. *)
Quieter ==
    \A b \in Actor : Running(b)' =>
        /\ Running(b) /\ actors'[b].canvas = actors[b].canvas
        /\ actors'[b].seq = actors[b].seq
        /\ \/ actors'[b].inbox = actors[b].inbox
           \/ actors'[b].inbox = Append(actors[b].inbox, "shutdown")

(* What tasks do to actors, but for the spawn of a new one. *)
LEMMA TaskQuieter ==
    ASSUME IInv, NEW t \in Task, Call(t) \/ Step(t), ~OpenSpawn(t)
    PROVE  Quieter
<1>1. CASE actors' = actors
  BY <1>1 DEF Quieter, Running
<1>2. ASSUME NEW a \in Actor, actors[a] # NoActor,
             actors' = [actors EXCEPT ![a].inbox = Append(@, "shutdown")]
      PROVE  Quieter
  <2>1. actors = [b \in Actor |-> actors[b]] /\ actors[a] \in State(actors[a].seq)
    BY <1>2 DEF IInv, Shapes
  <2>2. /\ actors'[a] = [actors[a] EXCEPT !.inbox = Append(actors[a].inbox, "shutdown")]
        /\ \A b \in Actor : b # a => actors'[b] = actors[b]
    BY <1>2, <2>1
  <2>3. /\ actors'[a].status = actors[a].status
        /\ actors'[a].canvas = actors[a].canvas /\ actors'[a].seq = actors[a].seq
        /\ actors'[a].inbox = Append(actors[a].inbox, "shutdown")
    BY <2>1, <2>2 DEF State
  <2> QED BY <1>2, <2>2, <2>3 DEF Quieter, Running
<1>3. CASE OpenInsert(t)
  <2>1. /\ actors' = [actors EXCEPT ![loc[t].actor].open = TRUE]
        /\ loc[t].actor \in Actor /\ actors[loc[t].actor] # NoActor
    BY <1>3 DEF OpenInsert, IInv, Steady, Fit, Works, Building
  <2>2. /\ actors = [b \in Actor |-> actors[b]]
        /\ actors[loc[t].actor] \in State(actors[loc[t].actor].seq)
    BY <2>1 DEF IInv, Shapes
  <2>3. /\ actors'[loc[t].actor] = [actors[loc[t].actor] EXCEPT !.open = TRUE]
        /\ \A b \in Actor : b # loc[t].actor => actors'[b] = actors[b]
    BY <2>1, <2>2
  <2>4. /\ actors'[loc[t].actor].status = actors[loc[t].actor].status
        /\ actors'[loc[t].actor].canvas = actors[loc[t].actor].canvas
        /\ actors'[loc[t].actor].seq = actors[loc[t].actor].seq
        /\ actors'[loc[t].actor].inbox = actors[loc[t].actor].inbox
    BY <2>2, <2>3 DEF State
  <2> QED BY <2>1, <2>3, <2>4 DEF Quieter, Running
<1>4. CASE OpenRacedOut(t)
  <2>1. loc[t].actor \in Actor /\ actors[loc[t].actor] # NoActor
    BY <1>4 DEF OpenRacedOut, IInv, Steady, Fit, Works, Building
  <2> QED BY <1>2, <1>4, <2>1 DEF OpenRacedOut
<1>5. CASE TeardownStop(t)
  <2>1. Head(loc[t].todo)[2] \in Actor /\ actors[Head(loc[t].todo)[2]] # NoActor
    BY <1>5, FirstEntry DEF TeardownStop, Works
  <2> QED BY <1>2, <1>5, <2>1 DEF TeardownStop
<1>6. CASE Call(t)
  BY <1>1, <1>6 DEF Call, OpenBegin, EvictAbsent, DeleteBegin, ResolveKnown,
     ResolveFree, EvictBegin, ShutdownBegin, actorVars
<1>7. CASE Step(t)
  <2>1. CASE \/ OpenNotOwner(t) \/ OpenAcquire(t) \/ OpenRacedRelease(t)
             \/ OpenReturn(t) \/ ShutdownDrain(t) \/ TeardownRelease(t)
             \/ TeardownReturn(t) \/ DeletePrune(t) \/ ResolveClaim(t)
             \/ ResolveUnclaim(t) \/ ResolveReread(t)
    BY <1>1, <2>1 DEF OpenNotOwner, OpenAcquire, OpenRacedRelease, OpenReturn,
       ShutdownDrain, TeardownRelease, TeardownReturn, DeletePrune,
       ResolveClaim, ResolveUnclaim, ResolveReread, actorVars
  <2> QED BY <1>3, <1>4, <1>5, <1>7, <2>1 DEF Step
<1> QED BY <1>6, <1>7

(* What a crash does to actors. *)
LEMMA CrashQuieter ==
    ASSUME IInv, NEW i \in Owner, Crash(i)
    PROVE  Quieter
<1> SUFFICES ASSUME NEW b \in Actor, Running(b)'
             PROVE  Running(b) /\ actors'[b] = actors[b]
  BY DEF Quieter
<1>1. actors' = [a \in Actor |->
                   IF Running(a) /\ actors[a].instance = i
                   THEN [actors[a] EXCEPT !.status = "stopped", !.inbox = <<>>]
                   ELSE actors[a]]
  BY DEF Crash
<1>2. CASE Running(b) /\ actors[b].instance = i
  <2>1. actors'[b] = [actors[b] EXCEPT !.status = "stopped", !.inbox = <<>>]
    BY <1>1, <1>2
  <2>2. actors[b] \in State(actors[b].seq)
    BY <1>2 DEF IInv, Shapes, Running
  <2>3. actors'[b].status = "stopped"
    BY <2>1, <2>2 DEF State
  <2> QED BY <2>3 DEF Running
<1>3. CASE ~(Running(b) /\ actors[b].instance = i)
  <2>1. actors'[b] = actors[b]
    BY <1>1, <1>3
  <2> QED BY <2>1 DEF Running
<1> QED BY <1>2, <1>3

(* Mailboxes that get no op, or a Shutdown. *)
LEMMA QuieterMailboxes ==
    ASSUME IInv, Mailboxes, Quieter, UNCHANGED deployed
    PROVE  Mailboxes'
<1> SUFFICES ASSUME NEW b \in Actor, Running(b)'
             PROVE  /\ actors'[b].seq \in Nat
                    /\ \A n \in DOMAIN actors'[b].inbox :
                          actors'[b].inbox[n] = "op" =>
                              n = 1 /\ actors'[b].seq < deployed.ops
  BY DEF Mailboxes, MailboxAt
<1>1. Running(b) /\ MailboxAt(b) /\ actors'[b].seq = actors[b].seq
  BY DEF Quieter, Mailboxes
<1>2. actors[b].inbox \in Seq({"op", "shutdown"})
  BY <1>1 DEF IInv, Shapes, State, Running
<1>3. CASE actors'[b].inbox = actors[b].inbox
  BY <1>1, <1>3 DEF MailboxAt
<1>4. CASE actors'[b].inbox = Append(actors[b].inbox, "shutdown")
  <2> DEFINE q == actors[b].inbox
  <2>1. \A n \in DOMAIN Append(q, "shutdown") :
           Append(q, "shutdown")[n] = "op" => n \in DOMAIN q /\ q[n] = "op"
    <3> HIDE DEF q
    <3>1. q \in Seq({"op", "shutdown"})
      BY <1>2 DEF q
    <3> QED BY <3>1
  <2> HIDE DEF q
  <2>2. q = actors[b].inbox
    BY DEF q
  <2> QED BY <1>1, <1>4, <2>1, <2>2 DEF MailboxAt
<1> QED BY <1>3, <1>4 DEF Quieter

(* The records of a canvas that no new op is stamped for. *)
LEMMA QuieterStamped ==
    ASSUME Stamped, Quieter, UNCHANGED <<journal, acked>>
    PROVE  Stamped'
<1>1. \A b \in Actor : RecordedAt(b)'
  BY DEF Stamped, RecordedAt, Quieter
<1>2. \A x \in acked : AckKept(x)'
  BY DEF Stamped, AckKept
<1> QED BY <1>1, <1>2 DEF Stamped

(* The new actor has read every record of its canvas. *)
LEMMA SpawnRecovers ==
    ASSUME IInv, Mailboxes, NEW t \in Task, OpenSpawn(t), UNCHANGED deployed
    PROVE  Mailboxes' /\ (Stamped => Stamped')
<1> DEFINE a == loc[t].actor
<1> DEFINE c == loc[t].canvas
<1> DEFINE new == [status |-> "running", instance |-> InstanceOf(t),
                   canvas |-> c, seq |-> LastSeq(c), inbox |-> <<>>, open |-> FALSE]
<1>1. /\ actors' = [actors EXCEPT ![a] = new]
      /\ UNCHANGED <<journal, acked>>
      /\ a \in Actor /\ actors = [b \in Actor |-> actors[b]]
  BY DEF OpenSpawn, IInv, Shapes, Steady, Fit, Building
<1>2. /\ new.canvas = c /\ new.seq = LastSeq(c)
      /\ \A n \in DOMAIN new.inbox : FALSE
  OBVIOUS
<1> HIDE DEF new, a, c
<1>3. actors'[a] = new /\ \A b \in Actor : b # a => actors'[b] = actors[b]
  BY <1>1
<1>4. ASSUME NEW b \in Actor PROVE MailboxAt(b)'
  <2>1. CASE b = a
    BY <1>2, <1>3, <2>1, LastSeqBounds DEF MailboxAt
  <2>2. CASE b # a
    <3>1. MailboxAt(b)
      BY DEF Mailboxes
    <3> QED BY <1>3, <2>2, <3>1 DEF MailboxAt, Running
  <2> QED BY <2>1, <2>2
<1>5. ASSUME Stamped, NEW b \in Actor PROVE RecordedAt(b)'
  <2>1. CASE b = a
    <3>1. \A s \in Seqs : journal[c][s] # None => s <= LastSeq(c)
      BY LastSeqBounds
    <3> QED BY <1>1, <1>2, <1>3, <2>1, <3>1 DEF RecordedAt
  <2>2. CASE b # a
    <3>1. RecordedAt(b)
      BY <1>5 DEF Stamped
    <3> QED BY <1>1, <1>3, <2>2, <3>1 DEF RecordedAt, Running
  <2> QED BY <2>1, <2>2
<1>6. ASSUME Stamped PROVE \A x \in acked' : AckKept(x)'
  BY <1>1, <1>6 DEF Stamped, AckKept
<1> QED BY <1>1, <1>4, <1>5, <1>6 DEF Mailboxes, Stamped

(* A deleted canvas has neither records nor acknowledged ops. *)
LEMMA PruneStamped ==
    ASSUME IInv, Stamped, NEW t \in Task, DeletePrune(t)
    PROVE  Stamped'
<1> DEFINE c == loc[t].canvas
<1>1. /\ journal' = [journal EXCEPT ![c] = [s \in Seqs |-> None]]
      /\ acked' = {x \in acked : x[1] # c} /\ actors' = actors
  BY DEF DeletePrune
<1>2. journal = [d \in Canvas |-> [s \in Seqs |-> journal[d][s]]]
  BY DEF Stamped
<1> HIDE DEF c
<1>3. /\ \A d \in Canvas : journal'[d] =
            IF d = c THEN [s \in Seqs |-> None] ELSE [s \in Seqs |-> journal[d][s]]
      /\ journal' = [d \in Canvas |-> journal'[d]]
  BY <1>1, <1>2
<1>4. journal' = [d \in Canvas |-> [s \in Seqs |-> journal'[d][s]]]
  <2>1. \A d \in Canvas : journal'[d] = [s \in Seqs |-> journal'[d][s]]
    BY <1>3
  <2> QED BY <1>3, <2>1
<1>5. \A d \in Canvas, s \in Seqs :
         journal'[d][s] # None => journal'[d][s] = journal[d][s]
  BY <1>3
<1>6. ASSUME NEW b \in Actor PROVE RecordedAt(b)'
  <2>1. Running(b) => actors[b].canvas \in Canvas
    BY DEF IInv, Shapes, State, Running
  <2>2. RecordedAt(b)
    BY DEF Stamped
  <2> QED BY <1>1, <1>5, <2>1, <2>2 DEF RecordedAt, Running
<1>7. ASSUME NEW x \in acked' PROVE AckKept(x)'
  <2>1. AckKept(x) /\ x[1] # c
    BY <1>1, <1>7 DEF Stamped
  <2>2. x[1] \in Canvas /\ x[2] \in Seqs
    BY <2>1 DEF AckKept
  <2>3. journal'[x[1]][x[2]] = journal[x[1]][x[2]]
    BY <1>3, <2>1, <2>2
  <2> QED BY <2>1, <2>3 DEF AckKept
<1> QED BY <1>4, <1>6, <1>7 DEF Stamped

(* A promise names one actor, so the canvas has one that runs. *)
LEMMA OneRunner ==
    ASSUME Timed, NEW a \in Actor, NEW b \in Actor, Running(a), Running(b),
           actors[a].canvas = actors[b].canvas
    PROVE  a = b
<1>1. /\ Promised(actors[a].instance, actors[a].canvas, a)
      /\ Promised(actors[b].instance, actors[b].canvas, b)
  BY DEF Timed, LeasedAt
<1> QED BY <1>1 DEF Promised

(* An op takes the next number, in the mailbox and in the journal. *)
LEMMA ApplyRecords ==
    ASSUME IInv, Mailboxes, NEW a \in Actor, ActorApply(a), UNCHANGED deployed
    PROVE  Mailboxes' /\ (Timed /\ Stamped => Stamped')
<1> DEFINE c == actors[a].canvas
<1> DEFINE n == actors[a].seq
<1> DEFINE q == actors[a].inbox
<1>1. /\ Running(a) /\ actors[a] \in State(n) /\ c \in Canvas
      /\ q \in Seq({"op", "shutdown"}) /\ q # <<>> /\ Head(q) = "op"
      /\ actors = [b \in Actor |-> actors[b]]
      /\ actors' = [actors EXCEPT ![a].inbox = Tail(@), ![a].seq = n + 1]
      /\ journal' = [journal EXCEPT ![c][n + 1] = a]
      /\ acked' = acked \cup {<<c, n + 1, a>>}
  BY DEF ActorApply, Running, IInv, Shapes, State
<1>2. /\ n \in Nat /\ n + 1 \in Seqs
      /\ \A k \in DOMAIN q : q[k] = "op" => k = 1
  <2>1. /\ n \in Nat
        /\ \A k \in DOMAIN q : q[k] = "op" => k = 1 /\ n < deployed.ops
    BY <1>1 DEF Mailboxes, MailboxAt
  <2>2. 1 \in DOMAIN q /\ q[1] = "op"
    <3> HIDE DEF q
    <3> QED BY <1>1
  <2>3. deployed \in [tasks : SUBSET Task, crashes : BOOLEAN, clock : 0..MaxClock,
                      leases : 0..MaxActors, ops : 0..MaxSeq]
    BY DEF IInv, Shapes
  <2>4. deployed.ops \in 0..MaxSeq
    BY <2>3
  <2> HIDE DEF n, q
  <2>5. n < deployed.ops
    BY <2>1, <2>2
  <2> QED BY <2>1, <2>4, <2>5 DEF Seqs
<1>3. /\ actors'[a] = [actors[a] EXCEPT !.inbox = Tail(q), !.seq = n + 1]
      /\ \A b \in Actor : b # a => actors'[b] = actors[b]
  BY <1>1
<1>4. /\ actors'[a].seq = n + 1 /\ actors'[a].inbox = Tail(q)
      /\ actors'[a].canvas = c
  BY <1>1, <1>3 DEF State
<1>5. \A b \in Actor : Running(b)' => Running(b)
  <2>1. \A b \in Actor : b # a => (Running(b)' => Running(b))
    BY <1>3 DEF Running
  <2> QED BY <1>1, <2>1
<1>6. \A k \in DOMAIN Tail(q) : Tail(q)[k] # "op"
  <2> HIDE DEF q
  <2> QED BY <1>1, <1>2
<1>7. ASSUME NEW b \in Actor PROVE MailboxAt(b)'
  <2>1. CASE b = a
    <3>1. /\ actors'[b].seq \in Nat
          /\ \A k \in DOMAIN actors'[b].inbox : actors'[b].inbox[k] # "op"
      <4>1. /\ actors'[b].seq = n + 1 /\ n \in Nat
            /\ actors'[b].inbox = Tail(q)
        BY <1>2, <1>4, <2>1
      <4> HIDE DEF n, q
      <4> QED BY <1>6, <4>1
    <3> QED BY <3>1 DEF MailboxAt
  <2>2. CASE b # a
    <3>1. MailboxAt(b)
      BY DEF Mailboxes
    <3> QED BY <1>3, <2>2, <3>1 DEF MailboxAt, Running
  <2> QED BY <2>1, <2>2
<1>8. ASSUME Timed, Stamped PROVE Stamped'
  <2>1. journal = [d \in Canvas |-> [s \in Seqs |-> journal[d][s]]]
    BY <1>8 DEF Stamped
  <2>2. \A s \in Seqs : journal[c][s] # None => s <= n
    BY <1>1, <1>8 DEF Stamped, RecordedAt
  <2> HIDE DEF c, n
  <2>3. /\ journal'[c] = [journal[c] EXCEPT ![n + 1] = a]
        /\ \A d \in Canvas : d # c => journal'[d] = journal[d]
        /\ journal' = [d \in Canvas |-> journal'[d]]
    BY <1>1, <2>1
  <2>4. \A d \in Canvas : journal[d] = [s \in Seqs |-> journal[d][s]]
    BY <2>1
  <2>5. /\ journal'[c][n + 1] = a
        /\ \A s \in Seqs : s # n + 1 => journal'[c][s] = journal[c][s]
        /\ journal'[c] = [s \in Seqs |-> journal'[c][s]]
    BY <1>1, <1>2, <2>3, <2>4
  <2>6. journal' = [d \in Canvas |-> [s \in Seqs |-> journal'[d][s]]]
    <3>1. \A d \in Canvas : journal'[d] = [s \in Seqs |-> journal'[d][s]]
      BY <2>3, <2>4, <2>5
    <3> QED BY <2>3, <3>1
  <2>7. ASSUME NEW b \in Actor PROVE RecordedAt(b)'
    <3>1. CASE b = a
      <4>1. \A s \in Seqs : journal'[c][s] # None => s <= n + 1
        BY <1>2, <2>2, <2>5 DEF Seqs
      <4> QED BY <1>4, <3>1, <4>1 DEF RecordedAt
    <3>2. ASSUME b # a, Running(b)'
          PROVE  \A s \in Seqs : journal'[actors'[b].canvas][s] # None =>
                     s <= actors'[b].seq
      <4>1. Running(b) /\ actors'[b] = actors[b]
        BY <1>3, <1>5, <3>2
      <4>2. actors[b].canvas \in Canvas /\ actors[b].canvas # c
        BY <1>1, <1>8, <3>2, <4>1, OneRunner DEF c, IInv, Shapes, State, Running
      <4>3. RecordedAt(b)
        BY <1>8 DEF Stamped
      <4> QED BY <2>3, <4>1, <4>2, <4>3 DEF RecordedAt
    <3> QED BY <3>1, <3>2 DEF RecordedAt
  <2>8. ASSUME NEW x \in acked' PROVE AckKept(x)'
    <3>1. CASE x = <<c, n + 1, a>>
      BY <1>1, <1>2, <2>5, <3>1 DEF AckKept
    <3>2. CASE x \in acked
      <4>1. AckKept(x)
        BY <1>8, <3>2 DEF Stamped
      <4>2. /\ x[1] \in Canvas /\ x[2] \in Seqs /\ x[3] \in Actor
            /\ journal[x[1]][x[2]] = x[3] /\ x[3] # None
        BY <4>1 DEF AckKept
      <4>3. x[1] # c \/ x[2] # n + 1
        BY <1>2, <2>2, <4>2 DEF Seqs
      <4>4. journal'[x[1]][x[2]] = x[3]
        BY <2>3, <2>5, <4>2, <4>3
      <4> QED BY <4>1, <4>4 DEF AckKept
    <3> QED BY <1>1, <3>1, <3>2
  <2> QED BY <2>6, <2>7, <2>8 DEF Stamped
<1> QED BY <1>7, <1>8 DEF Mailboxes

(* A message behind the first one is no op, and a stopped actor gets none. *)
LEMMA ActorMailboxes ==
    ASSUME IInv, Mailboxes, NEW a \in Actor, ClientSend(a) \/ ActorStop(a),
           UNCHANGED deployed
    PROVE  Mailboxes' /\ (Stamped => Stamped')
<1>1. /\ Running(a) /\ actors[a] \in State(actors[a].seq)
      /\ \A b \in Actor : b # a => actors'[b] = actors[b]
      /\ actors'[a].canvas = actors[a].canvas
  BY OneActor
<1>2. actors = [b \in Actor |-> actors[b]] /\ UNCHANGED <<journal, acked>>
  BY DEF IInv, Shapes, ClientSend, ActorStop
<1>3. actors'[a].seq = actors[a].seq /\ MailboxAt(a)'
  <2>1. actors[a].seq \in Nat
    BY <1>1 DEF Mailboxes, MailboxAt
  <2>2. CASE ClientSend(a)
    <3>1. /\ actors[a].inbox = <<>> /\ actors[a].seq < deployed.ops
          /\ actors' = [actors EXCEPT ![a].inbox = Append(@, "op")]
      BY <2>2 DEF ClientSend
    <3>2. actors'[a] = [actors[a] EXCEPT !.inbox = Append(actors[a].inbox, "op")]
      BY <1>2, <3>1
    <3>3. /\ actors'[a].seq = actors[a].seq
          /\ actors'[a].inbox = <<"op">>
      BY <1>1, <3>1, <3>2 DEF State
    <3>4. \A n \in DOMAIN actors'[a].inbox : n = 1
      BY <3>3
    <3> QED BY <2>1, <3>1, <3>3, <3>4 DEF MailboxAt
  <2>3. CASE ActorStop(a)
    <3>1. actors' = [actors EXCEPT ![a].inbox = <<>>, ![a].status = "stopped"]
      BY <2>3 DEF ActorStop
    <3>2. actors'[a] = [actors[a] EXCEPT !.inbox = <<>>, !.status = "stopped"]
      BY <1>2, <3>1
    <3>3. actors'[a].seq = actors[a].seq /\ actors'[a].status = "stopped"
      BY <1>1, <3>2 DEF State
    <3> QED BY <3>3 DEF MailboxAt, Running
  <2> QED BY <2>2, <2>3
<1>4. ASSUME NEW b \in Actor, b # a
      PROVE  MailboxAt(b)' /\ (Stamped => RecordedAt(b)')
  <2>1. MailboxAt(b) /\ (Stamped => RecordedAt(b))
    BY DEF Mailboxes, Stamped
  <2>2. actors'[b] = actors[b]
    BY <1>1, <1>4
  <2> QED BY <1>2, <2>1, <2>2 DEF MailboxAt, RecordedAt, Running
<1>5. Stamped => RecordedAt(a)'
  BY <1>1, <1>2, <1>3 DEF Stamped, RecordedAt
<1>6. ASSUME Stamped PROVE \A x \in acked' : AckKept(x)'
  BY <1>2, <1>6 DEF Stamped, AckKept
<1> QED BY <1>2, <1>3, <1>4, <1>5, <1>6 DEF Mailboxes, Stamped

-----------------------------------------------------------------------------

(* A registry that was just started satisfies the inductive invariant. *)
LEMMA InitSInv == Init => SInv
<1> SUFFICES ASSUME Init PROVE SInv
  OBVIOUS
<1>1. IInv
  BY InitIInv
<1>2. \A a \in Actor : ~Running(a)
  BY DEF Init, Running
<1>3. Employed /\ Mailboxes
  BY <1>2 DEF Init, Employed, Mailboxes, MailboxAt
<1>4. Timed
  BY <1>2 DEF Init, Timed, LeasedAt, RenewedAt, AloneAt
<1>5. Stamped
  BY <1>2 DEF Init, Stamped, RecordedAt
<1> QED BY <1>1, <1>3, <1>4, <1>5 DEF SInv

(* Where calls follow one another, every step keeps the leases in time. *)
LEMMA NextTimed ==
    ASSUME IInv, Employed, Serial, Timed, [Next]_vars
    PROVE  Timed'
<1>1. ASSUME NEW t \in Task, t \in deployed.tasks, Call(t) PROVE Timed'
  <2>1. ASSUME NEW c \in Canvas, EvictAbsent(t, c) \/ ResolveKnown(t, c)
        PROVE  Timed'
    BY <2>1, QuietTimed DEF EvictAbsent, ResolveKnown, coordVars, actorVars
  <2>2. ASSUME NEW c \in Canvas, OpenBegin(t, c) \/ ResolveFree(t, c)
        PROVE  Timed'
    BY <1>1, <2>2, OpenBeginTimed
  <2>3. CASE \/ ShutdownBegin(t) \/ \E c \in Canvas : DeleteBegin(t, c)
             \/ \E cs \in SUBSET Canvas : EvictBegin(t, cs)
    BY <1>1, <2>3, RestsTimed
  <2> QED BY <1>1, <2>1, <2>2, <2>3 DEF Call
<1>2. ASSUME NEW t \in Task, t \in deployed.tasks, Step(t) PROVE Timed'
  <2>1. CASE OpenNotOwner(t) \/ ResolveReread(t) \/ TeardownReturn(t)
             \/ DeletePrune(t) \/ OpenReturn(t) \/ ShutdownDrain(t)
    BY <1>2, <2>1, RestsTimed
  <2>2. CASE OpenAcquire(t) \/ ResolveClaim(t)
    BY <1>2, <2>2, AcquireTimed
  <2>3. CASE OpenSpawn(t)
    BY <1>2, <2>3, SpawnTimed
  <2>4. CASE OpenInsert(t) \/ OpenRacedOut(t) \/ OpenRacedRelease(t)
    BY <1>2, <2>4, InsertTimed
  <2>5. CASE TeardownStop(t)
    BY <1>2, <2>5, TeardownStopTimed
  <2>6. CASE TeardownRelease(t) \/ ResolveUnclaim(t)
    BY <1>2, <2>6, ReleaseTimed
  <2> QED BY <1>2, <2>1, <2>2, <2>3, <2>4, <2>5, <2>6 DEF Step
<1>3. ASSUME NEW a \in Actor, ClientSend(a) \/ ActorStep(a) \/ Renew(a)
      PROVE  Timed'
  <2>1. CASE ClientSend(a) \/ ActorApply(a) \/ ActorStop(a)
    BY <2>1, ActorTimed
  <2>2. CASE Renew(a)
    BY <2>2, RenewTimed
  <2> QED BY <1>3, <2>1, <2>2 DEF ActorStep
<1>4. CASE Tick
  BY <1>4, TickTimed
<1>5. ASSUME NEW i \in Owner, Crash(i) PROVE Timed'
  BY <1>5, CrashTimed
<1>6. CASE UNCHANGED vars
  BY <1>6, QuietTimed DEF vars
<1>7. deployed.tasks \subseteq Task
  <2>1. deployed \in [tasks : SUBSET Task, crashes : BOOLEAN, clock : 0..MaxClock,
                      leases : 0..MaxActors, ops : 0..MaxSeq]
    BY DEF IInv, Shapes
  <2> QED BY <2>1
<1>8. CASE Next
  BY <1>1, <1>2, <1>3, <1>4, <1>5, <1>7, <1>8 DEF Next
<1> QED BY <1>6, <1>8

(* Every step keeps the mailboxes, and the records of acknowledged ops. *)
LEMMA NextStamped ==
    ASSUME IInv, Employed, Mailboxes, [Next]_vars
    PROVE  Mailboxes' /\ (Timed /\ Stamped => Stamped')
<1>1. deployed' = deployed /\ deployed.tasks \subseteq Task
  <2>1. deployed \in [tasks : SUBSET Task, crashes : BOOLEAN, clock : 0..MaxClock,
                      leases : 0..MaxActors, ops : 0..MaxSeq]
    BY DEF IInv, Shapes
  <2> QED BY <2>1 DEF Next, vars
<1>2. ASSUME Quieter PROVE Mailboxes'
  BY <1>1, <1>2, QuieterMailboxes
<1>3. ASSUME NEW t \in Task, Call(t) \/ Step(t)
      PROVE  Mailboxes' /\ (Timed /\ Stamped => Stamped')
  <2>1. CASE OpenSpawn(t)
    BY <1>1, <2>1, SpawnRecovers
  <2>2. CASE ~OpenSpawn(t)
    <3>1. Quieter
      BY <1>3, <2>2, TaskQuieter
    <3>2. CASE DeletePrune(t)
      BY <1>2, <3>1, <3>2, PruneStamped
    <3>3. CASE ~DeletePrune(t)
      <4>1. Call(t) => UNCHANGED <<journal, acked>>
        BY DEF Call, OpenBegin, EvictAbsent, DeleteBegin, ResolveKnown,
           ResolveFree, EvictBegin, ShutdownBegin, actorVars
      <4>2. Step(t) => UNCHANGED <<journal, acked>>
        BY <2>2, <3>3 DEF Step, OpenNotOwner, OpenAcquire, OpenInsert,
           OpenRacedOut, OpenRacedRelease, OpenReturn, ShutdownDrain,
           TeardownStop, TeardownRelease, TeardownReturn, ResolveClaim,
           ResolveUnclaim, ResolveReread, actorVars
      <4>3. UNCHANGED <<journal, acked>>
        BY <1>3, <4>1, <4>2
      <4> QED BY <1>2, <3>1, <4>3, QuieterStamped
    <3> QED BY <3>2, <3>3
  <2> QED BY <2>1, <2>2
<1>4. ASSUME UNCHANGED <<actors, journal, acked>>
      PROVE  Mailboxes' /\ (Timed /\ Stamped => Stamped')
  <2>1. Quieter
    BY <1>4 DEF Quieter, Running
  <2> QED BY <1>2, <1>4, <2>1, QuieterStamped
<1>5. ASSUME NEW a \in Actor, ClientSend(a) \/ ActorStep(a) \/ Renew(a)
      PROVE  Mailboxes' /\ (Timed /\ Stamped => Stamped')
  <2>1. CASE ClientSend(a) \/ ActorStop(a)
    BY <1>1, <2>1, ActorMailboxes
  <2>2. CASE ActorApply(a)
    BY <1>1, <2>2, ApplyRecords
  <2>3. CASE Renew(a)
    BY <1>4, <2>3 DEF Renew
  <2> QED BY <1>5, <2>1, <2>2, <2>3 DEF ActorStep
<1>6. CASE Tick
  BY <1>4, <1>6 DEF Tick, actorVars
<1>7. ASSUME NEW i \in Owner, Crash(i)
      PROVE  Mailboxes' /\ (Timed /\ Stamped => Stamped')
  <2>1. Quieter /\ UNCHANGED <<journal, acked>>
    BY <1>7, CrashQuieter DEF Crash
  <2> QED BY <1>2, <2>1, QuieterStamped
<1>8. CASE UNCHANGED vars
  BY <1>4, <1>8 DEF vars
<1>9. CASE Next
  BY <1>1, <1>3, <1>5, <1>6, <1>7, <1>9 DEF Next
<1> QED BY <1>8, <1>9

(* The inductive invariant holds in every reachable state. *)
LEMMA WriterInductive == Spec => []SInv
<1>1. ASSUME SInv, [Next]_vars PROVE SInv'
  <2>1. IInv /\ Employed /\ Mailboxes /\ (Serial => Timed /\ Stamped)
    BY <1>1 DEF SInv
  <2>2. Serial' <=> Serial
    BY <1>1 DEF Serial, Next, vars
  <2>3. IInv' /\ Employed' /\ Mailboxes'
    BY <1>1, <2>1, NextIInv, EmployedKept, NextStamped
  <2>4. Serial => Timed' /\ Stamped'
    BY <1>1, <2>1, NextTimed, NextStamped
  <2> QED BY <2>2, <2>3, <2>4 DEF SInv
<1> QED BY <1>1, InitSInv, PTL DEF Spec

(* Where the calls of an instance follow one another, at most one actor that
   was handed out runs for a canvas: an instance that finds the lease of
   another expired has nobody else writing there, however late renewals run
   within MaxLate, and whichever instances crash.                          *)
THEOREM OneWriter == Spec => []SingleWriter
<1>1. ASSUME SInv PROVE SingleWriter
  BY <1>1, OneRunner DEF SInv, SingleWriter
<1> QED BY <1>1, WriterInductive, PTL

(* Where the calls of an instance follow one another, the record of an
   acknowledged op is not overwritten: an actor that recovers a canvas starts
   past every record, and no other actor stamps for that canvas.           *)
THEOREM AckedOpsKept == Spec => []AckedOpKept
<1>1. ASSUME SInv PROVE AckedOpKept
  BY <1>1 DEF SInv, Stamped, AckKept, AckedOpKept
<1> QED BY <1>1, WriterInductive, PTL

=============================================================================
