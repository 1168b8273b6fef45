--------------------------- MODULE FileCoordinator ---------------------------
(***************************************************************************)
(* The coordinator of several processes on one host (coordination/file.rs): *)
(* a lease file and a presence file per canvas, read and rewritten under   *)
(* an exclusive lock on a third file.  An operation that checks an expiry  *)
(* reads the clock before it waits for the lock; an acquire takes its      *)
(* token then too, from the counter of its process.                        *)
(*                                                                         *)
(* A rewrite truncates the file and fills it.  Nobody reads it in between, *)
(* the lock is held; but a process that dies there leaves it empty, and    *)
(* the system drops its locks.                                             *)
(*                                                                         *)
(* The Owner ids are those of the processes (registry.rs makes a new one   *)
(* for each), so a process that died does not come back.                   *)
(***************************************************************************)
EXTENDS LeaseTable, FiniteSets

CONSTANTS Task,        \* concurrent calls in one process
          Key,         \* presence keys
          Free,        \* nobody has the lock
          MaxClock,    \* bound on the clock
          MaxTokens    \* bound on the tokens of a process

ASSUME FreeAssumption == Free \notin Owner \X Task

VARIABLES clock,       \* Clock::now_ms
          leases,      \* the lease file of each canvas; empty or absent: NoLease
          presence,    \* the presence file: key -> expiry, 0 if absent
          lock,        \* who has the lock of each canvas
          counter,     \* FileCoordinator.counter of each process
          calls,       \* (process, task) -> its call
          handles,     \* the Lease values given out, see Coordination
          up           \* the processes alive

vars == <<clock, leases, presence, lock, counter, calls, handles, up>>

Caller == Owner \X Task

Idle == [op |-> "idle", writing |-> FALSE]

Init == /\ clock = 0
        /\ leases = [c \in Canvas |-> NoLease]
        /\ presence = [c \in Canvas |-> [k \in Key |-> 0]]
        /\ lock = [c \in Canvas |-> Free]
        /\ counter = [o \in Owner |-> 0]
        /\ calls = [p \in Caller |-> Idle]
        /\ handles = {}
        /\ up = Owner

Tick == /\ clock < MaxClock
        /\ clock' = clock + 1
        /\ UNCHANGED <<leases, presence, lock, counter, calls, handles, up>>

-----------------------------------------------------------------------------
(* A call begins: it reads the clock and waits for the lock. *)

Begin(p, call) ==
    /\ calls[p] = Idle /\ p[1] \in up
    /\ calls' = [calls EXCEPT ![p] = call]
    /\ UNCHANGED <<clock, leases, presence, lock, handles, up>>

BeginAcquire(p, c) ==
    /\ counter[p[1]] < MaxTokens
    /\ Begin(p, [op |-> "acquire", writing |-> FALSE, canvas |-> c,
                 n |-> counter[p[1]], now |-> clock])
    /\ counter' = [counter EXCEPT ![p[1]] = @ + 1]

BeginRenew(p, h) ==
    /\ h.owner = p[1]
    /\ Begin(p, [op |-> "renew", writing |-> FALSE, canvas |-> h.canvas,
                 token |-> h.token, now |-> clock])
    /\ UNCHANGED counter

BeginPresence(p, op, c, k) ==
    /\ Begin(p, [op |-> op, writing |-> FALSE, canvas |-> c, key |-> k,
                 now |-> clock])
    /\ UNCHANGED counter

-----------------------------------------------------------------------------
(* with_lock: the closure decides, and writes if there is something to write. *)

Granting(p) ==
    LET call == calls[p] IN
    IF call.op = "acquire" THEN ~Refused(leases[call.canvas], p[1], call.now)
    ELSE Renewable(leases[call.canvas], call.token, call.now)

M_EnterUnlocked(p) ==
    LET call == calls[p] IN
    /\ call.op \in {"acquire", "renew"} /\ ~call.writing
    /\ IF Granting(p)
       THEN /\ lock' = [lock EXCEPT ![call.canvas] = p]
            /\ calls' = [calls EXCEPT ![p].writing = TRUE]
       ELSE /\ calls' = [calls EXCEPT ![p] = Idle]
            /\ UNCHANGED lock
    /\ UNCHANGED <<clock, leases, presence, counter, handles, up>>

EnterLease(p) ==
    LET call == calls[p] IN
    /\ call.op \in {"acquire", "renew"} /\ ~call.writing /\ lock[call.canvas] = Free
    /\ IF Granting(p)
       THEN /\ lock' = [lock EXCEPT ![call.canvas] = p]
            /\ calls' = [calls EXCEPT ![p].writing = TRUE]
       ELSE /\ calls' = [calls EXCEPT ![p] = Idle]
            /\ UNCHANGED lock
    /\ UNCHANGED <<clock, leases, presence, counter, handles, up>>

(* The lock is given back and the call returns. *)
Leave(p) ==
    /\ lock' = [lock EXCEPT ![calls[p].canvas] = Free]
    /\ calls' = [calls EXCEPT ![p] = Idle]

WriteAcquired(p) ==
    LET call == calls[p]
        entry == Granted(p[1], call.n, call.now)
    IN
    /\ call.op = "acquire" /\ call.writing
    /\ leases' = [leases EXCEPT ![call.canvas] = entry]
    /\ handles' =
         { IF h.canvas = call.canvas /\ h.owner = p[1]
           THEN [h EXCEPT !.current = FALSE] ELSE h : h \in handles }
         \cup {[canvas |-> call.canvas, owner |-> p[1], token |-> entry.token,
                until |-> entry.expires_at, current |-> TRUE]}
    /\ Leave(p)
    /\ UNCHANGED <<clock, presence, counter, up>>

WriteRenewed(p) ==
    LET call == calls[p]
        entry == [owner |-> p[1], token |-> call.token, expires_at |-> call.now + Ttl]
    IN
    /\ call.op = "renew" /\ call.writing
    /\ leases' = [leases EXCEPT ![call.canvas] = entry]
    /\ handles' =
         { IF h.canvas = call.canvas /\ h.token = call.token
           THEN [h EXCEPT !.until = entry.expires_at] ELSE h : h \in handles }
    /\ Leave(p)
    /\ UNCHANGED <<clock, presence, counter, up>>

(* release reads no clock and removes the file in one call. *)
Release(h) ==
    /\ h.owner \in up /\ lock[h.canvas] = Free
    /\ leases' = IF Matches(leases[h.canvas], h.token)
                 THEN [leases EXCEPT ![h.canvas] = NoLease] ELSE leases
    /\ handles' = { IF g = h THEN [g EXCEPT !.current = FALSE] ELSE g :
                    g \in handles }
    /\ UNCHANGED <<clock, presence, lock, counter, calls, up>>

(* presence_put and presence_get read the file before they truncate it. *)
EnterPresence(p) ==
    LET call == calls[p] IN
    /\ call.op \in {"put", "get"} /\ ~call.writing /\ lock[call.canvas] = Free
    /\ lock' = [lock EXCEPT ![call.canvas] = p]
    /\ calls' = [calls EXCEPT ![p].writing = TRUE]
    /\ UNCHANGED <<clock, leases, presence, counter, handles, up>>

M_RewrittenInverted(entries, call) ==
    IF call.op = "put" THEN [entries EXCEPT ![call.key] = call.now + Ttl]
    ELSE [k \in Key |-> IF entries[k] < call.now THEN entries[k] ELSE 0]

Rewritten(entries, call) ==
    IF call.op = "put" THEN [entries EXCEPT ![call.key] = call.now + Ttl]
    ELSE [k \in Key |-> IF entries[k] > call.now THEN entries[k] ELSE 0]

WritePresence(p) ==
    LET call == calls[p] IN
    /\ call.op \in {"put", "get"} /\ call.writing
    /\ presence' = [presence EXCEPT ![call.canvas] = Rewritten(@, call)]
    /\ Leave(p)
    /\ UNCHANGED <<clock, leases, counter, handles, up>>

-----------------------------------------------------------------------------

Writes(p, ops) == {c \in Canvas : lock[c] = p /\ calls[p].op \in ops}

(* The process dies: what it was writing is empty, its locks are free, and
   the leases it had are nobody's promise any more.                        *)
Crash(o) ==
    LET emptied(ops) == UNION {Writes(<<o, t>>, ops) : t \in Task} IN
    /\ o \in up
    /\ up' = up \ {o}
    /\ leases' = [c \in Canvas |->
                    IF c \in emptied({"acquire", "renew"})
                    THEN NoLease ELSE leases[c]]
    /\ presence' = [c \in Canvas |->
                      IF c \in emptied({"put", "get"})
                      THEN [k \in Key |-> 0] ELSE presence[c]]
    /\ lock' = [c \in Canvas |-> IF lock[c] \in {o} \X Task THEN Free ELSE lock[c]]
    /\ calls' = [p \in Caller |-> IF p[1] = o THEN Idle ELSE calls[p]]
    /\ handles' = { IF h.owner = o THEN [h EXCEPT !.current = FALSE] ELSE h :
                    h \in handles }
    /\ UNCHANGED <<clock, counter>>

Serve(p) == \/ EnterLease(p) \/ WriteAcquired(p) \/ WriteRenewed(p)
            \/ EnterPresence(p) \/ WritePresence(p)

Next ==
    \/ Tick
    \/ \E p \in Caller :
         \/ \E c \in Canvas : BeginAcquire(p, c)
         \/ \E h \in handles : BeginRenew(p, h)
         \/ \E op \in {"put", "get"}, c \in Canvas, k \in Key :
              BeginPresence(p, op, c, k)
         \/ Serve(p)
    \/ \E h \in handles : Release(h)
    \/ \E o \in Owner : Crash(o)

Spec == Init /\ [][Next]_vars

-----------------------------------------------------------------------------

Handle == [canvas: Canvas, owner: Owner, token: Token, until: Nat,
           current: BOOLEAN]

Call == [op: {"acquire"}, writing: BOOLEAN, canvas: Canvas, n: Nat, now: Nat]
        \cup [op: {"renew"}, writing: BOOLEAN, canvas: Canvas, token: Token,
              now: Nat]
        \cup [op: {"put", "get"}, writing: BOOLEAN, canvas: Canvas, key: Key,
              now: Nat]

(* The ranges of the variables. *)
TypeOK ==
    /\ clock \in Nat
    /\ leases \in [Canvas -> LeaseEntry \cup {NoLease}]
    /\ presence \in [Canvas -> [Key -> Nat]]
    /\ lock \in [Canvas -> Caller \cup {Free}]
    /\ counter \in [Owner -> Nat]
    /\ calls \in [Caller -> Call \cup {Idle}]
    /\ handles \in SUBSET Handle
    /\ up \in SUBSET Owner

(* Processes that share nothing but the files, each with a counter of its
   own, and that may die while they write one, look like one lease service. *)
Service == INSTANCE LeaseService
             WITH clock <- clock, leases <- leases, handles <- handles
ActsAsLeaseService == Service!Spec

(* A presence entry that is live on the clock is only lost with the process
   that was rewriting the file.                                            *)
LivePresenceKept ==
    [][up' = up => \A c \in Canvas, k \in Key :
          presence[c][k] > clock => presence'[c][k] # 0]_vars

=============================================================================
