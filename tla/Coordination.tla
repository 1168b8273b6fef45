---------------------------- MODULE Coordination ----------------------------
(***************************************************************************)
(* The lease and presence table of crates/coordination (inmem.rs, the      *)
(* default Coordinator).  Every operation that checks an expiry reads the  *)
(* clock BEFORE it awaits the lock on the state, so a call is two steps:   *)
(* Begin... reads the clock, Do... runs under the lock with that reading.  *)
(* Other calls, and time, may pass in between.                             *)
(*                                                                         *)
(* `handles' are the Lease values the coordinator has given out.  A caller *)
(* may present one to renew or release at any time, however old it is.     *)
(* `until' (what the lessee was last promised) and `current' (FALSE once   *)
(* the same owner acquired the canvas again, or the lease was released)    *)
(* are history: no operation reads them.                                   *)
(***************************************************************************)
EXTENDS LeaseTable, FiniteSets

CONSTANTS Caller,      \* concurrent calls into the coordinator
          Key,         \* presence keys
          MaxClock,    \* bound on the clock
          MaxTokens    \* bound on the tokens handed out

ASSUME BoundAssumption == MaxClock \in Nat /\ MaxTokens \in Nat

VARIABLES clock,       \* Clock::now_ms
          leases,      \* State.leases: canvas -> entry, or NoLease
          presence,    \* State.presence: canvas -> key -> expiry, 0 if absent
          counter,     \* InMemoryCoordinator.counter
          calls,       \* caller -> the call that waits for the state lock
          handles      \* the Lease values given out

vars == <<clock, leases, presence, counter, calls, handles>>

Idle == [op |-> "idle"]

Handle == [canvas: Canvas, owner: Owner, token: Token, until: Nat,
           current: BOOLEAN]

Call == [op: {"acquire"}, canvas: Canvas, owner: Owner, now: Nat]
        \cup [op: {"renew"}, canvas: Canvas, token: Token, now: Nat]
        \cup [op: {"presence_put"}, canvas: Canvas, key: Key, now: Nat]
        \cup [op: {"presence_get"}, canvas: Canvas, now: Nat]

-----------------------------------------------------------------------------

Init == /\ clock = 0
        /\ leases = [c \in Canvas |-> NoLease]
        /\ presence = [c \in Canvas |-> [k \in Key |-> 0]]
        /\ counter = 0
        /\ calls = [p \in Caller |-> Idle]
        /\ handles = {}

Tick == /\ clock < MaxClock
        /\ clock' = clock + 1
        /\ UNCHANGED <<leases, presence, counter, calls, handles>>

(* A call reads the clock and queues on the state lock. *)
Begin(p, call) ==
    /\ calls[p] = Idle
    /\ calls' = [calls EXCEPT ![p] = call]
    /\ UNCHANGED <<clock, leases, presence, counter, handles>>

(* Every acquire that has begun can still be given a token. *)
TokenBudget ==
    counter + Cardinality({p \in Caller : calls[p].op = "acquire"}) < MaxTokens

BeginAcquire(p, c, o) ==
    TokenBudget /\ Begin(p, [op |-> "acquire", canvas |-> c, owner |-> o, now |-> clock])

BeginRenew(p, h) ==
    Begin(p, [op |-> "renew", canvas |-> h.canvas, token |-> h.token,
              now |-> clock])

BeginPresencePut(p, c, k) ==
    Begin(p, [op |-> "presence_put", canvas |-> c, key |-> k, now |-> clock])

BeginPresenceGet(p, c) ==
    Begin(p, [op |-> "presence_get", canvas |-> c, now |-> clock])

(* History of an acquire: the owner's earlier handles on c are retired. *)
Retire(c, o) ==
    { IF h.canvas = c /\ h.owner = o THEN [h EXCEPT !.current = FALSE] ELSE h :
      h \in handles }

AcquireRefused(p) ==
    LET call == calls[p] IN
    /\ call.op = "acquire"
    /\ Refused(leases[call.canvas], call.owner, call.now)
    /\ calls' = [calls EXCEPT ![p] = Idle]
    /\ UNCHANGED <<clock, leases, presence, counter, handles>>

M_AcquireSameToken(p) ==
    LET call == calls[p]
        entry == Granted(call.owner, counter, call.now)
    IN
    /\ call.op = "acquire"
    /\ ~Refused(leases[call.canvas], call.owner, call.now)
    /\ leases' = [leases EXCEPT ![call.canvas] = entry]
    /\ handles' = Retire(call.canvas, call.owner)
                  \cup {[canvas |-> call.canvas, owner |-> call.owner,
                         token |-> entry.token, until |-> entry.expires_at,
                         current |-> TRUE]}
    /\ calls' = [calls EXCEPT ![p] = Idle]
    /\ UNCHANGED <<clock, counter, presence>>

AcquireGranted(p) ==
    LET call == calls[p]
        entry == Granted(call.owner, counter, call.now)
    IN
    /\ call.op = "acquire"
    /\ ~Refused(leases[call.canvas], call.owner, call.now)
    /\ counter' = counter + 1
    /\ leases' = [leases EXCEPT ![call.canvas] = entry]
    /\ handles' = Retire(call.canvas, call.owner)
                  \cup {[canvas |-> call.canvas, owner |-> call.owner,
                         token |-> entry.token, until |-> entry.expires_at,
                         current |-> TRUE]}
    /\ calls' = [calls EXCEPT ![p] = Idle]
    /\ UNCHANGED <<clock, presence>>

RenewRefused(p) ==
    LET call == calls[p] IN
    /\ call.op = "renew"
    /\ ~Renewable(leases[call.canvas], call.token, call.now)
    /\ calls' = [calls EXCEPT ![p] = Idle]
    /\ UNCHANGED <<clock, leases, presence, counter, handles>>

M_RenewNotStored(p) ==
    LET call == calls[p] IN
    /\ call.op = "renew"
    /\ Renewable(leases[call.canvas], call.token, call.now)
    /\ handles' = { IF h.canvas = call.canvas /\ h.token = call.token
                    THEN [h EXCEPT !.until = call.now + Ttl] ELSE h :
                    h \in handles }
    /\ calls' = [calls EXCEPT ![p] = Idle]
    /\ UNCHANGED <<clock, leases, presence, counter>>

RenewGranted(p) ==
    LET call == calls[p] IN
    /\ call.op = "renew"
    /\ Renewable(leases[call.canvas], call.token, call.now)
    /\ leases' = [leases EXCEPT ![call.canvas].expires_at = call.now + Ttl]
    /\ handles' = { IF h.canvas = call.canvas /\ h.token = call.token
                    THEN [h EXCEPT !.until = call.now + Ttl] ELSE h :
                    h \in handles }
    /\ calls' = [calls EXCEPT ![p] = Idle]
    /\ UNCHANGED <<clock, presence, counter>>

(* release reads no clock: one step under the lock.  It is a no-op on a
   handle whose token the table no longer names.                           *)
Release(h) ==
    /\ leases' = IF Matches(leases[h.canvas], h.token)
                 THEN [leases EXCEPT ![h.canvas] = NoLease] ELSE leases
    /\ handles' = { IF g = h THEN [g EXCEPT !.current = FALSE] ELSE g :
                    g \in handles }
    /\ UNCHANGED <<clock, presence, counter, calls>>

PresencePut(p) ==
    LET call == calls[p] IN
    /\ call.op = "presence_put"
    /\ presence' = [presence EXCEPT ![call.canvas][call.key] = call.now + Ttl]
    /\ calls' = [calls EXCEPT ![p] = Idle]
    /\ UNCHANGED <<clock, leases, counter, handles>>

M_RetainedInverted(entries, now) ==
    [k \in Key |-> IF entries[k] < now THEN entries[k] ELSE 0]

(* presence_get prunes what is expired at its reading of the clock. *)
Retained(entries, now) ==
    [k \in Key |-> IF entries[k] > now THEN entries[k] ELSE 0]

PresenceGet(p) ==
    LET call == calls[p] IN
    /\ call.op = "presence_get"
    /\ presence' = [presence EXCEPT ![call.canvas] = Retained(@, call.now)]
    /\ calls' = [calls EXCEPT ![p] = Idle]
    /\ UNCHANGED <<clock, leases, counter, handles>>

Next ==
    \/ Tick
    \/ \E p \in Caller :
         \/ \E c \in Canvas, o \in Owner : BeginAcquire(p, c, o)
         \/ \E h \in handles : BeginRenew(p, h)
         \/ \E c \in Canvas, k \in Key : BeginPresencePut(p, c, k)
         \/ \E c \in Canvas : BeginPresenceGet(p, c)
         \/ AcquireRefused(p) \/ AcquireGranted(p)
         \/ RenewRefused(p) \/ RenewGranted(p)
         \/ PresencePut(p) \/ PresenceGet(p)
    \/ \E h \in handles : Release(h)

Spec == Init /\ [][Next]_vars

-----------------------------------------------------------------------------

(* The ranges of the variables: tokens are an owner and a counter value. *)
TypeOK ==
    /\ clock \in Nat
    /\ leases \in [Canvas -> LeaseEntry \cup {NoLease}]
    /\ presence \in [Canvas -> [Key -> Nat]]
    /\ counter \in Nat
    /\ calls \in [Caller -> Call \cup {Idle}]
    /\ handles \in SUBSET Handle

(* The promise an acquire or a renew made still stands: the handle was not
   released or retired by its own owner, and its time is not up.           *)
Holds(h) == h.current /\ h.until > clock

(* Lease safety: two lessees of one canvas never both hold a promise that
   still stands, although acquires and renewals decide with a clock reading
   taken before they waited for the lock.                                  *)
LeaseExclusive ==
    \A g, h \in handles :
        g.canvas = h.canvas /\ Holds(g) /\ Holds(h) => g = h

(* A standing promise is backed by the table: find_owner, which the routing
   layer trusts, names its holder.                                         *)
HolderIsRoutable ==
    \A h \in handles : Holds(h) => FindOwner(leases[h.canvas], clock) = {h.owner}

(* No step takes a lease that is live on the clock from its owner to another
   one: acquire_lease only steals what has expired.                        *)
LiveLeaseNotStolen ==
    [][\A c \in Canvas :
          leases[c] # NoLease /\ leases[c].expires_at > clock
          /\ leases'[c] # NoLease
          => leases'[c].owner = leases[c].owner]_vars

(* The calls of this implementation, two steps each and with old readings of
   the clock, look like operations of the lease service at one moment.     *)
Service == INSTANCE LeaseService
             WITH clock <- clock, leases <- leases, handles <- handles
ActsAsLeaseService == Service!Spec

(* presence_get prunes no entry that is live on the clock, however stale the
   reading it prunes with.                                                 *)
LivePresenceKept ==
    [][\A c \in Canvas, k \in Key :
          presence[c][k] > clock => presence'[c][k] # 0]_vars

=============================================================================
