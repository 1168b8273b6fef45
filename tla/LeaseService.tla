---------------------------- MODULE LeaseService ----------------------------
(***************************************************************************)
(* What a Coordinator promises about leases (crates/coordination/lib.rs),  *)
(* whichever implementation stands behind it: every operation takes effect *)
(* at one moment, and is judged by the clock of that moment.               *)
(*                                                                         *)
(* An operation may be judged by an older reading than the clock, so an    *)
(* expiry is anything up to the full TTL from now; it may refuse more than *)
(* it must; and it never takes what is live.                               *)
(***************************************************************************)
EXTENDS LeaseTable

VARIABLES clock,     \* the time
          leases,    \* canvas -> entry, or NoLease
          handles    \* the Lease values given out, see Coordination

vars == <<clock, leases, handles>>

Init == /\ clock = 0
        /\ leases = [c \in Canvas |-> NoLease]
        /\ handles = {}

Tick == /\ clock' = clock + 1
        /\ UNCHANGED <<leases, handles>>

Retired(c, o) ==
    { IF h.canvas = c /\ h.owner = o THEN [h EXCEPT !.current = FALSE] ELSE h :
      h \in handles }

(* A free, expired or own canvas is taken, under a token nobody has. *)
Acquire(c, o) ==
    LET entry == leases'[c] IN
    /\ ~Refused(leases[c], o, clock)
    /\ entry # NoLease /\ entry \in LeaseEntry /\ entry.owner = o
    /\ entry.expires_at <= clock + Ttl
    /\ entry.token[1] = o /\ \A h \in handles : h.token # entry.token
    /\ leases' = [leases EXCEPT ![c] = entry]
    /\ handles' = Retired(c, o) \cup
                  {[canvas |-> c, owner |-> o, token |-> entry.token,
                    until |-> entry.expires_at, current |-> TRUE]}
    /\ UNCHANGED clock

(* Whoever holds the entry's token moves its expiry. *)
Renew(c) ==
    \E e \in 0..clock + Ttl :
        /\ leases[c] # NoLease
        /\ leases' = [leases EXCEPT ![c].expires_at = e]
        /\ handles' = { IF h.canvas = c /\ h.token = leases[c].token
                        THEN [h EXCEPT !.until = e] ELSE h : h \in handles }
        /\ UNCHANGED clock

(* Giving a lease back; nothing happens under a token that is not the entry's. *)
Release(h) ==
    /\ leases' = IF Matches(leases[h.canvas], h.token)
                 THEN [leases EXCEPT ![h.canvas] = NoLease] ELSE leases
    /\ handles' = { IF g = h THEN [g EXCEPT !.current = FALSE] ELSE g :
                    g \in handles }
    /\ UNCHANGED clock

(* An owner that is gone holds nothing any more.  Its entries stay, or go if
   it was writing them; so may an expired entry it was about to replace.    *)
Abandon(o) ==
    /\ leases' \in [Canvas -> {leases[c] : c \in Canvas} \cup {NoLease}]
    /\ \A c \in Canvas : leases'[c] # leases[c] =>
          leases'[c] = NoLease /\ ~Refused(leases[c], o, clock)
    /\ handles' = { IF h.owner = o THEN [h EXCEPT !.current = FALSE] ELSE h :
                    h \in handles }
    /\ UNCHANGED clock

Next == \/ Tick
        \/ \E c \in Canvas, o \in Owner : Acquire(c, o)
        \/ \E c \in Canvas : Renew(c)
        \/ \E h \in handles : Release(h)
        \/ \E o \in Owner : Abandon(o)

Spec == Init /\ [][Next]_vars

-----------------------------------------------------------------------------

Handle == [canvas: Canvas, owner: Owner, token: Token, until: Nat,
           current: BOOLEAN]

(* The ranges of the variables. *)
TypeOK == /\ clock \in Nat
          /\ leases \in [Canvas -> LeaseEntry \cup {NoLease}]
          /\ handles \in SUBSET Handle

(* A promise that still stands. *)
Holds(h) == h.current /\ h.until > clock

(* A canvas has one lessee, whatever a coordinator does behind this service. *)
Exclusive ==
    \A g, h \in handles :
        g.canvas = h.canvas /\ Holds(g) /\ Holds(h) => g = h

(* find_owner names the lessee. *)
Routable ==
    \A h \in handles : Holds(h) => FindOwner(leases[h.canvas], clock) = {h.owner}

=============================================================================
