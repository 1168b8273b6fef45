----------------------------- MODULE LeaseTable -----------------------------
(***************************************************************************)
(* What one operation of the Coordinator does to the lease entry of a      *)
(* canvas, given the operation's reading of the clock                      *)
(* (crates/coordination/src/inmem.rs; file.rs keeps the same table in a    *)
(* JSON file and decides the same way).                                    *)
(***************************************************************************)
EXTENDS Naturals

CONSTANTS Canvas,      \* canvas ids
          Owner,       \* server instances: who takes leases
          NoLease,     \* HashMap::get(canvas) = None
          Ttl          \* lease TTL, in clock ticks

ASSUME TtlAssumption == Ttl \in Nat \ {0}
ASSUME NoLeaseAssumption ==
    NoLease \notin [owner: Owner, token: Owner \X Nat, expires_at: Nat]

(* A token is "<owner>-<counter>". *)
Token == Owner \X Nat

LeaseEntry == [owner: Owner, token: Token, expires_at: Nat]

(* A live entry of somebody else refuses an acquire. *)
Refused(entry, owner, now) ==
    entry # NoLease /\ entry.expires_at > now /\ entry.owner # owner

M_GrantedBareToken(owner, n, now) ==
    [owner |-> owner, token |-> owner, expires_at |-> now + Ttl]

(* acquire_lease overwrites the entry: a same-owner acquire is allowed and
   gets a new token, which silently retires the old one.                   *)
Granted(owner, n, now) ==
    [owner |-> owner, token |-> <<owner, n>>, expires_at |-> now + Ttl]

M_MatchesByOwner(entry, token) ==
    entry # NoLease /\ entry.owner = token[1]

(* The match renew and release make between a Lease and the table. *)
Matches(entry, token) ==
    entry # NoLease /\ entry.token = token /\ entry.owner = token[1]

Renewable(entry, token, now) ==
    Matches(entry, token) /\ entry.expires_at > now

FindOwner(entry, now) ==
    IF entry # NoLease /\ entry.expires_at > now THEN {entry.owner} ELSE {}

=============================================================================
