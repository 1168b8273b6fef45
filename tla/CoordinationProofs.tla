------------------------- MODULE CoordinationProofs -------------------------
(***************************************************************************)
(* Lease safety of the coordinator for any number of canvases, owners and  *)
(* concurrent calls, any TTL and any interleaving with the clock.          *)
(*                                                                         *)
(* LeaseExclusive is not inductive.  What carries it is `Backed' (a        *)
(* standing promise is the entry of the table, to the token and the        *)
(* expiry), which needs `CallsInPast' (a queued call decides with a reading*)
(* no later than the clock, so it never steals too early) and              *)
(* `TokenIdentifies' (a token belongs to one handle, so nobody else can    *)
(* release or renew what it stands for).                                   *)
(***************************************************************************)
EXTENDS Coordination, TLAPS

CallsInPast == \A p \in Caller : calls[p] # Idle => calls[p].now <= clock

TokensUsed ==
    /\ \A h \in handles : h.token[1] = h.owner /\ h.token[2] < counter
    /\ \A c \in Canvas : leases[c] # NoLease =>
          leases[c].token[1] = leases[c].owner /\ leases[c].token[2] < counter

TokenIdentifies == \A g, h \in handles : g.token = h.token => g = h

Backed ==
    \A h \in handles : Holds(h) =>
        /\ leases[h.canvas] # NoLease
        /\ leases[h.canvas].token = h.token
        /\ leases[h.canvas].owner = h.owner
        /\ leases[h.canvas].expires_at = h.until

IInv == TypeOK /\ CallsInPast /\ TokensUsed /\ TokenIdentifies /\ Backed

-----------------------------------------------------------------------------

USE TtlAssumption, NoLeaseAssumption

(* The initial table satisfies the inductive invariant. *)
LEMMA InitIInv == Init => IInv
BY DEF Init, IInv, TypeOK, CallsInPast, TokensUsed, TokenIdentifies, Backed,
       Handle, Idle

(* Queueing a call whose clock reading is the current one keeps IInv. *)
LEMMA BeginIInv ==
    ASSUME IInv, NEW p \in Caller, NEW call \in Call, call.now = clock,
           Begin(p, call)
    PROVE  IInv'
BY DEF IInv, TypeOK, CallsInPast, TokensUsed, TokenIdentifies, Backed, Begin,
       Holds

(* Retiring the handles of an owner keeps them handles, token by token. *)
LEMMA RetireHandles ==
    ASSUME IInv, NEW c \in Canvas, NEW o \in Owner
    PROVE  /\ Retire(c, o) \in SUBSET Handle
           /\ \A g \in Retire(c, o) : \E h \in handles :
                 /\ g.token = h.token /\ g.canvas = h.canvas
                 /\ g.owner = h.owner /\ g.until = h.until
                 /\ (g.current => h.current /\ ~(h.canvas = c /\ h.owner = o))
           /\ \A g, h \in Retire(c, o) : g.token = h.token => g = h
<1> DEFINE out(h) == IF h.canvas = c /\ h.owner = o
                     THEN [h EXCEPT !.current = FALSE] ELSE h
<1>1. Retire(c, o) = {out(h) : h \in handles}
  BY DEF Retire
<1>2. \A h \in handles :
         /\ out(h) \in Handle
         /\ out(h).token = h.token /\ out(h).canvas = h.canvas
         /\ out(h).owner = h.owner /\ out(h).until = h.until
         /\ (out(h).current => h.current /\ ~(h.canvas = c /\ h.owner = o))
  BY DEF IInv, TypeOK, Handle
<1> HIDE DEF out
<1>3. \A g, h \in Retire(c, o) : g.token = h.token => g = h
  BY <1>1, <1>2 DEF IInv, TokenIdentifies
<1> QED BY <1>1, <1>2, <1>3

(* A granted acquire keeps IInv: nobody else's promise stood on the canvas. *)
LEMMA AcquireIInv ==
    ASSUME IInv, NEW p \in Caller, AcquireGranted(p)
    PROVE  IInv'
<1> DEFINE call == calls[p]
           entry == Granted(call.owner, counter, call.now)
           new == [canvas |-> call.canvas, owner |-> call.owner,
                   token |-> entry.token, until |-> entry.expires_at,
                   current |-> TRUE]
<1>1. /\ call.canvas \in Canvas /\ call.owner \in Owner /\ call.now \in Nat
      /\ call.now <= clock
      /\ clock \in Nat /\ counter \in Nat
  BY DEF IInv, TypeOK, CallsInPast, Call, Idle, AcquireGranted
<1>2. /\ entry \in LeaseEntry /\ new \in Handle
      /\ entry.token = <<call.owner, counter>> /\ entry.owner = call.owner
      /\ entry.expires_at = call.now + Ttl
  BY <1>1 DEF Granted, LeaseEntry, Handle, Token
<1>3. /\ leases' = [leases EXCEPT ![call.canvas] = entry]
      /\ handles' = Retire(call.canvas, call.owner) \cup {new}
      /\ counter' = counter + 1 /\ clock' = clock /\ presence' = presence
      /\ calls' = [calls EXCEPT ![p] = Idle]
      /\ ~Refused(leases[call.canvas], call.owner, call.now)
  BY DEF AcquireGranted
<1> HIDE DEF entry, new
<1>4. TypeOK'
  BY <1>1, <1>2, <1>3, RetireHandles DEF IInv, TypeOK
<1>5. CallsInPast'
  BY <1>3 DEF IInv, TypeOK, CallsInPast, Idle
<1>6. TokensUsed'
  <2>1. \A h \in handles' : h.token[1] = h.owner /\ h.token[2] < counter'
    BY <1>1, <1>2, <1>3, RetireHandles
       DEF IInv, TypeOK, TokensUsed, new, Handle, Token
  <2>2. \A c \in Canvas : leases'[c] # NoLease =>
           leases'[c].token[1] = leases'[c].owner
           /\ leases'[c].token[2] < counter'
    BY <1>1, <1>2, <1>3 DEF IInv, TypeOK, TokensUsed, LeaseEntry, Token
  <2> QED BY <2>1, <2>2 DEF TokensUsed
<1>7. TokenIdentifies'
  <2>1. \A g \in Retire(call.canvas, call.owner) : g.token # new.token
    BY <1>1, <1>2, RetireHandles
       DEF IInv, TypeOK, TokensUsed, new, Handle, Token
  <2> QED BY <1>1, <1>3, <2>1, RetireHandles DEF TokenIdentifies
<1>8. Backed'
  <2> SUFFICES ASSUME NEW g \in handles', Holds(g)'
               PROVE  /\ leases'[g.canvas] # NoLease
                      /\ leases'[g.canvas].token = g.token
                      /\ leases'[g.canvas].owner = g.owner
                      /\ leases'[g.canvas].expires_at = g.until
    BY DEF Backed
  <2>1. CASE g = new
    BY <1>1, <1>2, <1>3, <2>1 DEF new, IInv, TypeOK, LeaseEntry
  <2>2. CASE g \in Retire(call.canvas, call.owner)
    <3>1. PICK h \in handles :
             /\ g.token = h.token /\ g.canvas = h.canvas
             /\ g.owner = h.owner /\ g.until = h.until
             /\ (g.current => /\ h.current
                              /\ ~(h.canvas = call.canvas /\ h.owner = call.owner))
      BY <1>1, <2>2, RetireHandles
    <3>2. Holds(h) /\ ~(h.canvas = call.canvas /\ h.owner = call.owner)
      BY <1>3, <3>1 DEF Holds
    <3>3. /\ leases[h.canvas] # NoLease
          /\ leases[h.canvas].token = h.token
          /\ leases[h.canvas].owner = h.owner
          /\ leases[h.canvas].expires_at = h.until
      BY <3>2 DEF IInv, Backed
    <3>4. h.canvas # call.canvas
      BY <1>1, <1>3, <3>2, <3>3 DEF Refused, Holds, IInv, TypeOK, Handle
    <3> QED BY <1>3, <3>1, <3>3, <3>4 DEF IInv, TypeOK, Handle
  <2> QED BY <1>3, <2>1, <2>2
<1> QED BY <1>4, <1>5, <1>6, <1>7, <1>8 DEF IInv

(* A granted renewal keeps IInv: it moves the one promise it stands for. *)
LEMMA RenewIInv ==
    ASSUME IInv, NEW p \in Caller, RenewGranted(p)
    PROVE  IInv'
<1> DEFINE call == calls[p]
           moved(h) == IF h.canvas = call.canvas /\ h.token = call.token
                       THEN [h EXCEPT !.until = call.now + Ttl] ELSE h
<1>1. /\ call.canvas \in Canvas /\ call.now \in Nat /\ call.now <= clock
      /\ clock \in Nat
  BY DEF IInv, TypeOK, CallsInPast, Call, Idle, RenewGranted
<1>2. /\ leases' = [leases EXCEPT ![call.canvas].expires_at = call.now + Ttl]
      /\ handles' = {moved(h) : h \in handles}
      /\ counter' = counter /\ clock' = clock /\ presence' = presence
      /\ calls' = [calls EXCEPT ![p] = Idle]
      /\ leases[call.canvas] # NoLease
      /\ leases[call.canvas].token = call.token
  BY DEF RenewGranted, Renewable, Matches
<1>3. \A h \in handles :
         /\ moved(h) \in Handle
         /\ moved(h).token = h.token /\ moved(h).canvas = h.canvas
         /\ moved(h).owner = h.owner /\ moved(h).current = h.current
  BY <1>1 DEF IInv, TypeOK, Handle
<1> HIDE DEF moved
<1>4. leases[call.canvas] \in LeaseEntry
  BY <1>1, <1>2 DEF IInv, TypeOK
<1>5. TypeOK'
  BY <1>1, <1>2, <1>3, <1>4 DEF IInv, TypeOK, LeaseEntry
<1>6. CallsInPast'
  BY <1>2 DEF IInv, TypeOK, CallsInPast, Idle
<1>7. TokensUsed'
  BY <1>1, <1>2, <1>3, <1>4 DEF IInv, TypeOK, TokensUsed, LeaseEntry
<1>8. TokenIdentifies'
  BY <1>2, <1>3 DEF IInv, TokenIdentifies
<1>9. Backed'
  <2> SUFFICES ASSUME NEW h \in handles,
                      moved(h).current, moved(h).until > clock
               PROVE  /\ leases'[h.canvas] # NoLease
                      /\ leases'[h.canvas].token = h.token
                      /\ leases'[h.canvas].owner = h.owner
                      /\ leases'[h.canvas].expires_at = moved(h).until
    BY <1>2, <1>3 DEF Backed, Holds
  <2>1. CASE h.canvas = call.canvas /\ h.token = call.token
    <3>1. leases[call.canvas].owner = h.owner
      BY <1>1, <1>2, <2>1 DEF IInv, TypeOK, TokensUsed, Handle, LeaseEntry
    <3>2. moved(h).until = call.now + Ttl
      BY <2>1 DEF moved, IInv, TypeOK, Handle
    <3>3. leases'[call.canvas] = [leases[call.canvas] EXCEPT
                                    !.expires_at = call.now + Ttl]
      BY <1>1, <1>2 DEF IInv, TypeOK
    <3>4. leases'[call.canvas] # NoLease
      BY <1>1, <1>4, <3>3 DEF LeaseEntry, Token
    <3> QED BY <1>2, <1>4, <2>1, <3>1, <3>2, <3>3, <3>4 DEF LeaseEntry
  <2>2. CASE ~(h.canvas = call.canvas /\ h.token = call.token)
    <3>1. moved(h) = h /\ Holds(h)
      BY <1>2, <2>2 DEF Holds, moved
    <3>2. h.canvas # call.canvas
      BY <1>2, <2>2, <3>1 DEF IInv, Backed
    <3> QED BY <1>1, <1>2, <3>1, <3>2 DEF IInv, TypeOK, Backed, Handle
  <2> QED BY <2>1, <2>2
<1> QED BY <1>5, <1>6, <1>7, <1>8, <1>9 DEF IInv

(* A release keeps IInv: the entry it removes backs no other promise. *)
LEMMA ReleaseIInv ==
    ASSUME IInv, NEW h \in handles, Release(h)
    PROVE  IInv'
<1> DEFINE out(g) == IF g = h THEN [g EXCEPT !.current = FALSE] ELSE g
<1>1. /\ handles' = {out(g) : g \in handles}
      /\ counter' = counter /\ clock' = clock /\ presence' = presence
      /\ calls' = calls
  BY DEF Release
<1>2. \A g \in handles :
         /\ out(g) \in Handle
         /\ out(g).token = g.token /\ out(g).canvas = g.canvas
         /\ out(g).owner = g.owner /\ out(g).until = g.until
         /\ (out(g).current => g.current /\ g # h)
  BY DEF IInv, TypeOK, Handle
<1> HIDE DEF out
<1>3. /\ leases' \in [Canvas -> LeaseEntry \cup {NoLease}]
      /\ \A c \in Canvas : leases'[c] # NoLease => leases'[c] = leases[c]
  BY DEF Release, IInv, TypeOK, Handle
<1>4. TypeOK'
  BY <1>1, <1>2, <1>3 DEF IInv, TypeOK
<1>5. CallsInPast'
  BY <1>1 DEF IInv, CallsInPast
<1>6. TokensUsed'
  BY <1>1, <1>2, <1>3 DEF IInv, TokensUsed
<1>7. TokenIdentifies'
  BY <1>1, <1>2 DEF IInv, TokenIdentifies
<1>8. Backed'
  <2> SUFFICES ASSUME NEW g \in handles, Holds(out(g))'
               PROVE  /\ leases'[g.canvas] # NoLease
                      /\ leases'[g.canvas].token = g.token
                      /\ leases'[g.canvas].owner = g.owner
                      /\ leases'[g.canvas].expires_at = g.until
    BY <1>1, <1>2 DEF Backed
  <2>1. Holds(g) /\ g # h
    BY <1>1, <1>2 DEF Holds
  <2>2. /\ leases[g.canvas] # NoLease
        /\ leases[g.canvas].token = g.token
        /\ leases[g.canvas].owner = g.owner
        /\ leases[g.canvas].expires_at = g.until
    BY <2>1 DEF IInv, Backed
  <2>3. g.token # h.token
    BY <2>1 DEF IInv, TokenIdentifies
  <2>4. leases'[g.canvas] = leases[g.canvas]
    <3>1. CASE Matches(leases[h.canvas], h.token)
      BY <2>2, <2>3, <3>1 DEF Release, Matches, IInv, TypeOK, Handle
    <3>2. CASE ~Matches(leases[h.canvas], h.token)
      BY <3>2 DEF Release
    <3> QED BY <3>1, <3>2
  <2> QED BY <2>2, <2>4
<1> QED BY <1>4, <1>5, <1>6, <1>7, <1>8 DEF IInv

(* Every step of the coordinator keeps the inductive invariant. *)
LEMMA NextIInv == IInv /\ [Next]_vars => IInv'
<1> SUFFICES ASSUME IInv, [Next]_vars PROVE IInv'
  OBVIOUS
<1>1. CASE Tick
  BY <1>1 DEF Tick, IInv, TypeOK, CallsInPast, TokensUsed, TokenIdentifies,
              Backed, Holds, Call, Idle, Handle
<1>2. ASSUME NEW p \in Caller, NEW c \in Canvas, NEW o \in Owner,
             BeginAcquire(p, c, o)
      PROVE  IInv'
  BY <1>2, BeginIInv DEF BeginAcquire, Call, IInv, TypeOK
<1>3. ASSUME NEW p \in Caller, NEW h \in handles, BeginRenew(p, h)
      PROVE  IInv'
  BY <1>3, BeginIInv DEF BeginRenew, Call, IInv, TypeOK, Handle
<1>4. ASSUME NEW p \in Caller, NEW c \in Canvas, NEW k \in Key,
             BeginPresencePut(p, c, k)
      PROVE  IInv'
  BY <1>4, BeginIInv DEF BeginPresencePut, Call, IInv, TypeOK
<1>5. ASSUME NEW p \in Caller, NEW c \in Canvas, BeginPresenceGet(p, c)
      PROVE  IInv'
  BY <1>5, BeginIInv DEF BeginPresenceGet, Call, IInv, TypeOK
<1>6. ASSUME NEW p \in Caller, AcquireRefused(p) \/ RenewRefused(p)
      PROVE  IInv'
  BY <1>6 DEF AcquireRefused, RenewRefused, IInv, TypeOK, CallsInPast,
              TokensUsed, TokenIdentifies, Backed, Holds, Idle
<1>7. ASSUME NEW p \in Caller, PresencePut(p) \/ PresenceGet(p)
      PROVE  IInv'
  <2>1. /\ calls[p].canvas \in Canvas /\ calls[p].now \in Nat
        /\ presence \in [Canvas -> [Key -> Nat]]
        /\ (PresencePut(p) => calls[p].key \in Key)
    BY <1>7 DEF PresencePut, PresenceGet, IInv, TypeOK, Call, Idle
  <2>2. presence' \in [Canvas -> [Key -> Nat]]
    <3>1. CASE PresencePut(p)
      BY <2>1, <3>1 DEF PresencePut
    <3>2. CASE PresenceGet(p)
      <4>1. Retained(presence[calls[p].canvas], calls[p].now) \in [Key -> Nat]
        BY <2>1 DEF Retained
      <4> QED BY <2>1, <3>2, <4>1 DEF PresenceGet
    <3> QED BY <1>7, <3>1, <3>2
  <2>3. /\ UNCHANGED <<clock, leases, counter, handles>>
        /\ calls' = [calls EXCEPT ![p] = Idle]
    BY <1>7 DEF PresencePut, PresenceGet
  <2> QED
    BY <2>2, <2>3 DEF IInv, TypeOK, CallsInPast, TokensUsed, TokenIdentifies,
                      Backed, Holds
<1>8. CASE UNCHANGED vars
  BY <1>8 DEF vars, IInv, TypeOK, CallsInPast, TokensUsed, TokenIdentifies,
              Backed, Holds
<1> QED
  BY <1>1, <1>2, <1>3, <1>4, <1>5, <1>6, <1>7, <1>8, AcquireIInv, RenewIInv,
     ReleaseIInv DEF Next

(* The inductive invariant holds in every reachable state. *)
THEOREM Inductive == Spec => []IInv
BY InitIInv, NextIInv, PTL DEF Spec

(* The variables of the coordinator keep their types. *)
THEOREM TypeCorrect == Spec => []TypeOK
<1>1. IInv => TypeOK
  BY DEF IInv
<1> QED BY <1>1, Inductive, PTL

(* Two lessees never both hold a promise that still stands (acquire_lease,
   renew, release), whatever the number of canvases, owners and callers.   *)
THEOREM LeaseSafety == Spec => []LeaseExclusive
<1>1. IInv => LeaseExclusive
  BY DEF IInv, LeaseExclusive, Backed, TokenIdentifies
<1> QED BY <1>1, Inductive, PTL

(* find_owner names the holder of every standing promise. *)
THEOREM RoutingSafety == Spec => []HolderIsRoutable
<1>1. IInv => HolderIsRoutable
  BY DEF IInv, TypeOK, HolderIsRoutable, Backed, FindOwner, Holds
<1> QED BY <1>1, Inductive, PTL

(* A lease that is live on the clock never changes owner in a step. *)
THEOREM NoSteal == Spec => LiveLeaseNotStolen
<1> DEFINE Kept == \A c \in Canvas :
              leases[c] # NoLease /\ leases[c].expires_at > clock
              /\ leases'[c] # NoLease
              => leases'[c].owner = leases[c].owner
<1>1. IInv /\ [Next]_vars => [Kept]_vars
  <2> SUFFICES ASSUME IInv, Next, NEW c \in Canvas,
                      leases[c] # NoLease, leases[c].expires_at > clock,
                      leases'[c] # NoLease, leases'[c] # leases[c]
               PROVE  leases'[c].owner = leases[c].owner
    OBVIOUS
  <2>1. ASSUME NEW p \in Caller, AcquireGranted(p)
        PROVE  leases'[c].owner = leases[c].owner
    <3>1. /\ calls[p].canvas \in Canvas /\ calls[p].now \in Nat
          /\ calls[p].now <= clock /\ clock \in Nat
      BY <2>1 DEF IInv, TypeOK, CallsInPast, Call, Idle, AcquireGranted
    <3>2. calls[p].canvas = c
      BY <2>1, <3>1 DEF AcquireGranted, IInv, TypeOK
    <3>3. leases[c].expires_at > calls[p].now
      BY <3>1 DEF IInv, TypeOK, LeaseEntry
    <3>4. leases[c].owner = calls[p].owner
      BY <2>1, <3>2, <3>3 DEF AcquireGranted, Refused
    <3>5. leases'[c].owner = calls[p].owner
      BY <2>1, <3>1, <3>2 DEF AcquireGranted, Granted, IInv, TypeOK
    <3> QED BY <3>4, <3>5
  <2>2. ASSUME NEW p \in Caller, RenewGranted(p)
        PROVE  leases'[c].owner = leases[c].owner
    BY <2>2 DEF RenewGranted, IInv, TypeOK, LeaseEntry, Call, Idle
  <2>3. ASSUME NEW h \in handles, Release(h)
        PROVE  leases'[c].owner = leases[c].owner
    BY <2>3 DEF Release, IInv, TypeOK, Handle
  <2> QED
    BY <2>1, <2>2, <2>3 DEF Next, Tick, Begin, BeginAcquire, BeginRenew,
       BeginPresencePut, BeginPresenceGet, AcquireRefused, RenewRefused,
       PresencePut, PresenceGet
<1> QED BY <1>1, Inductive, PTL DEF Spec, LiveLeaseNotStolen

-----------------------------------------------------------------------------

(* An acquire that is granted is one Acquire of the lease service: the stale
   reading refuses at least what the clock would, and promises no more.    *)
LEMMA AcquireIsAtomic ==
    ASSUME IInv, NEW p \in Caller, AcquireGranted(p)
    PROVE  Service!Next
<1> DEFINE call == calls[p]
           entry == Granted(call.owner, counter, call.now)
<1>1. /\ call.canvas \in Canvas /\ call.owner \in Owner /\ call.now \in Nat
      /\ call.now <= clock /\ clock \in Nat /\ counter \in Nat
  BY DEF IInv, TypeOK, CallsInPast, Call, Idle, AcquireGranted
<1>2. /\ entry \in LeaseEntry /\ entry # NoLease /\ entry.owner = call.owner
      /\ entry.token = <<call.owner, counter>>
      /\ entry.expires_at <= clock + Ttl
  BY <1>1 DEF Granted, LeaseEntry, Token
<1>3. ~Refused(leases[call.canvas], call.owner, clock)
  BY <1>1 DEF AcquireGranted, Refused, IInv, TypeOK, LeaseEntry
<1>4. \A h \in handles : h.token # entry.token
  BY <1>1, <1>2 DEF IInv, TypeOK, TokensUsed, Handle, Token
<1>5. /\ leases' = [leases EXCEPT ![call.canvas] = entry]
      /\ handles' = Retire(call.canvas, call.owner) \cup
                    {[canvas |-> call.canvas, owner |-> call.owner,
                      token |-> entry.token, until |-> entry.expires_at,
                      current |-> TRUE]}
      /\ clock' = clock
  BY DEF AcquireGranted
<1> HIDE DEF entry
<1>6. leases'[call.canvas] = entry
  BY <1>1, <1>5 DEF IInv, TypeOK
<1>7. /\ ~Service!Refused(leases[call.canvas], call.owner, clock)
      /\ entry \in Service!LeaseEntry /\ entry.token[1] = call.owner
      /\ Retire(call.canvas, call.owner)
           = Service!Retired(call.canvas, call.owner)
  BY <1>2, <1>3 DEF Service!Retired, Service!Refused, Refused, Retire,
                    Service!LeaseEntry, LeaseEntry, Service!Token, Token
<1>8. Service!Acquire(call.canvas, call.owner)
  BY <1>2, <1>4, <1>5, <1>6, <1>7, Zenon DEF Service!Acquire
<1> QED BY <1>1, <1>8 DEF Service!Next

(* A renewal that is granted is one Renew. *)
LEMMA RenewIsAtomic ==
    ASSUME IInv, NEW p \in Caller, RenewGranted(p)
    PROVE  Service!Renew(calls[p].canvas)
<1> DEFINE call == calls[p]
           e == call.now + Ttl
<1>1. /\ call.canvas \in Canvas /\ call.now \in Nat /\ call.now <= clock
      /\ clock \in Nat
  BY DEF IInv, TypeOK, CallsInPast, Call, Idle, RenewGranted
<1>2. e \in 0..clock + Ttl
  BY <1>1
<1>3. /\ leases[call.canvas] # NoLease
      /\ leases[call.canvas].token = call.token
      /\ leases' = [leases EXCEPT ![call.canvas].expires_at = e]
      /\ handles' = { IF h.canvas = call.canvas /\ h.token = call.token
                      THEN [h EXCEPT !.until = e] ELSE h : h \in handles }
      /\ clock' = clock
  BY DEF RenewGranted, Renewable, Matches
<1> HIDE DEF e
<1>4. handles' = { IF h.canvas = call.canvas /\ h.token = leases[call.canvas].token
                   THEN [h EXCEPT !.until = e] ELSE h : h \in handles }
  BY <1>3
<1> QED BY <1>2, <1>3, <1>4, Zenon DEF Service!Renew

(* Every step is a step of the lease service, or changes nothing it shows. *)
LEMMA StepIsAtomic == IInv /\ [Next]_vars => [Service!Next]_(Service!vars)
<1> SUFFICES ASSUME IInv, [Next]_vars
             PROVE  Service!Next \/ UNCHANGED Service!vars
  OBVIOUS
<1>1. CASE Tick
  BY <1>1 DEF Tick, Service!Next, Service!Tick
<1>2. ASSUME NEW p \in Caller, AcquireGranted(p)
      PROVE  Service!Next
  BY <1>2, AcquireIsAtomic
<1>3. ASSUME NEW p \in Caller, RenewGranted(p)
      PROVE  Service!Next
  <2>1. calls[p].canvas \in Canvas
    BY <1>3 DEF RenewGranted, IInv, TypeOK, Call, Idle
  <2> QED BY <1>3, <2>1, RenewIsAtomic DEF Service!Next
<1>4. ASSUME NEW h \in handles, Release(h)
      PROVE  Service!Next
  BY <1>4 DEF Release, Service!Next, Service!Release, Service!Matches, Matches
<1>5. CASE UNCHANGED <<clock, leases, handles>>
  BY <1>5 DEF Service!vars
<1> QED
  BY <1>1, <1>2, <1>3, <1>4, <1>5
     DEF Next, vars, Begin, BeginAcquire, BeginRenew, BeginPresencePut,
         BeginPresenceGet, AcquireRefused, RenewRefused, PresencePut, PresenceGet

(* The in-memory coordinator implements the lease service: calls that read
   the clock, wait and then act look like operations at one moment.        *)
THEOREM ImplementsLeaseService == Spec => ActsAsLeaseService
<1>1. Init => Service!Init
  BY DEF Init, Service!Init
<1> QED
  BY <1>1, Inductive, StepIsAtomic, PTL DEF Spec, ActsAsLeaseService, Service!Spec

=============================================================================
