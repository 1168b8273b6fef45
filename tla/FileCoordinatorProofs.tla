------------------------ MODULE FileCoordinatorProofs -----------------------
(***************************************************************************)
(* The file coordinator implements the lease service, for any processes,   *)
(* calls, canvases and TTL, and any of them may die at any moment.         *)
(*                                                                         *)
(* An operation is decided when it gets the lock and takes effect when it  *)
(* has written the file.  What carries the proof is that the decision      *)
(* still stands then (`Decided'), because whoever writes has the lock      *)
(* (`Locked'), and that a process gives each of its tokens to one acquire  *)
(* (`TokensUsed'), although it takes them before it has the lock.          *)
(***************************************************************************)
EXTENDS FileCoordinator, TLAPS

CallsInPast == \A p \in Caller : calls[p] # Idle => calls[p].now <= clock

TokensUsed ==
    /\ \A h \in handles : h.token[1] = h.owner /\ h.token[2] < counter[h.owner]
    /\ \A p \in Caller :
         /\ calls[p].op = "acquire" =>
               /\ calls[p].n < counter[p[1]]
               /\ \A h \in handles : h.token # <<p[1], calls[p].n>>
         /\ calls[p].op = "renew" => calls[p].token[1] = p[1]
    /\ \A p, q \in Caller :
         calls[p].op = "acquire" /\ calls[q].op = "acquire" /\ p[1] = q[1]
         /\ calls[p].n = calls[q].n => p = q

(* Whoever writes a file of a canvas has its lock, and the other way round. *)
Locked ==
    /\ \A p \in Caller : calls[p].writing => lock[calls[p].canvas] = p
    /\ \A c \in Canvas : lock[c] # Free =>
          calls[lock[c]].writing /\ calls[lock[c]].canvas = c

(* What a call saw in the lease file when it got the lock is still there. *)
DecidedBy(p) ==
    LET entry == leases[calls[p].canvas] IN
    calls[p].writing =>
        /\ calls[p].op = "acquire" => ~Refused(entry, p[1], calls[p].now)
        /\ calls[p].op = "renew" => /\ entry # NoLease
                                    /\ entry.token = calls[p].token
                                    /\ entry.owner = p[1]

Decided == \A p \in Caller : DecidedBy(p)

IInv == TypeOK /\ CallsInPast /\ TokensUsed /\ Locked /\ Decided

-----------------------------------------------------------------------------

USE TtlAssumption, NoLeaseAssumption, FreeAssumption DEF Caller

(* The initial files satisfy the inductive invariant. *)
LEMMA InitIInv == Init => IInv
BY DEF Init, IInv, TypeOK, CallsInPast, TokensUsed, Locked, Decided, DecidedBy,
       Handle, Idle

(* What a call is, by its operation. *)
LEMMA CallFields ==
    ASSUME TypeOK, NEW p \in Caller
    PROVE  /\ calls[p] \in Call \cup {Idle} /\ calls[p].writing \in BOOLEAN
           /\ calls[p] # Idle => calls[p].canvas \in Canvas /\ calls[p].now \in Nat
           /\ calls[p].op = "acquire" => calls[p] # Idle /\ calls[p].n \in Nat
           /\ calls[p].op = "renew" => calls[p] # Idle /\ calls[p].token \in Token
           /\ calls[p].op \in {"put", "get"} => calls[p] # Idle /\ calls[p].key \in Key
           /\ calls[p].writing => calls[p] # Idle
           /\ p[1] \in Owner
<1>1. p[1] \in Owner /\ calls[p] \in Call \cup {Idle}
  BY DEF TypeOK
<1>2. CASE calls[p] = Idle
  BY <1>1, <1>2 DEF Idle
<1>3. ASSUME NEW call \in Call
      PROVE  /\ call.writing \in BOOLEAN /\ call.canvas \in Canvas
             /\ call.now \in Nat /\ call.op # "idle"
             /\ call.op = "acquire" => call.n \in Nat
             /\ call.op = "renew" => call.token \in Token
             /\ call.op \in {"put", "get"} => call.key \in Key
  BY DEF Call
<1>4. CASE calls[p] \in Call
  BY <1>1, <1>3, <1>4 DEF Idle
<1> QED BY <1>1, <1>2, <1>4

(* A call that begins waits for the lock, with the current time, and takes
   from its process a token nobody has.                                    *)
LEMMA BeginIInv ==
    ASSUME IInv, NEW p \in Caller, NEW call \in Call,
           ~call.writing, call.now = clock, Begin(p, call),
           \/ /\ call.op = "acquire" /\ call.n = counter[p[1]]
              /\ counter' = [counter EXCEPT ![p[1]] = @ + 1]
           \/ /\ call.op # "acquire" /\ counter' = counter
              /\ call.op = "renew" => call.token[1] = p[1]
    PROVE  IInv'
<1>1. /\ calls[p] = Idle /\ calls' = [calls EXCEPT ![p] = call]
      /\ UNCHANGED <<clock, leases, presence, lock, handles, up>>
  BY DEF Begin
<1>2. /\ p[1] \in Owner /\ counter \in [Owner -> Nat] /\ calls' \in [Caller -> Call \cup {Idle}]
      /\ calls'[p] = call /\ \A q \in Caller : q # p => calls'[q] = calls[q]
  BY <1>1 DEF IInv, TypeOK
<1>3. /\ counter' \in [Owner -> Nat]
      /\ \A o \in Owner : counter[o] <= counter'[o]
      /\ call.op = "acquire" => call.n < counter'[p[1]]
  BY <1>2
<1>4. TypeOK'
  BY <1>1, <1>2, <1>3 DEF IInv, TypeOK
<1>5. CallsInPast'
  BY <1>1, <1>2 DEF IInv, TypeOK, CallsInPast
<1>6. Locked'
  <2>1. \A q \in Caller : calls'[q].writing => calls[q].writing /\ calls'[q] = calls[q]
    BY <1>2
  <2>2. \A c \in Canvas : lock[c] # Free => lock[c] \in Caller /\ lock[c] # p
    BY <1>1, CallFields DEF IInv, TypeOK, Locked, Idle
  <2> QED BY <1>1, <1>2, <2>1, <2>2 DEF IInv, Locked
<1>7. Decided'
  BY <1>1, <1>2 DEF IInv, Decided, DecidedBy
<1>8. TokensUsed'
  <2>1. \A h \in handles : h.token[1] = h.owner /\ h.token[2] < counter'[h.owner]
                         /\ h.owner \in Owner /\ h.token \in Token
    BY <1>2, <1>3 DEF IInv, TypeOK, TokensUsed, Handle, Token
  <2>2. \A q \in Caller :
          /\ calls'[q].op = "acquire" =>
               /\ calls'[q].n < counter'[q[1]]
               /\ \A h \in handles : h.token # <<q[1], calls'[q].n>>
          /\ calls'[q].op = "renew" => calls'[q].token[1] = q[1]
    <3> SUFFICES ASSUME NEW q \in Caller
                 PROVE  /\ calls'[q].op = "acquire" =>
                             /\ calls'[q].n < counter'[q[1]]
                             /\ \A h \in handles : h.token # <<q[1], calls'[q].n>>
                        /\ calls'[q].op = "renew" => calls'[q].token[1] = q[1]
      OBVIOUS
    <3>1. CASE q # p
      BY <1>2, <1>3, <3>1, CallFields DEF IInv, TokensUsed
    <3>2. CASE q = p
      BY <1>2, <1>3, <2>1, <3>2 DEF IInv, TokensUsed, TypeOK, Handle, Token
    <3> QED BY <3>1, <3>2
  <2>3. \A q, r \in Caller :
          calls'[q].op = "acquire" /\ calls'[r].op = "acquire" /\ q[1] = r[1]
          /\ calls'[q].n = calls'[r].n => q = r
    <3>1. call.op = "acquire" => \A q \in Caller :
            calls[q].op = "acquire" /\ q[1] = p[1] => calls[q].n # call.n
      BY <1>2, CallFields DEF IInv, TokensUsed
    <3> QED BY <1>2, <3>1 DEF IInv, TokensUsed
  <2> QED BY <1>1, <2>1, <2>2, <2>3 DEF TokensUsed
<1> QED BY <1>4, <1>5, <1>6, <1>7, <1>8 DEF IInv

(* A call that gets the lock and refuses is gone. *)
LEMMA RefusedIInv ==
    ASSUME IInv, NEW p \in Caller, ~calls[p].writing,
           calls' = [calls EXCEPT ![p] = Idle],
           UNCHANGED <<clock, leases, presence, lock, counter, handles, up>>
    PROVE  IInv'
<1>1. /\ calls' \in [Caller -> Call \cup {Idle}] /\ calls'[p] = Idle
      /\ \A q \in Caller : q # p => calls'[q] = calls[q]
  BY DEF IInv, TypeOK
<1>2. Idle.op = "idle" /\ Idle.writing = FALSE
  BY DEF Idle
<1>3. TypeOK' /\ CallsInPast'
  BY <1>1 DEF IInv, TypeOK, CallsInPast
<1>4. TokensUsed'
  BY <1>1, <1>2 DEF IInv, TokensUsed
<1>5. Locked'
  <2>1. \A c \in Canvas : lock[c] # Free => lock[c] \in Caller /\ lock[c] # p
    BY DEF IInv, TypeOK, Locked
  <2> QED BY <1>1, <1>2, <2>1 DEF IInv, Locked
<1>6. Decided'
  BY <1>1, <1>2 DEF IInv, Decided, DecidedBy
<1> QED BY <1>3, <1>4, <1>5, <1>6 DEF IInv

(* A call that gets the lock decides on what the file says. *)
LEMMA EnterIInv ==
    ASSUME IInv, NEW p \in Caller, ~calls[p].writing, calls[p] # Idle,
           lock[calls[p].canvas] = Free,
           calls[p].op \in {"acquire", "renew"} => Granting(p),
           lock' = [lock EXCEPT ![calls[p].canvas] = p],
           calls' = [calls EXCEPT ![p].writing = TRUE],
           UNCHANGED <<clock, leases, presence, counter, handles, up>>
    PROVE  IInv'
<1> DEFINE call == calls[p]
<1>1. /\ call \in Call /\ call.canvas \in Canvas
      /\ lock \in [Canvas -> Caller \cup {Free}]
  BY CallFields DEF IInv, TypeOK
<1>2. /\ [call EXCEPT !.writing = TRUE] \in Call
      /\ [call EXCEPT !.writing = TRUE].writing
      /\ [call EXCEPT !.writing = TRUE].op = call.op
      /\ [call EXCEPT !.writing = TRUE].canvas = call.canvas
      /\ [call EXCEPT !.writing = TRUE].now = call.now
      /\ call.op = "acquire" => [call EXCEPT !.writing = TRUE].n = call.n
      /\ call.op = "renew" => [call EXCEPT !.writing = TRUE].token = call.token
  BY <1>1 DEF Call
<1>3. /\ calls' \in [Caller -> Call \cup {Idle}]
      /\ calls'[p] = [call EXCEPT !.writing = TRUE]
      /\ \A q \in Caller : q # p => calls'[q] = calls[q]
  BY <1>2 DEF IInv, TypeOK
<1>4. TypeOK'
  BY <1>1, <1>3 DEF IInv, TypeOK
<1>5. CallsInPast'
  BY <1>2, <1>3 DEF IInv, CallsInPast
<1>6. TokensUsed'
  <2>1. \A q \in Caller : /\ calls'[q].op = calls[q].op
                          /\ calls[q].op = "acquire" => calls'[q].n = calls[q].n
                          /\ calls[q].op = "renew" => calls'[q].token = calls[q].token
    BY <1>2, <1>3
  <2> QED BY <2>1 DEF IInv, TokensUsed
<1>7. Locked'
  <2>1. \A q \in Caller \ {p} : calls[q].writing =>
           calls[q].canvas # call.canvas /\ calls[q].canvas \in Canvas
    BY CallFields DEF IInv, Locked
  <2>2. \A c \in Canvas : lock[c] # Free => lock[c] \in Caller /\ lock[c] # p
    BY DEF IInv, TypeOK, Locked
  <2>3. /\ lock'[call.canvas] = p
        /\ \A c \in Canvas : c # call.canvas => lock'[c] = lock[c]
    BY <1>1
  <2>4. \A q \in Caller : calls'[q].writing => lock'[calls'[q].canvas] = q
    BY <1>2, <1>3, <2>1, <2>3 DEF IInv, Locked
  <2>5. \A c \in Canvas : lock'[c] # Free =>
           calls'[lock'[c]].writing /\ calls'[lock'[c]].canvas = c
    BY <1>2, <1>3, <2>2, <2>3 DEF IInv, Locked
  <2> QED BY <2>4, <2>5 DEF Locked
<1>8. Decided'
  <2>1. DecidedBy(p)'
    <3>1. call.op = "acquire" => ~Refused(leases[call.canvas], p[1], call.now)
      BY DEF Granting
    <3>2. call.op = "renew" => /\ leases[call.canvas] # NoLease
                              /\ leases[call.canvas].token = call.token
                              /\ leases[call.canvas].owner = p[1]
      BY DEF Granting, Renewable, Matches, IInv, TokensUsed
    <3> QED BY <1>2, <1>3, <3>1, <3>2 DEF DecidedBy
  <2>2. \A q \in Caller \ {p} : DecidedBy(q)'
    BY <1>3 DEF IInv, Decided, DecidedBy
  <2> QED BY <2>1, <2>2 DEF Decided
<1> QED BY <1>4, <1>5, <1>6, <1>7, <1>8 DEF IInv

(* Two calls never write for one canvas. *)
LEMMA LockExcludes ==
    ASSUME IInv, NEW p \in Caller, calls[p].writing
    PROVE  /\ calls[p].canvas \in Canvas /\ lock[calls[p].canvas] = p
           /\ \A q \in Caller \ {p} : calls[q].writing =>
                 calls[q].canvas # calls[p].canvas
           /\ \A c \in Canvas \ {calls[p].canvas} : lock[c] # p
<1>1. p # Free
  OBVIOUS
<1> QED BY <1>1, CallFields DEF IInv, Locked

(* A call that has written gives its lock back and is gone. *)
LEMMA LeaveIInv ==
    ASSUME IInv, NEW p \in Caller, calls[p].writing, Leave(p),
           UNCHANGED <<clock, counter, up>>,
           leases' \in [Canvas -> LeaseEntry \cup {NoLease}],
           \A c \in Canvas \ {calls[p].canvas} : leases'[c] = leases[c],
           presence' \in [Canvas -> [Key -> Nat]],
           handles' \in SUBSET Handle,
           \A g \in handles' :
              \/ \E h \in handles : g.token = h.token /\ g.owner = h.owner
              \/ /\ calls[p].op = "acquire"
                 /\ g.token = <<p[1], calls[p].n>> /\ g.owner = p[1]
    PROVE  IInv'
<1>1. /\ calls' = [calls EXCEPT ![p] = Idle]
      /\ lock' = [lock EXCEPT ![calls[p].canvas] = Free]
  BY DEF Leave
<1>2. /\ calls' \in [Caller -> Call \cup {Idle}] /\ calls'[p] = Idle
      /\ \A q \in Caller : q # p => calls'[q] = calls[q]
  BY <1>1 DEF IInv, TypeOK
<1>3. Idle.op = "idle" /\ Idle.writing = FALSE
  BY DEF Idle
<1>4. TypeOK'
  BY <1>1, <1>2, LockExcludes DEF IInv, TypeOK
<1>5. CallsInPast'
  BY <1>2 DEF IInv, CallsInPast
<1>6. Locked'
  <2>1. /\ lock'[calls[p].canvas] = Free
        /\ \A c \in Canvas \ {calls[p].canvas} : lock'[c] = lock[c]
    BY <1>1, LockExcludes DEF IInv, TypeOK
  <2>2. \A q \in Caller : calls'[q].writing => lock'[calls'[q].canvas] = q
    BY <1>2, <1>3, <2>1, LockExcludes, CallFields DEF IInv, Locked
  <2>3. \A c \in Canvas : lock'[c] # Free =>
           calls'[lock'[c]].writing /\ calls'[lock'[c]].canvas = c
    <3> SUFFICES ASSUME NEW c \in Canvas, lock'[c] # Free
                 PROVE  calls'[lock'[c]].writing /\ calls'[lock'[c]].canvas = c
      OBVIOUS
    <3>1. c # calls[p].canvas /\ lock'[c] = lock[c]
      BY <2>1
    <3>2. lock[c] \in Caller /\ lock[c] # p
      BY <3>1, LockExcludes DEF IInv, TypeOK
    <3> QED BY <1>2, <3>1, <3>2 DEF IInv, Locked
  <2> QED BY <2>2, <2>3 DEF Locked
<1>7. Decided'
  BY <1>2, <1>3, LockExcludes, CallFields DEF IInv, Decided, DecidedBy
<1>8. TokensUsed'
  <2>1. \A g \in handles' : /\ g.token[1] = g.owner
                           /\ g.token[2] < counter[g.owner]
    BY CallFields DEF IInv, TokensUsed
  <2>2. \A q \in Caller : calls'[q].op = "acquire" =>
          /\ q # p /\ calls'[q] = calls[q] /\ calls[q].n < counter[q[1]]
          /\ \A g \in handles' : g.token # <<q[1], calls[q].n>>
    <3> SUFFICES ASSUME NEW q \in Caller, calls'[q].op = "acquire"
                 PROVE  /\ q # p /\ calls'[q] = calls[q]
                        /\ calls[q].n < counter[q[1]]
                        /\ \A g \in handles' : g.token # <<q[1], calls[q].n>>
      OBVIOUS
    <3>1. q # p /\ calls'[q] = calls[q] /\ calls[q].op = "acquire"
      BY <1>2, <1>3
    <3>2. /\ calls[q].n < counter[q[1]]
          /\ \A h \in handles : h.token # <<q[1], calls[q].n>>
      BY <3>1 DEF IInv, TokensUsed
    <3>3. calls[p].op = "acquire" => <<p[1], calls[p].n>> # <<q[1], calls[q].n>>
      BY <3>1 DEF IInv, TokensUsed
    <3> QED BY <3>1, <3>2, <3>3
  <2>3. \A q \in Caller : calls'[q].op = "renew" => calls'[q].token[1] = q[1]
    BY <1>2, <1>3 DEF IInv, TokensUsed
  <2>4. \A q, r \in Caller :
          calls'[q].op = "acquire" /\ calls'[r].op = "acquire" /\ q[1] = r[1]
          /\ calls'[q].n = calls'[r].n => q = r
    BY <2>2 DEF IInv, TokensUsed
  <2> QED BY <2>1, <2>2, <2>3, <2>4 DEF TokensUsed
<1> QED BY <1>4, <1>5, <1>6, <1>7, <1>8 DEF IInv

(* An acquire's new entry and handle. *)
LEMMA WriteAcquiredIInv ==
    ASSUME IInv, NEW p \in Caller, WriteAcquired(p)
    PROVE  IInv'
<1> DEFINE call == calls[p]
           entry == Granted(p[1], call.n, call.now)
           new == [canvas |-> call.canvas, owner |-> p[1], token |-> entry.token,
                   until |-> entry.expires_at, current |-> TRUE]
           out(h) == IF h.canvas = call.canvas /\ h.owner = p[1]
                     THEN [h EXCEPT !.current = FALSE] ELSE h
<1>1. /\ call.op = "acquire" /\ call.writing /\ Leave(p)
      /\ leases' = [leases EXCEPT ![call.canvas] = entry]
      /\ handles' = {out(h) : h \in handles} \cup {new}
      /\ UNCHANGED <<clock, presence, counter, up>>
  BY DEF WriteAcquired
<1>2. /\ call.canvas \in Canvas /\ call.now \in Nat /\ call.n \in Nat
      /\ p[1] \in Owner
  BY <1>1, CallFields DEF IInv
<1>3. /\ entry \in LeaseEntry /\ entry.token = <<p[1], call.n>>
      /\ entry.expires_at \in Nat
  BY <1>2 DEF Granted, LeaseEntry, Token
<1>4. new \in Handle /\ new.token = <<p[1], call.n>> /\ new.owner = p[1]
  BY <1>2, <1>3 DEF Handle, Token
<1>5. \A h \in handles : /\ out(h) \in Handle
                        /\ out(h).token = h.token /\ out(h).owner = h.owner
  BY DEF IInv, TypeOK, Handle
<1> HIDE DEF entry, new, out
<1>6. /\ leases' \in [Canvas -> LeaseEntry \cup {NoLease}]
      /\ \A c \in Canvas \ {call.canvas} : leases'[c] = leases[c]
      /\ presence' \in [Canvas -> [Key -> Nat]]
  BY <1>1, <1>2, <1>3 DEF IInv, TypeOK
<1>7. handles' \in SUBSET Handle /\
      \A g \in handles' :
         \/ \E h \in handles : g.token = h.token /\ g.owner = h.owner
         \/ g.token = <<p[1], call.n>> /\ g.owner = p[1]
  BY <1>1, <1>4, <1>5
<1> QED BY <1>1, <1>6, <1>7, LeaveIInv

(* A renewed entry, and the promise it renews. *)
LEMMA WriteRenewedIInv ==
    ASSUME IInv, NEW p \in Caller, WriteRenewed(p)
    PROVE  IInv'
<1> DEFINE call == calls[p]
           entry == [owner |-> p[1], token |-> call.token,
                     expires_at |-> call.now + Ttl]
           out(h) == IF h.canvas = call.canvas /\ h.token = call.token
                     THEN [h EXCEPT !.until = entry.expires_at] ELSE h
<1>1. /\ call.op = "renew" /\ call.writing /\ Leave(p)
      /\ leases' = [leases EXCEPT ![call.canvas] = entry]
      /\ handles' = {out(h) : h \in handles}
      /\ UNCHANGED <<clock, presence, counter, up>>
  BY DEF WriteRenewed
<1>2. /\ call.canvas \in Canvas /\ call.now \in Nat /\ call.token \in Token
      /\ p[1] \in Owner
  BY <1>1, CallFields DEF IInv
<1>3. entry \in LeaseEntry /\ entry.expires_at \in Nat
  BY <1>2 DEF LeaseEntry
<1> HIDE DEF entry
<1>4. \A h \in handles : /\ out(h) \in Handle
                        /\ out(h).token = h.token /\ out(h).owner = h.owner
  BY <1>3 DEF IInv, TypeOK, Handle
<1> HIDE DEF out
<1>5. /\ leases' \in [Canvas -> LeaseEntry \cup {NoLease}]
      /\ \A c \in Canvas \ {call.canvas} : leases'[c] = leases[c]
      /\ presence' \in [Canvas -> [Key -> Nat]]
  BY <1>1, <1>2, <1>3 DEF IInv, TypeOK
<1>6. handles' \in SUBSET Handle /\
      \A g \in handles' : \E h \in handles : g.token = h.token /\ g.owner = h.owner
  BY <1>1, <1>4
<1> QED BY <1>1, <1>5, <1>6, LeaveIInv

(* A rewritten presence file holds expiries. *)
LEMMA WritePresenceIInv ==
    ASSUME IInv, NEW p \in Caller, WritePresence(p)
    PROVE  IInv'
<1> DEFINE call == calls[p]
<1>1. /\ call.op \in {"put", "get"} /\ call.writing /\ Leave(p)
      /\ presence' = [presence EXCEPT ![call.canvas] =
                        Rewritten(presence[call.canvas], call)]
      /\ UNCHANGED <<clock, leases, counter, handles, up>>
  BY DEF WritePresence
<1>2. /\ call.canvas \in Canvas /\ call.now \in Nat /\ call.key \in Key
      /\ presence \in [Canvas -> [Key -> Nat]]
  BY <1>1, CallFields DEF IInv, TypeOK
<1>3. Rewritten(presence[call.canvas], call) \in [Key -> Nat]
  BY <1>2 DEF Rewritten
<1>4. presence' \in [Canvas -> [Key -> Nat]]
  BY <1>1, <1>2, <1>3
<1>5. /\ leases' \in [Canvas -> LeaseEntry \cup {NoLease}]
      /\ \A c \in Canvas \ {call.canvas} : leases'[c] = leases[c]
      /\ handles' \in SUBSET Handle
  BY <1>1 DEF IInv, TypeOK
<1>6. \A g \in handles' : \E h \in handles : g.token = h.token /\ g.owner = h.owner
  BY <1>1
<1> QED BY <1>1, <1>4, <1>5, <1>6, LeaveIInv

(* A release: only the lease file of its canvas, which nobody is writing. *)
LEMMA ReleaseIInv ==
    ASSUME IInv, NEW h \in handles, Release(h)
    PROVE  IInv'
<1> DEFINE out(g) == IF g = h THEN [g EXCEPT !.current = FALSE] ELSE g
<1>1. /\ handles' = {out(g) : g \in handles}
      /\ lock[h.canvas] = Free
      /\ UNCHANGED <<clock, presence, lock, counter, calls, up>>
  BY DEF Release
<1>2. \A g \in handles : /\ out(g) \in Handle
                        /\ out(g).token = g.token /\ out(g).owner = g.owner
  <2>1. \A g \in handles : g \in Handle
    BY DEF IInv, TypeOK
  <2>2. \A g \in Handle : LET r == [g EXCEPT !.current = FALSE] IN
           r \in Handle /\ r.token = g.token /\ r.owner = g.owner
    BY DEF Handle
  <2> QED BY <2>1, <2>2
<1> HIDE DEF out
<1>3. /\ leases' \in [Canvas -> LeaseEntry \cup {NoLease}]
      /\ \A c \in Canvas \ {h.canvas} : leases'[c] = leases[c]
  BY DEF Release, IInv, TypeOK, Handle
<1>4. TypeOK'
  BY <1>1, <1>2, <1>3 DEF IInv, TypeOK
<1>5. CallsInPast' /\ Locked'
  BY <1>1 DEF IInv, CallsInPast, Locked
<1>6. TokensUsed'
  BY <1>1, <1>2 DEF IInv, TokensUsed
<1>7. Decided'
  <2>1. \A p \in Caller : calls[p].writing =>
           calls[p].canvas \in Canvas \ {h.canvas}
    BY <1>1, CallFields DEF IInv, Locked
  <2> QED BY <1>1, <1>3, <2>1 DEF IInv, Decided, DecidedBy
<1> QED BY <1>4, <1>5, <1>6, <1>7 DEF IInv

(* A process dies.  Another one that writes has its lock still, so the file
   it writes is not one of those that are left empty.                      *)
LEMMA CrashIInv ==
    ASSUME IInv, NEW o \in Owner, Crash(o)
    PROVE  IInv'
<1> DEFINE emptied(ops) == UNION {Writes(<<o, t>>, ops) : t \in Task}
           out(h) == IF h.owner = o THEN [h EXCEPT !.current = FALSE] ELSE h
<1>1. /\ leases' = [c \in Canvas |-> IF c \in emptied({"acquire", "renew"})
                                     THEN NoLease ELSE leases[c]]
      /\ presence' = [c \in Canvas |-> IF c \in emptied({"put", "get"})
                                       THEN [k \in Key |-> 0] ELSE presence[c]]
      /\ lock' = [c \in Canvas |-> IF lock[c] \in {o} \X Task THEN Free ELSE lock[c]]
      /\ calls' = [p \in Caller |-> IF p[1] = o THEN Idle ELSE calls[p]]
      /\ handles' = {out(h) : h \in handles}
      /\ up' = up \ {o} /\ UNCHANGED <<clock, counter>>
  BY DEF Crash
<1>2. \A c \in emptied({"acquire", "renew"}) : lock[c] \in {o} \X Task
  <2> SUFFICES ASSUME NEW c \in emptied({"acquire", "renew"})
               PROVE  lock[c] \in {o} \X Task
    OBVIOUS
  <2>1. PICK t \in Task : c \in Writes(<<o, t>>, {"acquire", "renew"})
    OBVIOUS
  <2> QED BY <2>1 DEF Writes
<1> HIDE DEF emptied
<1>3. /\ leases' \in [Canvas -> LeaseEntry \cup {NoLease}]
      /\ presence' \in [Canvas -> [Key -> Nat]]
      /\ lock' \in [Canvas -> Caller \cup {Free}]
      /\ calls' \in [Caller -> Call \cup {Idle}]
  BY <1>1 DEF IInv, TypeOK
<1>4. \A h \in handles : /\ out(h) \in Handle
                        /\ out(h).token = h.token /\ out(h).owner = h.owner
  BY DEF IInv, TypeOK, Handle
<1> HIDE DEF out
<1>5. TypeOK'
  BY <1>1, <1>3, <1>4 DEF IInv, TypeOK
<1>6. Idle.op = "idle" /\ Idle.writing = FALSE
  BY DEF Idle
<1>7. \A p \in Caller : IF p[1] = o THEN calls'[p] = Idle ELSE calls'[p] = calls[p]
  BY <1>1
<1>8. CallsInPast'
  BY <1>1, <1>7 DEF IInv, CallsInPast
<1>9. TokensUsed'
  <2>1. \A g \in handles' : g.token[1] = g.owner /\ g.token[2] < counter'[g.owner]
    BY <1>1, <1>4 DEF IInv, TokensUsed
  <2>2. \A p \in Caller : calls'[p].op \in {"acquire", "renew"} => calls'[p] = calls[p]
    BY <1>6, <1>7
  <2>3. \A g \in handles' : \E h \in handles : g.token = h.token
    BY <1>1, <1>4
  <2>4. \A p \in Caller :
          /\ calls'[p].op = "acquire" =>
               /\ calls'[p].n < counter'[p[1]]
               /\ \A g \in handles' : g.token # <<p[1], calls'[p].n>>
          /\ calls'[p].op = "renew" => calls'[p].token[1] = p[1]
    BY <1>1, <2>2, <2>3 DEF IInv, TokensUsed
  <2>5. \A p, q \in Caller :
          calls'[p].op = "acquire" /\ calls'[q].op = "acquire" /\ p[1] = q[1]
          /\ calls'[p].n = calls'[q].n => p = q
    BY <2>2 DEF IInv, TokensUsed
  <2> QED BY <2>1, <2>4, <2>5 DEF TokensUsed
<1>10. \A p \in Caller : calls'[p].writing =>
          /\ calls'[p] = calls[p] /\ calls[p].canvas \in Canvas
          /\ lock[calls[p].canvas] = p /\ p \notin {o} \X Task
  BY <1>6, <1>7, CallFields DEF IInv, Locked
<1>11. Locked'
  <2>1. \A p \in Caller : calls'[p].writing => lock'[calls'[p].canvas] = p
    BY <1>1, <1>10
  <2>2. \A c \in Canvas : lock'[c] # Free =>
           calls'[lock'[c]].writing /\ calls'[lock'[c]].canvas = c
    <3> SUFFICES ASSUME NEW c \in Canvas, lock'[c] # Free
                 PROVE  calls'[lock'[c]].writing /\ calls'[lock'[c]].canvas = c
      OBVIOUS
    <3>1. lock'[c] = lock[c] /\ lock[c] \in Caller /\ lock[c] \notin {o} \X Task
      BY <1>1 DEF IInv, TypeOK
    <3>2. calls'[lock[c]] = calls[lock[c]]
      BY <1>7, <3>1
    <3> QED BY <3>1, <3>2 DEF IInv, Locked
  <2> QED BY <2>1, <2>2 DEF Locked
<1>12. Decided'
  <2>1. \A p \in Caller : calls'[p].writing =>
           leases'[calls[p].canvas] = leases[calls[p].canvas]
    BY <1>1, <1>2, <1>10
  <2> QED BY <1>10, <2>1 DEF IInv, Decided, DecidedBy
<1> QED BY <1>5, <1>8, <1>9, <1>11, <1>12 DEF IInv

(* Every step of the processes keeps the inductive invariant. *)
LEMMA NextIInv == IInv /\ [Next]_vars => IInv'
<1> SUFFICES ASSUME IInv, [Next]_vars PROVE IInv'
  OBVIOUS
<1>1. CASE Tick
  BY <1>1, CallFields DEF Tick, IInv, TypeOK, CallsInPast, TokensUsed, Locked,
                          Decided, DecidedBy
<1>2. ASSUME NEW p \in Caller, NEW c \in Canvas, BeginAcquire(p, c)
      PROVE  IInv'
  <2> DEFINE call == [op |-> "acquire", writing |-> FALSE, canvas |-> c,
                      n |-> counter[p[1]], now |-> clock]
  <2>1. call \in Call
    BY DEF Call, IInv, TypeOK
  <2>2. Begin(p, call) /\ counter' = [counter EXCEPT ![p[1]] = @ + 1]
    BY <1>2 DEF BeginAcquire
  <2> QED BY <2>1, <2>2, BeginIInv
<1>3. ASSUME NEW p \in Caller, NEW h \in handles, BeginRenew(p, h)
      PROVE  IInv'
  <2> DEFINE call == [op |-> "renew", writing |-> FALSE, canvas |-> h.canvas,
                      token |-> h.token, now |-> clock]
  <2>1. call \in Call /\ call.token[1] = p[1]
    BY <1>3 DEF BeginRenew, Call, Handle, IInv, TypeOK, TokensUsed
  <2>2. Begin(p, call) /\ counter' = counter
    BY <1>3 DEF BeginRenew
  <2> QED BY <2>1, <2>2, BeginIInv
<1>4. ASSUME NEW p \in Caller, NEW op \in {"put", "get"}, NEW c \in Canvas,
             NEW k \in Key, BeginPresence(p, op, c, k)
      PROVE  IInv'
  <2> DEFINE call == [op |-> op, writing |-> FALSE, canvas |-> c, key |-> k,
                      now |-> clock]
  <2>1. call \in Call
    BY DEF Call, IInv, TypeOK
  <2>2. Begin(p, call) /\ counter' = counter
    BY <1>4 DEF BeginPresence
  <2> QED BY <2>1, <2>2, BeginIInv
<1>5. ASSUME NEW p \in Caller, EnterLease(p)
      PROVE  IInv'
  <2>1. ~calls[p].writing /\ calls[p] # Idle /\ lock[calls[p].canvas] = Free
        /\ UNCHANGED <<clock, leases, presence, counter, handles, up>>
    BY <1>5 DEF EnterLease, Idle
  <2>2. CASE Granting(p)
    BY <1>5, <2>1, <2>2, EnterIInv DEF EnterLease
  <2>3. CASE ~Granting(p)
    BY <1>5, <2>1, <2>3, RefusedIInv DEF EnterLease
  <2> QED BY <2>2, <2>3
<1>6. ASSUME NEW p \in Caller, EnterPresence(p)
      PROVE  IInv'
  <2>1. ~calls[p].writing /\ calls[p] # Idle
        /\ calls[p].op \notin {"acquire", "renew"}
    BY <1>6 DEF EnterPresence, Idle
  <2> QED BY <1>6, <2>1, EnterIInv DEF EnterPresence
<1>7. CASE UNCHANGED vars
  BY <1>7 DEF vars, IInv, TypeOK, CallsInPast, TokensUsed, Locked, Decided,
              DecidedBy
<1> QED
  BY <1>1, <1>2, <1>3, <1>4, <1>5, <1>6, <1>7, WriteAcquiredIInv,
     WriteRenewedIInv, WritePresenceIInv, ReleaseIInv, CrashIInv DEF Next, Serve

(* The inductive invariant holds in every reachable state. *)
THEOREM Inductive == Spec => []IInv
BY InitIInv, NextIInv, PTL DEF Spec

(* The variables of the processes and the files keep their types. *)
THEOREM TypeCorrect == Spec => []TypeOK
<1>1. IInv => TypeOK
  BY DEF IInv
<1> QED BY <1>1, Inductive, PTL

-----------------------------------------------------------------------------

(* An acquire takes effect when it writes: what it decided still stands, its
   token is new, and its reading promises no more than the clock would.    *)
LEMMA AcquireIsAtomic ==
    ASSUME IInv, NEW p \in Caller, WriteAcquired(p)
    PROVE  Service!Next
<1> DEFINE call == calls[p]
           entry == Granted(p[1], call.n, call.now)
<1>1. /\ call.op = "acquire" /\ call.writing
      /\ leases' = [leases EXCEPT ![call.canvas] = entry]
      /\ handles' =
           { IF h.canvas = call.canvas /\ h.owner = p[1]
             THEN [h EXCEPT !.current = FALSE] ELSE h : h \in handles }
           \cup {[canvas |-> call.canvas, owner |-> p[1], token |-> entry.token,
                  until |-> entry.expires_at, current |-> TRUE]}
      /\ clock' = clock
  BY DEF WriteAcquired
<1>2. /\ call.canvas \in Canvas /\ call.now \in Nat /\ call.n \in Nat
      /\ call.now <= clock /\ clock \in Nat /\ p[1] \in Owner
  BY <1>1, CallFields DEF IInv, TypeOK, CallsInPast
<1>3. /\ entry \in LeaseEntry /\ entry # NoLease /\ entry.owner = p[1]
      /\ entry.token = <<p[1], call.n>> /\ entry.expires_at <= clock + Ttl
  BY <1>2 DEF Granted, LeaseEntry, Token
<1>4. ~Refused(leases[call.canvas], p[1], clock)
  <2>1. ~Refused(leases[call.canvas], p[1], call.now)
    BY <1>1 DEF IInv, Decided, DecidedBy
  <2>2. leases[call.canvas] # NoLease => leases[call.canvas].expires_at \in Nat
    BY <1>2 DEF IInv, TypeOK, LeaseEntry
  <2> QED BY <1>2, <2>1, <2>2 DEF Refused
<1>5. \A h \in handles : h.token # entry.token
  BY <1>1, <1>3 DEF IInv, TokensUsed
<1> HIDE DEF entry
<1>6. leases'[call.canvas] = entry
  BY <1>1, <1>2 DEF IInv, TypeOK
<1>7. /\ ~Service!Refused(leases[call.canvas], p[1], clock)
      /\ entry \in Service!LeaseEntry /\ entry.token[1] = p[1]
  BY <1>3, <1>4 DEF Service!Refused, Refused, Service!LeaseEntry, LeaseEntry,
                    Service!Token, Token
<1>8. handles' = Service!Retired(call.canvas, p[1]) \cup
                 {[canvas |-> call.canvas, owner |-> p[1], token |-> entry.token,
                   until |-> entry.expires_at, current |-> TRUE]}
  BY <1>1, Zenon DEF Service!Retired
<1>9. Service!Acquire(call.canvas, p[1])
  BY <1>1, <1>3, <1>5, <1>6, <1>7, <1>8, Zenon DEF Service!Acquire
<1> QED BY <1>2, <1>9 DEF Service!Next

(* A renewal finds the entry it decided on, and moves its expiry only. *)
LEMMA RenewIsAtomic ==
    ASSUME IInv, NEW p \in Caller, WriteRenewed(p)
    PROVE  Service!Next
<1> DEFINE call == calls[p]
           e == call.now + Ttl
           entry == [owner |-> p[1], token |-> call.token, expires_at |-> e]
<1>1. /\ call.op = "renew" /\ call.writing
      /\ leases' = [leases EXCEPT ![call.canvas] = entry]
      /\ handles' = { IF h.canvas = call.canvas /\ h.token = call.token
                      THEN [h EXCEPT !.until = entry.expires_at] ELSE h :
                      h \in handles }
      /\ clock' = clock
  BY DEF WriteRenewed
<1>2. /\ call.canvas \in Canvas /\ call.now \in Nat
      /\ call.now <= clock /\ clock \in Nat
  BY <1>1, CallFields DEF IInv, TypeOK, CallsInPast
<1>3. /\ leases[call.canvas] # NoLease
      /\ leases[call.canvas].token = call.token
      /\ leases[call.canvas].owner = p[1]
      /\ leases[call.canvas] \in LeaseEntry
  BY <1>1, <1>2 DEF IInv, TypeOK, Decided, DecidedBy
<1>4. e \in 0..clock + Ttl /\ entry.expires_at = e
  BY <1>2
<1>5. entry = [leases[call.canvas] EXCEPT !.expires_at = e]
  BY <1>3 DEF LeaseEntry
<1> HIDE DEF e, entry
<1>6. /\ leases' = [leases EXCEPT ![call.canvas].expires_at = e]
      /\ handles' = { IF h.canvas = call.canvas
                         /\ h.token = leases[call.canvas].token
                      THEN [h EXCEPT !.until = e] ELSE h : h \in handles }
  BY <1>1, <1>3, <1>4, <1>5
<1>7. Service!Renew(call.canvas)
  BY <1>1, <1>3, <1>4, <1>6, Zenon DEF Service!Renew
<1> QED BY <1>2, <1>7 DEF Service!Next

(* A process that dies leaves a lease file empty only if it was its own to
   write: expired, free or its own.                                        *)
LEMMA CrashIsAbandon ==
    ASSUME IInv, NEW o \in Owner, Crash(o)
    PROVE  Service!Abandon(o)
<1> DEFINE emptied(ops) == UNION {Writes(<<o, t>>, ops) : t \in Task}
           gone == emptied({"acquire", "renew"})
<1>1. /\ leases' = [c \in Canvas |-> IF c \in gone THEN NoLease ELSE leases[c]]
      /\ handles' = { IF h.owner = o THEN [h EXCEPT !.current = FALSE] ELSE h :
                      h \in handles }
      /\ clock' = clock
  BY DEF Crash
<1>2. ASSUME NEW c \in Canvas, c \in gone
      PROVE  ~Refused(leases[c], o, clock)
  <2>1. PICK t \in Task : c \in Writes(<<o, t>>, {"acquire", "renew"})
    BY <1>2
  <2> DEFINE p == <<o, t>>
  <2>2. lock[c] = p /\ calls[p].op \in {"acquire", "renew"} /\ p \in Caller
        /\ p[1] = o
    BY <2>1 DEF Writes
  <2> HIDE DEF p
  <2>3. calls[p].writing /\ calls[p].canvas = c
    BY <2>2 DEF IInv, Locked
  <2>4. /\ calls[p].now \in Nat /\ calls[p].now <= clock /\ clock \in Nat
        /\ leases[c] # NoLease => leases[c].expires_at \in Nat
    BY <2>2, <2>3, CallFields DEF IInv, TypeOK, CallsInPast, LeaseEntry
  <2>5. CASE calls[p].op = "acquire"
    <3>1. ~Refused(leases[c], o, calls[p].now)
      BY <2>2, <2>3, <2>5 DEF IInv, Decided, DecidedBy
    <3> QED BY <2>4, <3>1 DEF Refused
  <2>6. CASE calls[p].op = "renew"
    <3>1. leases[c].owner = o
      BY <2>2, <2>3, <2>6 DEF IInv, Decided, DecidedBy
    <3> QED BY <3>1 DEF Refused
  <2> QED BY <2>2, <2>5, <2>6
<1> HIDE DEF gone
<1>3. leases' \in [Canvas -> {leases[c] : c \in Canvas} \cup {NoLease}]
  BY <1>1
<1>4. \A c \in Canvas : leases'[c] # leases[c] =>
         leases'[c] = NoLease /\ ~Service!Refused(leases[c], o, clock)
  BY <1>1, <1>2 DEF Refused, Service!Refused
<1> QED BY <1>1, <1>3, <1>4, Zenon DEF Service!Abandon

(* Every step is a step of the lease service, or changes nothing it shows. *)
LEMMA StepIsAtomic == IInv /\ [Next]_vars => [Service!Next]_(Service!vars)
<1> SUFFICES ASSUME IInv, [Next]_vars
             PROVE  Service!Next \/ UNCHANGED Service!vars
  OBVIOUS
<1>1. CASE Tick
  BY <1>1 DEF Tick, Service!Next, Service!Tick
<1>2. ASSUME NEW p \in Caller, WriteAcquired(p) \/ WriteRenewed(p)
      PROVE  Service!Next
  BY <1>2, AcquireIsAtomic, RenewIsAtomic
<1>3. ASSUME NEW h \in handles, Release(h)
      PROVE  Service!Next
  <2>1. Service!Release(h)
    BY <1>3, Zenon DEF Release, Service!Release, Service!Matches, Matches
  <2> QED BY <2>1 DEF Service!Next
<1>4. ASSUME NEW o \in Owner, Crash(o)
      PROVE  Service!Next
  BY <1>4, CrashIsAbandon DEF Service!Next
<1>5. CASE UNCHANGED <<clock, leases, handles>>
  BY <1>5 DEF Service!vars
<1> QED
  BY <1>1, <1>2, <1>3, <1>4, <1>5
     DEF Next, Serve, vars, Begin, BeginAcquire, BeginRenew, BeginPresence,
         EnterLease, EnterPresence, WritePresence

(* Processes that share nothing but the files implement the lease service,
   although a call reads the clock and takes its token before it has the
   lock, decides before it writes, and may die half way.                   *)
THEOREM ImplementsLeaseService == Spec => ActsAsLeaseService
<1>1. Init => Service!Init
  BY DEF Init, Service!Init
<1> QED
  BY <1>1, Inductive, StepIsAtomic, PTL DEF Spec, ActsAsLeaseService, Service!Spec

(* presence_put and presence_get rewrite a whole file, with an old reading of
   the clock; unless the process dies, no live entry of it is lost.        *)
THEOREM PresenceKept == Spec => LivePresenceKept
<1> DEFINE Kept == up' = up => \A c \in Canvas, k \in Key :
                      presence[c][k] > clock => presence'[c][k] # 0
<1>1. IInv /\ [Next]_vars => [Kept]_vars
  <2> SUFFICES ASSUME IInv, Next, up' = up,
                      NEW c \in Canvas, NEW k \in Key, presence[c][k] > clock
               PROVE  presence'[c][k] # 0
    OBVIOUS
  <2>1. clock \in Nat /\ presence \in [Canvas -> [Key -> Nat]]
    BY DEF IInv, TypeOK
  <2>2. ASSUME NEW p \in Caller, WritePresence(p)
        PROVE  presence'[c][k] # 0
    <3>1. /\ calls[p].op \in {"put", "get"}
          /\ presence' = [presence EXCEPT ![calls[p].canvas] =
                            Rewritten(presence[calls[p].canvas], calls[p])]
      BY <2>2 DEF WritePresence
    <3>2. calls[p].now \in Nat /\ calls[p].now <= clock
      BY <3>1, CallFields DEF IInv, CallsInPast
    <3>3. Rewritten(presence[c], calls[p])[k] # 0
      BY <2>1, <3>1, <3>2 DEF Rewritten
    <3> QED BY <2>1, <3>1, <3>3
  <2>3. ASSUME NEW o \in Owner, Crash(o)
        PROVE  FALSE
    BY <2>3 DEF Crash
  <2>4. CASE UNCHANGED presence
    BY <2>1, <2>4
  <2> QED
    BY <2>2, <2>3, <2>4
       DEF Next, Serve, Tick, Begin, BeginAcquire, BeginRenew, BeginPresence,
           EnterLease, EnterPresence, WriteAcquired, WriteRenewed, Release
<1> QED BY <1>1, Inductive, PTL DEF Spec, LivePresenceKept

-----------------------------------------------------------------------------
(* The lease service itself.  Its variables are this module's, but nothing
   below is about the file coordinator: a canvas has one lessee and
   find_owner names it, whatever implements the service.                   *)

TokensOwned ==
    /\ \A h \in handles : h.token[1] = h.owner
    /\ \A c \in Canvas : leases[c] # NoLease => leases[c].token[1] = leases[c].owner

OneHandlePerToken == \A g, h \in handles : g.token = h.token => g = h

Backs(entry, h) ==
    /\ entry # NoLease
    /\ entry.token = h.token /\ entry.owner = h.owner
    /\ entry.expires_at = h.until

PromisesBacked == \A h \in handles : Service!Holds(h) => Backs(leases[h.canvas], h)

SInv == Service!TypeOK /\ TokensOwned /\ OneHandlePerToken /\ PromisesBacked

-----------------------------------------------------------------------------

(* The initial table satisfies the inductive invariant. *)
LEMMA InitSInv == Service!Init => SInv
BY DEF Service!Init, SInv, Service!TypeOK, TokensOwned, OneHandlePerToken, PromisesBacked

(* Time only takes promises away. *)
LEMMA TickSInv == SInv /\ Service!Tick => SInv'
BY DEF SInv, Service!TypeOK, TokensOwned, OneHandlePerToken, PromisesBacked, Backs, Service!Holds, Service!Tick, Service!Handle

(* Handles that are marked keep what they stand for. *)
LEMMA Marked ==
    ASSUME NEW h \in Service!Handle
    PROVE  LET r == [h EXCEPT !.current = FALSE] IN
           /\ r \in Service!Handle /\ r.canvas = h.canvas /\ r.owner = h.owner
           /\ r.token = h.token /\ r.until = h.until /\ ~r.current
BY DEF Service!Handle

(* An acquire takes what nobody else was promised. *)
LEMMA AcquireSInv ==
    ASSUME SInv, NEW c \in Canvas, NEW o \in Owner, Service!Acquire(c, o)
    PROVE  SInv'
<1> DEFINE entry == leases'[c]
           new == [canvas |-> c, owner |-> o, token |-> entry.token,
                   until |-> entry.expires_at, current |-> TRUE]
           out(h) == IF h.canvas = c /\ h.owner = o
                     THEN [h EXCEPT !.current = FALSE] ELSE h
<1>1. /\ ~Service!Refused(leases[c], o, clock)
      /\ entry # NoLease /\ entry \in Service!LeaseEntry /\ entry.owner = o
      /\ entry.token[1] = o /\ \A h \in handles : h.token # entry.token
      /\ leases' = [leases EXCEPT ![c] = entry]
      /\ handles' = {out(h) : h \in handles} \cup {new}
      /\ clock' = clock
  BY DEF Service!Acquire, Service!Retired
<1>2. /\ new \in Service!Handle /\ new.token = entry.token /\ new.owner = o
      /\ new.canvas = c /\ new.until = entry.expires_at
  BY <1>1 DEF Service!Handle, Service!LeaseEntry
<1>3. \A h \in handles :
         /\ out(h) \in Service!Handle
         /\ out(h).token = h.token /\ out(h).canvas = h.canvas
         /\ out(h).owner = h.owner /\ out(h).until = h.until
         /\ (out(h).current => out(h) = h /\ ~(h.canvas = c /\ h.owner = o))
  BY Marked DEF SInv, Service!TypeOK
<1> HIDE DEF out, new
<1>4. \A d \in Canvas : leases'[d] = IF d = c THEN entry ELSE leases[d]
  BY <1>1 DEF SInv, Service!TypeOK
<1>5. \A g \in handles' : g = new \/ \E h \in handles : g = out(h)
  BY <1>1
<1> HIDE DEF entry
<1>6. Service!TypeOK'
  BY <1>1, <1>2, <1>3 DEF SInv, Service!TypeOK
<1>7. TokensOwned'
  BY <1>1, <1>2, <1>3, <1>4, <1>5 DEF SInv, TokensOwned
<1>8. OneHandlePerToken'
  BY <1>1, <1>2, <1>3, <1>5 DEF SInv, OneHandlePerToken
<1>9. PromisesBacked'
  <2> SUFFICES ASSUME NEW g \in handles', Service!Holds(g)'
               PROVE  Backs(leases'[g.canvas], g)
    BY DEF PromisesBacked, Backs
  <2>1. CASE g = new
    BY <1>1, <1>2, <1>4, <2>1 DEF Backs
  <2>2. CASE g # new
    <3>1. PICK h \in handles : g = out(h)
      BY <1>5, <2>2
    <3>2. g = h /\ Service!Holds(h) /\ ~(h.canvas = c /\ h.owner = o)
      BY <1>1, <1>3, <3>1 DEF Service!Holds
    <3>3. Backs(leases[h.canvas], h) /\ h.canvas \in Canvas
      BY <3>2 DEF SInv, PromisesBacked, Service!TypeOK, Service!Handle
    <3>4. h.canvas # c
      BY <1>1, <3>2, <3>3 DEF Backs, Service!Refused, Service!Holds
    <3> QED BY <1>4, <3>2, <3>3, <3>4
  <2> QED BY <2>1, <2>2
<1> QED BY <1>6, <1>7, <1>8, <1>9 DEF SInv

(* A renewal moves the promise its entry backs, and no other. *)
LEMMA RenewSInv ==
    ASSUME SInv, NEW c \in Canvas, Service!Renew(c)
    PROVE  SInv'
<1>1. PICK e \in 0..clock + Ttl :
         /\ leases[c] # NoLease
         /\ leases' = [leases EXCEPT ![c].expires_at = e]
         /\ handles' = { IF h.canvas = c /\ h.token = leases[c].token
                         THEN [h EXCEPT !.until = e] ELSE h : h \in handles }
         /\ clock' = clock
  BY DEF Service!Renew
<1> DEFINE entry == [leases[c] EXCEPT !.expires_at = e]
           out(h) == IF h.canvas = c /\ h.token = leases[c].token
                     THEN [h EXCEPT !.until = e] ELSE h
<1>2. e \in Nat /\ leases[c] \in Service!LeaseEntry
  BY <1>1 DEF SInv, Service!TypeOK
<1>3. /\ entry \in Service!LeaseEntry /\ entry # NoLease /\ entry.expires_at = e
      /\ entry.token = leases[c].token /\ entry.owner = leases[c].owner
  BY <1>2 DEF Service!LeaseEntry, Service!Token
<1>4. \A h \in handles :
         /\ out(h) \in Service!Handle
         /\ out(h).token = h.token /\ out(h).canvas = h.canvas
         /\ out(h).owner = h.owner /\ out(h).current = h.current
         /\ IF h.canvas = c /\ h.token = leases[c].token
            THEN out(h).until = e ELSE out(h) = h
  BY <1>2 DEF SInv, Service!TypeOK, Service!Handle
<1>5. \A d \in Canvas : leases'[d] = IF d = c THEN entry ELSE leases[d]
  BY <1>1 DEF SInv, Service!TypeOK
<1>6. \A g \in handles' : \E h \in handles : g = out(h)
  BY <1>1
<1>7. handles' = {out(h) : h \in handles} /\ leases' = [leases EXCEPT ![c] = entry]
  BY <1>1
<1> HIDE DEF out, entry
<1>8. Service!TypeOK'
  BY <1>1, <1>3, <1>4, <1>7 DEF SInv, Service!TypeOK
<1>9. TokensOwned'
  BY <1>1, <1>3, <1>4, <1>5, <1>6 DEF SInv, TokensOwned
<1>10. OneHandlePerToken'
  BY <1>4, <1>6 DEF SInv, OneHandlePerToken
<1>11. PromisesBacked'
  <2> SUFFICES ASSUME NEW g \in handles', Service!Holds(g)'
               PROVE  Backs(leases'[g.canvas], g)
    BY DEF PromisesBacked, Backs
  <2>1. PICK h \in handles : g = out(h)
    BY <1>6
  <2>2. CASE h.canvas = c /\ h.token = leases[c].token
    <3>1. leases[c].owner = h.owner
      BY <1>1, <2>2 DEF SInv, TokensOwned
    <3> QED BY <1>3, <1>4, <1>5, <2>1, <2>2, <3>1 DEF Backs
  <2>3. CASE ~(h.canvas = c /\ h.token = leases[c].token)
    <3>1. g = h /\ Service!Holds(h)
      BY <1>1, <1>4, <2>1, <2>3 DEF Service!Holds
    <3>2. Backs(leases[h.canvas], h) /\ h.canvas \in Canvas /\ h.canvas # c
      BY <2>3, <3>1 DEF SInv, PromisesBacked, Backs, Service!TypeOK, Service!Handle
    <3> QED BY <1>5, <3>1, <3>2
  <2> QED BY <2>2, <2>3
<1> QED BY <1>8, <1>9, <1>10, <1>11 DEF SInv

(* Handles are marked, and entries are dropped that back no promise left. *)
LEMMA DroppedSInv ==
    ASSUME SInv, clock' = clock, NEW marked,
           handles' = { IF h \in marked THEN [h EXCEPT !.current = FALSE] ELSE h :
                        h \in handles },
           leases' \in [Canvas -> Service!LeaseEntry \cup {NoLease}],
           \A c \in Canvas : leases'[c] # leases[c] =>
              /\ leases'[c] = NoLease
              /\ \A h \in handles \ marked :
                    ~(h.canvas = c /\ Service!Holds(h) /\ Backs(leases[c], h))
    PROVE  SInv'
<1> DEFINE out(h) == IF h \in marked THEN [h EXCEPT !.current = FALSE] ELSE h
<1>1. \A h \in handles :
         /\ out(h) \in Service!Handle
         /\ out(h).token = h.token /\ out(h).canvas = h.canvas
         /\ out(h).owner = h.owner
         /\ (out(h).current => out(h) = h /\ h \notin marked)
  BY Marked DEF SInv, Service!TypeOK
<1>2. handles' = {out(h) : h \in handles}
  OBVIOUS
<1> HIDE DEF out
<1>3. Service!TypeOK'
  BY <1>1, <1>2 DEF SInv, Service!TypeOK
<1>4. TokensOwned'
  BY <1>1, <1>2 DEF SInv, TokensOwned
<1>5. OneHandlePerToken'
  BY <1>1, <1>2 DEF SInv, OneHandlePerToken
<1>6. PromisesBacked'
  <2> SUFFICES ASSUME NEW g \in handles', Service!Holds(g)'
               PROVE  Backs(leases'[g.canvas], g)
    BY DEF PromisesBacked, Backs
  <2>1. PICK h \in handles : g = out(h)
    BY <1>2
  <2>2. g = h /\ Service!Holds(h) /\ h \notin marked
    BY <1>1, <2>1 DEF Service!Holds
  <2>3. Backs(leases[h.canvas], h) /\ h.canvas \in Canvas
    BY <2>2 DEF SInv, PromisesBacked, Service!TypeOK, Service!Handle
  <2> QED BY <2>2, <2>3
<1> QED BY <1>3, <1>4, <1>5, <1>6 DEF SInv

(* A release drops the entry of the handle it takes away. *)
LEMMA ReleaseSInv ==
    ASSUME SInv, NEW h \in handles, Service!Release(h)
    PROVE  SInv'
<1>1. handles' = { IF g \in {h} THEN [g EXCEPT !.current = FALSE] ELSE g :
                   g \in handles }
  BY DEF Service!Release
<1>2. leases' \in [Canvas -> Service!LeaseEntry \cup {NoLease}] /\ h.canvas \in Canvas
  BY DEF Service!Release, SInv, Service!TypeOK, Service!Handle
<1>3. ASSUME NEW c \in Canvas, leases'[c] # leases[c]
      PROVE  /\ leases'[c] = NoLease
             /\ \A g \in handles \ {h} :
                   ~(g.canvas = c /\ Service!Holds(g) /\ Backs(leases[c], g))
  <2>1. /\ Service!Matches(leases[h.canvas], h.token) /\ c = h.canvas
        /\ leases'[c] = NoLease
    BY <1>2, <1>3 DEF Service!Release, SInv, Service!TypeOK
  <2>2. \A g \in handles \ {h} : g.token # h.token
    BY DEF SInv, OneHandlePerToken
  <2> QED BY <2>1, <2>2 DEF Service!Matches, Backs
<1>4. clock' = clock
  BY DEF Service!Release
<1> QED BY <1>1, <1>2, <1>3, <1>4, DroppedSInv

(* Who abandons its leases drops what nobody else was promised. *)
LEMMA AbandonSInv ==
    ASSUME SInv, NEW o \in Owner, Service!Abandon(o)
    PROVE  SInv'
<1> DEFINE marked == {h \in handles : h.owner = o}
<1>1. handles' = { IF h \in marked THEN [h EXCEPT !.current = FALSE] ELSE h :
                   h \in handles }
  BY DEF Service!Abandon
<1>2. /\ leases' \in [Canvas -> Service!LeaseEntry \cup {NoLease}]
      /\ clock' = clock
  BY DEF Service!Abandon, SInv, Service!TypeOK
<1>3. ASSUME NEW c \in Canvas, leases'[c] # leases[c]
      PROVE  /\ leases'[c] = NoLease
             /\ \A h \in handles \ marked :
                   ~(h.canvas = c /\ Service!Holds(h) /\ Backs(leases[c], h))
  <2>1. leases'[c] = NoLease /\ ~Service!Refused(leases[c], o, clock)
    BY <1>3 DEF Service!Abandon
  <2> QED BY <2>1 DEF Service!Refused, Backs, Service!Holds
<1> HIDE DEF marked
<1> QED BY <1>1, <1>2, <1>3, DroppedSInv

(* Every step of the service keeps the inductive invariant. *)
LEMMA NextSInv == SInv /\ [Service!Next]_Service!vars => SInv'
<1>1. SInv /\ UNCHANGED Service!vars => SInv'
  BY DEF Service!vars, SInv, Service!TypeOK, TokensOwned, OneHandlePerToken, PromisesBacked, Backs, Service!Holds
<1> QED BY <1>1, TickSInv, AcquireSInv, RenewSInv, ReleaseSInv, AbandonSInv DEF Service!Next

(* The inductive invariant holds in every reachable state. *)
THEOREM ServiceInductive == Service!Spec => []SInv
BY InitSInv, NextSInv, PTL DEF Service!Spec

(* The variables of the service keep their types. *)
THEOREM ServiceTypeCorrect == Service!Spec => []Service!TypeOK
<1>1. SInv => Service!TypeOK
  BY DEF SInv
<1> QED BY <1>1, ServiceInductive, PTL

(* Whatever implements the lease service gives a canvas to one lessee. *)
THEOREM ServiceIsExclusive == Service!Spec => []Service!Exclusive
<1>1. SInv => Service!Exclusive
  BY DEF SInv, Service!Exclusive, PromisesBacked, Backs, OneHandlePerToken
<1> QED BY <1>1, ServiceInductive, PTL

(* And find_owner names that lessee. *)
THEOREM ServiceIsRoutable == Service!Spec => []Service!Routable
<1>1. SInv => Service!Routable
  BY DEF SInv, Service!Routable, PromisesBacked, Backs, Service!FindOwner, Service!Holds
<1> QED BY <1>1, ServiceInductive, PTL

(* A canvas of the file coordinator has one lessee, and find_owner names it,
   though two processes share nothing but the files, and any may die.      *)
THEOREM LesseeUnique == Spec => [](Service!Exclusive /\ Service!Routable)
BY ImplementsLeaseService, ServiceIsExclusive, ServiceIsRoutable, PTL
   DEF ActsAsLeaseService

=============================================================================
