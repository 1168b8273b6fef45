SPECIFICATION Spec
CONSTANTS
  o1 = o1
  o2 = o2
  p1 = p1
  p2 = p2
  Owner <- MC_Owner
  Caller <- MC_Caller
  Canvas = {c1}
  Key = {k1}
  NoLease = NoLease
  Ttl = 2
  MaxClock = 4
  MaxTokens = 3
SYMMETRY MC_Symmetry
INVARIANTS TypeOK LeaseExclusive HolderIsRoutable
PROPERTIES ActsAsLeaseService LivePresenceKept
