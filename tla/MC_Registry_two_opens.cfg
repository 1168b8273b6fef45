SPECIFICATION Spec
CONSTANTS
  i1 = i1
  i2 = i2
  Owner <- MC_Owner
  Task <- MC_Task
  InstanceOf <- MC_InstanceOf
  Canvas = {c1}
  NoLease = NoLease
  Ttl = 3
  Interval = 1
  MaxLate = 1
  MaxClock = 4
  MaxActors = 3
  MaxSeq = 2
  Deployments <- MC_Mixed
INVARIANT OneInstancePerCanvas
CHECK_DEADLOCK FALSE
