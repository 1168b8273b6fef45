---------------------------- MODULE MC_Registry ----------------------------
(* Tasks are pairs <<instance, n>>. *)
EXTENDS Registry, TLC

CONSTANTS i1, i2

MC_InstanceOf(t) == t[1]
MC_Owner == {i1, i2}
MC_Task == {<<i1, 1>>, <<i1, 2>>, <<i2, 1>>}

(* Two instances that share a store, one call at a time on each. *)
Shared == [tasks |-> {<<i1, 1>>, <<i2, 1>>}, crashes |-> TRUE,
           clock |-> 4, leases |-> 2, ops |-> 1]

(* They hand a canvas over, between ops, and nobody dies. *)
Handover == [tasks |-> {<<i1, 1>>, <<i2, 1>>}, crashes |-> FALSE,
             clock |-> 0, leases |-> 2, ops |-> 2]

(* One instance with concurrent calls. *)
Racing == [tasks |-> {<<i1, 1>>, <<i1, 2>>}, crashes |-> FALSE,
           clock |-> 1, leases |-> 2, ops |-> 1]

(* The same with one canvas opened again and again. *)
Reopened == [tasks |-> {<<i1, 1>>, <<i1, 2>>}, crashes |-> FALSE,
             clock |-> 0, leases |-> 3, ops |-> 0]

(* Concurrent calls on one instance while another one takes part. *)
Mixed == [tasks |-> MC_Task, crashes |-> FALSE, clock |-> 0, leases |-> 3, ops |-> 1]

MC_Deployments == {Shared, Handover, Racing, Reopened}
MC_Mixed == {Mixed}

=============================================================================
