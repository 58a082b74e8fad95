------------------------------- MODULE Probes -------------------------------
(* The tracing tools of a host.  They have nothing in common but the calls  *)
(* they look at, so that a run has one of them.                             *)
EXTENDS RdmaProbe, NcclProbe

VARIABLE tool            \* "rdma_hook" or "nccl_hook"

Init == tool \in {"rdma_hook", "nccl_hook"} /\ RdmaInit /\ NcclInit

Next ==
    \/ tool = "rdma_hook" /\ RdmaNext /\ UNCHANGED <<ncclVars, tool>>
    \/ tool = "nccl_hook" /\ NcclNext /\ UNCHANGED <<rdmaVars, tool>>

Spec == Init /\ [][Next]_<<rdmaVars, ncclVars, tool>>
=============================================================================
