-------------------------- MODULE MCSnapshotService --------------------------
(* Instances of SnapshotService for TLC. *)
EXTENDS SnapshotServiceInv

\* One server runs everything, the watch only where there is no recovery beside
\* it; in PostgreSQL mode the other servers recover, and for fast-sandbox only they.
ThreadMC ==
    [b \in Backends |->
        CASE b \in {"docker", "kubernetes", "fsb"} -> {Main} \X Role
          [] b = "kubernetesHA" -> ({Main} \X {"create", "read", "delete"}) \cup (Server \X {"recover"})
          [] b = "fsbHA" -> ({Main} \X {"create", "read", "delete"}) \cup ((Server \ {Main}) \X {"recover"})]

\* The smaller configurations are given more faults.
MaxFaultsMC ==
    [b \in Backends |->
        CASE b \in {"docker", "kubernetes", "fsb"} -> 4
          [] b = "kubernetesHA" -> 2
          [] b = "fsbHA" -> 3]
=============================================================================
