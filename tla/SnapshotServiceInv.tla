-------------------------- MODULE SnapshotServiceInv --------------------------
(***************************************************************************)
(* The inductive invariant of SnapshotService: why no thread of any server  *)
(* takes the artifact from a row that is READY or may become READY.         *)
(***************************************************************************)
EXTENDS SnapshotService

Pc == {"idle", "work", "commit", "submit", "persist", "inspect", "complete", "transition",
       "cleanup", "discard", "drop", "mark", "delete"}

ThreadRec == [pc : Pc, snap : Snapshot \cup {None}, obs : State,
              onError : {"report", "fail", "abort"}]

FaultCount == [store : Nat, other : Nat]

\* Every variable keeps its type.
TypeOK ==
    /\ backend \in Backends
    /\ row \in [Snapshot -> State \cup {"none"}]
    /\ artifact \in [Snapshot -> {"none", "pending", "done", "failed"}]
    /\ fresh \subseteq Snapshot
    /\ up \in [Server -> {"up", "starting", "down", "unused"}]
    /\ thread \in [Threads -> ThreadRec]
    /\ todo \in [Server -> SUBSET (Snapshot \X {"CREATING", "DELETING"})]
    /\ progressed \in [Server -> BOOLEAN]
    /\ faults \in FaultCount

\* A request that has still to make the artifact or to write the row.
Opening(t) == t[2] = "create" /\ thread[t].pc \in {"submit", "persist", "work"}

\* The row of s is going or gone for good.
Past(s) ==
    /\ s \notin fresh
    /\ row[s] \in {"DELETING", "none"}
    /\ \A t \in Threads : Opening(t) => thread[t].snap # s

\* Who runs when: requests while the server is up, and without PostgreSQL the
\* recovery before that and on one server only.
ThreadInv ==
    /\ \A t \in Threads :
          LET th == thread[t] IN
          /\ th.pc = "idle" <=> th.snap = None
          /\ th.snap \notin fresh
          /\ th.pc # "idle" /\ t[2] # "recover" => up[t[1]] = "up"
          /\ th.pc # "idle" /\ t[2] = "recover" /\ ~HA => up[t[1]] = "starting"
          /\ th.pc \in {"work", "commit", "persist"} => t[2] = "create"
          /\ th.pc = "submit" => t[2] \in {"create", "recover"}
          /\ th.pc = "complete" => th.obs # "DELETING"
          /\ th.pc \in {"mark", "transition"} => th.obs \in {"READY", "FAILED"}
          /\ th.onError # "report" => t[2] = "recover"
    /\ ~HA => \A v \in Server \ {Main} : up[v] = "unused"

\* A request that is opening a snapshot is alone with it.
OpenInv ==
    \A t \in Threads : Opening(t) =>
       LET s == thread[t].snap IN
       /\ row[s] = IF thread[t].pc = "work" THEN "CREATING" ELSE "none"
       /\ thread[t].pc = "work" => artifact[s] = "none" /\ backend = "docker"
       /\ \A u \in Threads \ {t} : thread[u].snap # s
       /\ \A v \in Server : \A r \in todo[v] : r[1] # s

\* An artifact is only removed when the row is past.
PastInv ==
    /\ \A t \in Threads :
          thread[t].pc \in {"cleanup", "discard", "drop", "delete"} => Past(thread[t].snap)
    /\ \A v \in Server : \A r \in todo[v] :
          r[1] \notin fresh /\ (r[2] = "DELETING" => Past(r[1]))

\* What a thread saw is still true, or does not matter any more.
SeenInv ==
    \A t \in Threads :
       thread[t].pc \in {"complete", "transition"} /\ thread[t].obs = "READY" =>
          artifact[thread[t].snap] = "done" \/ Past(thread[t].snap)

\* Without PostgreSQL the recovery has the rows for itself.
ScanInv ==
    ~HA => \A v \in Server :
       /\ todo[v] # {} => up[v] = "starting"
       /\ \A r \in todo[v] :
             /\ row[r[1]] = r[2]
             /\ \A t \in Threads : thread[t].snap # r[1]
       /\ \A t \in Threads :
             t[2] = "recover" /\ thread[t].pc \in {"inspect", "submit"}
                => row[thread[t].snap] = "CREATING"

\* Rows and artifacts, the servers and their threads agree: an artifact is removed
\* for a row that is past only, and a READY that was seen stays true until then.
SnapshotInv ==
    /\ TypeOK /\ ThreadInv /\ OpenInv /\ PastInv /\ SeenInv /\ ScanInv
    /\ ReadyRestorable
    /\ \A s \in fresh : row[s] = "none" /\ artifact[s] = "none"
-----------------------------------------------------------------------------
(* Without faults other than errors of the repository.                      *)

\* In PostgreSQL mode the recovery may record a snapshot as failed because the
\* repository failed.
Misjudged == HA /\ faults.store > 0

\* A thread that will remove the artifact of s, or write its row.
Keeper(t, s) ==
    thread[t].snap = s /\ thread[t].pc \in {"persist", "cleanup", "discard", "delete"}

\* Whoever asks the runtime finds the artifact, and who saw FAILED saw a failed one,
\* until the row is past or a recovery has misjudged it.
CalmThread(t) ==
    LET th == thread[t] IN
    /\ th.pc = "submit" /\ t[2] = "create" => artifact[th.snap] = "none"
    /\ th.pc = "persist" => artifact[th.snap] # "none"
    /\ th.pc \in {"commit", "inspect"} => artifact[th.snap] # "none" \/ Past(th.snap)
    /\ th.pc \in {"submit", "inspect"} => backend # "docker"
    /\ th.pc \in {"complete", "transition"} /\ th.obs = "FAILED" =>
          artifact[th.snap] = "failed" \/ Past(th.snap) \/ Misjudged

\* A row in CREATING has its artifact as soon as another thread may look, a row in
\* FAILED has a failed one, and Docker commits for a row in CREATING only.
CalmRow(s) ==
    /\ row[s] = "CREATING" =>
          artifact[s] # "none" \/ \E t \in Threads : thread[t].pc = "work" /\ thread[t].snap = s
    /\ row[s] = "FAILED" => artifact[s] = "failed" \/ Misjudged
    /\ backend = "docker" /\ artifact[s] = "pending" => row[s] = "CREATING"
    /\ artifact[s] # "none" /\ ~HA =>
          row[s] \in {"CREATING", "READY", "FAILED"} \/ \E t \in Threads : Keeper(t, s)

\* As long as nothing but the repository fails no server is down or starting again,
\* and rows and artifacts tell the same story.
CalmInv ==
    faults.other = 0 =>
       /\ \A v \in Server : up[v] \in {"up", "unused"}
       /\ \A t \in Threads : CalmThread(t)
       /\ \A s \in Snapshot : CalmRow(s)
       /\ \A v \in Server : \A r \in todo[v] :
             r[2] = "CREATING" => artifact[r[1]] # "none" \/ Past(r[1])
=============================================================================
