--------------------------- MODULE SnapshotService ---------------------------
(***************************************************************************)
(* Snapshots of the lifecycle server: rows in a repository (SQLite or       *)
(* PostgreSQL) and artifacts in a runtime (a Docker image, a SandboxSnapshot*)
(* resource, a fast-sandbox snapshot) that requests, watch callbacks,       *)
(* workers and the recovery of one or several servers keep in step without  *)
(* a common lock.                                                           *)
(*                                                                          *)
(* A step is one call of the repository or of the runtime.  Simplifications:*)
(*  - a server has one thread per role, so it runs one create, one delete   *)
(*    and one read at a time;                                               *)
(*  - the two calls of a create that look at an existing resource and read  *)
(*    its status are one step;                                              *)
(*  - a row is its state: it has an image exactly when it has been READY;   *)
(*  - the read that follows an update another request has overtaken is part *)
(*    of that update;                                                        *)
(*  - a call of the repository that fails has had no effect, except that an *)
(*    update or delete in PostgreSQL mode may have been carried out.  A read *)
(*    that fails before its request has done anything is not a step, and a  *)
(*    constructor that raises is a server that goes down.                   *)
(***************************************************************************)
EXTENDS Naturals

CONSTANTS
    Server,     \* server processes
    Main,       \* the only one of them that runs without PostgreSQL
    Thread,     \* the threads considered in each configuration
    Snapshot,   \* snapshot ids; an id is used once
    None,
    Backends,   \* configurations to consider
    Faults,     \* what may go wrong
    MaxFaults   \* bound on how often, in each configuration

Role == {"create", "read", "watch", "delete", "recover"}

ASSUME SnapshotAssumption ==
    /\ Main \in Server /\ None \notin Snapshot
    /\ Backends \subseteq {"docker", "kubernetes", "kubernetesHA", "fsb", "fsbHA"}
    /\ Thread \in [Backends -> SUBSET (Server \X Role)]
    /\ MaxFaults \in [Backends -> Nat]

Threads == {t \in Server \X Role : \E b \in Backends : t \in Thread[b]}

VARIABLES
    backend,     \* the runtime, and whether the rows are in PostgreSQL
    row,         \* state of each row, "none" where there is none
    artifact,    \* what the runtime has of each snapshot
    fresh,       \* ids not used yet
    up,          \* each server: serving, in its constructor, or down
    thread,      \* the threads of each server
    todo,        \* records the recovery pass of each server has still to look at
    progressed,  \* the pass changed something
    faults       \* errors of the repository, and other faults, so far

vars == <<backend, row, artifact, fresh, up, thread, todo, progressed, faults>>

State == {"CREATING", "READY", "FAILED", "DELETING"}
NoThread == [pc |-> "idle", snap |-> None, obs |-> "CREATING", onError |-> "report"]

\* PostgreSQLKubernetesSnapshotService
HA == backend \in {"kubernetesHA", "fsbHA"}
\* FastSandboxSnapshotRuntime
Fsb == backend \in {"fsb", "fsbHA"}

Init ==
    /\ backend \in Backends
    /\ row = [s \in Snapshot |-> "none"]
    /\ artifact = [s \in Snapshot |-> "none"]
    /\ fresh = Snapshot
    /\ up = [v \in Server |-> IF HA \/ v = Main THEN "up" ELSE "unused"]
    /\ thread = [t \in Threads |-> NoThread]
    /\ todo = [v \in Server |-> {}]
    /\ progressed = [v \in Server |-> TRUE]
    /\ faults = [store |-> 0, other |-> 0]

\* A fault is taken from the budget.
Fault(f) ==
    /\ f \in Faults
    /\ faults.store + faults.other < MaxFaults[backend]
    /\ faults' = IF f = "store" THEN [faults EXCEPT !.store = @ + 1]
                                ELSE [faults EXCEPT !.other = @ + 1]

-----------------------------------------------------------------------------
(* Threads.                                                                 *)

At(t, pc) == t \in Thread[backend] /\ thread[t].pc = pc
Begin(t, s, pc, obs) ==
    thread' = [thread EXCEPT ![t] = [pc |-> pc, snap |-> s, obs |-> obs,
                                     onError |-> IF t[2] = "recover" THEN "fail" ELSE "report"]]
Goto(t, pc) == thread' = [thread EXCEPT ![t].pc = pc, ![t].obs = "CREATING"]
Saw(t, pc, obs) == thread' = [thread EXCEPT ![t].pc = pc, ![t].obs = obs]

\* The thread is done with its snapshot; a recovery reports progress, though not
\* from the inline retry of a create.
Finish(t, progress) ==
    /\ thread' = [thread EXCEPT ![t] = NoThread]
    /\ progressed' = [progressed EXCEPT ![t[1]] = @ \/ (progress /\ thread[t].onError # "report")]

-----------------------------------------------------------------------------
(* The runtimes.                                                            *)

\* delete_snapshot: Docker has no image to remove while it still commits.  A call
\* that raises may have had its effect.
Removed(s) == IF backend = "docker" /\ artifact[s] = "pending" THEN "pending" ELSE "none"

RuntimeRemove(s, ok) ==
    \/ ok /\ artifact' = [artifact EXCEPT ![s] = Removed(s)] /\ UNCHANGED faults
    \/ /\ ~ok /\ Fault("delete")
       /\ artifact' = [artifact EXCEPT ![s] = Removed(s)] \/ UNCHANGED artifact

\* inspect_snapshot
Status(s) ==
    CASE artifact[s] = "done" -> "READY"
      [] artifact[s] = "failed" -> "FAILED"
      [] artifact[s] = "pending" -> IF backend = "docker" THEN "FAILED" ELSE "CREATING"
      [] artifact[s] = "none" -> IF backend = "kubernetesHA" THEN "CREATING" ELSE "FAILED"

\* What it answers when the runtime cannot be reached.
Unreachable == IF backend = "docker" THEN "FAILED" ELSE "CREATING"

\* create_snapshot of the Kubernetes and fast-sandbox runtimes.  A reply may be
\* lost with or without effect; then PostgreSQL mode takes the request for submitted,
\* and so does fast-sandbox unless it asks again and finds nothing.
Submitted(s) == IF artifact[s] = "none" THEN "pending" ELSE artifact[s]
RuntimeCreate(s, obs) ==
    \/ /\ artifact' = [artifact EXCEPT ![s] = Submitted(s)]
       /\ obs = IF artifact[s] = "none" \/ Fsb THEN "CREATING" ELSE Status(s)
       /\ UNCHANGED faults
    \/ Fault("reject") /\ obs = "FAILED" /\ UNCHANGED artifact
    \/ /\ Fault("lostCreate")
       /\ \/ /\ artifact' = [artifact EXCEPT ![s] = Submitted(s)]
             /\ obs = IF HA \/ Fsb THEN "CREATING" ELSE "FAILED"
          \/ /\ \/ obs = "CREATING" /\ (HA \/ Fsb)
                \/ obs = "FAILED" /\ backend # "kubernetesHA"
             /\ UNCHANGED artifact

\* The daemon or the controller comes to an end.
ArtifactEnds(s) ==
    /\ artifact[s] = "pending"
    /\ \E outcome \in {"done", "failed"} : artifact' = [artifact EXCEPT ![s] = outcome]
    /\ UNCHANGED <<backend, row, fresh, up, thread, todo, progressed, faults>>

-----------------------------------------------------------------------------
(* create_snapshot                                                          *)

\* Mutant: the row is written before the runtime object for every runtime.
CreateRequestM(v, s) ==
    /\ up[v] = "up"
    /\ At(<<v, "create">>, "idle")
    /\ s \in fresh
    /\ fresh' = fresh \ {s}
    /\ Begin(<<v, "create">>, s, IF backend = "docker" THEN "work" ELSE "submit", "CREATING")
    /\ row' = [row EXCEPT ![s] = "CREATING"]
    /\ UNCHANGED <<backend, artifact, up, todo, progressed, faults>>

\* Docker: the row first, then a worker.  Otherwise the runtime object first.
CreateRequest(v, s) ==
    /\ up[v] = "up"
    /\ At(<<v, "create">>, "idle")
    /\ s \in fresh
    /\ fresh' = fresh \ {s}
    /\ IF backend = "docker"
       THEN Begin(<<v, "create">>, s, "work", "CREATING") /\ row' = [row EXCEPT ![s] = "CREATING"]
       ELSE Begin(<<v, "create">>, s, "submit", "CREATING") /\ UNCHANGED row
    /\ UNCHANGED <<backend, artifact, up, todo, progressed, faults>>

\* _create_snapshot_worker with DockerSnapshotRuntime: commit, and wait for it.
Work(t) ==
    LET s == thread[t].snap IN
    /\ \/ /\ At(t, "work")
          /\ \/ /\ artifact' = [artifact EXCEPT ![s] = "pending"]
                /\ Goto(t, "commit")
                /\ UNCHANGED faults
             \/ Fault("reject") /\ Saw(t, "complete", "FAILED") /\ UNCHANGED artifact
       \/ /\ At(t, "commit")
          /\ \/ /\ artifact[s] # "pending"
                /\ Saw(t, "complete", Status(s))
                /\ UNCHANGED faults
             \/ artifact[s] = "pending" /\ Fault("timeout") /\ Saw(t, "complete", "FAILED")
          /\ UNCHANGED artifact
    /\ UNCHANGED <<backend, row, fresh, up, todo, progressed>>

\* _create_snapshot_synchronously, and the inline retry of the recovery.
Submit(t) ==
    LET s == thread[t].snap IN
    /\ At(t, "submit")
    /\ \E obs \in State :
          /\ RuntimeCreate(s, obs)
          /\ IF t[2] = "recover" THEN Saw(t, "complete", obs) /\ UNCHANGED progressed
             ELSE IF obs = "FAILED" THEN Finish(t, FALSE)
             ELSE Goto(t, "persist") /\ UNCHANGED progressed
    /\ UNCHANGED <<backend, row, fresh, up, todo>>

\* Mutant: the resource is left when the row could not be written.
PersistM(t) ==
    /\ At(t, "persist")
    /\ \/ row' = [row EXCEPT ![thread[t].snap] = "CREATING"] /\ UNCHANGED faults
       \/ Fault("store") /\ UNCHANGED row
    /\ Finish(t, FALSE)
    /\ UNCHANGED <<backend, artifact, fresh, up, todo>>

Persist(t) ==
    /\ At(t, "persist")
    /\ \/ /\ row' = [row EXCEPT ![thread[t].snap] = "CREATING"]
          /\ Finish(t, FALSE)
          /\ UNCHANGED faults
       \/ Fault("store") /\ Goto(t, "cleanup") /\ UNCHANGED <<row, progressed>>
    /\ UNCHANGED <<backend, artifact, fresh, up, todo>>

-----------------------------------------------------------------------------
(* Convergence: get_snapshot, list_snapshots and the watch callback.        *)

ReadRow(t, s) ==
    /\ t[2] \in {"read", "watch"}
    /\ up[t[1]] = "up"
    /\ At(t, "idle")
    /\ backend # "docker"
    /\ row[s] = "CREATING"
    /\ Begin(t, s, "inspect", "CREATING")
    /\ UNCHANGED <<backend, row, artifact, fresh, up, todo, progressed, faults>>

\* Mutant: a recovery waits as a reader does.
InspectM(t) ==
    /\ At(t, "inspect")
    /\ \E obs \in State :
          /\ \/ obs = Status(thread[t].snap) /\ UNCHANGED faults
             \/ Fault("inspect") /\ obs = Unreachable
          /\ IF obs # "CREATING" THEN Saw(t, "complete", obs) /\ UNCHANGED progressed
             ELSE Finish(t, FALSE)
    /\ UNCHANGED <<backend, row, artifact, fresh, up, todo>>

\* _observe_runtime.  A reader gives up on CREATING, a recovery creates again.
Inspect(t) ==
    /\ At(t, "inspect")
    /\ \E obs \in State :
          /\ \/ obs = Status(thread[t].snap) /\ UNCHANGED faults
             \/ Fault("inspect") /\ obs = Unreachable
          /\ IF obs # "CREATING" THEN Saw(t, "complete", obs) /\ UNCHANGED progressed
             ELSE IF t[2] # "recover" THEN Finish(t, FALSE)
             ELSE /\ thread' = [thread EXCEPT ![t].pc = "submit", ![t].onError = "report"]
                  /\ UNCHANGED progressed
    /\ UNCHANGED <<backend, row, artifact, fresh, up, todo>>

\* _complete_snapshot reads the row again and decides.  Only READY has an image
\* to clean up.
Complete(t) ==
    LET current == row[thread[t].snap]
        obs == thread[t].obs
    IN
    /\ At(t, "complete")
    /\ \/ /\ current = "none" /\ obs = "READY" /\ Goto(t, "cleanup")
          /\ UNCHANGED progressed
       \/ /\ current = "DELETING" /\ (obs = "READY" \/ ~HA)
          /\ Goto(t, IF obs = "READY" THEN "discard" ELSE "drop")
          /\ UNCHANGED progressed
       \/ /\ current = "CREATING" /\ obs # "CREATING" /\ Saw(t, "transition", obs)
          /\ UNCHANGED progressed
       \/ /\ \/ current \in {"READY", "FAILED"}
             \/ current = "none" /\ obs # "READY"
             \/ current = "DELETING" /\ obs # "READY" /\ HA
             \/ current = "CREATING" /\ obs = "CREATING"
          /\ Finish(t, TRUE)
    /\ UNCHANGED <<backend, row, artifact, fresh, up, todo, faults>>

\* Mutant: update instead of update_if_state.
WrittenBlindly(t) ==
    LET old == row[thread[t].snap] IN
    CASE thread[t].pc = "transition" /\ old # "none" -> thread[t].obs
      [] thread[t].pc = "mark" /\ old = thread[t].obs -> "DELETING"
      [] thread[t].pc = "drop" -> "none"
      [] OTHER -> old

\* What the call of the repository that thread t makes does to its row:
\* update_if_state when the snapshot is complete or is to be deleted, or delete.
Written(t) ==
    LET old == row[thread[t].snap] IN
    CASE thread[t].pc = "transition" /\ old = "CREATING" -> thread[t].obs
      [] thread[t].pc = "mark" /\ old = thread[t].obs -> "DELETING"
      [] thread[t].pc = "drop" -> "none"
      [] OTHER -> old

\* update_if_state(CREATING)
Transition(t) ==
    /\ At(t, "transition")
    /\ row' = [row EXCEPT ![thread[t].snap] = Written(t)]
    /\ Finish(t, TRUE)
    /\ UNCHANGED <<backend, artifact, fresh, up, todo, faults>>

\* _cleanup_runtime_artifact for a row that is gone or was never written.
Cleanup(t) ==
    /\ At(t, "cleanup")
    /\ \E ok \in BOOLEAN : RuntimeRemove(thread[t].snap, ok)
    /\ Finish(t, TRUE)
    /\ UNCHANGED <<backend, row, fresh, up, todo>>

\* The same for a row that is being deleted: PostgreSQL mode keeps the row when
\* the artifact could not be removed.
Discard(t) ==
    /\ At(t, "discard")
    /\ \E ok \in BOOLEAN :
          /\ RuntimeRemove(thread[t].snap, ok)
          /\ IF ok \/ ~HA THEN Goto(t, "drop") /\ UNCHANGED progressed ELSE Finish(t, TRUE)
    /\ UNCHANGED <<backend, row, fresh, up, todo>>

\* repository.delete
Drop(t) ==
    /\ At(t, "drop")
    /\ row' = [row EXCEPT ![thread[t].snap] = Written(t)]
    /\ Finish(t, TRUE)
    /\ UNCHANGED <<backend, artifact, fresh, up, todo, faults>>

\* A call of the repository raises.  A request reports it, a worker, a watch or the
\* inline retry of a create only logs it.  The recovery tries to record the snapshot
\* as failed; when that raises too, the scan is over, and with it the constructor.
StoreFails(t) ==
    /\ \E pc \in {"complete", "transition", "drop", "mark"} : At(t, pc)
    /\ Fault("store")
    /\ UNCHANGED row \/ (HA /\ row' = [row EXCEPT ![thread[t].snap] = Written(t)])
    /\ \/ /\ thread[t].onError = "report"
          /\ Finish(t, FALSE)
          /\ UNCHANGED <<up, todo>>
       \/ /\ thread[t].onError = "fail"
          /\ thread' = [thread EXCEPT ![t].pc = "complete", ![t].obs = "FAILED",
                                      ![t].onError = "abort"]
          /\ UNCHANGED <<up, todo, progressed>>
       \/ /\ thread[t].onError = "abort"
          /\ thread' = [thread EXCEPT ![t] = NoThread]
          /\ todo' = [todo EXCEPT ![t[1]] = {}]
          /\ up' = IF HA THEN up ELSE [up EXCEPT ![t[1]] = "down"]
          /\ progressed' = [progressed EXCEPT ![t[1]] = TRUE]
    /\ UNCHANGED <<backend, artifact, fresh>>

-----------------------------------------------------------------------------
(* delete_snapshot                                                          *)

\* Mutant: a READY row is not marked before the runtime is asked to delete.
DeleteRequestM(v, s) ==
    /\ up[v] = "up"
    /\ At(<<v, "delete">>, "idle")
    /\ row[s] \in {"READY", "FAILED", "DELETING"}
    /\ IF row[s] = "FAILED" THEN Begin(<<v, "delete">>, s, "mark", row[s])
                            ELSE Begin(<<v, "delete">>, s, "delete", "CREATING")
    /\ UNCHANGED <<backend, row, artifact, fresh, up, todo, progressed, faults>>

\* A snapshot that is still being created is refused.
DeleteRequest(v, s) ==
    /\ up[v] = "up"
    /\ At(<<v, "delete">>, "idle")
    /\ row[s] \in {"READY", "FAILED", "DELETING"}
    /\ IF row[s] = "DELETING" THEN Begin(<<v, "delete">>, s, "delete", "CREATING")
                              ELSE Begin(<<v, "delete">>, s, "mark", row[s])
    /\ UNCHANGED <<backend, row, artifact, fresh, up, todo, progressed, faults>>

\* _mark_snapshot_deleting: when another request was faster, join it or return.
Mark(t) ==
    LET s == thread[t].snap IN
    /\ At(t, "mark")
    /\ row' = [row EXCEPT ![s] = Written(t)]
    /\ IF row'[s] = "DELETING" THEN Goto(t, "delete") /\ UNCHANGED progressed ELSE Finish(t, FALSE)
    /\ UNCHANGED <<backend, artifact, fresh, up, todo, faults>>

\* The artifact goes before the row; a failure leaves the row DELETING.
RuntimeDelete(t) ==
    /\ At(t, "delete")
    /\ \E ok \in BOOLEAN :
          /\ RuntimeRemove(thread[t].snap, ok)
          /\ IF ok THEN Goto(t, "drop") /\ UNCHANGED progressed ELSE Finish(t, FALSE)
    /\ UNCHANGED <<backend, row, fresh, up, todo>>

-----------------------------------------------------------------------------
(* recover_unfinished_snapshots: in the constructor of a server, and again   *)
(* and again in PostgreSQL mode.                                             *)

\* Mutants: snapshots in DELETING are forgotten; the loop runs whatever the store is.
UnfinishedCreating == {s \in Snapshot : row[s] = "CREATING"}
ScanningM(v) == up[v] = "starting" \/ (up[v] = "up" /\ backend # "docker")

Unfinished == {s \in Snapshot : row[s] \in {"CREATING", "DELETING"}}
Scanning(v) == up[v] = IF HA THEN "up" ELSE "starting"
Rested(v) == todo[v] = {} /\ At(<<v, "recover">>, "idle")

ScanList(v) ==
    /\ Scanning(v) /\ Rested(v)
    /\ progressed[v]
    /\ Unfinished # {}
    /\ todo' = [todo EXCEPT ![v] = {<<s, row[s]>> : s \in Unfinished}]
    /\ progressed' = [progressed EXCEPT ![v] = HA]
    /\ UNCHANGED <<backend, row, artifact, fresh, up, thread, faults>>

ScanNext(v) ==
    /\ At(<<v, "recover">>, "idle")
    /\ \E r \in todo[v] :
          /\ todo' = [todo EXCEPT ![v] = @ \ {r}]
          /\ Begin(<<v, "recover">>, r[1], IF r[2] = "CREATING" THEN "inspect" ELSE "delete", "CREATING")
    /\ UNCHANGED <<backend, row, artifact, fresh, up, progressed, faults>>

\* The constructor returns after a pass without progress.
ScanEnd(v) ==
    /\ up[v] = "starting" /\ Rested(v)
    /\ ~progressed[v] \/ Unfinished = {}
    /\ up' = [up EXCEPT ![v] = "up"]
    /\ progressed' = [progressed EXCEPT ![v] = TRUE]
    /\ UNCHANGED <<backend, row, artifact, fresh, thread, todo, faults>>

Crash(v) ==
    /\ up[v] \in {"up", "starting"}
    /\ Fault("crash")
    /\ up' = [up EXCEPT ![v] = "down"]
    /\ thread' = [t \in Threads |-> IF t[1] = v THEN NoThread ELSE thread[t]]
    /\ todo' = [todo EXCEPT ![v] = {}]
    /\ progressed' = [progressed EXCEPT ![v] = TRUE]
    /\ UNCHANGED <<backend, row, artifact, fresh>>

Restart(v) ==
    /\ up[v] = "down"
    /\ up' = [up EXCEPT ![v] = IF HA THEN "up" ELSE "starting"]
    /\ UNCHANGED <<backend, row, artifact, fresh, thread, todo, progressed, faults>>

-----------------------------------------------------------------------------
Step(t) == /\ thread[t].pc # "idle"
           /\ \/ Work(t) \/ Submit(t) \/ Persist(t) \/ Inspect(t) \/ Complete(t) \/ Transition(t)
              \/ Cleanup(t) \/ Discard(t) \/ Drop(t) \/ Mark(t) \/ RuntimeDelete(t)
              \/ StoreFails(t)

Recovery(v) == ScanList(v) \/ ScanNext(v) \/ ScanEnd(v) \/ Restart(v)

Next ==
    \/ \E v \in Server, s \in Snapshot : CreateRequest(v, s) \/ DeleteRequest(v, s)
    \/ \E t \in Threads : Step(t) \/ \E s \in Snapshot : ReadRow(t, s)
    \/ \E v \in Server : Recovery(v) \/ Crash(v)
    \/ \E s \in Snapshot : ArtifactEnds(s)

\* Requests and recoveries go on, a server that went down is started again, the
\* runtime comes to an end, and somebody reads every row in CREATING (a client
\* that polls, or the list with which the watch begins).  Nothing depends on the
\* callbacks of the watch.
Fairness ==
    /\ \A t \in {x \in Threads : x[2] # "watch"} : WF_vars(Step(t))
    /\ \A t \in {x \in Threads : x[2] = "read"}, s \in Snapshot : WF_vars(ReadRow(t, s))
    /\ \A v \in Server : WF_vars(Recovery(v))
    /\ \A s \in Snapshot : WF_vars(ArtifactEnds(s))

Spec == Init /\ [][Next]_vars /\ Fairness
-----------------------------------------------------------------------------
\* A row in READY can be restored from: no delete, cleanup or late observation of
\* any server removes the artifact of a row that is not being deleted, and none
\* makes READY of a row whose artifact is gone.
ReadyRestorable == \A s \in Snapshot : row[s] = "READY" => artifact[s] = "done"

\* One terminal transition wins: a row leaves CREATING once, a terminal row can
\* only be deleted, a deleted one never comes back.
OneTerminalTransition ==
    [][\A s \in Snapshot :
          row'[s] # row[s] =>
             \/ row[s] = "none" /\ row'[s] = "CREATING"
             \/ row[s] = "CREATING" /\ row'[s] \in {"READY", "FAILED"}
             \/ row[s] \in {"READY", "FAILED"} /\ row'[s] = "DELETING"
             \/ row[s] = "DELETING" /\ row'[s] = "none"]_vars

\* A row only says FAILED when the runtime failed: a reader never takes an artifact
\* that is not there yet for one that is missing, and a repository that fails does
\* not fail a snapshot.  Other faults may, and so may an error of the repository that
\* meets the recovery of a server in PostgreSQL mode.
FailedMeansFailed ==
    \A s \in Snapshot :
       row[s] = "FAILED" /\ faults.other = 0 /\ (HA => faults.store = 0) => artifact[s] = "failed"

\* Without PostgreSQL an artifact is only made for a request that has not written
\* its row yet or for a row that is being created, whatever fails: a deleted
\* snapshot is never made again.
MadeForLiveRow ==
    [][\A s \in Snapshot :
          artifact[s] = "none" /\ artifact'[s] # "none" /\ ~HA =>
             \/ row[s] = "CREATING"
             \/ \E t \in Threads : t[2] = "create" /\ thread[t].snap = s]_vars

\* Without PostgreSQL every artifact has a row, or a thread that is going to write or
\* to remove it, whichever calls of the repository fail: a resource whose row could
\* not be written is removed again.  Other faults may leave one behind.
ArtifactsOwned ==
    faults.other = 0 /\ ~HA =>
       \A s \in Snapshot :
          artifact[s] # "none" => row[s] # "none" \/ \E t \in Threads : thread[t].snap = s

\* Docker completes a row in its worker only, and an error of the repository there is
\* logged: nobody looks at the row before the server starts again.
Abandoned(s) ==
    /\ backend = "docker" /\ faults.store > 0 /\ up[Main] = "up"
    /\ \A t \in Threads : thread[t].snap # s

\* Every snapshot leaves CREATING, also when its server died or its repository failed:
\* the worker, a read or the recovery of a server completes it.  Only what the worker
\* of Docker has abandoned waits for the next start, and that completes it.
CreatingEnds ==
    /\ \A s \in Snapshot : row[s] = "CREATING" ~> row[s] # "CREATING" \/ Abandoned(s)
    /\ [][\A s \in Snapshot :
             backend = "docker" /\ up[Main] = "starting" /\ up'[Main] = "up"
                => row'[s] # "CREATING"]_vars

\* In PostgreSQL mode a delete that was begun is finished by somebody, although
\* its server died or the runtime refused it at first.
DeletingEnds == \A s \in Snapshot : row[s] = "DELETING" /\ HA ~> row[s] = "none"
=============================================================================
