------------------------- MODULE SnapshotServiceProofs -------------------------
(* Proofs about SnapshotService, for any number of servers, snapshots and faults. *)
EXTENDS SnapshotServiceInv, TLAPS

\* Threads are pairs of a server and a role.
LEMMA ThreadsType == \A t \in Threads : t \in Server \X Role
BY DEF Threads

\* A thread at a step is one of them.
LEMMA AtType ==
    ASSUME TypeOK, NEW t, NEW pc, At(t, pc)
    PROVE  t \in Threads /\ thread[t].pc = pc /\ thread[t] \in ThreadRec
BY SnapshotAssumption, Zenon DEF Threads, TypeOK, At

\* A thread that is done has no snapshot.
LEMMA NoThreadType ==
    /\ NoThread \in ThreadRec
    /\ NoThread.pc = "idle" /\ NoThread.snap = None /\ NoThread.onError = "report"
BY Zenon DEF NoThread, ThreadRec, Pc, State

\* Without PostgreSQL the recovery runs alone: its server is not up yet, and there
\* is no other server.
LEMMA Alone ==
    ASSUME SnapshotInv, ~HA
    PROVE  /\ \A t, u \in Threads :
                 t[2] = "recover" /\ thread[t].pc # "idle" /\ thread[u].pc # "idle" => t = u
           /\ \A v \in Server, t \in Threads :
                 todo[v] # {} /\ thread[t].pc # "idle" => t[2] = "recover"
<1>1. \A t \in Threads : t[1] \in Server
  BY ThreadsType, Zenon
<1>2. \A t, u \in Threads : t[1] = u[1] /\ t[2] = u[2] => t = u
  BY ThreadsType
<1>3. \A t \in Threads : thread[t].pc # "idle" => t[1] = Main
  BY <1>1, Zenon DEF SnapshotInv, ThreadInv
<1> QED
  BY <1>1, <1>2, <1>3, SnapshotAssumption DEF SnapshotInv, ThreadInv, ScanInv

-----------------------------------------------------------------------------
(* What a step of a thread may do.                                          *)

\* Thread t goes on with its snapshot or is done, and only its row and its artifact
\* change.  A recovery may give up the rest of its list.
Going(t) ==
    /\ t \in Threads /\ thread[t].pc # "idle"
    /\ \A u \in Threads \ {t} : thread'[u] = thread[u]
    /\ \A x \in Snapshot \ {thread[t].snap} : row'[x] = row[x] /\ artifact'[x] = artifact[x]
    /\ \A v \in Server : todo'[v] \subseteq todo[v]
    /\ UNCHANGED <<backend, fresh, up>>

\* The row and the artifact go forward.
Forward(s) ==
    /\ artifact[s] = "done" => artifact'[s] = "done" \/ Past(s)
    /\ Past(s) => row'[s] \in {"DELETING", "none"}
    /\ row'[s] = "READY" => artifact'[s] = "done"

\* What holds of a thread that goes on.
Continues(t, th, s) ==
    /\ th.snap = s
    /\ th.pc \notin {"idle", "work"}
    /\ th.pc \in {"commit", "persist"} => t[2] = "create"
    /\ th.pc = "submit" => t[2] \in {"create", "recover"}
    /\ th.pc = "complete" => th.obs # "DELETING"
    /\ th.pc \in {"mark", "transition"} => th.obs \in {"READY", "FAILED"}
    /\ t[2] = "create" /\ th.pc \in {"submit", "persist"} => Opening(t) /\ row'[s] = "none"
    /\ th.pc \in {"cleanup", "discard", "drop", "delete"} => Past(s)'
    /\ th.pc \in {"complete", "transition"} /\ th.obs = "READY" =>
          artifact'[s] = "done" \/ Past(s)'
    /\ t[2] = "recover" /\ th.pc \in {"inspect", "submit"} /\ ~HA => row'[s] = "CREATING"
    /\ th.onError \in {"report", thread[t].onError} \/ t[2] = "recover"

\* A step keeps the invariant, and what is past stays so.
Preserved == SnapshotInv' /\ \A x \in Snapshot : Past(x) => Past(x)'

\* Such a step keeps the invariant.
LEMMA StepKeeps ==
    ASSUME SnapshotInv, TypeOK', NEW t, Going(t), Forward(thread[t].snap),
           thread'[t] = NoThread \/ Continues(t, thread'[t], thread[t].snap)
    PROVE  Preserved
<1> DEFINE s == thread[t].snap
<1>1. s \in Snapshot /\ s \notin fresh /\ thread[t] \in ThreadRec /\ None \notin Snapshot
  BY SnapshotAssumption DEF Going, SnapshotInv, TypeOK, ThreadInv, ThreadRec
<1>2. HA' = HA
  BY Zenon DEF Going, HA
<1>3. ThreadInv'
  BY <1>1, <1>2, NoThreadType DEF SnapshotInv, TypeOK, ThreadInv, Going, Continues
<1>4. \A u \in Threads : Opening(u)' => Opening(u) /\ thread'[u].snap = thread[u].snap
  BY <1>1, NoThreadType, Zenon DEF Going, Continues, Opening
<1>5. \A x \in Snapshot : Past(x) => Past(x)'
  BY <1>1, <1>4, Zenon DEF Past, Going, Forward
<1>6. OpenInv'
  <2> SUFFICES ASSUME NEW u \in Threads, Opening(u)'
               PROVE  (/\ row[thread[u].snap] = IF thread[u].pc = "work" THEN "CREATING" ELSE "none"
                       /\ thread[u].pc = "work" => artifact[thread[u].snap] = "none" /\ backend = "docker"
                       /\ \A w \in Threads \ {u} : thread[w].snap # thread[u].snap
                       /\ \A v \in Server : \A r \in todo[v] : r[1] # thread[u].snap)'
    BY Zenon DEF OpenInv
  <2>1. Opening(u) /\ thread'[u].snap = thread[u].snap
    BY <1>4, Zenon
  <2>2. /\ \A w \in Threads \ {u} : thread'[w].snap # thread'[u].snap
        /\ \A v \in Server : \A r \in todo'[v] : r[1] # thread'[u].snap
    <3>1. thread[u].snap # None
      BY <2>1, Zenon DEF SnapshotInv, ThreadInv, Opening
    <3> QED
      BY <2>1, <3>1, NoThreadType DEF Going, Continues, SnapshotInv, OpenInv
  <2>3. CASE u = t
    BY <2>1, <2>2, <2>3, NoThreadType, Zenon DEF Going, Continues, SnapshotInv, OpenInv, Opening
  <2>4. CASE u # t
    <3>1. thread[u].snap # s /\ thread[u].snap \in Snapshot /\ thread'[u] = thread[u]
      BY <2>1, <2>4, SnapshotAssumption
      DEF Going, SnapshotInv, TypeOK, ThreadRec, ThreadInv, OpenInv, Opening
    <3> QED
      BY <2>1, <2>2, <3>1, <1>2 DEF Going, SnapshotInv, OpenInv
  <2> QED
    BY <2>3, <2>4, Zenon
<1>7. \A u \in Threads : thread[u].pc # "idle" => thread[u].snap \in Snapshot
  BY DEF SnapshotInv, TypeOK, ThreadRec, ThreadInv
<1>8. PastInv'
  BY <1>5, <1>7, NoThreadType DEF SnapshotInv, TypeOK, PastInv, Going, Continues
<1>9. SeenInv'
  BY <1>5, <1>7, NoThreadType DEF SnapshotInv, SeenInv, Going, Forward, Continues
<1>10. ScanInv'
  <2> SUFFICES ASSUME ~HA PROVE ScanInv'
    BY <1>2, Zenon DEF ScanInv
  <2>1. \A v \in Server : \A r \in todo'[v] : r \in todo[v] /\ r[1] \in Snapshot \ {s}
    BY DEF SnapshotInv, TypeOK, ScanInv, Going
  <2>2. \A u \in Threads : u[2] = "recover" /\ thread[u].pc # "idle" => u = t
    BY Alone, Zenon DEF Going
  <2>3. \A u \in Threads : (u[2] = "recover" /\ thread[u].pc \in {"inspect", "submit"})'
                               => row'[thread'[u].snap] = "CREATING"
    BY <2>2, NoThreadType DEF Going, Continues
  <2> QED
    BY <2>1, <2>3, <1>1, <1>2, NoThreadType DEF SnapshotInv, ScanInv, Going, Continues
<1>11. ReadyRestorable' /\ \A x \in fresh' : row'[x] = "none" /\ artifact'[x] = "none"
  BY <1>1 DEF SnapshotInv, TypeOK, Going, Forward, Past, ReadyRestorable
<1> QED
  BY <1>3, <1>5, <1>6, <1>8, <1>9, <1>10, <1>11, Zenon DEF SnapshotInv, Preserved
-----------------------------------------------------------------------------
(* The steps of the threads.                                                *)

\* What a thread that works on a snapshot can rely on.
LEMMA Busy ==
    ASSUME SnapshotInv, NEW t, NEW pc, At(t, pc), pc # "idle"
    PROVE  /\ t \in Threads /\ thread[t].pc = pc /\ thread[t] \in ThreadRec
           /\ thread[t].snap \in Snapshot /\ thread[t].snap \notin fresh
           /\ pc \in {"cleanup", "discard", "drop", "delete"} => Past(thread[t].snap)
BY AtType DEF SnapshotInv, ThreadInv, ThreadRec, PastInv

\* Going to a step with an observation.
LEMMA SawIt ==
    ASSUME TypeOK, NEW t \in Threads, NEW pc \in Pc, NEW obs \in State, Saw(t, pc, obs)
    PROVE  /\ thread' \in [Threads -> ThreadRec]
           /\ thread'[t].pc = pc /\ thread'[t].snap = thread[t].snap /\ thread'[t].obs = obs
           /\ thread'[t].onError = thread[t].onError
           /\ \A u \in Threads \ {t} : thread'[u] = thread[u]
BY ZenonT(60) DEF TypeOK, ThreadRec, Saw

\* The same without an observation.
LEMMA Went ==
    ASSUME TypeOK, NEW t \in Threads, NEW pc \in Pc, Goto(t, pc)
    PROVE  /\ thread' \in [Threads -> ThreadRec]
           /\ thread'[t].pc = pc /\ thread'[t].snap = thread[t].snap
           /\ thread'[t].obs = "CREATING" /\ thread'[t].onError = thread[t].onError
           /\ \A u \in Threads \ {t} : thread'[u] = thread[u]
BY SawIt, Zenon DEF Goto, Saw, State

\* The recovery turns to recording the failure.
LEMMA Turned ==
    ASSUME TypeOK, NEW t \in Threads,
           thread' = [thread EXCEPT ![t].pc = "complete", ![t].obs = "FAILED", ![t].onError = "abort"]
    PROVE  /\ thread' \in [Threads -> ThreadRec]
           /\ thread'[t].pc = "complete" /\ thread'[t].snap = thread[t].snap
           /\ thread'[t].obs = "FAILED"
           /\ \A u \in Threads \ {t} : thread'[u] = thread[u]
<1>1. thread \in [Threads -> ThreadRec] /\ thread[t] \in ThreadRec
  BY Zenon DEF TypeOK
<1>2. /\ thread'[t] = [thread[t] EXCEPT !.pc = "complete", !.obs = "FAILED", !.onError = "abort"]
      /\ DOMAIN thread' = Threads
      /\ thread' = [u \in Threads |-> thread'[u]]
      /\ \A u \in Threads \ {t} : thread'[u] = thread[u]
  BY <1>1, Zenon
<1>3. /\ thread'[t] \in ThreadRec
      /\ thread'[t].pc = "complete" /\ thread'[t].snap = thread[t].snap
      /\ thread'[t].obs = "FAILED"
  BY <1>1, <1>2, Zenon DEF ThreadRec, Pc, State
<1>4. \A u \in Threads : thread'[u] \in ThreadRec
  BY <1>1, <1>2, <1>3, Zenon
<1> QED
  BY <1>2, <1>3, <1>4, Zenon

\* A thread that is done leaves its snapshot.
LEMMA Done ==
    ASSUME TypeOK, NEW t \in Threads, NEW progress, Finish(t, progress)
    PROVE  /\ thread' \in [Threads -> ThreadRec]
           /\ thread'[t] = NoThread
           /\ \A u \in Threads \ {t} : thread'[u] = thread[u]
           /\ progressed' \in [Server -> BOOLEAN]
BY NoThreadType, ThreadsType, Zenon DEF TypeOK, Finish

\* A fault is counted.
LEMMA FaultType ==
    ASSUME TypeOK, NEW f, Fault(f)
    PROVE  /\ faults' \in FaultCount
           /\ f = "store" => faults'.store > 0 /\ faults'.other = faults.other
           /\ f # "store" => faults'.other > 0 /\ faults'.store = faults.store
BY DEF TypeOK, Fault, FaultCount

\* Row and artifact stay as they are.
LEMMA Still ==
    ASSUME SnapshotInv, NEW s \in Snapshot, row'[s] = row[s], artifact'[s] = artifact[s]
    PROVE  Forward(s)
BY Zenon DEF SnapshotInv, ReadyRestorable, Forward, Past

\* A step of a row: created, completed, marked, dropped.
Moved(s) ==
    \/ row'[s] = row[s]
    \/ row[s] = "none" /\ row'[s] = "CREATING"
    \/ row[s] = "CREATING" /\ row'[s] \in {"READY", "FAILED"}
    \/ row[s] \in {"READY", "FAILED"} /\ row'[s] = "DELETING"
    \/ row[s] = "DELETING" /\ row'[s] = "none"

\* What update_if_state and delete write: READY only over a row whose artifact is still
\* there, and nothing but DELETING or none over a row that is past.
LEMMA WriteMoves ==
    ASSUME SnapshotInv, NEW t, NEW pc \in {"complete", "transition", "drop", "mark"}, At(t, pc),
           artifact' = artifact,
           row' = row \/ row' = [row EXCEPT ![thread[t].snap] = Written(t)]
    PROVE  /\ row' \in [Snapshot -> State \cup {"none"}]
           /\ \A x \in Snapshot : Moved(x)
           /\ \A x \in Snapshot \ {thread[t].snap} : row'[x] = row[x]
           /\ Forward(thread[t].snap)
<1> DEFINE s == thread[t].snap
           obs == thread[t].obs
<1>1. /\ t \in Threads /\ thread[t].pc = pc /\ s \in Snapshot
      /\ row \in [Snapshot -> State \cup {"none"}]
      /\ pc \in {"mark", "transition"} => obs \in {"READY", "FAILED"}
      /\ pc = "drop" => Past(s)
      /\ pc = "transition" /\ obs = "READY" => artifact[s] = "done" \/ Past(s)
      /\ row[s] = "READY" => artifact[s] = "done"
  <2>1. t \in Threads /\ thread[t].pc = pc /\ s \in Snapshot /\ (pc = "drop" => Past(s))
    BY Busy
  <2> QED
    BY <2>1, Zenon DEF SnapshotInv, TypeOK, ThreadInv, SeenInv, ReadyRestorable
<1>2. \/ Written(t) = row[s]
      \/ row[s] = "CREATING" /\ Written(t) = obs /\ pc = "transition"
      \/ row[s] \in {"READY", "FAILED"} /\ Written(t) = "DELETING"
      \/ row[s] = "DELETING" /\ Written(t) = "none"
  BY <1>1 DEF Written, Past
<1>3. Written(t) \in State \cup {"none"}
  BY <1>1, <1>2 DEF State
<1>4. /\ row' \in [Snapshot -> State \cup {"none"}]
      /\ \A x \in Snapshot \ {s} : row'[x] = row[x]
      /\ row'[s] = row[s] \/ row'[s] = Written(t)
  BY <1>1, <1>3, Zenon
<1>5. Moved(s)
  BY <1>1, <1>2, <1>4 DEF Moved
<1>6. Forward(s)
  <2>1. CASE row'[s] = row[s]
    BY <1>1, <2>1, Still, Zenon
  <2>2. CASE row'[s] = Written(t)
    BY <1>1, <1>2, <2>2 DEF Forward, Past
  <2> QED
    BY <1>4, <2>1, <2>2, Zenon
<1> QED
  BY <1>4, <1>5, <1>6, Zenon DEF Moved

\* update_if_state(CREATING)
LEMMA TransitionKeeps ==
    ASSUME SnapshotInv, NEW t, Transition(t)
    PROVE  Preserved /\ Going(t)
<1>1. /\ t \in Threads /\ thread[t].pc = "transition" /\ thread[t].snap \in Snapshot /\ TypeOK
      /\ At(t, "transition") /\ Finish(t, TRUE)
      /\ row' = [row EXCEPT ![thread[t].snap] = Written(t)]
      /\ UNCHANGED <<backend, artifact, fresh, up, todo, faults>>
  BY Busy, Zenon DEF Transition, SnapshotInv
<1>2. TypeOK' /\ Going(t) /\ thread'[t] = NoThread
  BY <1>1, Done, WriteMoves, Zenon DEF TypeOK, Going
<1> QED
  BY <1>1, <1>2, WriteMoves, StepKeeps, Zenon

\* repository.delete takes a row that is past.
LEMMA DropKeeps ==
    ASSUME SnapshotInv, NEW t, Drop(t)
    PROVE  Preserved /\ Going(t)
<1>1. /\ t \in Threads /\ thread[t].pc = "drop" /\ thread[t].snap \in Snapshot /\ TypeOK
      /\ At(t, "drop") /\ Finish(t, TRUE)
      /\ row' = [row EXCEPT ![thread[t].snap] = Written(t)]
      /\ UNCHANGED <<backend, artifact, fresh, up, todo, faults>>
  BY Busy, Zenon DEF Drop, SnapshotInv
<1>2. TypeOK' /\ Going(t) /\ thread'[t] = NoThread
  BY <1>1, Done, WriteMoves, Zenon DEF TypeOK, Going
<1> QED
  BY <1>1, <1>2, WriteMoves, StepKeeps, Zenon

\* _mark_snapshot_deleting makes a terminal row past, or finds it so.
LEMMA MarkKeeps ==
    ASSUME SnapshotInv, NEW t, Mark(t)
    PROVE  Preserved /\ Going(t)
<1> DEFINE s == thread[t].snap
<1>1. /\ t \in Threads /\ thread[t].pc = "mark" /\ s \in Snapshot /\ s \notin fresh /\ TypeOK
      /\ At(t, "mark")
      /\ row' = [row EXCEPT ![s] = Written(t)]
      /\ UNCHANGED <<backend, artifact, fresh, up, todo, faults>>
  BY Busy, Zenon DEF Mark, SnapshotInv
<1>2. /\ row' \in [Snapshot -> State \cup {"none"}] /\ Forward(s) /\ Moved(s)
      /\ \A x \in Snapshot \ {s} : row'[x] = row[x]
  BY <1>1, WriteMoves, Zenon
<1>3. CASE row'[s] = "DELETING"
  <2>1. Goto(t, "delete") /\ UNCHANGED progressed
    BY <1>3, Zenon DEF Mark
  <2>2. TypeOK' /\ Going(t)
    BY <1>1, <1>2, <2>1, Went, Zenon DEF TypeOK, Going, Pc
  <2>3. row[s] \in {"READY", "FAILED", "DELETING"}
    BY <1>2, <1>3 DEF Moved
  <2>4. Past(s)'
    BY <1>1, <1>3, <2>1, <2>2, <2>3, Went DEF Past, Opening, Going, SnapshotInv, OpenInv, Pc
  <2> QED
    BY <1>1, <1>2, <2>1, <2>2, <2>4, Went, StepKeeps, Zenon DEF Continues, Pc
<1>4. CASE row'[s] # "DELETING"
  <2>1. Finish(t, FALSE)
    BY <1>4, Zenon DEF Mark
  <2>2. TypeOK' /\ Going(t) /\ thread'[t] = NoThread
    BY <1>1, <1>2, <2>1, Done, Zenon DEF TypeOK, Going
  <2> QED
    BY <1>2, <2>2, StepKeeps, Zenon
<1> QED
  BY <1>3, <1>4, Zenon

\* Removing the artifact of a row that is past.
LEMMA RemovePast ==
    ASSUME SnapshotInv, NEW s \in Snapshot, Past(s), NEW ok \in BOOLEAN, RuntimeRemove(s, ok),
           row' = row
    PROVE  /\ Forward(s)
           /\ artifact' \in [Snapshot -> {"none", "pending", "done", "failed"}]
           /\ \A x \in Snapshot \ {s} : artifact'[x] = artifact[x]
           /\ faults' \in FaultCount
<1>1. faults' \in FaultCount
  BY FaultType, Zenon DEF SnapshotInv, TypeOK, RuntimeRemove
<1> QED
  BY <1>1 DEF SnapshotInv, TypeOK, RuntimeRemove, Removed, Forward, Past, ReadyRestorable

\* A row that is past stays so when its thread goes on.
LEMMA StaysPast ==
    ASSUME NEW t, Going(t), Past(thread[t].snap), row' = row,
           thread'[t].snap = thread[t].snap, thread'[t].pc \notin {"submit", "persist", "work"}
    PROVE  Past(thread[t].snap)'
BY Zenon DEF Going, Past, Opening

\* _cleanup_runtime_artifact without a row.
LEMMA CleanupKeeps ==
    ASSUME SnapshotInv, NEW t, Cleanup(t)
    PROVE  Preserved /\ Going(t)
<1> DEFINE s == thread[t].snap
<1>1. t \in Threads /\ thread[t].pc = "cleanup" /\ s \in Snapshot /\ Past(s) /\ TypeOK
  BY Busy, Zenon DEF Cleanup, SnapshotInv
<1>2. /\ Forward(s)
      /\ artifact' \in [Snapshot -> {"none", "pending", "done", "failed"}]
      /\ \A x \in Snapshot \ {s} : artifact'[x] = artifact[x]
      /\ faults' \in FaultCount
  BY <1>1, RemovePast, Zenon DEF Cleanup
<1>3. TypeOK' /\ Going(t) /\ thread'[t] = NoThread
  BY <1>1, <1>2, Done, Zenon DEF Cleanup, TypeOK, Going
<1> QED
  BY <1>2, <1>3, StepKeeps, Zenon

\* The same for a row in DELETING.
LEMMA DiscardKeeps ==
    ASSUME SnapshotInv, NEW t, Discard(t)
    PROVE  Preserved /\ Going(t)
<1> DEFINE s == thread[t].snap
<1>1. t \in Threads /\ thread[t].pc = "discard" /\ s \in Snapshot /\ Past(s) /\ TypeOK
  BY Busy, Zenon DEF Discard, SnapshotInv
<1>2. /\ Forward(s)
      /\ artifact' \in [Snapshot -> {"none", "pending", "done", "failed"}]
      /\ \A x \in Snapshot \ {s} : artifact'[x] = artifact[x]
      /\ faults' \in FaultCount
  BY <1>1, RemovePast, Zenon DEF Discard
<1>3. CASE Goto(t, "drop") /\ UNCHANGED progressed
  <2>1. TypeOK' /\ Going(t)
    BY <1>1, <1>2, <1>3, Went, Zenon DEF Discard, TypeOK, Going, Pc
  <2>2. Past(s)'
    BY <1>1, <1>3, <2>1, Went, StaysPast, Zenon DEF Discard, Pc
  <2> QED
    BY <1>1, <1>2, <1>3, <2>1, <2>2, Went, StepKeeps, Zenon DEF Continues, Pc
<1>4. CASE Finish(t, TRUE)
  <2>1. TypeOK' /\ Going(t) /\ thread'[t] = NoThread
    BY <1>1, <1>2, <1>4, Done, Zenon DEF Discard, TypeOK, Going
  <2> QED
    BY <1>2, <2>1, StepKeeps, Zenon
<1> QED
  BY <1>3, <1>4, Zenon DEF Discard

\* delete_snapshot of the runtime, before the row goes.
LEMMA RuntimeDeleteKeeps ==
    ASSUME SnapshotInv, NEW t, RuntimeDelete(t)
    PROVE  Preserved /\ Going(t)
<1> DEFINE s == thread[t].snap
<1>1. t \in Threads /\ thread[t].pc = "delete" /\ s \in Snapshot /\ Past(s) /\ TypeOK
  BY Busy, Zenon DEF RuntimeDelete, SnapshotInv
<1>2. /\ Forward(s)
      /\ artifact' \in [Snapshot -> {"none", "pending", "done", "failed"}]
      /\ \A x \in Snapshot \ {s} : artifact'[x] = artifact[x]
      /\ faults' \in FaultCount
  BY <1>1, RemovePast, Zenon DEF RuntimeDelete
<1>3. CASE Goto(t, "drop") /\ UNCHANGED progressed
  <2>1. TypeOK' /\ Going(t)
    BY <1>1, <1>2, <1>3, Went, Zenon DEF RuntimeDelete, TypeOK, Going, Pc
  <2>2. Past(s)'
    BY <1>1, <1>3, <2>1, Went, StaysPast, Zenon DEF RuntimeDelete, Pc
  <2> QED
    BY <1>1, <1>2, <1>3, <2>1, <2>2, Went, StepKeeps, Zenon DEF Continues, Pc
<1>4. CASE Finish(t, FALSE)
  <2>1. TypeOK' /\ Going(t) /\ thread'[t] = NoThread
    BY <1>1, <1>2, <1>4, Done, Zenon DEF RuntimeDelete, TypeOK, Going
  <2> QED
    BY <1>2, <2>1, StepKeeps, Zenon
<1> QED
  BY <1>3, <1>4, Zenon DEF RuntimeDelete

\* What create_snapshot reports.
LEMMA CreateType ==
    ASSUME TypeOK, NEW s \in Snapshot, NEW obs \in State, RuntimeCreate(s, obs), row' = row
    PROVE  /\ obs # "DELETING"
           /\ obs = "READY" => artifact'[s] = "done"
           /\ artifact[s] # "none" => artifact'[s] = artifact[s]
           /\ artifact' \in [Snapshot -> {"none", "pending", "done", "failed"}]
           /\ \A x \in Snapshot \ {s} : artifact'[x] = artifact[x]
           /\ faults' \in FaultCount
<1>1. faults' \in FaultCount
  BY FaultType, Zenon DEF TypeOK, RuntimeCreate
<1> QED
  BY <1>1 DEF TypeOK, RuntimeCreate, Submitted, Status

\* create_snapshot of the runtime, for a request or a recovery.
LEMMA SubmitKeeps ==
    ASSUME SnapshotInv, NEW t, Submit(t)
    PROVE  Preserved /\ Going(t)
<1> DEFINE s == thread[t].snap
<1>1. t \in Threads /\ thread[t].pc = "submit" /\ s \in Snapshot /\ TypeOK
  BY Busy, Zenon DEF Submit, SnapshotInv
<1>2. PICK obs \in State :
        /\ RuntimeCreate(s, obs)
        /\ IF t[2] = "recover" THEN Saw(t, "complete", obs) /\ UNCHANGED progressed
           ELSE IF obs = "FAILED" THEN Finish(t, FALSE)
           ELSE Goto(t, "persist") /\ UNCHANGED progressed
  BY Zenon DEF Submit
<1>3. /\ obs # "DELETING"
      /\ obs = "READY" => artifact'[s] = "done"
      /\ artifact[s] # "none" => artifact'[s] = artifact[s]
      /\ artifact' \in [Snapshot -> {"none", "pending", "done", "failed"}]
      /\ \A x \in Snapshot \ {s} : artifact'[x] = artifact[x]
      /\ faults' \in FaultCount
  BY <1>1, <1>2, CreateType, Zenon DEF Submit
<1>4. Forward(s)
  BY <1>1, <1>3, Zenon DEF Submit, SnapshotInv, ReadyRestorable, Forward, Past
<1>5. CASE t[2] = "recover"
  <2>1. Saw(t, "complete", obs) /\ UNCHANGED progressed
    BY <1>2, <1>5, Zenon
  <2>2. TypeOK' /\ Going(t)
    BY <1>1, <1>3, <2>1, SawIt, Zenon DEF Submit, TypeOK, Going, Pc
  <2> QED
    BY <1>1, <1>3, <1>4, <1>5, <2>1, <2>2, SawIt, StepKeeps DEF Continues, Pc
<1>6. CASE t[2] # "recover" /\ obs = "FAILED"
  <2>1. TypeOK' /\ Going(t) /\ thread'[t] = NoThread
    BY <1>1, <1>2, <1>3, <1>6, Done, Zenon DEF Submit, TypeOK, Going
  <2> QED
    BY <1>4, <2>1, StepKeeps, Zenon
<1>7. CASE t[2] # "recover" /\ obs # "FAILED"
  <2>1. Goto(t, "persist") /\ UNCHANGED progressed
    BY <1>2, <1>7, Zenon
  <2>2. TypeOK' /\ Going(t)
    BY <1>1, <1>3, <2>1, Went, Zenon DEF Submit, TypeOK, Going, Pc
  <2>3. t[2] = "create" /\ Opening(t) /\ row[s] = "none"
    BY <1>1, <1>7, Zenon DEF SnapshotInv, ThreadInv, OpenInv, Opening
  <2> QED
    BY <1>1, <1>4, <2>1, <2>2, <2>3, Went, StepKeeps, Zenon DEF Submit, Continues, Pc
<1> QED
  BY <1>5, <1>6, <1>7, Zenon

\* The insert of the row after the runtime object.
LEMMA PersistKeeps ==
    ASSUME SnapshotInv, NEW t, Persist(t)
    PROVE  Preserved /\ Going(t)
<1> DEFINE s == thread[t].snap
<1>1. /\ t \in Threads /\ thread[t].pc = "persist" /\ s \in Snapshot /\ s \notin fresh /\ TypeOK
      /\ Opening(t) /\ row[s] = "none"
      /\ \A u \in Threads \ {t} : thread[u].snap # s
  BY Busy DEF Persist, SnapshotInv, ThreadInv, OpenInv, Opening
<1>2. CASE /\ row' = [row EXCEPT ![s] = "CREATING"]
           /\ Finish(t, FALSE)
           /\ UNCHANGED faults
  <2>1. TypeOK' /\ Going(t) /\ thread'[t] = NoThread
    BY <1>1, <1>2, Done, Zenon DEF Persist, TypeOK, Going, State
  <2>2. Forward(s)
    BY <1>1, <1>2, Zenon DEF Persist, TypeOK, Forward, Past
  <2> QED
    BY <2>1, <2>2, StepKeeps, Zenon
<1>3. CASE Fault("store") /\ Goto(t, "cleanup") /\ UNCHANGED <<row, progressed>>
  <2>1. TypeOK' /\ Going(t)
    BY <1>1, <1>3, Went, FaultType, Zenon DEF Persist, TypeOK, Going, Pc
  <2>2. Past(s)'
    BY <1>1, <1>3, <2>1, Went DEF Going, Past, Opening, Pc
  <2>3. Forward(s)
    BY <1>1, <1>3, Still, Zenon DEF Persist
  <2> QED
    BY <1>1, <1>3, <2>1, <2>2, <2>3, Went, StepKeeps, Zenon DEF Continues, Pc
<1> QED
  BY <1>2, <1>3, Zenon DEF Persist

\* What inspect_snapshot reports.
LEMMA StatusType ==
    ASSUME TypeOK, NEW s \in Snapshot
    PROVE  /\ Status(s) \in State /\ Status(s) # "DELETING"
           /\ Status(s) = "READY" => artifact[s] = "done"
           /\ Unreachable \in {"CREATING", "FAILED"}
BY Zenon DEF TypeOK, Status, Unreachable, State

\* The worker of the Docker runtime.
LEMMA WorkKeeps ==
    ASSUME SnapshotInv, NEW t, Work(t)
    PROVE  Preserved /\ Going(t)
<1> DEFINE s == thread[t].snap
<1>1. /\ At(t, "work") \/ At(t, "commit")
      /\ UNCHANGED <<backend, row, fresh, up, todo, progressed>>
  BY Zenon DEF Work
<1>2. /\ t \in Threads /\ thread[t].pc \in {"work", "commit"} /\ s \in Snapshot /\ TypeOK
      /\ t[2] = "create"
  BY <1>1, Busy DEF SnapshotInv, ThreadInv
<1>3. CASE /\ At(t, "work")
           /\ artifact' = [artifact EXCEPT ![s] = "pending"]
           /\ Goto(t, "commit")
           /\ UNCHANGED faults
  <2>1. TypeOK' /\ Going(t)
    BY <1>1, <1>2, <1>3, Went, Zenon DEF TypeOK, Going, Pc
  <2>2. artifact[s] = "none" /\ row[s] = "CREATING"
    BY <1>2, <1>3, Zenon DEF SnapshotInv, OpenInv, Opening, At
  <2>3. Forward(s)
    BY <1>1, <1>2, <2>2, Zenon DEF Forward, Past
  <2> QED
    BY <1>2, <1>3, <2>1, <2>3, Went, StepKeeps, Zenon DEF Continues, Pc
<1>4. CASE /\ UNCHANGED artifact
           /\ faults' \in FaultCount
           /\ \E obs \in State : /\ obs # "DELETING" /\ (obs = "READY" => artifact[s] = "done")
                                 /\ Saw(t, "complete", obs)
  <2>1. PICK obs \in State : /\ obs # "DELETING" /\ (obs = "READY" => artifact[s] = "done")
                            /\ Saw(t, "complete", obs)
    BY <1>4, Zenon
  <2>2. TypeOK' /\ Going(t)
    BY <1>1, <1>2, <1>4, <2>1, SawIt, Zenon DEF TypeOK, Going, Pc
  <2>3. Forward(s)
    BY <1>1, <1>2, <1>4, Still, Zenon
  <2> QED
    BY <1>2, <1>4, <2>1, <2>2, <2>3, SawIt, StepKeeps DEF Continues, Pc
<1>5. CASE /\ At(t, "work")
           /\ Fault("reject") /\ Saw(t, "complete", "FAILED") /\ UNCHANGED artifact
  BY <1>2, <1>4, <1>5, FaultType, Zenon DEF State
<1>6. CASE /\ At(t, "commit")
           /\ \/ /\ artifact[s] # "pending"
                 /\ Saw(t, "complete", Status(s))
                 /\ UNCHANGED faults
              \/ artifact[s] = "pending" /\ Fault("timeout") /\ Saw(t, "complete", "FAILED")
           /\ UNCHANGED artifact
  BY <1>2, <1>4, <1>6, StatusType, FaultType, ZenonT(60) DEF State, TypeOK
<1> QED
  BY <1>3, <1>5, <1>6, Zenon DEF Work

\* _observe_runtime.
LEMMA InspectKeeps ==
    ASSUME SnapshotInv, NEW t, Inspect(t)
    PROVE  Preserved /\ Going(t)
<1> DEFINE s == thread[t].snap
<1>1. t \in Threads /\ thread[t].pc = "inspect" /\ s \in Snapshot /\ TypeOK
  BY Busy, Zenon DEF Inspect, SnapshotInv
<1>2. PICK obs \in State :
        /\ \/ obs = Status(s) /\ UNCHANGED faults
           \/ Fault("inspect") /\ obs = Unreachable
        /\ IF obs # "CREATING" THEN Saw(t, "complete", obs) /\ UNCHANGED progressed
           ELSE IF t[2] # "recover" THEN Finish(t, FALSE)
           ELSE /\ thread' = [thread EXCEPT ![t].pc = "submit", ![t].onError = "report"]
                /\ UNCHANGED progressed
  BY Zenon DEF Inspect
<1>3. obs # "DELETING" /\ (obs = "READY" => artifact[s] = "done") /\ faults' \in FaultCount
  BY <1>1, <1>2, StatusType, FaultType, Zenon DEF TypeOK
<1>4. Forward(s)
  BY <1>1, Still, Zenon DEF Inspect
<1>5. CASE obs # "CREATING"
  <2>1. TypeOK' /\ Going(t)
    BY <1>1, <1>2, <1>3, <1>5, SawIt DEF Inspect, TypeOK, Going, Pc
  <2> QED
    BY <1>1, <1>2, <1>3, <1>4, <1>5, <2>1, SawIt, StepKeeps DEF Inspect, Continues, Pc
<1>6. CASE obs = "CREATING" /\ t[2] # "recover"
  <2>1. TypeOK' /\ Going(t) /\ thread'[t] = NoThread
    BY <1>1, <1>2, <1>3, <1>6, Done, Zenon DEF Inspect, TypeOK, Going
  <2> QED
    BY <1>4, <2>1, StepKeeps, Zenon
<1>7. CASE obs = "CREATING" /\ t[2] = "recover"
  <2>1. /\ thread' = [thread EXCEPT ![t].pc = "submit", ![t].onError = "report"]
        /\ UNCHANGED progressed
    BY <1>2, <1>7, Zenon
  <2>2. /\ thread' \in [Threads -> ThreadRec]
        /\ thread'[t].pc = "submit" /\ thread'[t].snap = s /\ thread'[t].onError = "report"
        /\ \A u \in Threads \ {t} : thread'[u] = thread[u]
    BY <1>1, <2>1, ZenonT(60) DEF TypeOK, ThreadRec, Pc
  <2>3. UNCHANGED <<backend, row, artifact, fresh, up, todo>>
    BY Zenon DEF Inspect
  <2>4. TypeOK' /\ Going(t)
    BY <1>1, <1>3, <2>1, <2>2, <2>3, Zenon DEF TypeOK, Going
  <2>5. ~HA => row[s] = "CREATING"
    BY <1>1, <1>7, SnapshotAssumption, Zenon DEF SnapshotInv, ScanInv
  <2> QED
    BY <1>4, <1>7, <2>2, <2>3, <2>4, <2>5, StepKeeps, Zenon DEF Continues
<1> QED
  BY <1>5, <1>6, <1>7, Zenon

\* _complete_snapshot decides by the row as it is now.
LEMMA CompleteKeeps ==
    ASSUME SnapshotInv, NEW t, Complete(t)
    PROVE  Preserved /\ Going(t)
<1> DEFINE s == thread[t].snap
<1>1. /\ t \in Threads /\ thread[t].pc = "complete" /\ thread[t].obs \in State
      /\ s \in Snapshot /\ s \notin fresh /\ TypeOK
      /\ thread[t].obs # "DELETING"
      /\ thread[t].obs = "READY" => artifact[s] = "done" \/ Past(s)
  BY Busy DEF Complete, SnapshotInv, ThreadInv, ThreadRec, SeenInv
<1>2. UNCHANGED <<backend, row, artifact, fresh, up, todo, faults>>
  BY Zenon DEF Complete
<1>3. \A u \in Threads : Opening(u) => thread[u].snap # s
  BY <1>1, Zenon DEF SnapshotInv, OpenInv, Opening
<1>4. Forward(s)
  BY <1>1, <1>2, Still, Zenon
<1>5. ASSUME NEW pc \in {"cleanup", "discard", "drop"}, Goto(t, pc), UNCHANGED progressed,
             row[s] \in {"DELETING", "none"}
      PROVE  Preserved /\ Going(t)
  <2>1. pc \in Pc
    BY Zenon DEF Pc
  <2>2. TypeOK' /\ Going(t)
    BY <1>1, <1>2, <1>5, <2>1, Went, Zenon DEF TypeOK, Going
  <2>3. Past(s)
    BY <1>1, <1>3, <1>5, Zenon DEF Past
  <2>4. Past(s)'
    BY <1>1, <1>2, <1>5, <2>1, <2>2, <2>3, Went, StaysPast, Zenon
  <2> QED
    BY <1>1, <1>4, <1>5, <2>1, <2>2, <2>4, Went, StepKeeps, Zenon DEF Continues
<1>6. ASSUME Saw(t, "transition", thread[t].obs), UNCHANGED progressed,
             thread[t].obs # "CREATING", row[s] = "CREATING"
      PROVE  Preserved /\ Going(t)
  <2>1. TypeOK' /\ Going(t)
    BY <1>1, <1>2, <1>6, SawIt DEF TypeOK, Going, Pc
  <2>2. thread[t].obs \in {"READY", "FAILED"} /\ ~Past(s)
    BY <1>1, <1>6, Zenon DEF State, Past
  <2> QED
    BY <1>1, <1>2, <1>4, <1>6, <2>1, <2>2, SawIt, StepKeeps DEF Continues, Pc
<1>7. ASSUME Finish(t, TRUE)
      PROVE  Preserved /\ Going(t)
  <2>1. TypeOK' /\ Going(t) /\ thread'[t] = NoThread
    BY <1>1, <1>2, <1>7, Done, Zenon DEF TypeOK, Going
  <2> QED
    BY <1>4, <2>1, StepKeeps, Zenon
<1> QED
  BY <1>5, <1>6, <1>7, Zenon DEF Complete
-----------------------------------------------------------------------------
(* Threads that begin.                                                      *)

\* A thread takes up a snapshot that has a row, and the recovery one of its list.
LEMMA BeginKeeps ==
    ASSUME SnapshotInv, NEW t \in Threads, NEW s \in Snapshot, NEW pc \in Pc, NEW obs \in State,
           thread[t].pc = "idle", Begin(t, s, pc, obs), s \notin fresh,
           \A u \in Threads : Opening(u) => thread[u].snap # s,
           UNCHANGED <<backend, row, artifact, fresh, up, progressed, faults>>,
           todo' \in [Server -> SUBSET (Snapshot \X {"CREATING", "DELETING"})],
           \A v \in Server : todo'[v] \subseteq todo[v],
           t[2] # "recover" => up[t[1]] = "up" /\ pc \in {"inspect", "mark", "delete"},
           t[2] = "recover" => pc \in {"inspect", "delete"},
           t[2] = "recover" /\ ~HA =>
              /\ up[t[1]] = "starting" /\ (pc = "inspect" => row[s] = "CREATING")
              /\ \A v \in Server : \A r \in todo'[v] : r[1] # s,
           pc = "mark" => obs \in {"READY", "FAILED"},
           pc = "delete" => Past(s)
    PROVE  Preserved
<1>1. /\ TypeOK' /\ HA' = HA
      /\ thread'[t].pc = pc /\ thread'[t].snap = s
      /\ thread'[t].obs = obs /\ (thread'[t].onError # "report" => t[2] = "recover")
      /\ \A u \in Threads \ {t} : thread'[u] = thread[u]
  BY ZenonT(60) DEF Begin, SnapshotInv, TypeOK, ThreadRec, HA
<1>2. pc \in {"inspect", "mark", "delete"} /\ s # None
  BY SnapshotAssumption, Zenon
<1>3. ThreadInv'
  BY <1>1, <1>2 DEF SnapshotInv, ThreadInv
<1>4. \A u \in Threads : Opening(u)' => Opening(u) /\ u # t
  BY <1>1, <1>2, Zenon DEF Opening
<1>5. \A x \in Snapshot : Past(x) => Past(x)'
  BY <1>1, <1>4, Zenon DEF Past
<1>6. OpenInv'
  BY <1>1, <1>4 DEF SnapshotInv, OpenInv, TypeOK
<1>7. \A u \in Threads : thread[u].pc # "idle" => thread[u].snap \in Snapshot
  BY DEF SnapshotInv, TypeOK, ThreadRec, ThreadInv
<1>8. PastInv' /\ SeenInv'
  <2>1. \A u \in Threads : (thread[u].pc \in {"cleanup", "discard", "drop", "delete"}
                               => Past(thread[u].snap))'
    BY <1>1, <1>2, <1>5, <1>7 DEF SnapshotInv, PastInv
  <2>2. \A v \in Server : \A r \in todo'[v] :
           r[1] \notin fresh' /\ (r[2] = "DELETING" => Past(r[1])')
    BY <1>5 DEF SnapshotInv, TypeOK, PastInv
  <2>3. SeenInv'
    BY <1>1, <1>2, <1>5, <1>7 DEF SnapshotInv, SeenInv
  <2> QED
    BY <2>1, <2>2, <2>3, Zenon DEF PastInv
<1>9. ScanInv'
  <2> SUFFICES ASSUME ~HA PROVE ScanInv'
    BY <1>1, Zenon DEF ScanInv
  <2>1. \A v \in Server : todo'[v] # {} => up[v] = "starting"
    BY Zenon DEF SnapshotInv, ScanInv
  <2>2. \A v \in Server : \A r \in todo'[v] : r[1] # s
    BY ThreadsType, <2>1 DEF SnapshotInv, ThreadInv
  <2> QED
    BY <1>1, <1>2, <2>1, <2>2 DEF SnapshotInv, ScanInv
<1>10. ReadyRestorable' /\ \A x \in fresh' : row'[x] = "none" /\ artifact'[x] = "none"
  BY Zenon DEF SnapshotInv, ReadyRestorable
<1> QED
  BY <1>1, <1>3, <1>5, <1>6, <1>8, <1>9, <1>10, Zenon DEF SnapshotInv, Preserved

\* get_snapshot, list_snapshots and the watch callback begin.
LEMMA ReadRowKeeps ==
    ASSUME SnapshotInv, NEW t \in Threads, NEW s \in Snapshot, ReadRow(t, s)
    PROVE  Preserved
<1>1. /\ row[s] = "CREATING" /\ thread[t].pc = "idle" /\ up[t[1]] = "up"
      /\ t[2] # "recover" /\ backend # "docker" /\ Begin(t, s, "inspect", "CREATING")
      /\ UNCHANGED <<backend, row, artifact, fresh, up, todo, progressed, faults>>
  BY Zenon DEF ReadRow, At
<1>2. s \notin fresh
  BY <1>1, Zenon DEF SnapshotInv
<1>3. \A u \in Threads : Opening(u) => thread[u].snap # s
  BY <1>1, Zenon DEF SnapshotInv, OpenInv
<1> QED
  BY <1>1, <1>2, <1>3, BeginKeeps, Zenon DEF SnapshotInv, TypeOK, Pc, State

\* A delete request begins with a row that is terminal or past.
LEMMA DeleteRequestKeeps ==
    ASSUME SnapshotInv, NEW v \in Server, NEW s \in Snapshot, DeleteRequest(v, s)
    PROVE  Preserved
<1> DEFINE t == <<v, "delete">>
<1>1. /\ row[s] \in {"READY", "FAILED", "DELETING"} /\ up[v] = "up"
      /\ t \in Threads /\ thread[t].pc = "idle"
  BY AtType, Zenon DEF DeleteRequest, SnapshotInv
<1>2. s \notin fresh
  BY <1>1, Zenon DEF SnapshotInv
<1>3. \A u \in Threads : Opening(u) => thread[u].snap # s
  BY <1>1, Zenon DEF SnapshotInv, OpenInv
<1>4. row[s] = "DELETING" => Past(s)
  BY <1>2, <1>3, Zenon DEF Past
<1>5. t[1] = v /\ t[2] = "delete"
  OBVIOUS
<1>6. CASE row[s] = "DELETING"
  BY <1>1, <1>2, <1>3, <1>4, <1>5, <1>6, BeginKeeps, ZenonT(60) DEF DeleteRequest, SnapshotInv, TypeOK, Pc, State
<1>7. CASE row[s] # "DELETING"
  BY <1>1, <1>2, <1>3, <1>5, <1>7, BeginKeeps, ZenonT(60) DEF DeleteRequest, SnapshotInv, TypeOK, Pc, State
<1> QED
  BY <1>6, <1>7, Zenon

\* The recovery takes the next record of its list.
LEMMA ScanNextKeeps ==
    ASSUME SnapshotInv, NEW v \in Server, ScanNext(v)
    PROVE  Preserved
<1> DEFINE t == <<v, "recover">>
<1>1. t \in Threads /\ thread[t].pc = "idle" /\ t[1] = v /\ t[2] = "recover"
  BY AtType, Zenon DEF ScanNext, SnapshotInv
<1>2. PICK r \in todo[v] :
        /\ todo' = [todo EXCEPT ![v] = @ \ {r}]
        /\ Begin(t, r[1], IF r[2] = "CREATING" THEN "inspect" ELSE "delete", "CREATING")
  BY Zenon DEF ScanNext
<1>3. /\ r[1] \in Snapshot /\ r[2] \in {"CREATING", "DELETING"} /\ r = <<r[1], r[2]>>
      /\ r[1] \notin fresh /\ (r[2] = "DELETING" => Past(r[1]))
      /\ \A u \in Threads : Opening(u) => thread[u].snap # r[1]
  BY DEF SnapshotInv, TypeOK, PastInv, OpenInv
<1>4. /\ todo' \in [Server -> SUBSET (Snapshot \X {"CREATING", "DELETING"})]
      /\ \A w \in Server : todo'[w] \subseteq todo[w]
  BY <1>2, Zenon DEF SnapshotInv, TypeOK
<1>5. ~HA => /\ up[v] = "starting" /\ row[r[1]] = r[2]
             /\ \A w \in Server : \A q \in todo'[w] : q[1] # r[1]
  <2> SUFFICES ASSUME ~HA, NEW w \in Server, NEW q \in todo'[w], q[1] = r[1]
               PROVE  FALSE
    BY Zenon DEF SnapshotInv, ScanInv
  <2>1. w = v
    BY <1>4 DEF SnapshotInv, ScanInv, ThreadInv
  <2>2. q \in todo[v] /\ q # r
    BY <1>2, <2>1, Zenon DEF SnapshotInv, TypeOK
  <2>3. row[q[1]] = q[2] /\ row[r[1]] = r[2] /\ q = <<q[1], q[2]>>
    BY <2>2 DEF SnapshotInv, TypeOK, ScanInv
  <2> QED
    BY <1>3, <2>2, <2>3, Zenon
<1> QED
  BY <1>1, <1>2, <1>3, <1>4, <1>5, BeginKeeps, Zenon DEF ScanNext, Pc, State
-----------------------------------------------------------------------------
(* The other steps.                                                         *)

\* A create request begins with an id of its own.
LEMMA CreateRequestKeeps ==
    ASSUME SnapshotInv, NEW v \in Server, NEW s \in Snapshot, CreateRequest(v, s)
    PROVE  Preserved
<1> DEFINE t == <<v, "create">>
           pc == IF backend = "docker" THEN "work" ELSE "submit"
           first == IF backend = "docker" THEN "CREATING" ELSE "none"
<1>1. /\ t \in Threads /\ thread[t].pc = "idle" /\ t[1] = v /\ t[2] = "create" /\ up[v] = "up"
      /\ s \in fresh /\ row[s] = "none" /\ artifact[s] = "none" /\ s # None
  BY AtType, SnapshotAssumption, Zenon DEF CreateRequest, SnapshotInv
<1>2. /\ UNCHANGED <<backend, artifact, up, todo, progressed, faults, HA>>
      /\ fresh' = fresh \ {s}
      /\ row' = [row EXCEPT ![s] = first]
      /\ thread' = [thread EXCEPT ![t] = [pc |-> pc, snap |-> s, obs |-> "CREATING", onError |-> "report"]]
  BY <1>1, ZenonT(60) DEF CreateRequest, Begin, HA, SnapshotInv, TypeOK
<1>3. /\ TypeOK'
      /\ thread'[t].pc = pc /\ thread'[t].snap = s /\ thread'[t].onError = "report"
      /\ \A u \in Threads \ {t} : thread'[u] = thread[u]
      /\ row'[s] = first
      /\ \A x \in Snapshot \ {s} : row'[x] = row[x]
  BY <1>1, <1>2, ZenonT(60) DEF SnapshotInv, TypeOK, ThreadRec, Pc, State
<1>4. ThreadInv'
  BY <1>1, <1>2, <1>3 DEF SnapshotInv, ThreadInv
<1>5. /\ \A u \in Threads \ {t} : Opening(u)' <=> Opening(u)
      /\ \A u \in Threads : thread[u].snap # s
      /\ \A w \in Server : \A r \in todo[w] : r[1] # s
  BY <1>1, <1>3 DEF Opening, SnapshotInv, ThreadInv, PastInv
<1>6. \A x \in Snapshot : Past(x) => Past(x)'
  BY <1>1, <1>2, <1>3, <1>5 DEF Past, Opening
<1>7. OpenInv'
  <2>1. OpenInv
    BY Zenon DEF SnapshotInv
  <2> QED
    BY <1>1, <1>2, <1>3, <1>5, <2>1, SMTT(60) DEF OpenInv, Opening
<1>8. PastInv' /\ SeenInv'
  BY <1>1, <1>2, <1>3, <1>6, SMTT(60) DEF SnapshotInv, TypeOK, ThreadInv, ThreadRec, PastInv, SeenInv
<1>9. ScanInv'
  BY <1>1, <1>2, <1>3, <1>5 DEF SnapshotInv, TypeOK, ThreadInv, ThreadRec, ScanInv
<1>10. ReadyRestorable' /\ \A x \in fresh' : row'[x] = "none" /\ artifact'[x] = "none"
  BY <1>1, <1>2, <1>3 DEF SnapshotInv, TypeOK, ReadyRestorable
<1> QED
  BY <1>3, <1>4, <1>6, <1>7, <1>8, <1>9, <1>10, Zenon DEF SnapshotInv, Preserved

\* The runtime comes to an end with an artifact.
LEMMA ArtifactEndsKeeps ==
    ASSUME SnapshotInv, NEW s \in Snapshot, ArtifactEnds(s)
    PROVE  Preserved
<1>1. /\ UNCHANGED <<backend, row, fresh, up, thread, todo, progressed, faults>>
      /\ artifact[s] = "pending"
      /\ artifact' \in [Snapshot -> {"none", "pending", "done", "failed"}]
      /\ \A x \in Snapshot \ {s} : artifact'[x] = artifact[x]
  BY ZenonT(60) DEF ArtifactEnds, SnapshotInv, TypeOK
<1>2. TypeOK' /\ ThreadInv' /\ ScanInv' /\ HA' = HA
  BY <1>1 DEF SnapshotInv, TypeOK, ThreadInv, ScanInv, HA
<1>3. /\ \A x \in Snapshot : Past(x)' <=> Past(x)
      /\ \A t \in Threads : Opening(t)' <=> Opening(t)
  BY <1>1, Zenon DEF Past, Opening
<1>4. \A t \in Threads : thread[t].pc # "idle" => thread[t].snap \in Snapshot
  BY DEF SnapshotInv, TypeOK, ThreadRec, ThreadInv
<1>5. OpenInv'
  BY <1>1, <1>2, <1>3, <1>4 DEF SnapshotInv, OpenInv, Opening
<1>6. PastInv'
  BY <1>1, <1>3, <1>4 DEF SnapshotInv, TypeOK, PastInv
<1>7. SeenInv'
  BY <1>1, <1>3, <1>4, Zenon DEF SnapshotInv, SeenInv
<1>8. ReadyRestorable' /\ \A x \in fresh' : row'[x] = "none" /\ artifact'[x] = "none"
  BY <1>1, Zenon DEF SnapshotInv, TypeOK, ReadyRestorable
<1> QED
  BY <1>2, <1>3, <1>5, <1>6, <1>7, <1>8, Zenon DEF SnapshotInv, Preserved

\* The recovery lists the unfinished rows.
LEMMA ScanListKeeps ==
    ASSUME SnapshotInv, NEW v \in Server, ScanList(v)
    PROVE  Preserved
<1>1. /\ UNCHANGED <<backend, row, artifact, fresh, up, thread, faults, HA>>
      /\ up[v] = IF HA THEN "up" ELSE "starting"
      /\ todo' = [todo EXCEPT ![v] = {<<s, row[s]>> : s \in Unfinished}]
      /\ progressed' = [progressed EXCEPT ![v] = HA]
  BY Zenon DEF ScanList, Scanning, HA
<1>2. \A w \in Server : \A r \in todo'[w] :
         r \in todo[w] \/ (w = v /\ r[1] \in Unfinished /\ r[2] = row[r[1]])
  BY <1>1 DEF SnapshotInv, TypeOK
<1>3. todo' \in [Server -> SUBSET (Snapshot \X {"CREATING", "DELETING"})]
  BY <1>1 DEF SnapshotInv, TypeOK, Unfinished
<1>4. HA \in BOOLEAN
  BY DEF HA
<1>5. TypeOK' /\ ThreadInv'
  BY <1>1, <1>3, <1>4, ZenonT(60) DEF SnapshotInv, TypeOK, ThreadInv
<1>6. /\ \A x \in Snapshot : Past(x)' <=> Past(x)
      /\ \A t \in Threads : Opening(t)' <=> Opening(t)
  BY <1>1, Zenon DEF Past, Opening
<1>7. \A t \in Threads : Opening(t) =>
          thread[t].snap \notin Unfinished \/ (~HA /\ up[t[1]] = "up")
  BY Zenon DEF SnapshotInv, OpenInv, ThreadInv, Opening, Unfinished, HA
<1>8. ~HA => \A t \in Threads : t[2] # "recover" => thread[t].pc = "idle"
  BY <1>1, ThreadsType, SnapshotAssumption DEF SnapshotInv, ThreadInv
<1>9. \A t \in Threads : Opening(t) => thread[t].snap \notin Unfinished
  BY <1>7, <1>8, Zenon DEF Opening
<1>10. OpenInv'
  BY <1>1, <1>2, <1>6, <1>9 DEF SnapshotInv, OpenInv
<1>11. \A x \in Unfinished : x \notin fresh /\ (row[x] = "DELETING" => Past(x))
  BY <1>9, Zenon DEF SnapshotInv, Unfinished, Past
<1>12. PastInv' /\ SeenInv'
  <2>1. SeenInv' /\ \A t \in Threads :
           (thread[t].pc \in {"cleanup", "discard", "drop", "delete"} => Past(thread[t].snap))'
    BY <1>1, <1>6 DEF SnapshotInv, SeenInv, PastInv, Past, Opening
  <2>2. \A w \in Server : \A r \in todo'[w] : r[1] \notin fresh /\ (r[2] = "DELETING" => Past(r[1]))
    BY <1>2, <1>11, Zenon DEF SnapshotInv, PastInv
  <2>3. \A w \in Server : \A r \in todo'[w] : r[1] \in Snapshot
    BY <1>3
  <2> QED
    BY <1>1, <1>6, <2>1, <2>2, <2>3, Zenon DEF PastInv
<1>13. ScanInv'
  <2> SUFFICES ASSUME ~HA PROVE ScanInv'
    BY <1>1, Zenon DEF ScanInv
  <2>1. \A t \in Threads : thread[t].pc = "idle"
    <3>1. \A t \in Threads : t[2] = "recover" /\ thread[t].pc # "idle" => t = <<v, "recover">>
      BY <1>1, ThreadsType, SnapshotAssumption DEF SnapshotInv, ThreadInv
    <3>2. <<v, "recover">> \in Threads => thread[<<v, "recover">>].pc = "idle"
      BY Zenon DEF ScanList, Rested, At
    <3> QED
      BY <1>8, <3>1, <3>2, Zenon
  <2>2. \A t \in Threads : thread[t].snap \notin Snapshot
    BY <2>1, SnapshotAssumption, ZenonT(60) DEF SnapshotInv, ThreadInv
  <2> QED
    BY <1>1, <1>2, <1>3, <2>1, <2>2 DEF SnapshotInv, ScanInv, Unfinished
<1> QED
  BY <1>1, <1>5, <1>6, <1>10, <1>12, <1>13, Zenon DEF SnapshotInv, ReadyRestorable, Preserved

\* Threads and lists that end, and servers that come and go.
LEMMA QuietKeeps ==
    ASSUME SnapshotInv, TypeOK', ThreadInv', ScanInv',
           UNCHANGED <<backend, row, artifact, fresh>>,
           \A t \in Threads : thread'[t] = thread[t] \/ thread'[t] = NoThread,
           \A v \in Server : todo'[v] \subseteq todo[v]
    PROVE  Preserved
<1>1. \A t \in Threads : Opening(t)' => Opening(t) /\ thread'[t] = thread[t]
  BY NoThreadType, Zenon DEF Opening
<1>2. \A x \in Snapshot : Past(x) => Past(x)'
  BY <1>1, Zenon DEF Past
<1>3. \A t \in Threads : thread[t].pc # "idle" => thread[t].snap \in Snapshot
  BY SMTT(60) DEF SnapshotInv, TypeOK, ThreadRec, ThreadInv
<1>4. OpenInv'
  <2>1. \A t \in Threads : Opening(t) => thread[t].snap # None
    BY Zenon DEF SnapshotInv, ThreadInv, Opening
  <2> QED
    BY <1>1, <2>1, NoThreadType DEF SnapshotInv, OpenInv
<1>5. PastInv'
  <2>1. \A u \in Threads : (thread[u].pc \in {"cleanup", "discard", "drop", "delete"}
                               => Past(thread[u].snap))'
    BY <1>2, <1>3, NoThreadType, Zenon DEF SnapshotInv, PastInv
  <2>2. \A v \in Server : \A r \in todo'[v] :
           r[1] \notin fresh' /\ (r[2] = "DELETING" => Past(r[1])')
    BY <1>2 DEF SnapshotInv, TypeOK, PastInv
  <2> QED
    BY <2>1, <2>2, Zenon DEF PastInv
<1>6. SeenInv'
  BY <1>2, <1>3, NoThreadType, Zenon DEF SnapshotInv, SeenInv
<1> QED
  BY <1>2, <1>4, <1>5, <1>6, Zenon DEF SnapshotInv, ReadyRestorable, Preserved

\* The constructor returns.
LEMMA ScanEndKeeps ==
    ASSUME SnapshotInv, NEW v \in Server, ScanEnd(v)
    PROVE  Preserved
<1>1. /\ UNCHANGED <<backend, row, artifact, fresh, thread, todo, faults, HA>>
      /\ up[v] = "starting" /\ todo[v] = {} /\ thread[<<v, "recover">>].pc = "idle"
  BY Zenon DEF ScanEnd, Rested, At, HA
<1>2. TypeOK' /\ up'[v] = "up" /\ \A w \in Server \ {v} : up'[w] = up[w]
  BY <1>1, Zenon DEF ScanEnd, SnapshotInv, TypeOK
<1>3. \A t \in Threads : t[1] = v /\ t[2] = "recover" => thread[t].pc = "idle"
  BY <1>1, ThreadsType
<1>4. ThreadInv' /\ ScanInv'
  BY <1>1, <1>2, <1>3, ThreadsType DEF SnapshotInv, ThreadInv, ScanInv
<1> QED
  BY <1>1, <1>2, <1>4, QuietKeeps, Zenon

\* A crash takes the threads of a server with it.
LEMMA CrashKeeps ==
    ASSUME SnapshotInv, NEW v \in Server, Crash(v)
    PROVE  Preserved
<1>1. /\ UNCHANGED <<backend, row, artifact, fresh, HA>>
      /\ up[v] # "unused" /\ faults' \in FaultCount
      /\ up' = [up EXCEPT ![v] = "down"]
      /\ progressed' = [progressed EXCEPT ![v] = TRUE]
  BY FaultType, Zenon DEF Crash, HA, SnapshotInv
<1>2. /\ up'[v] = "down" /\ \A w \in Server \ {v} : up'[w] = up[w]
      /\ todo'[v] = {} /\ \A w \in Server \ {v} : todo'[w] = todo[w]
      /\ todo' \in [Server -> SUBSET (Snapshot \X {"CREATING", "DELETING"})]
  BY Zenon DEF Crash, SnapshotInv, TypeOK
<1>3. /\ \A t \in Threads : thread'[t] = IF t[1] = v THEN NoThread ELSE thread[t]
      /\ thread' \in [Threads -> ThreadRec]
  BY NoThreadType, Zenon DEF Crash, SnapshotInv, TypeOK
<1>4. TypeOK'
  BY <1>1, <1>2, <1>3, Zenon DEF SnapshotInv, TypeOK
<1>5. ThreadInv'
  <2>1. TypeOK /\ ThreadInv
    BY Zenon DEF SnapshotInv
  <2>2. /\ NoThread.pc = "idle" /\ NoThread.snap = None /\ None \notin fresh
        /\ NoThread.onError = "report"
    BY <2>1, NoThreadType, SnapshotAssumption DEF TypeOK
  <2> QED
    BY <1>1, <1>2, <1>3, <2>1, <2>2, ThreadsType, SMTT(60) DEF ThreadInv
<1>6. ScanInv'
  <2>1. \A w \in Server : \A r \in todo[w] : r[1] # None
    BY SnapshotAssumption DEF SnapshotInv, TypeOK
  <2> QED
    BY <1>1, <1>2, <1>3, <2>1, NoThreadType DEF SnapshotInv, ScanInv
<1> QED
  BY <1>1, <1>2, <1>3, <1>4, <1>5, <1>6, QuietKeeps, Zenon

\* A call of the repository that raises, with or without its effect.
LEMMA StoreFailsKeeps ==
    ASSUME SnapshotInv, NEW t, StoreFails(t)
    PROVE  Preserved /\ (Going(t) \/ (~HA /\ t[2] = "recover"))
<1> DEFINE s == thread[t].snap
<1>1. PICK pc \in {"complete", "transition", "drop", "mark"} : At(t, pc)
  BY Zenon DEF StoreFails
<1>2. /\ t \in Threads /\ thread[t].pc = pc /\ s \in Snapshot /\ TypeOK
      /\ row' = row \/ row' = [row EXCEPT ![s] = Written(t)]
      /\ UNCHANGED <<backend, artifact, fresh>>
      /\ faults' \in FaultCount
  BY <1>1, Busy, FaultType, Zenon DEF StoreFails, SnapshotInv
<1>3. /\ row' \in [Snapshot -> State \cup {"none"}] /\ Forward(s)
      /\ \A x \in Snapshot \ {s} : row'[x] = row[x]
  BY <1>1, <1>2, WriteMoves, Zenon
<1>4. CASE thread[t].onError = "report" /\ Finish(t, FALSE) /\ UNCHANGED <<up, todo>>
  <2>1. TypeOK' /\ Going(t) /\ thread'[t] = NoThread
    BY <1>2, <1>3, <1>4, Done, Zenon DEF TypeOK, Going
  <2> QED
    BY <1>3, <2>1, StepKeeps, Zenon
<1>5. CASE /\ thread[t].onError = "fail"
           /\ thread' = [thread EXCEPT ![t].pc = "complete", ![t].obs = "FAILED",
                                       ![t].onError = "abort"]
           /\ UNCHANGED <<up, todo, progressed>>
  <2>1. /\ thread' \in [Threads -> ThreadRec]
        /\ thread'[t].pc = "complete" /\ thread'[t].snap = s /\ thread'[t].obs = "FAILED"
        /\ \A u \in Threads \ {t} : thread'[u] = thread[u]
    BY <1>2, <1>5, Turned, Zenon
  <2>2. TypeOK' /\ Going(t)
    BY <1>2, <1>3, <1>5, <2>1, Zenon DEF TypeOK, Going
  <2>3. t[2] = "recover"
    BY <1>2, <1>5, Zenon DEF SnapshotInv, ThreadInv
  <2> QED
    BY <1>3, <2>1, <2>2, <2>3, StepKeeps, Zenon DEF Continues
<1>6. CASE /\ thread[t].onError = "abort"
           /\ thread' = [thread EXCEPT ![t] = NoThread]
           /\ todo' = [todo EXCEPT ![t[1]] = {}]
           /\ up' = IF HA THEN up ELSE [up EXCEPT ![t[1]] = "down"]
           /\ progressed' = [progressed EXCEPT ![t[1]] = TRUE]
  <2>1. t[2] = "recover" /\ t[1] \in Server
    BY <1>2, <1>6, ThreadsType, Zenon DEF SnapshotInv, ThreadInv
  <2>2. /\ thread' \in [Threads -> ThreadRec] /\ thread'[t] = NoThread
        /\ \A u \in Threads \ {t} : thread'[u] = thread[u]
    BY <1>2, <1>6, NoThreadType, Zenon DEF TypeOK
  <2>3. /\ todo' \in [Server -> SUBSET (Snapshot \X {"CREATING", "DELETING"})]
        /\ todo'[t[1]] = {} /\ \A v \in Server : todo'[v] \subseteq todo[v]
    BY <1>2, <1>6, <2>1, Zenon DEF TypeOK
  <2>4. /\ up' \in [Server -> {"up", "starting", "down", "unused"}]
        /\ progressed' \in [Server -> BOOLEAN]
    BY <1>2, <1>6, <2>1, Zenon DEF TypeOK
  <2>5. TypeOK'
    BY <1>2, <1>3, <2>2, <2>3, <2>4, Zenon DEF TypeOK
  <2>6. CASE HA
    <3>1. Going(t)
      BY <1>2, <1>3, <1>6, <2>2, <2>3, <2>6, Zenon DEF Going
    <3> QED
      BY <1>3, <2>2, <2>5, <3>1, StepKeeps, Zenon
  <2>7. CASE ~HA
    <3>1. row' = row /\ HA' = HA
      BY <2>7, Zenon DEF StoreFails, HA
    <3>2. /\ up'[t[1]] = "down" /\ \A v \in Server \ {t[1]} : up'[v] = up[v]
          /\ t[1] = Main
      BY <1>2, <1>6, <2>1, <2>7, ZenonT(60) DEF SnapshotInv, ThreadInv, TypeOK
    <3>3. \A u \in Threads : thread'[u].pc = "idle" /\ thread'[u].snap = None
      <4>1. \A u \in Threads \ {t} : thread[u].pc = "idle"
        BY <1>2, <2>1, <2>7, Alone, Zenon
      <4>2. \A u \in Threads : thread[u].pc = "idle" => thread[u].snap = None
        BY Zenon DEF SnapshotInv, ThreadInv
      <4> QED
        BY <2>2, <4>1, <4>2, NoThreadType, Zenon
    <3>4. \A u \in Threads : thread'[u].onError # "report" => u[2] = "recover"
      <4>1. \A u \in Threads : thread[u].onError # "report" => u[2] = "recover"
        BY Zenon DEF SnapshotInv, ThreadInv
      <4> QED
        BY <2>2, <4>1, NoThreadType, Zenon
    <3>5. None \notin Snapshot /\ None \notin fresh'
      BY <1>2, SnapshotAssumption, Zenon DEF TypeOK
    <3>6. ThreadInv'
      BY <2>7, <3>1, <3>2, <3>3, <3>4, <3>5 DEF SnapshotInv, ThreadInv
    <3>7. \A v \in Server : todo'[v] = {}
      <4>1. \A v \in Server \ {Main} : todo[v] = {}
        BY <2>7, Zenon DEF SnapshotInv, ThreadInv, ScanInv
      <4> QED
        BY <2>3, <3>2, <4>1
    <3>8. ScanInv'
      BY <3>3, <3>7 DEF ScanInv
    <3> QED
      BY <1>2, <2>1, <2>2, <2>3, <2>5, <2>7, <3>1, <3>6, <3>8, QuietKeeps, Zenon
  <2> QED
    BY <2>6, <2>7, Zenon
<1> QED
  BY <1>4, <1>5, <1>6, Zenon DEF StoreFails

\* A server that starts again has no threads yet.
LEMMA RestartKeeps ==
    ASSUME SnapshotInv, NEW v \in Server, Restart(v)
    PROVE  Preserved
<1>1. /\ UNCHANGED <<backend, row, artifact, fresh, thread, todo, progressed, faults, HA>>
      /\ up[v] = "down" /\ up'[v] = (IF HA THEN "up" ELSE "starting")
      /\ \A w \in Server \ {v} : up'[w] = up[w]
      /\ up' \in [Server -> {"up", "starting", "down", "unused"}]
  BY Zenon DEF Restart, HA, SnapshotInv, TypeOK
<1>2. TypeOK'
  BY <1>1, Zenon DEF SnapshotInv, TypeOK
<1>3. ThreadInv' /\ ScanInv'
  BY <1>1, ThreadsType DEF SnapshotInv, ThreadInv, ScanInv
<1> QED
  BY <1>1, <1>2, <1>3, QuietKeeps, Zenon

\* A stuttering step.
LEMMA StutterKeeps ==
    ASSUME SnapshotInv, UNCHANGED vars
    PROVE  Preserved
<1>1. TypeOK' /\ ThreadInv' /\ ScanInv'
  BY DEF vars, SnapshotInv, TypeOK, ThreadInv, ScanInv, HA
<1> QED
  BY <1>1, QuietKeeps, Zenon DEF vars
-----------------------------------------------------------------------------
(* The invariant.                                                           *)

\* It holds before the first request.
LEMMA InitInv == Init => SnapshotInv
<1> SUFFICES ASSUME Init PROVE SnapshotInv
  OBVIOUS
<1>1. \A t \in Threads : thread[t] = NoThread
  BY Zenon DEF Init
<1>2. TypeOK
  <2>1. faults \in FaultCount
    BY DEF Init, FaultCount
  <2> QED
    BY <2>1, NoThreadType, SnapshotAssumption, Zenon DEF Init, TypeOK, State
<1>3. ThreadInv
  BY <1>1, NoThreadType, SnapshotAssumption, Zenon DEF Init, ThreadInv, HA
<1> QED
  BY <1>1, <1>2, <1>3, NoThreadType, Zenon
  DEF Init, SnapshotInv, OpenInv, PastInv, SeenInv, ScanInv, ReadyRestorable, Opening

\* Every step of every thread of every server keeps it.
LEMMA NextKeeps ==
    ASSUME SnapshotInv, [Next]_vars
    PROVE  Preserved
<1>1. CASE \E v \in Server, s \in Snapshot : CreateRequest(v, s) \/ DeleteRequest(v, s)
  BY <1>1, CreateRequestKeeps, DeleteRequestKeeps, Zenon
<1>2. CASE \E t \in Threads : Step(t)
  BY <1>2, WorkKeeps, SubmitKeeps, PersistKeeps, InspectKeeps, CompleteKeeps, TransitionKeeps,
     CleanupKeeps, DiscardKeeps, DropKeeps, MarkKeeps, RuntimeDeleteKeeps, StoreFailsKeeps, Zenon
  DEF Step
<1>3. CASE \E t \in Threads : \E s \in Snapshot : ReadRow(t, s)
  BY <1>3, ReadRowKeeps, Zenon
<1>4. CASE \E v \in Server : Recovery(v) \/ Crash(v)
  BY <1>4, ScanListKeeps, ScanNextKeeps, ScanEndKeeps, RestartKeeps, CrashKeeps, Zenon DEF Recovery
<1>5. CASE \E s \in Snapshot : ArtifactEnds(s)
  BY <1>5, ArtifactEndsKeeps, Zenon
<1>6. CASE UNCHANGED vars
  BY <1>6, StutterKeeps, Zenon
<1> QED
  BY <1>1, <1>2, <1>3, <1>4, <1>5, <1>6, Zenon DEF Next

\* The invariant holds for every set of servers, threads and snapshots, on every
\* runtime, and however often calls fail or servers crash.
THEOREM SnapshotInvariant == Spec => []SnapshotInv
<1>1. SnapshotInv /\ [Next]_vars => SnapshotInv'
  BY NextKeeps, Zenon DEF Preserved
<1> QED
  BY InitInv, <1>1, PTL DEF Spec

\* A READY snapshot can be restored from, whatever create_snapshot, delete_snapshot,
\* readers, watch callbacks and the recovery of all servers do at the same time.
THEOREM Restorable == Spec => []ReadyRestorable
<1>1. SnapshotInv => ReadyRestorable
  BY Zenon DEF SnapshotInv
<1> QED
  BY <1>1, SnapshotInvariant, PTL
-----------------------------------------------------------------------------
(* What a step may never do.                                                *)

\* Every step that writes a row moves it so.
LEMMA RowsMove ==
    ASSUME SnapshotInv, [Next]_vars, NEW s \in Snapshot
    PROVE  Moved(s)
<1>1. row \in [Snapshot -> State \cup {"none"}]
  BY Zenon DEF SnapshotInv, TypeOK
<1>2. ASSUME NEW v \in Server, NEW x \in Snapshot, CreateRequest(v, x)
      PROVE  Moved(s)
  BY <1>1, <1>2, Zenon DEF CreateRequest, Moved, SnapshotInv
<1>3. ASSUME NEW t, Persist(t)
      PROVE  Moved(s)
  <2>1. thread[t].snap \in Snapshot /\ row[thread[t].snap] = "none"
    BY <1>3, Busy DEF Persist, SnapshotInv, ThreadInv, OpenInv, Opening
  <2> QED
    BY <1>1, <1>3, <2>1, ZenonT(60) DEF Persist, Moved
<1>4. ASSUME NEW t, Transition(t) \/ Drop(t) \/ Mark(t) \/ StoreFails(t)
      PROVE  Moved(s)
  <2>1. /\ \E pc \in {"complete", "transition", "drop", "mark"} : At(t, pc)
        /\ row' = row \/ row' = [row EXCEPT ![thread[t].snap] = Written(t)]
        /\ artifact' = artifact
    BY <1>4, Zenon DEF Transition, Drop, Mark, StoreFails
  <2> QED
    BY <2>1, WriteMoves, Zenon
<1>5. CASE \E t \in Threads : Step(t)
  <2>1. ASSUME NEW t \in Threads, Work(t) \/ Submit(t) \/ Inspect(t) \/ Complete(t) \/ Cleanup(t)
                                     \/ Discard(t) \/ RuntimeDelete(t)
        PROVE  row' = row
    BY <2>1, Zenon DEF Work, Submit, Inspect, Complete, Cleanup, Discard, RuntimeDelete
  <2> QED
    BY <1>3, <1>4, <1>5, <2>1, Zenon DEF Step, Moved
<1>6. CASE \/ \E v \in Server, x \in Snapshot : DeleteRequest(v, x)
           \/ \E t \in Threads, x \in Snapshot : ReadRow(t, x)
           \/ \E v \in Server : Recovery(v) \/ Crash(v)
           \/ \E x \in Snapshot : ArtifactEnds(x)
           \/ UNCHANGED vars
  <2>1. row' = row
    BY <1>6, Zenon DEF DeleteRequest, ReadRow, Recovery, ScanList, ScanNext, ScanEnd, Restart, Crash,
                ArtifactEnds, vars
  <2> QED
    BY <2>1, Zenon DEF Moved
<1> QED
  BY <1>2, <1>5, <1>6, Zenon DEF Next

\* One terminal transition wins: whatever races, update_if_state and the order of the
\* calls keep a terminal row from being completed again and a deleted one from coming
\* back.
THEOREM OneTransition == Spec => OneTerminalTransition
<1>1. SnapshotInv /\ [Next]_vars =>
         [\A s \in Snapshot :
             row'[s] # row[s] =>
                \/ row[s] = "none" /\ row'[s] = "CREATING"
                \/ row[s] = "CREATING" /\ row'[s] \in {"READY", "FAILED"}
                \/ row[s] \in {"READY", "FAILED"} /\ row'[s] = "DELETING"
                \/ row[s] = "DELETING" /\ row'[s] = "none"]_vars
  BY RowsMove, Zenon DEF Moved
<1> QED
  BY <1>1, SnapshotInvariant, PTL DEF Spec, OneTerminalTransition

\* An artifact that appears without PostgreSQL belongs to a create request or to a row
\* in CREATING.
Owned(s) ==
    artifact[s] = "none" /\ artifact'[s] # "none" /\ ~HA =>
       \/ row[s] = "CREATING"
       \/ \E t \in Threads : t[2] = "create" /\ thread[t].snap = s

\* Every step that makes an artifact makes it so.
LEMMA ArtifactsMade ==
    ASSUME SnapshotInv, [Next]_vars, NEW s \in Snapshot
    PROVE  Owned(s)
<1>1. artifact \in [Snapshot -> {"none", "pending", "done", "failed"}]
  BY Zenon DEF SnapshotInv, TypeOK
<1>2. ASSUME NEW t, Work(t)
      PROVE  Owned(s)
  <2>1. t \in Threads /\ t[2] = "create" /\ thread[t].snap \in Snapshot
    BY <1>2, Busy DEF Work, SnapshotInv, ThreadInv
  <2>2. \A x \in Snapshot \ {thread[t].snap} : artifact'[x] = artifact[x]
    BY <1>1, <1>2, Zenon DEF Work
  <2> QED
    BY <2>1, <2>2, ZenonT(60) DEF Owned
<1>3. ASSUME NEW t, Submit(t)
      PROVE  Owned(s)
  <2>1. /\ t \in Threads /\ thread[t].pc = "submit" /\ thread[t].snap \in Snapshot
        /\ t[2] \in {"create", "recover"}
    BY <1>3, Busy DEF Submit, SnapshotInv, ThreadInv
  <2>2. \A x \in Snapshot \ {thread[t].snap} : artifact'[x] = artifact[x]
    BY <1>3, <2>1, CreateType, Zenon DEF Submit, SnapshotInv
  <2>3. t[2] = "recover" /\ ~HA => row[thread[t].snap] = "CREATING"
    BY <2>1, SnapshotAssumption, Zenon DEF SnapshotInv, ScanInv
  <2> QED
    BY <2>1, <2>2, <2>3, ZenonT(60) DEF Owned
<1>4. ASSUME NEW x, NEW ok, RuntimeRemove(x, ok)
      PROVE  Owned(s)
  BY <1>1, <1>4, Zenon DEF RuntimeRemove, Removed, Owned
<1>5. CASE \E t \in Threads : Step(t)
  <2>1. ASSUME NEW t \in Threads, Persist(t) \/ Inspect(t) \/ Complete(t) \/ Transition(t) \/ Drop(t)
                                     \/ Mark(t) \/ StoreFails(t)
        PROVE  artifact' = artifact
    BY <2>1, Zenon DEF Persist, Inspect, Complete, Transition, Drop, Mark, StoreFails
  <2>2. ASSUME NEW t \in Threads, Cleanup(t) \/ Discard(t) \/ RuntimeDelete(t)
        PROVE  Owned(s)
    BY <1>4, <2>2, Zenon DEF Cleanup, Discard, RuntimeDelete
  <2> QED
    BY <1>2, <1>3, <1>5, <2>1, <2>2, Zenon DEF Step, Owned
<1>6. CASE \E x \in Snapshot : ArtifactEnds(x)
  BY <1>1, <1>6, Zenon DEF ArtifactEnds, Owned
<1>7. CASE \/ \E v \in Server, x \in Snapshot : CreateRequest(v, x) \/ DeleteRequest(v, x)
           \/ \E t \in Threads, x \in Snapshot : ReadRow(t, x)
           \/ \E v \in Server : Recovery(v) \/ Crash(v)
           \/ UNCHANGED vars
  <2>1. artifact' = artifact
    BY <1>7, Zenon DEF CreateRequest, DeleteRequest, ReadRow, Recovery, ScanList, ScanNext, ScanEnd,
                Restart, Crash, vars
  <2> QED
    BY <2>1, Zenon DEF Owned
<1> QED
  BY <1>5, <1>6, <1>7, Zenon DEF Next

\* Without PostgreSQL no thread, late or restarted, makes the artifact of a snapshot
\* that was deleted.
THEOREM MadeForLive == Spec => MadeForLiveRow
<1>1. SnapshotInv /\ [Next]_vars =>
         [\A s \in Snapshot :
             artifact[s] = "none" /\ artifact'[s] # "none" /\ ~HA =>
                \/ row[s] = "CREATING"
                \/ \E t \in Threads : t[2] = "create" /\ thread[t].snap = s]_vars
  BY ArtifactsMade, Zenon DEF Owned
<1> QED
  BY <1>1, SnapshotInvariant, PTL DEF Spec, MadeForLiveRow
-----------------------------------------------------------------------------
(* Without faults other than errors of the repository.                      *)

\* Nothing but the repository failed before the step or fails in it.
Calm == faults.other = 0 /\ faults'.other = 0 /\ (Misjudged => Misjudged')

\* A step of thread t leaves what other threads know of its snapshot.
CalmForward(s) ==
    /\ artifact[s] # "none" => artifact'[s] # "none" \/ Past(s)
    /\ artifact[s] = "failed" => artifact'[s] = "failed" \/ Past(s)

\* A request that is opening a snapshot shares it with no other thread.
LEMMA OpeningAlone ==
    ASSUME SnapshotInv, NEW t \in Threads, NEW u \in Threads, u # t, Opening(u)
    PROVE  thread[u].snap # thread[t].snap
BY ZenonT(60) DEF SnapshotInv, OpenInv

\* Such a step keeps CalmInv when it leaves its own thread and row right.
LEMMA CalmStep ==
    ASSUME SnapshotInv, Preserved, CalmInv, Calm, NEW t, Going(t),
           NEW s, s = thread[t].snap,
           CalmForward(s), CalmThread(t)', CalmRow(s)'
    PROVE  CalmInv'
<1>1. t \in Threads /\ s \in Snapshot /\ HA' = HA /\ thread[t].pc # "idle"
  BY DEF Going, HA, SnapshotInv, TypeOK, ThreadInv, ThreadRec
<1>2. \A x \in Snapshot : Past(x) => Past(x)'
  BY Zenon DEF Preserved
<1>3. \A u \in Threads : thread[u].pc # "idle" => thread[u].snap \in Snapshot
  BY DEF SnapshotInv, TypeOK, ThreadRec, ThreadInv
<1>4. ASSUME NEW u \in Threads
      PROVE  CalmThread(u)'
  <2> SUFFICES ASSUME u # t PROVE CalmThread(u)'
    BY Zenon
  <2>1. thread'[u] = thread[u] /\ CalmThread(u) /\ backend' = backend
    BY <1>4, Zenon DEF Going, Calm, CalmInv
  <2>2. /\ thread[u].pc = "submit" /\ u[2] = "create" => thread[u].snap # s
        /\ thread[u].pc = "persist" => thread[u].snap # s
    <3>1. thread[u].pc = "persist" => u[2] = "create"
      BY <1>4, Zenon DEF SnapshotInv, ThreadInv
    <3> QED
      BY <1>1, <1>4, <3>1, OpeningAlone, Zenon DEF Opening
  <2>3. thread[u].pc # "idle" /\ thread[u].snap # s =>
           artifact'[thread[u].snap] = artifact[thread[u].snap]
    BY <1>3, Zenon DEF Going
  <2>4. thread[u].pc \in {"submit", "persist", "commit", "inspect", "complete", "transition"}
           => thread[u].pc # "idle"
    BY Zenon
  <2> QED
    BY <1>2, <1>3, <2>1, <2>2, <2>3, <2>4, Zenon DEF Calm, CalmThread, CalmForward
<1>5. ASSUME NEW x \in Snapshot
      PROVE  CalmRow(x)'
  <2> SUFFICES ASSUME x # s PROVE CalmRow(x)'
    BY Zenon
  <2>1. row'[x] = row[x] /\ artifact'[x] = artifact[x] /\ backend' = backend /\ CalmRow(x)
    BY <1>5, Zenon DEF Going, Calm, CalmInv
  <2>2. \A u \in Threads : thread[u].pc = "work" /\ thread[u].snap = x =>
           thread'[u].pc = "work" /\ thread'[u].snap = x
    BY Zenon DEF Going
  <2>3. \A u \in Threads : Keeper(u, x) => Keeper(u, x)'
    BY ZenonT(60) DEF Going, Keeper
  <2> QED
    BY <1>1, <2>1, <2>2, <2>3, Zenon DEF Calm, CalmRow
<1>6. \A v \in Server : \A r \in todo'[v] :
         r[2] = "CREATING" => artifact'[r[1]] # "none" \/ Past(r[1])'
  <2>1. \A v \in Server : \A r \in todo[v] : r[1] \in Snapshot
    BY DEF SnapshotInv, TypeOK
  <2>2. \A v \in Server : \A r \in todo'[v] :
           r \in todo[v] /\ (r[2] = "CREATING" => artifact[r[1]] # "none" \/ Past(r[1]))
    BY ZenonT(60) DEF Calm, CalmInv, Going
  <2>3. \A x \in Snapshot \ {s} : artifact'[x] = artifact[x]
    BY Zenon DEF Going
  <2> QED
    BY <1>1, <1>2, <2>1, <2>2, <2>3, Zenon DEF CalmForward
<1>7. \A v \in Server : up'[v] \in {"up", "unused"}
  BY Zenon DEF Calm, CalmInv, Going
<1> QED
  BY <1>4, <1>5, <1>6, <1>7, ZenonT(60) DEF CalmInv

\* What a thread that is done leaves behind.
LEMMA CalmDone ==
    ASSUME NEW t, thread'[t] = NoThread
    PROVE  CalmThread(t)'
BY NoThreadType, Zenon DEF CalmThread

\* What the threads know without faults.
LEMMA CalmBusy ==
    ASSUME SnapshotInv, CalmInv, Calm, NEW t, NEW pc, At(t, pc), pc # "idle"
    PROVE  /\ t \in Threads /\ thread[t].pc = pc /\ thread[t] \in ThreadRec
           /\ thread[t].snap \in Snapshot
           /\ CalmThread(t) /\ CalmRow(thread[t].snap)
           /\ t[2] = "recover" => HA
<1>1. t \in Threads /\ thread[t].pc = pc /\ thread[t] \in ThreadRec /\ thread[t].snap \in Snapshot
  BY Busy, Zenon
<1>2. t[2] = "recover" => HA
  <2>1. t[1] \in Server
    BY <1>1, ThreadsType, Zenon
  <2> QED
    BY <1>1, <2>1 DEF Calm, CalmInv, SnapshotInv, ThreadInv
<1> QED
  BY <1>1, <1>2, Zenon DEF Calm, CalmInv

\* No call but one of the repository failed.
LEMMA CalmFault ==
    ASSUME SnapshotInv, Calm, NEW f, Fault(f)
    PROVE  f = "store"
BY FaultType DEF SnapshotInv, Calm

\* The worker finds its commit where it left it.
LEMMA CalmWork ==
    ASSUME SnapshotInv, Preserved, CalmInv, Calm, NEW t, Work(t), Going(t),
           NEW s, s = thread[t].snap
    PROVE  CalmInv'
<1>1. UNCHANGED <<backend, row, fresh, up, todo, progressed>> /\ TypeOK
  BY Zenon DEF Work, SnapshotInv
<1>2. CASE /\ At(t, "work")
           /\ artifact' = [artifact EXCEPT ![s] = "pending"]
           /\ Goto(t, "commit")
  <2>1. /\ t \in Threads /\ thread[t].pc = "work" /\ s \in Snapshot
        /\ row[s] = "CREATING" /\ artifact[s] = "none"
    BY <1>2, CalmBusy DEF SnapshotInv, OpenInv, ThreadInv, Opening
  <2>2. thread'[t].pc = "commit" /\ thread'[t].snap = s /\ artifact'[s] = "pending"
    BY <1>1, <1>2, <2>1, Went, ZenonT(60) DEF Pc, TypeOK
  <2>3. CalmThread(t)' /\ CalmRow(s)' /\ CalmForward(s)
    BY <1>1, <2>1, <2>2 DEF CalmThread, CalmRow, CalmForward
  <2> QED
    BY <2>3, CalmStep, ZenonT(60)
<1>3. CASE /\ At(t, "commit") /\ artifact[s] # "pending"
           /\ Saw(t, "complete", Status(s)) /\ UNCHANGED artifact
  <2>1. /\ t \in Threads /\ thread[t].pc = "commit" /\ s \in Snapshot
        /\ CalmThread(t) /\ CalmRow(s) /\ thread[t].snap # None
    BY <1>3, CalmBusy, SnapshotAssumption, Zenon
  <2>2. Status(s) \in State
    BY <1>1, <2>1, StatusType, Zenon
  <2>3. thread'[t].pc = "complete" /\ thread'[t].snap = s /\ thread'[t].obs = Status(s)
    BY <1>1, <1>3, <2>1, <2>2, SawIt, ZenonT(60) DEF Pc
  <2>4. Status(s) = "FAILED" => artifact[s] = "failed" \/ Past(s)
    BY <1>1, <1>3, <2>1 DEF Status, CalmThread, TypeOK
  <2>5. Past(s) => Past(s)'
    BY <2>1, Zenon DEF Preserved
  <2>6. CalmThread(t)' /\ CalmForward(s)
    BY <1>3, <2>3, <2>4, <2>5 DEF CalmThread, CalmForward
  <2>7. CalmRow(s)'
    BY <1>1, <1>3, <2>1, <2>3, Zenon DEF Calm, CalmRow, Keeper, Going, HA
  <2> QED
    BY <2>6, <2>7, CalmStep, Zenon
<1> QED
  BY <1>2, <1>3, CalmFault, Zenon DEF Work

\* A thread that leaves row and artifact alone, and was not to remove or to write them.
LEMMA CalmStill ==
    ASSUME SnapshotInv, Preserved, CalmInv, Calm, NEW t, Going(t),
           NEW s, s = thread[t].snap, row'[s] = row[s], artifact'[s] = artifact[s],
           thread[t].pc \notin {"work", "persist", "cleanup", "discard", "delete"},
           CalmThread(t)'
    PROVE  CalmInv'
<1>1. s \in Snapshot /\ HA' = HA /\ backend' = backend
  BY DEF Going, HA, SnapshotInv, TypeOK, ThreadInv, ThreadRec
<1>2. CalmRow(s) /\ CalmForward(s)
  BY <1>1, Zenon DEF Calm, CalmInv, CalmForward
<1>3. /\ \A u \in Threads : thread[u].pc = "work" /\ thread[u].snap = s =>
            thread'[u].pc = "work" /\ thread'[u].snap = s
      /\ \A u \in Threads : Keeper(u, s) => Keeper(u, s)'
  BY DEF Going, Keeper
<1>4. CalmRow(s)'
  BY <1>1, <1>2, <1>3, Zenon DEF Calm, CalmRow
<1> QED
  BY <1>2, <1>4, CalmStep, Zenon

\* delete_snapshot of the runtime removes what there is: Docker does not commit for a
\* row that is past.
LEMMA CalmRemoved ==
    ASSUME SnapshotInv, Preserved, CalmInv, Calm, NEW t, Going(t),
           NEW s \in Snapshot, s = thread[t].snap, Past(s),
           NEW ok \in BOOLEAN, RuntimeRemove(s, ok), row' = row, CalmThread(t)'
    PROVE  CalmInv'
<1>1. artifact' = [artifact EXCEPT ![s] = Removed(s)]
  BY CalmFault, Zenon DEF RuntimeRemove
<1>2. CalmRow(s) /\ row[s] \in {"DELETING", "none"}
  BY Zenon DEF Calm, CalmInv, Past
<1>3. artifact'[s] = "none"
  BY <1>1, <1>2 DEF Removed, CalmRow, SnapshotInv, TypeOK
<1>4. CalmRow(s)' /\ CalmForward(s)
  BY <1>2, <1>3 DEF CalmRow, CalmForward
<1> QED
  BY <1>4, CalmStep, Zenon

\* _cleanup_runtime_artifact.
LEMMA CalmCleanup ==
    ASSUME SnapshotInv, Preserved, CalmInv, Calm, NEW t, Cleanup(t), Going(t),
           NEW s, s = thread[t].snap
    PROVE  CalmInv'
<1>1. t \in Threads /\ s \in Snapshot /\ Past(s) /\ TypeOK
  BY Busy, Zenon DEF Cleanup, SnapshotInv
<1>2. CalmThread(t)'
  BY <1>1, Done, CalmDone, Zenon DEF Cleanup
<1> QED
  BY <1>1, <1>2, CalmRemoved, Zenon DEF Cleanup

\* The same for a row in DELETING.
LEMMA CalmDiscard ==
    ASSUME SnapshotInv, Preserved, CalmInv, Calm, NEW t, Discard(t), Going(t),
           NEW s, s = thread[t].snap
    PROVE  CalmInv'
<1>1. t \in Threads /\ s \in Snapshot /\ Past(s) /\ TypeOK
  BY Busy, Zenon DEF Discard, SnapshotInv
<1>2. thread'[t] = NoThread \/ thread'[t].pc = "drop"
  BY <1>1, Done, Went, Zenon DEF Discard, Pc
<1>3. CalmThread(t)'
  BY <1>2, CalmDone DEF CalmThread
<1> QED
  BY <1>1, <1>3, CalmRemoved, Zenon DEF Discard

\* delete_snapshot.
LEMMA CalmRuntimeDelete ==
    ASSUME SnapshotInv, Preserved, CalmInv, Calm, NEW t, RuntimeDelete(t), Going(t),
           NEW s, s = thread[t].snap
    PROVE  CalmInv'
<1>1. t \in Threads /\ s \in Snapshot /\ Past(s) /\ TypeOK
  BY Busy, Zenon DEF RuntimeDelete, SnapshotInv
<1>2. thread'[t] = NoThread \/ thread'[t].pc = "drop"
  BY <1>1, Done, Went, Zenon DEF RuntimeDelete, Pc
<1>3. CalmThread(t)'
  BY <1>2, CalmDone DEF CalmThread
<1> QED
  BY <1>1, <1>3, CalmRemoved, Zenon DEF RuntimeDelete

\* A row goes when it was past: whoever has to remove the artifact still has to.
LEMMA CalmDrop ==
    ASSUME SnapshotInv, Preserved, CalmInv, Calm, NEW t, Drop(t), Going(t),
           NEW s, s = thread[t].snap
    PROVE  CalmInv'
<1>1. /\ t \in Threads /\ s \in Snapshot /\ Past(s) /\ TypeOK /\ thread[t].pc = "drop"
      /\ CalmRow(s) /\ HA' = HA /\ backend' = backend
  BY Busy, CalmBusy, Zenon DEF Drop, SnapshotInv, HA
<1>2. CalmThread(t)'
  BY <1>1, Done, CalmDone, Zenon DEF Drop
<1>3. row'[s] = "none" /\ artifact' = artifact /\ row[s] \in {"DELETING", "none"}
  <2>1. Written(t) = "none"
    BY <1>1 DEF Written
  <2> QED
    BY <1>1, <2>1, Zenon DEF Drop, TypeOK, Past
<1>4. \A u \in Threads : Keeper(u, s) => Keeper(u, s)'
  BY <1>1 DEF Going, Keeper
<1>5. CalmRow(s)' /\ CalmForward(s)
  BY <1>1, <1>3, <1>4 DEF CalmRow, CalmForward
<1> QED
  BY <1>2, <1>5, CalmStep, Zenon

\* The request that marks a row removes its artifact next.
LEMMA CalmMark ==
    ASSUME SnapshotInv, Preserved, CalmInv, Calm, NEW t, Mark(t), Going(t),
           NEW s, s = thread[t].snap
    PROVE  CalmInv'
<1>1. /\ t \in Threads /\ s \in Snapshot /\ TypeOK /\ thread[t].pc = "mark" /\ CalmRow(s)
      /\ thread[t].obs \in {"READY", "FAILED"} /\ UNCHANGED <<backend, artifact>>
  BY CalmBusy DEF Mark, SnapshotInv, ThreadInv
<1>2. row'[s] = IF row[s] = thread[t].obs THEN "DELETING" ELSE row[s]
  <2>1. Written(t) = IF row[s] = thread[t].obs THEN "DELETING" ELSE row[s]
    BY <1>1 DEF Written
  <2> QED
    BY <1>1, <2>1, Zenon DEF Mark, TypeOK
<1>3. CASE row'[s] = "DELETING"
  <2>1. thread'[t].pc = "delete" /\ thread'[t].snap = s
    BY <1>1, <1>3, Went, Zenon DEF Mark, Pc
  <2>2. CalmThread(t)' /\ Keeper(t, s)'
    BY <2>1 DEF CalmThread, Keeper
  <2>3. backend = "docker" => artifact[s] # "pending"
    BY <1>1, <1>2, <1>3, ZenonT(60) DEF CalmRow
  <2>4. CalmRow(s)' /\ CalmForward(s)
    BY <1>1, <1>3, <2>2, <2>3, ZenonT(60) DEF CalmRow, CalmForward
  <2> QED
    BY <2>2, <2>4, CalmStep, Zenon
<1>4. CASE row'[s] # "DELETING"
  <2>1. CalmThread(t)'
    BY <1>1, <1>4, Done, CalmDone, Zenon DEF Mark
  <2> QED
    BY <1>1, <1>2, <1>4, <2>1, CalmStill
<1> QED
  BY <1>3, <1>4, ZenonT(60)

\* create_snapshot makes the artifact of a request, and answers what it has to a
\* recovery.
LEMMA CalmSubmit ==
    ASSUME SnapshotInv, Preserved, CalmInv, Calm, NEW t, Submit(t), Going(t),
           NEW s, s = thread[t].snap
    PROVE  CalmInv'
<1>1. /\ t \in Threads /\ s \in Snapshot /\ TypeOK /\ thread[t].pc = "submit"
      /\ CalmThread(t) /\ CalmRow(s) /\ t[2] \in {"create", "recover"}
      /\ t[2] = "recover" => HA
      /\ UNCHANGED <<backend, row, HA>>
  BY CalmBusy, ZenonT(60) DEF Submit, SnapshotInv, ThreadInv, HA
<1>2. PICK obs \in State :
        /\ RuntimeCreate(s, obs)
        /\ IF t[2] = "recover" THEN Saw(t, "complete", obs) /\ UNCHANGED progressed
           ELSE IF obs = "FAILED" THEN Finish(t, FALSE)
           ELSE Goto(t, "persist") /\ UNCHANGED progressed
  BY Zenon DEF Submit
<1>3. /\ artifact' = [artifact EXCEPT ![s] = Submitted(s)]
      /\ obs = IF artifact[s] = "none" \/ Fsb THEN "CREATING" ELSE Status(s)
  BY <1>2, CalmFault, Zenon DEF RuntimeCreate
<1>4. /\ artifact'[s] # "none" /\ (artifact[s] # "none" => artifact'[s] = artifact[s])
      /\ CalmForward(s)
  BY <1>1, <1>3 DEF TypeOK, Submitted, CalmForward
<1>5. CASE t[2] = "create"
  <2>1. artifact[s] = "none" /\ obs = "CREATING"
    BY <1>1, <1>3, <1>5, Zenon DEF CalmThread
  <2>2. thread'[t].pc = "persist" /\ thread'[t].snap = s
    BY <1>1, <1>2, <1>5, <2>1, Went, ZenonT(60) DEF Pc
  <2>3. CalmThread(t)' /\ Keeper(t, s)'
    BY <1>4, <2>2, ZenonT(60) DEF CalmThread, Keeper
  <2>4. row[s] = "none" /\ backend # "docker"
    BY <1>1, <1>5, ZenonT(60) DEF SnapshotInv, OpenInv, Opening, CalmThread
  <2>5. CalmRow(s)'
    BY <1>1, <1>4, <2>3, <2>4, ZenonT(60) DEF CalmRow
  <2> QED
    BY <1>4, <2>3, <2>5, CalmStep, Zenon
<1>6. CASE t[2] = "recover"
  <2>1. thread'[t].pc = "complete" /\ thread'[t].snap = s /\ thread'[t].obs = obs
    BY <1>1, <1>2, <1>6, SawIt, ZenonT(60) DEF Pc
  <2>2. HA /\ backend # "docker"
    BY <1>1, <1>6 DEF HA
  <2>3. obs = "FAILED" => artifact'[s] = "failed"
    <3>1. artifact[s] \in {"none", "pending", "done", "failed"}
      BY <1>1, Zenon DEF TypeOK
    <3>2. Status(s) = "FAILED" => artifact[s] \in {"none", "failed"}
      BY <2>2, <3>1 DEF Status
    <3> QED
      BY <1>3, <1>4, <3>2
  <2>4. CalmThread(t)'
    BY <2>1, <2>3 DEF CalmThread
  <2>5. CalmRow(s)'
    BY <1>1, <1>4, <2>2 DEF Calm, CalmRow
  <2> QED
    BY <1>4, <2>4, <2>5, CalmStep, Zenon
<1> QED
  BY <1>1, <1>5, <1>6, ZenonT(60)

\* The row is written after the artifact was made; when it cannot be, the artifact is
\* removed again.
LEMMA CalmPersist ==
    ASSUME SnapshotInv, Preserved, CalmInv, Calm, NEW t, Persist(t), Going(t),
           NEW s, s = thread[t].snap
    PROVE  CalmInv'
<1>1. /\ t \in Threads /\ s \in Snapshot /\ TypeOK /\ thread[t].pc = "persist"
      /\ artifact[s] # "none" /\ artifact' = artifact
  BY CalmBusy, Zenon DEF Persist, SnapshotInv, CalmThread
<1>2. CASE row' = [row EXCEPT ![s] = "CREATING"] /\ Finish(t, FALSE)
  <2>1. row'[s] = "CREATING"
    BY <1>1, <1>2, Zenon DEF TypeOK
  <2>2. CalmThread(t)'
    BY <1>1, <1>2, Done, CalmDone, ZenonT(60)
  <2>3. CalmRow(s)' /\ CalmForward(s)
    BY <1>1, <2>1 DEF CalmRow, CalmForward
  <2> QED
    BY <2>2, <2>3, CalmStep, Zenon
<1>3. CASE Goto(t, "cleanup") /\ row' = row
  <2>1. thread'[t].pc = "cleanup" /\ thread'[t].snap = s
    BY <1>1, <1>3, Went, ZenonT(60) DEF Pc
  <2>2. row[s] = "none"
    BY <1>1, ZenonT(60) DEF SnapshotInv, ThreadInv, OpenInv, Opening
  <2>3. CalmThread(t)' /\ Keeper(t, s)'
    BY <2>1 DEF CalmThread, Keeper
  <2>4. CalmRow(s) /\ backend' = backend
    BY <1>1, ZenonT(60) DEF Calm, CalmInv, Going
  <2>5. CalmRow(s)' /\ CalmForward(s)
    BY <1>1, <1>3, <2>2, <2>3, <2>4 DEF CalmRow, CalmForward
  <2> QED
    BY <2>3, <2>5, CalmStep, Zenon
<1> QED
  BY <1>2, <1>3, Zenon DEF Persist

\* Who asks the runtime finds the artifact, so FAILED is what it says of it.
LEMMA CalmInspect ==
    ASSUME SnapshotInv, Preserved, CalmInv, Calm, NEW t, Inspect(t), Going(t),
           NEW s, s = thread[t].snap
    PROVE  CalmInv'
<1>1. /\ t \in Threads /\ s \in Snapshot /\ TypeOK /\ thread[t].pc = "inspect" /\ CalmThread(t)
      /\ UNCHANGED <<backend, row, artifact>> /\ (Past(s) => Past(s)')
  BY CalmBusy, Zenon DEF Inspect, SnapshotInv, Preserved
<1>2. PICK obs \in State :
        /\ obs = Status(s)
        /\ IF obs # "CREATING" THEN Saw(t, "complete", obs) /\ UNCHANGED progressed
           ELSE IF t[2] # "recover" THEN Finish(t, FALSE)
           ELSE /\ thread' = [thread EXCEPT ![t].pc = "submit", ![t].onError = "report"]
                /\ UNCHANGED progressed
  BY CalmFault, Zenon DEF Inspect
<1>3. Status(s) = "FAILED" => artifact[s] = "failed" \/ Past(s)
  BY <1>1, SMTT(60) DEF Status, CalmThread, TypeOK
<1>4. CASE obs # "CREATING"
  <2>1. thread'[t].pc = "complete" /\ thread'[t].snap = s /\ thread'[t].obs = obs
    BY <1>1, <1>2, <1>4, SawIt, Zenon DEF Pc
  <2>2. CalmThread(t)'
    BY <1>1, <1>2, <1>3, <2>1 DEF CalmThread
  <2> QED
    BY <1>1, <2>2, CalmStill
<1>5. CASE obs = "CREATING" /\ t[2] # "recover"
  <2>1. CalmThread(t)'
    BY <1>1, <1>2, <1>5, Done, CalmDone, Zenon
  <2> QED
    BY <1>1, <2>1, CalmStill
<1>6. CASE obs = "CREATING" /\ t[2] = "recover"
  <2>1. thread'[t].pc = "submit"
    BY <1>1, <1>2, <1>6, SMTT(60) DEF TypeOK, ThreadRec
  <2>2. CalmThread(t)'
    BY <1>1, <1>6, <2>1 DEF CalmThread
  <2> QED
    BY <1>1, <2>2, CalmStill
<1> QED
  BY <1>4, <1>5, <1>6, Zenon

\* _complete_snapshot takes its observation along, or goes to remove or to drop.
LEMMA CalmComplete ==
    ASSUME SnapshotInv, Preserved, CalmInv, Calm, NEW t, Complete(t), Going(t),
           NEW s, s = thread[t].snap
    PROVE  CalmInv'
<1>1. /\ t \in Threads /\ s \in Snapshot /\ TypeOK /\ thread[t].pc = "complete" /\ CalmThread(t)
      /\ UNCHANGED <<row, artifact>> /\ (Past(s) => Past(s)') /\ thread[t].obs \in State
  BY CalmBusy, ZenonT(60) DEF Complete, SnapshotInv, Preserved, ThreadRec
<1>2. \/ thread'[t] = NoThread
      \/ thread'[t].pc \in {"cleanup", "discard", "drop"}
      \/ Saw(t, "transition", thread[t].obs)
  <2>1. ASSUME NEW pc \in {"cleanup", "discard", "drop"}, Goto(t, pc)
        PROVE  thread'[t].pc \in {"cleanup", "discard", "drop"}
    BY <1>1, <2>1, Went, ZenonT(60) DEF Pc
  <2> QED
    BY <1>1, <2>1, Done, Zenon DEF Complete
<1>3. CASE Saw(t, "transition", thread[t].obs)
  <2>1. thread'[t].pc = "transition" /\ thread'[t].snap = s /\ thread'[t].obs = thread[t].obs
    BY <1>1, <1>3, SawIt, ZenonT(60) DEF Pc
  <2>2. CalmThread(t)'
    BY <1>1, <2>1, ZenonT(60) DEF Calm, CalmThread
  <2> QED
    BY <1>1, <2>2, CalmStill, ZenonT(60)
<1>4. CASE thread'[t] = NoThread \/ thread'[t].pc \in {"cleanup", "discard", "drop"}
  <2>1. CalmThread(t)'
    BY <1>4, CalmDone, ZenonT(60) DEF CalmThread
  <2> QED
    BY <1>1, <2>1, CalmStill, ZenonT(60)
<1> QED
  BY <1>2, <1>3, <1>4, ZenonT(60)

\* update_if_state writes what is true of the artifact.
LEMMA CalmTransition ==
    ASSUME SnapshotInv, Preserved, CalmInv, Calm, NEW t, Transition(t), Going(t),
           NEW s, s = thread[t].snap
    PROVE  CalmInv'
<1>1. /\ t \in Threads /\ s \in Snapshot /\ TypeOK /\ thread[t].pc = "transition" /\ CalmThread(t)
      /\ thread[t].obs \in {"READY", "FAILED"} /\ artifact' = artifact
      /\ thread[t].obs = "READY" => artifact[s] = "done" \/ Past(s)
  <2>1. At(t, "transition") /\ artifact' = artifact
    BY Zenon DEF Transition
  <2>2. t \in Threads /\ s \in Snapshot /\ thread[t].pc = "transition" /\ CalmThread(t)
    BY <2>1, CalmBusy
  <2>3. /\ thread[t].obs \in {"READY", "FAILED"}
        /\ thread[t].obs = "READY" => artifact[s] = "done" \/ Past(s)
    BY <2>2, SMTT(60) DEF SnapshotInv, ThreadInv, SeenInv
  <2> QED
    BY <2>1, <2>2, <2>3, Zenon DEF SnapshotInv
<1>2. row'[s] = (IF row[s] = "CREATING" THEN thread[t].obs ELSE row[s])
  <2>1. Written(t) = IF row[s] = "CREATING" THEN thread[t].obs ELSE row[s]
    BY <1>1 DEF Written
  <2> QED
    BY <1>1, <2>1, Zenon DEF Transition, TypeOK
<1>3. CalmThread(t)'
  BY <1>1, Done, CalmDone, Zenon DEF Transition
<1>4. CASE row[s] = "CREATING"
  <2>1. /\ thread[t].obs = "READY" => artifact[s] = "done"
        /\ thread[t].obs = "FAILED" => artifact[s] = "failed" \/ Misjudged
    BY <1>1, <1>4 DEF CalmThread, Past
  <2>2. Misjudged => Misjudged' /\ backend' # "docker"
    BY Zenon DEF Calm, Misjudged, HA, Going
  <2>3. CalmRow(s)' /\ CalmForward(s)
    BY <1>1, <1>2, <1>4, <2>1, <2>2 DEF CalmRow, CalmForward
  <2> QED
    BY <1>3, <2>3, CalmStep, Zenon
<1>5. CASE row[s] # "CREATING"
  BY <1>1, <1>2, <1>3, <1>5, CalmStill
<1> QED
  BY <1>4, <1>5, Zenon

\* An error of the repository fails a snapshot in PostgreSQL mode only.
LEMMA CalmStoreFails ==
    ASSUME SnapshotInv, Preserved, CalmInv, Calm, NEW t, StoreFails(t), Going(t),
           NEW s, s = thread[t].snap
    PROVE  CalmInv'
<1>1. PICK pc \in {"complete", "transition", "drop", "mark"} : At(t, pc)
  BY Zenon DEF StoreFails
<1>2. /\ t \in Threads /\ thread[t].pc = pc /\ s \in Snapshot /\ TypeOK
      /\ CalmRow(s) /\ (t[2] = "recover" => HA)
      /\ artifact' = artifact /\ backend' = backend
  BY <1>1, CalmBusy, Zenon DEF StoreFails, SnapshotInv
<1>3. HA => Misjudged' /\ backend # "docker"
  <2>1. faults'.store > 0
    BY <1>2, FaultType, Zenon DEF StoreFails
  <2> QED
    BY <1>2, <2>1 DEF Misjudged, HA
<1>4. CalmThread(t)'
  <2>1. CASE thread[t].onError \in {"report", "abort"}
    <3>1. thread'[t] = NoThread
      BY <1>2, <2>1, Done, Zenon DEF StoreFails, TypeOK
    <3> QED
      BY <3>1, CalmDone, Zenon
  <2>2. CASE thread[t].onError = "fail"
    <3>1. t[2] = "recover"
      BY <1>2, <2>2, Zenon DEF SnapshotInv, ThreadInv
    <3>2. thread' = [thread EXCEPT ![t].pc = "complete", ![t].obs = "FAILED", ![t].onError = "abort"]
      BY <2>2, Zenon DEF StoreFails
    <3>3. thread'[t].pc = "complete"
      BY <1>2, <3>2, Turned, Zenon
    <3> QED
      BY <1>2, <1>3, <3>1, <3>3 DEF CalmThread
  <2>3. thread[t].onError \in {"report", "fail", "abort"}
    BY <1>2 DEF TypeOK, ThreadRec
  <2> QED
    BY <2>1, <2>2, <2>3, Zenon
<1>5. CASE row'[s] = row[s]
  BY <1>2, <1>4, <1>5, CalmStill
<1>6. CASE row'[s] # row[s]
  <2>1. HA /\ HA' = HA
    BY <1>2, <1>6, Zenon DEF StoreFails, HA
  <2>2. row'[s] # "CREATING"
    <3>1. Moved(s) /\ Forward(s)
      BY <1>1, <1>2, WriteMoves, ZenonT(60) DEF StoreFails
    <3>2. row[s] = "none" => Past(s)
      BY <1>2 DEF SnapshotInv, Past, ThreadInv, OpenInv, Opening
    <3> QED
      BY <1>6, <3>1, <3>2 DEF Moved, Forward
  <2>3. CalmRow(s)' /\ CalmForward(s)
    BY <1>2, <1>3, <2>1, <2>2, ZenonT(60) DEF CalmRow, CalmForward
  <2> QED
    BY <1>4, <2>3, CalmStep, Zenon
<1> QED
  BY <1>5, <1>6, Zenon

\* A thread takes up a snapshot and knows what it should.
LEMMA CalmBegin ==
    ASSUME SnapshotInv, Preserved, CalmInv, Calm, NEW t \in Threads, thread[t].pc = "idle",
           UNCHANGED <<backend, row, artifact, up>>,
           \A u \in Threads \ {t} : thread'[u] = thread[u],
           \A v \in Server : todo'[v] \subseteq todo[v],
           CalmThread(t)'
    PROVE  CalmInv'
<1>1. \A x \in Snapshot : Past(x) => Past(x)'
  BY Zenon DEF Preserved
<1>2. HA' = HA
  BY Zenon DEF HA
<1>3. \A u \in Threads : thread[u].pc # "idle" => thread[u].snap \in Snapshot
  BY DEF SnapshotInv, TypeOK, ThreadRec, ThreadInv
<1>4. ASSUME NEW u \in Threads \ {t}
      PROVE  CalmThread(u)'
  BY <1>1, <1>3, <1>4 DEF Calm, CalmInv, CalmThread
<1>5. ASSUME NEW x \in Snapshot
      PROVE  CalmRow(x)'
  <2>1. CalmRow(x)
    BY <1>5, Zenon DEF Calm, CalmInv
  <2>2. /\ \A u \in Threads : thread[u].pc = "work" /\ thread[u].snap = x =>
              thread'[u].pc = "work" /\ thread'[u].snap = x
        /\ \A u \in Threads : Keeper(u, x) => Keeper(u, x)'
    BY DEF Keeper
  <2> QED
    BY <1>2, <2>1, <2>2, Zenon DEF Calm, CalmRow
<1>6. \A v \in Server : \A r \in todo'[v] :
         r[2] = "CREATING" => artifact'[r[1]] # "none" \/ Past(r[1])'
  <2>1. \A v \in Server : \A r \in todo[v] : r[1] \in Snapshot
    BY DEF SnapshotInv, TypeOK
  <2> QED
    BY <1>1, <2>1 DEF Calm, CalmInv
<1> QED
  BY <1>4, <1>5, <1>6, Zenon DEF Calm, CalmInv

\* What the beginning of a thread does to the threads.
LEMMA Begun ==
    ASSUME TypeOK, NEW t \in Threads, NEW s, NEW pc, NEW obs, Begin(t, s, pc, obs)
    PROVE  /\ thread'[t].pc = pc /\ thread'[t].snap = s /\ thread'[t].obs = obs
           /\ \A u \in Threads \ {t} : thread'[u] = thread[u]
BY ZenonT(60) DEF TypeOK, Begin

\* Another thread only sees a row in CREATING after its artifact was made, unless the
\* row was Docker's.
LEMMA CalmCreating ==
    ASSUME SnapshotInv, CalmInv, Calm, NEW s \in Snapshot, row[s] = "CREATING",
           backend # "docker"
    PROVE  artifact[s] # "none"
<1>1. CalmRow(s)
  BY Zenon DEF Calm, CalmInv
<1>2. ASSUME NEW t \in Threads, thread[t].pc = "work"
      PROVE  FALSE
  <2>1. Opening(t)
    BY <1>2, ZenonT(60) DEF SnapshotInv, ThreadInv, Opening
  <2> QED
    BY <1>2, <2>1, Zenon DEF SnapshotInv, OpenInv
<1> QED
  BY <1>1, <1>2, Zenon DEF CalmRow

\* As long as nothing but the repository fails only PostgreSQL mode recovers.
LEMMA CalmRecovery ==
    ASSUME SnapshotInv, CalmInv, Calm, NEW v \in Server
    PROVE  /\ up[v] # "starting" /\ up[v] # "down"
           /\ todo[v] # {} => HA
BY DEF SnapshotInv, Calm, CalmInv, ScanInv

\* get_snapshot, list_snapshots and the watch callback.
LEMMA CalmReadRow ==
    ASSUME SnapshotInv, Preserved, CalmInv, Calm, NEW t \in Threads, NEW s \in Snapshot,
           ReadRow(t, s)
    PROVE  CalmInv'
<1>1. /\ row[s] = "CREATING" /\ thread[t].pc = "idle" /\ backend # "docker"
      /\ Begin(t, s, "inspect", "CREATING")
      /\ UNCHANGED <<backend, row, artifact, up, todo>> /\ TypeOK
  BY Zenon DEF ReadRow, At, SnapshotInv
<1>2. /\ thread'[t].pc = "inspect" /\ thread'[t].snap = s
      /\ \A u \in Threads \ {t} : thread'[u] = thread[u]
  BY <1>1, Begun, ZenonT(60)
<1>3. CalmThread(t)'
  BY <1>1, <1>2, CalmCreating, ZenonT(60) DEF CalmThread
<1> QED
  BY <1>1, <1>2, <1>3, CalmBegin, Zenon

\* A delete request.
LEMMA CalmDeleteRequest ==
    ASSUME SnapshotInv, Preserved, CalmInv, Calm, NEW v \in Server, NEW s \in Snapshot,
           DeleteRequest(v, s)
    PROVE  CalmInv'
<1> DEFINE t == <<v, "delete">>
<1>1. t \in Threads /\ thread[t].pc = "idle" /\ TypeOK
  BY AtType, Zenon DEF DeleteRequest, SnapshotInv
<1>2. /\ thread'[t].pc \in {"delete", "mark"}
      /\ \A u \in Threads \ {t} : thread'[u] = thread[u]
  BY <1>1, Begun, ZenonT(60) DEF DeleteRequest
<1>3. CalmThread(t)'
  BY <1>2, Zenon DEF CalmThread
<1> QED
  BY <1>1, <1>2, <1>3, CalmBegin, Zenon DEF DeleteRequest

\* The recovery of PostgreSQL mode takes up a record.
LEMMA CalmScanNext ==
    ASSUME SnapshotInv, Preserved, CalmInv, Calm, NEW v \in Server, ScanNext(v)
    PROVE  CalmInv'
<1> DEFINE t == <<v, "recover">>
<1>1. t \in Threads /\ thread[t].pc = "idle" /\ TypeOK
  BY AtType, Zenon DEF ScanNext, SnapshotInv
<1>2. PICK r \in todo[v] :
        /\ todo' = [todo EXCEPT ![v] = @ \ {r}]
        /\ Begin(t, r[1], IF r[2] = "CREATING" THEN "inspect" ELSE "delete", "CREATING")
  BY Zenon DEF ScanNext
<1>3. UNCHANGED <<backend, row, artifact, up>>
  BY Zenon DEF ScanNext
<1>4. /\ thread'[t].pc = (IF r[2] = "CREATING" THEN "inspect" ELSE "delete")
      /\ thread'[t].snap = r[1]
      /\ \A u \in Threads \ {t} : thread'[u] = thread[u]
  BY <1>1, <1>2, Begun, ZenonT(60)
<1>5. r[2] = "CREATING" => artifact[r[1]] # "none" \/ Past(r[1])'
  <2>1. r[1] \in Snapshot
    BY DEF SnapshotInv, TypeOK
  <2> QED
    BY <2>1, Zenon DEF Calm, CalmInv, Preserved
<1>6. backend # "docker"
  BY <1>2, CalmRecovery DEF HA
<1>7. CalmThread(t)'
  BY <1>3, <1>4, <1>5, <1>6 DEF CalmThread
<1>8. \A w \in Server : todo'[w] \subseteq todo[w]
  BY <1>2, Zenon DEF SnapshotInv, TypeOK
<1> QED
  BY <1>1, <1>3, <1>4, <1>7, <1>8, CalmBegin, Zenon

\* It lists the rows that are unfinished.
LEMMA CalmScanList ==
    ASSUME SnapshotInv, Preserved, CalmInv, Calm, NEW v \in Server, ScanList(v)
    PROVE  CalmInv'
<1>1. /\ UNCHANGED <<backend, row, artifact, fresh, up, thread, HA>> /\ HA
      /\ todo' = [todo EXCEPT ![v] = {<<s, row[s]>> : s \in Unfinished}]
  BY CalmRecovery, ZenonT(60) DEF ScanList, Scanning, HA
<1>2. \A w \in Server : \A r \in todo'[w] :
         r \in todo[w] \/ (r[1] \in Unfinished /\ r[2] = row[r[1]])
  BY <1>1 DEF SnapshotInv, TypeOK
<1>3. \A x : Past(x)' <=> Past(x)
  BY <1>1, Zenon DEF Past, Opening
<1>4. \A x \in Unfinished : row[x] = "CREATING" => artifact[x] # "none"
  BY <1>1, CalmCreating DEF HA, Unfinished
<1>5. \A w \in Server : \A r \in todo'[w] :
         r[2] = "CREATING" => artifact[r[1]] # "none" \/ Past(r[1])
  BY <1>2, <1>4, Zenon DEF Calm, CalmInv
<1>6. \A t \in Threads : CalmThread(t)'
  BY <1>1, <1>3, Zenon DEF Calm, CalmInv, CalmThread
<1>7. \A s \in Snapshot : CalmRow(s)'
  BY <1>1, ZenonT(60) DEF Calm, CalmInv, CalmRow, Keeper
<1> QED
  BY <1>1, <1>3, <1>5, <1>6, <1>7, Zenon DEF Calm, CalmInv

\* A create request begins with an id of its own.
LEMMA CalmCreateRequest ==
    ASSUME SnapshotInv, Preserved, CalmInv, Calm, NEW v \in Server, NEW s \in Snapshot,
           CreateRequest(v, s)
    PROVE  CalmInv'
<1> DEFINE t == <<v, "create">>
<1>1. /\ t \in Threads /\ thread[t].pc = "idle" /\ TypeOK
      /\ s \in fresh /\ row[s] = "none" /\ artifact[s] = "none"
  BY AtType, Zenon DEF CreateRequest, SnapshotInv
<1>2. /\ UNCHANGED <<backend, artifact, up, todo, HA>>
      /\ \A x \in Snapshot \ {s} : row'[x] = row[x]
      /\ row'[s] = IF backend = "docker" THEN "CREATING" ELSE "none"
  BY <1>1, Zenon DEF CreateRequest, TypeOK, HA
<1>3. /\ thread'[t].pc = (IF backend = "docker" THEN "work" ELSE "submit") /\ thread'[t].snap = s
      /\ \A u \in Threads \ {t} : thread'[u] = thread[u]
  BY <1>1, Begun, ZenonT(60) DEF CreateRequest
<1>4. \A x \in Snapshot : Past(x) => Past(x)'
  BY Zenon DEF Preserved
<1>5. \A u \in Threads : thread[u].pc # "idle" => thread[u].snap \in Snapshot
  BY DEF SnapshotInv, TypeOK, ThreadRec, ThreadInv
<1>6. ASSUME NEW u \in Threads
      PROVE  CalmThread(u)'
  <2>1. CASE u = t
    BY <1>1, <1>2, <1>3, <2>1 DEF CalmThread
  <2>2. CASE u # t
    <3>1. CalmThread(u) /\ thread'[u] = thread[u]
      BY <1>3, <1>6, <2>2, Zenon DEF Calm, CalmInv
    <3>2. thread[u].pc \in {"submit", "persist", "commit", "inspect", "complete", "transition"}
             => thread[u].snap \in Snapshot
      BY <1>5, <1>6, Zenon
    <3> QED
      BY <1>2, <1>4, <3>1, <3>2, ZenonT(60) DEF Calm, CalmThread
  <2> QED
    BY <2>1, <2>2, Zenon
<1>7. ASSUME NEW x \in Snapshot
      PROVE  CalmRow(x)'
  <2>1. CASE x = s
    <3>1. row'[s] = "CREATING" => \E u \in Threads : thread'[u].pc = "work" /\ thread'[u].snap = s
      BY <1>1, <1>2, <1>3, Zenon
    <3>2. row'[s] # "FAILED" /\ artifact'[s] = "none"
      BY <1>1, <1>2, Zenon
    <3> QED
      BY <2>1, <3>1, <3>2, Zenon DEF CalmRow
  <2>2. CASE x # s
    <3>1. CalmRow(x)
      BY <1>7, ZenonT(60) DEF Calm, CalmInv
    <3>2. /\ \A u \in Threads : thread[u].pc = "work" /\ thread[u].snap = x =>
                thread'[u].pc = "work" /\ thread'[u].snap = x
          /\ \A u \in Threads : Keeper(u, x) => Keeper(u, x)'
      BY <1>1, <1>3, ZenonT(60) DEF Keeper
    <3> QED
      BY <1>2, <2>2, <3>1, <3>2, Zenon DEF Calm, CalmRow
  <2> QED
    BY <2>1, <2>2, ZenonT(60)
<1>8. \A w \in Server : \A r \in todo'[w] :
         r[2] = "CREATING" => artifact'[r[1]] # "none" \/ Past(r[1])'
  <2>1. \A w \in Server : \A r \in todo[w] : r[1] \in Snapshot
    BY DEF SnapshotInv, TypeOK
  <2> QED
    BY <1>2, <1>4, <2>1, ZenonT(60) DEF Calm, CalmInv
<1> QED
  BY <1>2, <1>6, <1>7, <1>8, Zenon DEF Calm, CalmInv

\* The runtime comes to an end.
LEMMA CalmArtifactEnds ==
    ASSUME SnapshotInv, Preserved, CalmInv, Calm, NEW s \in Snapshot, ArtifactEnds(s)
    PROVE  CalmInv'
<1>1. /\ UNCHANGED <<backend, row, up, thread, todo, HA>>
      /\ artifact[s] = "pending" /\ artifact'[s] \in {"done", "failed"}
      /\ \A x \in Snapshot \ {s} : artifact'[x] = artifact[x]
  BY Zenon DEF ArtifactEnds, SnapshotInv, TypeOK, HA
<1>2. \A x \in Snapshot : Past(x) => Past(x)'
  BY Zenon DEF Preserved
<1>3. \A u \in Threads : thread[u].pc # "idle" => thread[u].snap \in Snapshot
  BY SMTT(60) DEF SnapshotInv, TypeOK, ThreadRec, ThreadInv
<1>4. ASSUME NEW u \in Threads
      PROVE  CalmThread(u)'
  BY <1>1, <1>2, <1>3, <1>4, ZenonT(60) DEF Calm, CalmInv, CalmThread
<1>5. ASSUME NEW x \in Snapshot
      PROVE  CalmRow(x)'
  <2>1. CalmRow(x)
    BY <1>5, Zenon DEF Calm, CalmInv
  <2> QED
    BY <1>1, <1>5, <2>1 DEF Calm, CalmRow, Keeper
<1>6. \A w \in Server : \A r \in todo'[w] :
         r[2] = "CREATING" => artifact'[r[1]] # "none" \/ Past(r[1])'
  <2>1. \A w \in Server : \A r \in todo[w] : r[1] \in Snapshot
    BY DEF SnapshotInv, TypeOK
  <2> QED
    BY <1>1, <1>2, <2>1 DEF Calm, CalmInv
<1> QED
  BY <1>1, <1>4, <1>5, <1>6, Zenon DEF Calm, CalmInv

\* Faults are only counted up.
LEMMA FaultsGrow ==
    ASSUME SnapshotInv, [Next]_vars, faults'.other = 0
    PROVE  Calm
<1>1. TypeOK
  BY Zenon DEF SnapshotInv
<1>2. ASSUME NEW t \in Threads, Step(t)
      PROVE  backend' = backend /\ (faults' = faults \/ \E f : Fault(f))
  BY <1>2, ZenonT(60)
  DEF Step, Work, Submit, Persist, Inspect, Complete, Transition, Cleanup, Discard, Drop, Mark,
      RuntimeDelete, StoreFails, RuntimeCreate, RuntimeRemove
<1>3. ASSUME \/ \E v \in Server, x \in Snapshot : CreateRequest(v, x) \/ DeleteRequest(v, x)
             \/ \E t \in Threads, x \in Snapshot : ReadRow(t, x)
             \/ \E v \in Server : Recovery(v) \/ Crash(v)
             \/ \E x \in Snapshot : ArtifactEnds(x)
             \/ UNCHANGED vars
      PROVE  backend' = backend /\ (faults' = faults \/ \E f : Fault(f))
  BY <1>3, Zenon DEF CreateRequest, DeleteRequest, ReadRow, Recovery, ScanList, ScanNext, ScanEnd,
              Restart, Crash, ArtifactEnds, vars
<1>4. backend' = backend /\ (faults' = faults \/ \E f : Fault(f))
  BY <1>2, <1>3, Zenon DEF Next
<1>5. CASE faults' = faults
  BY <1>4, <1>5 DEF Calm, Misjudged, HA
<1>6. ASSUME NEW f, Fault(f)
      PROVE  Calm
  <2>1. f = "store" /\ faults'.store > 0 /\ faults.other = 0
    BY <1>1, <1>6, FaultType
  <2> QED
    BY <1>4, <2>1 DEF Calm, Misjudged, HA
<1> QED
  BY <1>4, <1>5, <1>6, Zenon

\* Every step keeps CalmInv.
LEMMA NextCalm ==
    ASSUME SnapshotInv, CalmInv, [Next]_vars
    PROVE  CalmInv'
<1> SUFFICES ASSUME faults'.other = 0 PROVE CalmInv'
  BY Zenon DEF CalmInv
<1>1. Calm /\ Preserved
  BY FaultsGrow, NextKeeps, Zenon
<1>2. CASE \E v \in Server, s \in Snapshot : CreateRequest(v, s) \/ DeleteRequest(v, s)
  BY <1>1, <1>2, CalmCreateRequest, CalmDeleteRequest, Zenon
<1>3. CASE \E t \in Threads : Step(t)
  <2>1. PICK t \in Threads : Step(t)
    BY <1>3, Zenon
  <2>2. Going(t)
    <3>1. StoreFails(t) => Going(t)
      BY <1>1, CalmBusy, StoreFailsKeeps, Zenon DEF StoreFails
    <3> QED
      BY <2>1, <3>1, WorkKeeps, SubmitKeeps, PersistKeeps, InspectKeeps, CompleteKeeps, TransitionKeeps,
         CleanupKeeps, DiscardKeeps, DropKeeps, MarkKeeps, RuntimeDeleteKeeps, Zenon
      DEF Step
  <2> QED
    BY <1>1, <2>1, <2>2, CalmWork, CalmSubmit, CalmPersist, CalmInspect, CalmComplete, CalmTransition,
       CalmCleanup, CalmDiscard, CalmDrop, CalmMark, CalmRuntimeDelete, CalmStoreFails, Zenon
    DEF Step
<1>4. CASE \E t \in Threads : \E s \in Snapshot : ReadRow(t, s)
  BY <1>1, <1>4, CalmReadRow, Zenon
<1>5. CASE \E v \in Server : Recovery(v) \/ Crash(v)
  <2>1. ASSUME NEW v \in Server, ScanEnd(v) \/ Restart(v)
        PROVE  FALSE
    BY <1>1, <2>1, CalmRecovery, Zenon DEF ScanEnd, Restart
  <2>2. ASSUME NEW v \in Server, Crash(v)
        PROVE  FALSE
    BY <1>1, <2>2, CalmFault, Zenon DEF Crash
  <2> QED
    BY <1>1, <1>5, <2>1, <2>2, CalmScanList, CalmScanNext, Zenon DEF Recovery
<1>6. CASE \E s \in Snapshot : ArtifactEnds(s)
  BY <1>1, <1>6, CalmArtifactEnds, Zenon
<1>7. CASE UNCHANGED vars
  <2>1. \A x : Past(x)' <=> Past(x)
    BY <1>7, Zenon DEF vars, Past, Opening
  <2>2. \A t \in Threads : CalmThread(t)' <=> CalmThread(t)
    BY <1>7, <2>1, ZenonT(60) DEF vars, CalmThread, Misjudged, HA
  <2>3. \A s \in Snapshot : CalmRow(s)' <=> CalmRow(s)
    BY <1>7, ZenonT(60) DEF vars, CalmRow, Keeper, Misjudged, HA
  <2> QED
    BY <1>7, <2>1, <2>2, <2>3, Zenon DEF vars, CalmInv
<1> QED
  BY <1>2, <1>3, <1>4, <1>5, <1>6, <1>7, Zenon DEF Next

\* It holds before the first request.
LEMMA InitCalm == Init => CalmInv
<1> SUFFICES ASSUME Init PROVE CalmInv
  OBVIOUS
<1>1. \A t \in Threads : CalmThread(t)
  BY NoThreadType, Zenon DEF Init, CalmThread
<1>2. \A s \in Snapshot : CalmRow(s)
  BY Zenon DEF Init, CalmRow
<1> QED
  BY <1>1, <1>2, Zenon DEF Init, CalmInv

\* As long as nothing but the repository fails rows and artifacts tell the same story,
\* for any number of servers, threads and snapshots and on every runtime.
THEOREM CalmInvariant == Spec => []CalmInv
<1>1. SnapshotInv /\ CalmInv /\ [Next]_vars => CalmInv'
  BY NextCalm, Zenon
<1> QED
  BY <1>1, InitCalm, SnapshotInvariant, PTL DEF Spec

\* FAILED is only written over a row whose artifact failed, whichever calls of a SQLite
\* repository fail, and without a fault in PostgreSQL mode: the order of create_snapshot
\* (on Kubernetes the resource first, on Docker no reader before the worker is done)
\* keeps every reader, watch callback and recovery from taking an artifact that is not
\* there yet for a missing one.
THEOREM FailedTrue == Spec => []FailedMeansFailed
<1>1. Misjudged => HA /\ faults.store # 0
  BY DEF Misjudged
<1>2. CalmInv => FailedMeansFailed
  BY <1>1, ZenonT(60) DEF CalmInv, CalmRow, FailedMeansFailed
<1> QED
  BY <1>2, CalmInvariant, PTL

\* Without PostgreSQL no artifact is forgotten, whichever calls of the repository fail: a
\* resource without a row is removed by the request that made it, and a delete_snapshot
\* that another thread overtakes still removes the artifact after the row is gone.
THEOREM NothingForgotten == Spec => []ArtifactsOwned
<1>1. CalmInv => ArtifactsOwned
  <2>1. \A t \in Threads, s \in Snapshot : Keeper(t, s) => thread[t].snap = s
    BY Zenon DEF Keeper
  <2>2. \A s \in Snapshot : row[s] \in {"CREATING", "READY", "FAILED"} => row[s] # "none"
    BY Zenon
  <2> QED
    BY <2>1, <2>2, ZenonT(60) DEF CalmInv, CalmRow, ArtifactsOwned
<1> QED
  BY <1>1, CalmInvariant, PTL
=============================================================================
