--------------------------- MODULE PoolAllocation ---------------------------
(***************************************************************************)
(* Pod allocation between one Pool and its BatchSandboxes: the in-memory   *)
(* allocation store, the three annotations that make it durable, and the   *)
(* Pool reconcile that moves pods between them                             *)
(* (kubernetes/internal/controller/allocator.go, the scheduling half of    *)
(* pool_controller.go, recycle/ and eviction/), with the parts of the      *)
(* BatchSandbox reconcile that hand pods back.                             *)
(*                                                                         *)
(* A reconcile of one Pool never overlaps another reconcile of the same    *)
(* Pool (the work queue serialises a key), but everything else does: the   *)
(* BatchSandbox reconcile, users, the kubelet, and a restart of the        *)
(* controller process.  A reconcile is therefore split where it talks to   *)
(* the API server, and between two of its steps anything else may happen.  *)
(*                                                                         *)
(* Abstractions.  A JSON list of pod names is its set of names and, where  *)
(* the code counts it, its length (duplicates count).  Pod names come from *)
(* GenerateName, so a name is never used again once its pod is gone.  How  *)
(* many pods a reconcile creates or deletes is left open: any set of idle  *)
(* pods, which includes what the arithmetic of scalePool would choose.     *)
(***************************************************************************)
EXTENDS Naturals, FiniteSets

CONSTANTS
    Pods,         \* pod names the Pool may generate
    Sandboxes,    \* BatchSandboxes with this poolRef
    NoSandbox,    \* store value of a pod nobody holds
    MaxReplicas,  \* bound on spec.replicas of each sandbox
    Tasked,       \* the sandboxes with a task template
    Recycler,     \* the Pool's recycle strategy, Delete or Noop
    Environment   \* the hazards this instance allows, see Hazards

Hazards ==
    { "restart",     \* the controller process may restart
      "patchError",  \* an API write may fail
      "lostReply",   \* an API write may be applied and its reply lost
      "conflict",    \* an optimistic write may lose a race for the object
      "lag",         \* the informer's BatchSandboxes may trail the API server
      "podLag",      \* and so may its pods
      "detach",      \* a paused sandbox leaves the Pool
      "podLoss",     \* a pod fails its readiness, or somebody else deletes it
      "evict" }      \* pods get the eviction label

ASSUME AllocAssumption ==
    /\ IsFiniteSet(Pods)
    /\ IsFiniteSet(Sandboxes)
    /\ NoSandbox \notin Sandboxes
    /\ MaxReplicas \in [Sandboxes -> Nat \ {0}]
    /\ Tasked \subseteq Sandboxes
    /\ Recycler \in {"delete", "noop"}
    /\ Environment \subseteq Hazards

VARIABLES
    \* the API server
    sbx,        \* the BatchSandbox objects
    pod,        \* life cycle of every pod
    evict,      \* pods with the eviction label
    \* the informer cache and the Pool's key in the work queue
    cache,      \* the BatchSandboxes as the informer last saw them
    podCache,   \* and the pods
    queued,     \* a reconcile of the Pool is due
    \* the allocator
    store,      \* podName -> sandboxName, inMemoryAllocationStore
    recovered,  \* recoverOnce has run
    \* the reconcile in progress
    pc,         \* where it is
    view,       \* its copies of the BatchSandboxes
    listed, ready, marked,  \* pods not terminating, ready, labelled, when listed
    evicted,    \* idle labelled pods, left out of scheduling
    give, back, \* pods to allocate to, and to take back from, each sandbox
    recycled, drop,         \* pods recycled, and to delete
    failed, supply,         \* an error so far, and a sandbox left short
    \* the executors: pods that run a task of the sandbox
    tasks,
    \* history: the sandboxes a pod was handed to since it was last recycled
    users

apiVars == <<sbx, pod, evict>>
ctlVars == <<store, recovered>>
recVars == <<pc, view, listed, ready, marked, evicted, give, back, recycled, drop,
             failed, supply>>
infVars == <<cache, podCache>>
vars == <<apiVars, infVars, queued, ctlVars, recVars, tasks, users>>

-----------------------------------------------------------------------------
(* Objects *)

Finalizers == {"task", "pool"}

PodStates == {"absent", "pending", "ready", "terminating", "gone"}

SandboxObject ==
    [phase    : {"unborn", "live", "deleting", "detached", "gone"},
     replicas : Nat,
     alloc    : SUBSET Pods,      \* annotation alloc-status
     allocLen : Nat,              \* the length of its list
     release  : SUBSET Pods,      \* annotation alloc-release
     released : SUBSET Pods,      \* annotation alloc-released
     fin      : SUBSET Finalizers]

Unborn == [phase |-> "unborn", replicas |-> 0, alloc |-> {}, allocLen |-> 0,
           release |-> {}, released |-> {}, fin |-> {}]

Exists(o) == o.phase \in {"live", "deleting", "detached"}

\* Objects the poolRef index returns and that have no template of their own.
InPool(o) == o.phase \in {"live", "deleting"}

\* pendingPoolPods: allocated and not yet recycled.
Outstanding(o) == o.alloc \ o.released

Alive(p) == pod[p] \in {"pending", "ready"}

\* An object that is being deleted is gone once its last finalizer is.
Settle(o) == IF o.phase = "deleting" /\ o.fin = {} THEN [o EXCEPT !.phase = "gone"] ELSE o

Empty == [s \in Sandboxes |-> {}]

\* What a cached read of the object, or of the pod, returns.
Read(s) == IF "lag" \in Environment THEN cache[s] ELSE sbx[s]
ReadPod(p) == IF "podLag" \in Environment THEN podCache[p] ELSE pod[p]

Idle ==
    /\ pc' = "idle"
    /\ view' = [s \in Sandboxes |-> Unborn]
    /\ listed' = {} /\ ready' = {} /\ marked' = {} /\ evicted' = {} /\ drop' = {}
    /\ give' = Empty /\ back' = Empty /\ recycled' = Empty
    /\ failed' = FALSE /\ supply' = FALSE

Init ==
    /\ sbx = [s \in Sandboxes |-> Unborn]
    /\ pod = [p \in Pods |-> "absent"]
    /\ evict = {}
    /\ cache = [s \in Sandboxes |-> Unborn]
    /\ podCache = [p \in Pods |-> "absent"]
    /\ queued = TRUE
    /\ store = [p \in Pods |-> NoSandbox]
    /\ recovered = FALSE
    /\ pc = "idle"
    /\ view = [s \in Sandboxes |-> Unborn]
    /\ listed = {} /\ ready = {} /\ marked = {} /\ evicted = {} /\ drop = {}
    /\ give = Empty /\ back = Empty /\ recycled = Empty
    /\ failed = FALSE /\ supply = FALSE
    /\ tasks = Empty
    /\ users = [p \in Pods |-> {}]

-----------------------------------------------------------------------------
(* The allocation store *)

\* Mutant: the sandbox's old entries are removed after the new ones are set.
UpdateAllocationClearsLast(st, s, pods) ==
    [p \in Pods |-> IF st[p] = s THEN NoSandbox ELSE IF p \in pods THEN s ELSE st[p]]

UpdateAllocation(st, s, pods) ==
    [p \in Pods |-> IF p \in pods THEN s
                    ELSE IF st[p] = s THEN NoSandbox ELSE st[p]]

ReleaseAllocation(st, pods) == [p \in Pods |-> IF p \in pods THEN NoSandbox ELSE st[p]]

\* Mutant: nothing is recovered.
RecoverNothing == {[p \in Pods |-> NoSandbox]}

\* Mutant: a pod that is still being recycled counts as released.
RecoverSkipsRelease ==
    { [p \in Pods |->
         IF \E s \in Sandboxes : InPool(Read(s)) /\ p \in Read(s).alloc \ Read(s).release
         THEN CHOOSE s \in Sandboxes : InPool(Read(s)) /\ p \in Read(s).alloc \ Read(s).release
         ELSE NoSandbox] }

\* The objects are folded in the order the cache lists them: the last one whose
\* alloc-status names the pod wins, and drops it again if it has released it.
Recover ==
    LET orders == {r \in [Sandboxes -> 1..Cardinality(Sandboxes)] :
                     \A s, t \in Sandboxes : r[s] = r[t] => s = t}
        holders(p) == {s \in Sandboxes : InPool(Read(s)) /\ p \in Read(s).alloc}
        last(p, rank) == {s \in holders(p) : \A t \in holders(p) : rank[t] <= rank[s]}
    IN { st \in [Pods -> Sandboxes \cup {NoSandbox}] :
           \E rank \in orders : \A p \in Pods :
               IF holders(p) = {} THEN st[p] = NoSandbox
               ELSE \E s \in last(p, rank) :
                      st[p] = IF p \in Read(s).released THEN NoSandbox ELSE s }

-----------------------------------------------------------------------------
(* Scheduling *)

\* Mutant: a deleted sandbox hands everything back while its tasks still run.
ToReleaseAtOnce(o) == (IF o.phase = "deleting" THEN o.alloc ELSE o.release) \ o.released

\* getSandboxRequest: what goes back, and how many pods are still wanted.
ToRelease(o) ==
    (IF o.phase = "deleting" /\ "task" \notin o.fin THEN o.alloc ELSE o.release) \ o.released

PodSupplement(o) ==
    IF o.phase = "live" /\ o.replicas > o.allocLen THEN o.replicas - o.allocLen ELSE 0

\* getAllRequest: the sandboxes' own requests and the pods of sandboxes that are gone.
AllRelease(st, objs) ==
    [s \in Sandboxes |-> IF InPool(objs[s]) THEN ToRelease(objs[s])
                         ELSE {p \in Pods : st[p] = s}]

Supplements(objs) ==
    [s \in Sandboxes |-> IF InPool(objs[s]) THEN PodSupplement(objs[s]) ELSE 0]

\* Mutant: the pods given to one request are not taken from the next one's.
PackedScheduleShares(available, need) ==
    { g \in [Sandboxes -> SUBSET available] :
        \A s \in Sandboxes : Cardinality(g[s]) <= need[s] }

\* PackedSchedule over every order of the sandboxes and of the pods: requests are
\* served in full one after the other until the pods run out.
PackedSchedule(available, need) ==
    { g \in [Sandboxes -> SUBSET available] :
        LET short == {s \in Sandboxes : Cardinality(g[s]) < need[s]}
        IN /\ \A s, t \in Sandboxes : s # t => g[s] \cap g[t] = {}
           /\ \A s \in Sandboxes : Cardinality(g[s]) <= need[s]
           /\ short # {} => UNION {g[s] : s \in Sandboxes} = available
           /\ \A s, t \in short : s # t => g[s] = {} \/ g[t] = {} }

-----------------------------------------------------------------------------
(* The Pool reconcile *)

\* Reconcile: list the Pool's pods and BatchSandboxes.
Begin ==
    /\ pc = "idle" /\ queued
    /\ queued' = FALSE
    /\ pc' = "listed"
    /\ view' = [s \in Sandboxes |-> Read(s)]
    /\ listed' = {p \in Pods : ReadPod(p) \in {"pending", "ready"}}
    /\ ready' = {p \in Pods : ReadPod(p) = "ready"}
    /\ marked' = evict \cap listed'
    /\ UNCHANGED <<apiVars, infVars, ctlVars, evicted, give, back, recycled, drop, failed,
                   supply, tasks, users>>

\* Mutant: eviction does not ask who holds the pod.
EvictableAll == marked

\* handleEviction: labelled pods the store does not know are evicted, and left out.
Evictable == {p \in marked : store[p] = NoSandbox}

\* Mutant: evicted pods are still scheduled.
AvailableEvicted(st, out) == {p \in ready : st[p] = NoSandbox}

\* getAvailablePodsFromAlloc on the pods that are left.
Available(st, out) == {p \in ready \ out : st[p] = NoSandbox}

\* handleEviction, then Allocator.Schedule with its lazy recovery.  Eviction looks at
\* the store before recovery has filled it.
Schedule ==
    /\ pc = "listed"
    /\ evicted' = Evictable
    /\ \E done \in SUBSET evicted' :
         /\ "patchError" \notin Environment => done = evicted'
         /\ pod' = [p \in Pods |-> IF p \in done /\ Alive(p) THEN "terminating" ELSE pod[p]]
         /\ queued' = (queued \/ done # {})
    /\ store' \in IF recovered THEN {store} ELSE Recover
    /\ recovered' = TRUE
    /\ give' \in PackedSchedule(Available(store', evicted'), Supplements(view))
    /\ back' = AllRelease(store', view)
    /\ supply' = \E s \in Sandboxes : Cardinality(give'[s]) < Supplements(view)[s]
    /\ pc' = "allocating"
    /\ UNCHANGED <<sbx, evict, infVars, view, listed, ready, marked, recycled, drop, failed,
                   tasks, users>>

\* A merge patch carries no resource version: it overwrites the finalizer list it
\* names.  The API server refuses new finalizers on an object being deleted.
PatchAllowed(o, fin) == Exists(o) /\ (o.phase = "deleting" => fin \subseteq o.fin)

\* SetAllocation on the local copy.
WithAllocation(o, pods) ==
    [o EXCEPT !.alloc = o.alloc \cup pods, !.allocLen = o.allocLen + Cardinality(pods),
              !.fin = o.fin \cup {"pool"}]

\* Mutant: the patch carries no finalizer.
AllocationFinMissing(s) == sbx[s].fin

AllocationFin(s) ==
    IF "pool" \in view[s].fin THEN sbx[s].fin ELSE view[s].fin \cup {"pool"}

PatchAllocation(s) ==
    LET mine == WithAllocation(view[s], give[s])
    IN /\ PatchAllowed(sbx[s], AllocationFin(s))
       /\ sbx' = [sbx EXCEPT ![s] = [@ EXCEPT !.alloc = mine.alloc,
                                              !.allocLen = mine.allocLen,
                                              !.fin = AllocationFin(s)]]
       /\ users' = [p \in Pods |-> IF p \in give[s] THEN users[p] \cup {s} ELSE users[p]]

\* SyncSandboxAllocation when the patch succeeds and its reply arrives.
SyncSandboxAllocation(s) ==
    /\ pc = "allocating" /\ give[s] # {}
    /\ PatchAllocation(s)
    /\ store' = UpdateAllocation(store, s, view[s].alloc \cup give[s])
    /\ view' = [view EXCEPT ![s] = WithAllocation(@, give[s])]
    /\ give' = [give EXCEPT ![s] = {}]
    /\ UNCHANGED <<pod, evict, infVars, queued, recovered, pc, listed, ready, marked,
                   evicted, back, recycled, drop, failed, supply, tasks>>

\* SyncSandboxAllocation when the patch returns an error: the store is rolled back to
\* the old list.  The object may have been patched all the same.
SyncSandboxAllocationFails(s) ==
    /\ pc = "allocating" /\ give[s] # {}
    /\ \/ /\ "patchError" \in Environment \/ ~PatchAllowed(sbx[s], AllocationFin(s))
          /\ UNCHANGED <<sbx, users>>
       \/ "lostReply" \in Environment /\ PatchAllocation(s)
    /\ store' = UpdateAllocation(UpdateAllocation(store, s, view[s].alloc \cup give[s]),
                                 s, view[s].alloc)
    /\ view' = [view EXCEPT ![s] = WithAllocation(@, give[s])]
    /\ give' = [give EXCEPT ![s] = {}]
    /\ failed' = TRUE
    /\ UNCHANGED <<pod, evict, infVars, queued, recovered, pc, listed, ready, marked,
                   evicted, back, recycled, drop, supply, tasks>>

\* The pods scheduling and recycling work on.
SchedulePods == listed \ evicted

\* Mutant: a pod that is not listed is taken for deleted.
AbsentUnlisted(p) == p \notin SchedulePods

\* A pod that is not in the list counts as deleted only if the API server has none.
Absent(p) == p \notin SchedulePods /\ pod[p] \in {"absent", "gone"}

\* Mutant: asking for the deletion is taken for its completion.
TryRecycleEarly(p) == {"succeeded"}

\* What TryRecycle of the Pool's strategy may answer for a pod.
TryRecycle(p) ==
    (IF Recycler = "noop" \/ Absent(p) THEN {"succeeded"}
     ELSE IF p \in SchedulePods \/ Alive(p) THEN {"delete"} ELSE {"recycling"})
    \cup (IF "patchError" \in Environment THEN {"error"} ELSE {})

\* doRecycle, once every allocation has been written.
DoRecycle ==
    /\ pc = "allocating" /\ give = Empty /\ ~failed
    /\ \E answer \in [UNION {back[s] : s \in Sandboxes} ->
                        {"succeeded", "recycling", "delete", "error"}] :
         LET answered(a) == {p \in DOMAIN answer : answer[p] = a}
         IN /\ \A p \in DOMAIN answer : answer[p] \in TryRecycle(p)
            /\ recycled' = [s \in Sandboxes |-> back[s] \cap answered("succeeded")]
            /\ drop' = answered("delete")
            /\ failed' = (answered("error") # {})
            /\ users' = [p \in Pods |->
                           IF p \in answered("succeeded") /\ Recycler # "delete" THEN {}
                           ELSE users[p]]
    /\ pc' = "releasing"
    /\ UNCHANGED <<apiVars, infVars, queued, ctlVars, view, listed, ready, marked, evicted,
                   give, back, supply, tasks>>

\* Mutant: the first release of a deleted sandbox drops the finalizer.
WithReleasedEarly(o, pods) ==
    [o EXCEPT !.released = o.released \cup pods,
              !.fin = IF o.phase = "deleting" THEN o.fin \ {"pool"} ELSE o.fin]

\* SetReleased on the local copy.
WithReleased(o, pods) ==
    [o EXCEPT !.released = o.released \cup pods,
              !.fin = IF o.phase = "deleting" /\ o.alloc \subseteq o.released \cup pods
                      THEN o.fin \ {"pool"} ELSE o.fin]

ReleasedFin(s) ==
    LET mine == WithReleased(view[s], recycled[s])
    IN IF mine.fin = view[s].fin THEN sbx[s].fin ELSE mine.fin

PatchReleased(s) ==
    LET new == Settle([sbx[s] EXCEPT !.released = view[s].released \cup recycled[s],
                                     !.fin = ReleasedFin(s)])
    IN /\ PatchAllowed(sbx[s], ReleasedFin(s))
       /\ sbx' = [sbx EXCEPT ![s] = new]
       /\ queued' = (queued \/ new.phase = "gone")

\* SyncSandboxReleased: the annotation first, then the store, which forgets every pod
\* of the new list whoever holds it.
SyncSandboxReleased(s) ==
    /\ pc = "releasing" /\ InPool(view[s]) /\ recycled[s] # {}
    /\ PatchReleased(s)
    /\ store' = ReleaseAllocation(store, view[s].released \cup recycled[s])
    /\ view' = [view EXCEPT ![s] = WithReleased(@, recycled[s])]
    /\ recycled' = [recycled EXCEPT ![s] = {}]
    /\ UNCHANGED <<pod, evict, infVars, recovered, pc, listed, ready, marked, evicted, give,
                   back, drop, failed, supply, tasks, users>>

SyncSandboxReleasedFails(s) ==
    /\ pc = "releasing" /\ InPool(view[s]) /\ recycled[s] # {}
    /\ \/ /\ "patchError" \in Environment \/ ~PatchAllowed(sbx[s], ReleasedFin(s))
          /\ UNCHANGED <<sbx, queued>>
       \/ "lostReply" \in Environment /\ PatchReleased(s)
    /\ view' = [view EXCEPT ![s] = WithReleased(@, recycled[s])]
    /\ recycled' = [recycled EXCEPT ![s] = {}]
    /\ failed' = TRUE
    /\ UNCHANGED <<pod, evict, infVars, ctlVars, pc, listed, ready, marked, evicted, give,
                   back, drop, supply, tasks, users>>

\* finalizeTerminatingSandboxes, then the release of the orphans' pods.  The finalizer
\* goes by an optimistic update of the current object, which may fail.
DoFinalize ==
    /\ pc = "releasing" /\ \A s \in Sandboxes : InPool(view[s]) => recycled[s] = {}
    /\ LET due == {s \in Sandboxes : /\ view[s].phase = "deleting"
                                     /\ "pool" \in view[s].fin
                                     /\ Outstanding(view[s]) = {}}
       IN \E done \in SUBSET due :
            /\ done = due \/ {"patchError", "conflict"} \cap Environment # {}
            /\ sbx' = [s \in Sandboxes |->
                         IF s \in done /\ Exists(sbx[s])
                         THEN Settle([sbx[s] EXCEPT !.fin = @ \ {"pool"}]) ELSE sbx[s]]
            /\ view' = [s \in Sandboxes |->
                          IF s \in done THEN [view[s] EXCEPT !.fin = @ \ {"pool"}] ELSE view[s]]
            /\ failed' = (failed \/ done # due)
            /\ queued' = (queued \/ \E s \in done : Exists(sbx[s]) /\ ~Exists(sbx'[s]))
    /\ store' = ReleaseAllocation(store, UNION {recycled[s] : s \in Sandboxes})
    /\ recycled' = Empty
    /\ pc' = "scaling"
    /\ UNCHANGED <<pod, evict, infVars, recovered, listed, ready, marked, evicted, give, back,
                   drop, supply, tasks, users>>

\* The rest of the closure runs again on the lists it already has.
Retry ==
    /\ "conflict" \in Environment
    /\ pc' = "listed"
    /\ evicted' = {} /\ drop' = {} /\ give' = Empty /\ back' = Empty /\ recycled' = Empty
    /\ failed' = FALSE /\ supply' = FALSE
    /\ UNCHANGED <<view, listed, ready, marked>>

\* updatePool, scalePool and updatePoolStatus: idle pods and the pods the recycler gave
\* up are deleted, new ones are created, unless the expectations of an earlier round are
\* still open.  The status update may meet a conflict.
Scale ==
    /\ pc = "scaling" /\ ~failed
    /\ \E delete \in SUBSET {p \in SchedulePods : store[p] = NoSandbox \/ p \in drop},
          create \in SUBSET {p \in Pods : pod[p] = "absent"}, pending \in BOOLEAN :
         /\ IF pending THEN delete = {} /\ create = {}
            ELSE drop \cap SchedulePods # {} => delete # {}
         /\ pod' = [p \in Pods |-> IF p \in create THEN "pending"
                                   ELSE IF p \in delete /\ Alive(p) THEN "terminating"
                                   ELSE pod[p]]
         /\ queued' = (queued \/ supply \/ pending \/ pod' # pod
                              \/ \E p \in evicted : Alive(p))
    /\ Idle \/ Retry
    /\ UNCHANGED <<sbx, evict, infVars, ctlVars, tasks, users>>

\* An error before scaling ends the reconcile, and the key is queued again.
Abort ==
    /\ failed
    /\ \/ pc = "allocating" /\ give = Empty /\ Idle
       \/ pc = "scaling" /\ (Idle \/ Retry)
    /\ queued' = TRUE
    /\ UNCHANGED <<apiVars, infVars, ctlVars, tasks, users>>

\* The controller process dies and a new one starts: the store is empty until the first
\* Schedule, the cache is filled anew, and every Pool is queued.
Restart ==
    /\ "restart" \in Environment
    /\ store' = [p \in Pods |-> NoSandbox]
    /\ recovered' = FALSE
    /\ queued' = TRUE
    /\ cache' = IF "lag" \in Environment THEN sbx ELSE cache
    /\ podCache' = IF "podLag" \in Environment THEN pod ELSE podCache
    /\ Idle
    /\ UNCHANGED <<apiVars, tasks, users>>

-----------------------------------------------------------------------------
(* The BatchSandbox reconcile and its users *)

Others == <<pod, evict, infVars, ctlVars, recVars, users>>

\* Mutant: the Pool's watch filter does not let the creation of a sandbox through.
CreateSandboxSilent(s) ==
    /\ sbx[s].phase = "unborn"
    /\ \E n \in 1..MaxReplicas[s] :
         sbx' = [sbx EXCEPT ![s].phase = "live", ![s].replicas = n]
    /\ UNCHANGED <<Others, queued, tasks>>

CreateSandbox(s) ==
    /\ sbx[s].phase = "unborn"
    /\ \E n \in 1..MaxReplicas[s] :
         sbx' = [sbx EXCEPT ![s].phase = "live", ![s].replicas = n]
    /\ queued' = TRUE
    /\ UNCHANGED <<Others, tasks>>

ScaleOut(s) ==
    /\ sbx[s].phase = "live" /\ sbx[s].replicas < MaxReplicas[s]
    /\ sbx' = [sbx EXCEPT ![s].replicas = @ + 1]
    /\ queued' = TRUE
    /\ UNCHANGED <<Others, tasks>>

\* UpdateFinalizer is optimistic: it only succeeds on the object as it is now.
AddTaskFinalizer(s) ==
    /\ s \in Tasked /\ Read(s) = sbx[s]
    /\ sbx[s].phase = "live" /\ "task" \notin sbx[s].fin
    /\ sbx' = [sbx EXCEPT ![s].fin = @ \cup {"task"}]
    /\ UNCHANGED <<Others, queued, tasks>>

\* reconcileTasks gives a task to every pod of alloc-status without alloc-release,
\* once the task finalizer is there.
AssignTask(s, p) ==
    LET o == Read(s)
    IN /\ s \in Tasked /\ o.phase = "live" /\ "task" \in o.fin
       /\ p \in o.alloc \ o.release /\ pod[p] = "ready" /\ p \notin tasks[s]
       /\ tasks' = [tasks EXCEPT ![s] = @ \cup {p}]
       /\ UNCHANGED <<Others, sbx, queued>>

\* A finished task's pod is handed back: releasePods patches alloc-release.
ReleasePod(s, p) ==
    /\ p \in tasks[s] /\ Read(s).phase = "live" /\ Exists(sbx[s])
    /\ tasks' = [tasks EXCEPT ![s] = @ \ {p}]
    /\ sbx' = [sbx EXCEPT ![s].release = Read(s).release \cup {p}]
    /\ queued' = TRUE
    /\ UNCHANGED Others

DeleteSandbox(s) ==
    /\ sbx[s].phase = "live"
    /\ sbx' = [sbx EXCEPT ![s] = Settle([@ EXCEPT !.phase = "deleting"])]
    /\ queued' = TRUE
    /\ UNCHANGED <<Others, tasks>>

\* reconcileDeletion stops the tasks first and drops the task finalizer last.
StopTask(s, p) ==
    /\ Read(s).phase = "deleting" /\ "task" \in Read(s).fin /\ p \in tasks[s]
    /\ tasks' = [tasks EXCEPT ![s] = @ \ {p}]
    /\ UNCHANGED <<Others, sbx, queued>>

\* Mutant: the finalizer does not wait for the tasks.
RemoveTaskFinalizerEarly(s) ==
    /\ Read(s) = sbx[s] /\ sbx[s].phase = "deleting" /\ "task" \in sbx[s].fin
    /\ sbx' = [sbx EXCEPT ![s] = Settle([sbx[s] EXCEPT !.fin = sbx[s].fin \ {"task"}])]
    /\ queued' = TRUE
    /\ UNCHANGED <<Others, tasks>>

\* Mutant: the Pool's watch filter does not let the end of task cleanup through.
RemoveTaskFinalizerSilent(s) ==
    /\ Read(s) = sbx[s] /\ sbx[s].phase = "deleting" /\ "task" \in sbx[s].fin
    /\ tasks[s] = {}
    /\ sbx' = [sbx EXCEPT ![s] = Settle([sbx[s] EXCEPT !.fin = sbx[s].fin \ {"task"}])]
    /\ UNCHANGED <<Others, queued, tasks>>

RemoveTaskFinalizer(s) ==
    /\ Read(s) = sbx[s] /\ sbx[s].phase = "deleting" /\ "task" \in sbx[s].fin
    /\ tasks[s] = {}
    /\ sbx' = [sbx EXCEPT ![s] = Settle([sbx[s] EXCEPT !.fin = sbx[s].fin \ {"task"}])]
    /\ queued' = TRUE
    /\ UNCHANGED <<Others, tasks>>

\* completePause of a pooled sandbox: it gets a template of its own and leaves the Pool
\* without handing its pod back.
Detach(s) ==
    /\ "detach" \in Environment
    /\ Read(s).phase = "live" /\ sbx[s].phase = "live" /\ sbx[s].replicas = 1
    /\ tasks[s] = {} /\ \E p \in Read(s).alloc \ Read(s).release : Alive(p)
    /\ sbx' = [sbx EXCEPT ![s].phase = "detached", ![s].release = {},
                          ![s].fin = Read(s).fin \ {"pool"}]
    /\ queued' = TRUE
    /\ UNCHANGED <<Others, tasks>>

-----------------------------------------------------------------------------
(* Pods and the informer *)

PodTo(p, state) ==
    /\ pod' = [pod EXCEPT ![p] = state]
    /\ queued' = TRUE
    /\ UNCHANGED <<sbx, evict, infVars, ctlVars, recVars, users>>

PodReady(p) == pod[p] = "pending" /\ PodTo(p, "ready") /\ UNCHANGED tasks

PodUnready(p) ==
    "podLoss" \in Environment /\ pod[p] = "ready" /\ PodTo(p, "pending") /\ UNCHANGED tasks

LosePod(p) ==
    "podLoss" \in Environment /\ Alive(p) /\ PodTo(p, "terminating") /\ UNCHANGED tasks

\* A task ends with its pod.
PodGone(p) ==
    /\ pod[p] = "terminating" /\ PodTo(p, "gone")
    /\ tasks' = [s \in Sandboxes |-> tasks[s] \ {p}]

MarkEvict(p) ==
    /\ "evict" \in Environment /\ Alive(p) /\ p \notin evict
    /\ evict' = evict \cup {p}
    /\ queued' = TRUE
    /\ UNCHANGED <<sbx, pod, infVars, ctlVars, recVars, users, tasks>>

CacheSync(s) ==
    /\ "lag" \in Environment /\ cache[s] # sbx[s]
    /\ cache' = [cache EXCEPT ![s] = sbx[s]]
    /\ queued' = TRUE
    /\ UNCHANGED <<apiVars, podCache, ctlVars, recVars, users, tasks>>

PodCacheSync(p) ==
    /\ "podLag" \in Environment /\ podCache[p] # pod[p]
    /\ podCache' = [podCache EXCEPT ![p] = pod[p]]
    /\ queued' = TRUE
    /\ UNCHANGED <<apiVars, cache, ctlVars, recVars, users, tasks>>

-----------------------------------------------------------------------------

PoolStep ==
    \/ Begin \/ Schedule \/ DoRecycle \/ DoFinalize \/ Scale \/ Abort
    \/ \E s \in Sandboxes :
         \/ SyncSandboxAllocation(s) \/ SyncSandboxAllocationFails(s)
         \/ SyncSandboxReleased(s) \/ SyncSandboxReleasedFails(s)

SandboxStep(s) ==
    \/ CreateSandbox(s) \/ ScaleOut(s) \/ AddTaskFinalizer(s) \/ DeleteSandbox(s)
    \/ RemoveTaskFinalizer(s) \/ Detach(s) \/ CacheSync(s)
    \/ \E p \in Pods : AssignTask(s, p) \/ ReleasePod(s, p) \/ StopTask(s, p)

PodStep(p) ==
    \/ PodReady(p) \/ PodUnready(p) \/ LosePod(p) \/ PodGone(p) \/ MarkEvict(p)
    \/ PodCacheSync(p)

Next ==
    \/ PoolStep
    \/ Restart
    \/ \E s \in Sandboxes : SandboxStep(s)
    \/ \E p \in Pods : PodStep(p)

Spec == Init /\ [][Next]_vars

\* Scaling deletes a pod that the recycler gave up.
ScaleDeletes(p) == Scale /\ p \in drop /\ pod'[p] = "terminating"

\* A worker takes a queued Pool and runs its reconcile to the end; pods the recycler gave
\* up come first in pickPodsToDelete, so none is passed over for ever; a terminating pod
\* goes; the BatchSandbox reconcile requeues itself until its cleanup is done.
Fairness ==
    /\ WF_vars(PoolStep)
    /\ \A p \in Pods : WF_vars(PodGone(p)) /\ SF_vars(ScaleDeletes(p))
    /\ \A s \in Sandboxes :
         /\ WF_vars(RemoveTaskFinalizer(s))
         /\ \A p \in Pods : WF_vars(StopTask(s, p))

FairSpec == Spec /\ Fairness

-----------------------------------------------------------------------------
(* Properties *)

PCs == {"idle", "listed", "allocating", "releasing", "scaling"}

\* Every variable keeps its type.
TypeOK ==
    /\ sbx \in [Sandboxes -> SandboxObject]
    /\ cache \in [Sandboxes -> SandboxObject]
    /\ view \in [Sandboxes -> SandboxObject]
    /\ pod \in [Pods -> PodStates]
    /\ podCache \in [Pods -> PodStates]
    /\ store \in [Pods -> Sandboxes \cup {NoSandbox}]
    /\ users \in [Pods -> SUBSET Sandboxes]
    /\ give \in [Sandboxes -> SUBSET Pods]
    /\ back \in [Sandboxes -> SUBSET Pods]
    /\ recycled \in [Sandboxes -> SUBSET Pods]
    /\ tasks \in [Sandboxes -> SUBSET Pods]
    /\ evict \in SUBSET Pods /\ listed \in SUBSET Pods /\ ready \in SUBSET Pods
    /\ marked \in SUBSET Pods /\ evicted \in SUBSET Pods /\ drop \in SUBSET Pods
    /\ pc \in PCs
    /\ {queued, recovered, failed, supply} \subseteq BOOLEAN

\* No pod is allocated to two sandboxes at a time: as long as a pod is in alloc-status
\* and not in alloc-released of one sandbox, no other sandbox of the Pool has it so.
\* The store is what Schedule consults, the annotations are what a sandbox acts on;
\* they are written one after the other, across failures and restarts.
ExclusiveAllocation ==
    \A s, t \in Sandboxes :
        s # t /\ InPool(sbx[s]) /\ InPool(sbx[t])
            => Outstanding(sbx[s]) \cap Outstanding(sbx[t]) = {}

\* A pod serves one sandbox between two recyclings: what one sandbox left in it never
\* meets the next.
CleanHandover == \A p \in Pods : Alive(p) => Cardinality(users[p]) <= 1

\* Between reconciles, a pod that a sandbox has had and that has not been recycled since
\* is never idle in the store: neither a failed write, nor a sandbox that vanished, nor
\* recovery from the annotations may put it back among the available ones.
UsedPodNotIdle ==
    pc = "idle" /\ recovered =>
        \A p \in Pods : Alive(p) /\ users[p] # {} => store[p] \in users[p]

\* A task runs only in a pod of its sandbox that the Pool may not recycle: the sandbox
\* still has its task finalizer, and it has not handed the pod back.
TaskHoldsPod ==
    \A s \in Sandboxes : \A p \in tasks[s] :
        /\ InPool(sbx[s]) /\ "task" \in sbx[s].fin
        /\ p \in Outstanding(sbx[s]) \ sbx[s].release

\* Under the Delete strategy a pod is recorded as recycled only once it no longer exists,
\* and stays on record: a terminating pod, which the listing leaves out, is not enough.
ReleasedPodGone ==
    Recycler = "delete" =>
        \A s \in Sandboxes : \A p \in sbx[s].released : pod[p] = "gone"

\* A sandbox leaves the API server only when none of its pods is alive.
GoneSandboxFreed ==
    Recycler = "delete" =>
        \A s \in Sandboxes : sbx[s].phase = "gone" =>
            \A p \in sbx[s].alloc : ~Alive(p)

\* A sandbox that has pods keeps the pool finalizer until the last one is recycled.
FinalizerGuardsPods ==
    \A s \in Sandboxes :
        InPool(sbx[s]) /\ Outstanding(sbx[s]) # {} => "pool" \in sbx[s].fin

\* The Pool deletes no pod that a sandbox holds and has not handed back, neither by
\* eviction nor by scaling in nor by an update.
HeldPodKept ==
    [][PoolStep => \A p \in Pods :
         Alive(p) /\ pod'[p] = "terminating" =>
            \A s \in Sandboxes :
                InPool(sbx[s]) /\ p \in Outstanding(sbx[s]) =>
                    \/ p \in sbx[s].release
                    \/ sbx[s].phase = "deleting" /\ "task" \notin sbx[s].fin]_vars

\* A pod is alive when it is handed to a sandbox, unless somebody else deleted it.
GivenPodAlive ==
    [][\A s \in Sandboxes, p \in Pods :
         p \in sbx'[s].alloc \ sbx[s].alloc => Alive(p)]_vars

\* A deleted sandbox goes away: its tasks are stopped, its pods recycled, and the last
\* finalizer removed, whatever the Pool was doing when the deletion arrived.  The Pool is
\* woken by watch events only, so each hand-over must be an event its filter lets through.
DeletedSandboxLeaves ==
    \A s \in Sandboxes : sbx[s].phase = "deleting" ~> sbx[s].phase = "gone"

\* A sandbox that waits for a pod does not wait beside an idle ready one.
WaitingSandboxServed ==
    \A s \in Sandboxes :
        PodSupplement(sbx[s]) > 0 ~>
            \/ PodSupplement(sbx[s]) = 0
            \/ \A p \in Pods : pod[p] = "ready" => store[p] # NoSandbox

=============================================================================
