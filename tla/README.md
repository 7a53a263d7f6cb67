# TLA+ models of OpenSandbox

OpenSandbox runs untrusted or ephemeral workloads in sandboxes. This directory models
the parts of it in which several processes decide about the same sandbox, checks them
with TLC on small instances, and proves their central properties with TLAPS for every
value of the constants:

- the Kubernetes operator that hands warm pods to BatchSandboxes (`PoolAllocation`) and
  keeps the size of its Pools (`PoolScaling`);
- the client-side sandbox pool of the Python SDK, several processes over one Redis
  (`ClientPool`, with the abstract specification `SandboxCustody`);
- the snapshots of the lifecycle server (`SnapshotService`);
- the auto-pause of idle fast sandboxes (`IdlePause`).

Paths below are relative to the repository; `controller/` stands for
`kubernetes/internal/controller/`, `sdk/` for
`sdks/sandbox/python/src/opensandbox/`, `server/` for `server/opensandbox_server/`.
`PROJECT.json` lists every part of the system, modelled or not, the source lines of
every definition, and the hazards of the code with the properties that cover them.

## 1. The system

| part | state | hard behaviour |
|---|---|---|
| Allocator, annotation syncer (`controller/allocator.go`) | in-memory map pod → sandbox; alloc-status, alloc-release, alloc-released and two finalizers on the BatchSandbox | lost at a restart and rebuilt lazily; merge patches computed from cached copies; rolled back when a write fails |
| Pool reconcile (`controller/pool_controller.go`) | work-queue key, expectations | rerun on a conflict with the lists of the first attempt; one failed patch of many ends the pass |
| Pool scaling and update (`scalePool`, `pool_update.go`, `utils/expectations`) | expectations per Pool | counts come from a list that trails the Pool's own calls |
| BatchSandbox reconcile (`batchsandbox_controller.go`, `batchsandbox_deletion.go`) | task finalizer, alloc-release, tasks | concurrent with the Pool reconcile on the same object |
| Client pool (`sdk/sync/pool.py`, `redis_pool_store.py`, `_pool_reconciler.py`, `pool_manager.py`) | Redis: idle list, lock, destroy state, target; each process: run, ticks, warmups, queued kills | several leaders one after the other; shutdown, destroy and acquires that overtake each other; replies that get lost |
| Snapshots (`server/services/snapshot_service.py` and runtimes) | rows in SQLite or PostgreSQL, artifacts in a runtime | requests, watches, workers and the recoveries of several servers without a common lock |
| Idle pause (`server/integrations/idle_pause`, `components/ingress/pkg/activity`) | Redis: activity key, tombstone, lock; the Sandbox CR | evidence that expires, arrives late or is lost between two looks |

What correctness means here:

- a pod is never allocated to two sandboxes, what one sandbox left in it never meets the
  next one, no task runs in a pod that may be recycled, a release is recorded only when it
  has happened, and a sandbox disappears only when none of its pods is alive;
- a Pool stays within poolMax and within the pace of `maxUnavailable`, and settles;
- a sandbox of the client pool is in one hand at a time and only moves forward; a drained
  run is over, a destroyed namespace stays empty, no sandbox is left to nobody;
- a READY snapshot can be restored from, and one terminal transition wins;
- no sandbox is paused before its idle time, and an idle one is.

## 2. Modules

| module | content |
|---|---|
| `PoolAllocation` | one Pool, its pods and BatchSandboxes: state machine, fairness, properties |
| `PoolAllocationInv` | `Settled` (the assumption of the proofs) and the inductive invariants `AllocationInv` and `PoolInv` |
| `MCPoolAllocation` | replica functions and the pod symmetry for TLC |
| `PoolAllocationProofs` | proofs: types; every step keeps `AllocationInv`; the theorems about allocation |
| `PoolAllocationHold` | proofs: every step keeps `PoolInv`; a pod in use is left alone, what is handed out is alive |
| `PoolScaling` | the size of one Pool: scaling, rolling update, expectations |
| `MCPoolScaling` | values of `maxUnavailable` and the pod symmetry for TLC |
| `PoolScalingProofs` | proofs: types, poolMax, the ramp of new pods, the buffer that scaling in leaves |
| `ClientPool` | pool instances, callers and managers over one namespace in Redis |
| `SandboxCustody` | what a pool promises about who has a sandbox; `ClientPool` implements it |
| `ClientPoolInv` | the inductive invariant `ClientInv` and its parts |
| `MCClientPool` | the callers' instance and the symmetries for TLC |
| `ClientPoolCustody` | proof: types, and every step is a step of `SandboxCustody` |
| `ClientPoolSteps` | proof: every step keeps the fence of destroy(), the one leader, and who ends a sandbox |
| `ClientPoolProofs` | proof: the counts; the theorems about the client pool |
| `SnapshotService` | rows, artifacts, threads and recoveries of the servers |
| `SnapshotServiceInv` | the inductive invariants `SnapshotInv`, and `CalmInv` for as long as nothing but the repository fails |
| `MCSnapshotService` | the threads of each configuration for TLC |
| `SnapshotServiceProofs` | proofs about snapshots |
| `IdlePause` | sweepers, Redis, writers and the CR; the inductive invariant `IdleInv` |
| `MCIdlePause` | the root module of the run |
| `IdlePauseProofs` | proofs about the idle pause |

`PoolAllocation` and `PoolScaling` share the Pool reconcile and divide it.
`PoolAllocation` cuts a pass at every call, because ownership is decided between calls,
and leaves the number of created and deleted pods open. `PoolScaling` has the numbers and
the lag of the pod list, takes a pass as one step on its list, and leaves open which
sandbox has which pod. The other models do not interact with them.

### PoolAllocation

| variables | in the code |
|---|---|
| `sbx`, `pod`, `evict` | API server: BatchSandbox objects (phase, replicas, annotations, finalizers), pods, eviction label |
| `cache`, `podCache` | the informer's copies; used for reads only when the instance allows lag |
| `queued` | the Pool's key is in the work queue |
| `store`, `recovered` | `inMemoryAllocationStore`, `recoverOnce` |
| `pc`, `view`, `listed`, `ready`, `marked`, `evicted`, `give`, `back`, `recycled`, `drop`, `failed`, `supply` | local variables of one Pool reconcile |
| `tasks` | pods in which an executor runs a task of the sandbox |
| `users` | history variable: the sandboxes a pod served since it was last recycled |

| action | code |
|---|---|
| `Begin` | `Reconcile`: list pods (without terminating ones) and BatchSandboxes |
| `Schedule` | `handleEviction`, then `Allocator.Schedule` with lazy `Recover`, `getAllRequest`, `PackedSchedule` |
| `SyncSandboxAllocation`, `…Fails` | `doAllocate` for one sandbox (any order, as the goroutines finish): store, patch, rollback |
| `DoRecycle` | `doRecycle`: `TryRecycle` on each pod, with the confirming API read for unlisted pods |
| `SyncSandboxReleased`, `…Fails` | `doRelease` for one sandbox: patch, then store |
| `DoFinalize` | `finalizeTerminatingSandboxes` and the release of orphans' pods |
| `Scale` | `updatePool`, `scalePool`, `updatePoolStatus`, requeue rules; `Retry` is the conflict rerun |
| `Abort` | an error ends the pass; a failed allocation ends it before anything is recycled |
| `Restart` | process restart: empty store, fresh cache |
| `CreateSandbox`, `ScaleOut`, `DeleteSandbox` | users; with the events the Pool's predicate lets through |
| `AddTaskFinalizer`, `AssignTask`, `ReleasePod`, `StopTask`, `RemoveTaskFinalizer` | the BatchSandbox reconcile |
| `Detach` | `completePause` of a pooled sandbox |
| `PodReady`, `PodUnready`, `LosePod`, `PodGone`, `MarkEvict`, `CacheSync`, `PodCacheSync` | kubelet, users, informer |

`Environment` selects the hazards an instance allows: `restart`, `patchError`,
`lostReply`, `conflict`, `lag`, `podLag`, `detach`, `podLoss`, `evict`. A hazard that is
off is off for the whole behaviour.

A JSON list of pod names is its set and, for alloc-status, its length: the code compares
the *length* with `replicas`, and duplicates count. Pod names come from `GenerateName`,
so a name is never used again. How many pods `scalePool` creates or deletes is left open:
any set of absent pods, any set of idle or given-up pods. This covers every outcome of
the arithmetic, so safety does not depend on it. Status, events, metrics and conditions
are left out; no modelled step reads them. The Restart strategy is left out.

### PoolScaling

| variables | in the code |
|---|---|
| `pod`, `rev`, `evict`, `template` | API server: pods, their revision and eviction labels, the Pool's template |
| `known`, `queued` | the informer's pods; the Pool's key is in the work queue |
| `expCreate`, `expDelete` | `poolScaleExpectations` of the Pool |
| `held`, `recovered`, `want`, `returned` | pods in the allocation store and whether it is recovered; pods that sandboxes wait for or have handed back |
| `pc`, `listed`, `marked`, `asked`, `back` | the lists of one reconcile |
| `requests` | counts requests and pod failures against `MaxRequests` |

| action | code |
|---|---|
| `Begin` | `Reconcile`: list, `ObserveScale`, `observeDeletedPods` |
| `ScheduleFails` | an error of `scheduleSandbox` ends the pass, or a conflict reruns it |
| `ScalePending` | `scalePool` with open expectations |
| `Scale` | the whole closure of `reconcilePool`: `handleEviction`, scheduling, `updatePool`, `scalePool`, `updatePoolStatus` |
| `Restart` | new process: no expectations, a fresh list, an empty store |
| `AskPod`, `WithdrawPod`, `ReturnPod`, `ChangeTemplate`, `MarkEvict` | users and the BatchSandbox reconcile |
| `PodReady`, `PodUnready`, `LosePod`, `PodGone`, `CacheSync` | kubelet, users, informer |

`Resize` is the arithmetic of `scalePool`; `Outdated` is `Compute` of the update
strategy; `PodsToDelete` is `pickPodsToDelete`. A call of a pass may fail (`error`) or be
carried out without a reply (`lostReply`). A crash in the middle of a pass is a pass whose
later calls failed, followed by `Restart`. Numbers of pods are small and not int32: the
sums are of pod counts and capacities, far below overflow. Only the pod list lags; the
sandboxes, the Pool and the eviction label are read as they are. Pods of equal rank in the
order of deletion are taken in any order. A slot is used again when nothing remembers the
pod that had it.

### ClientPool and SandboxCustody

| variables | in the code |
|---|---|
| `idle`, `lock`, `destroy`, `maxIdle` | the Redis namespace: entries with their expiry class, the primary lock, destroy state, shared target |
| `alive` | the lifecycle server: sandboxes that run |
| `life`, `gen`, `owned`, `accept`, `installed`, `inflight`, `doomed` | `_lifecycle_state`, `_run_generation`, `_primary_owned`, `_accept_warmup_commits`, the executors, `_in_flight`, queued kills |
| `tick`, `stopper`, `task` | the reconcile tick, the thread in `shutdown()`, the warmups of an instance |
| `acq`, `borrowed`, `mgr` | `acquire()` of each caller, what it was given, `destroy()` of each manager |

| actions | code |
|---|---|
| `Start`, `Shutdown`, `ShutdownDrain`, `ShutdownStop`, `ShutdownFinish` | `start()`, `shutdown()` |
| `TickBegin`, `TickLock`, `TickPlan`, `TickShrink`, `TickSubmit`, `TickRetire`, `TickFails`, `TickEnd`, `HeartbeatLost` | one reconcile tick and the renewal of the lock |
| `WarmupCreate`, `LateCreate`, `WarmupStage`, `CanCommitWarmup`, `WarmupPutIdle`, `WarmupRecheck`, `WarmupRemoveIdle`, `WarmupCleanup`, `KillDoomed` | a warmup, cancelled or not, and the queued kills |
| `AcquireCall` … `AcquireEnd`, `CallerDone` | `acquire()` under each policy, and the caller's own kill |
| `Resize`, `ReleaseIdle` | `resize()`, `release_all_idle()` |
| `DestroyBegin`, `DestroyDrain`, `DestroyClear`, `DestroyMark`, `DestroyFails` | `SandboxPoolManager.destroy()` |
| `LockExpires`, `TombstoneExpires`, `Age`, `Die`, `Crash` | Redis, the lifecycle server, the process |

One operator stands for one Lua script of the store. A step is what one thread does
between two points where another can see it: a script, a critical section, a call of the
lifecycle server. The order of the idle list is left out, and an expiry time is one of
three classes: fresh, near, expired. A leader epoch is only compared with the present
one, so a warmup carries `tenure`, TRUE until its epoch ends. The lock has an owner and no
clock: it may be lost at any time where the environment contains `expire`. A take or reap
and the kill that the same thread does next are one step.

`SandboxCustody` knows neither locks nor threads. A sandbox is warmed up, becomes idle,
is taken by one caller and lent to that caller; at every point it may be condemned or be
gone; it never goes back. `ClientPool` instantiates it with the places its threads hold a
sandbox in (`Custody`), and `CustodySpec` is its specification under that mapping.

### SnapshotService

| variables | in the code |
|---|---|
| `backend` | the runtime, and whether the rows are in PostgreSQL |
| `row`, `artifact`, `fresh` | the repository, the runtime, ids not used yet |
| `up`, `thread`, `todo`, `progressed` | each server: its process, its threads (create, read, watch, delete, recover), its recovery pass |
| `faults` | errors of the repository and other faults so far, against `MaxFaults` |

`CreateRequest`, `Submit`, `Persist`, `Work` are `create_snapshot` and the worker;
`ReadRow`, `Inspect`, `Complete`, `Transition` are a read or a watch event that completes
a snapshot; `DeleteRequest`, `Mark`, `RuntimeDelete`, `Drop` are `delete_snapshot`;
`Cleanup` and `Discard` undo what came too late; `ScanList`, `ScanNext`, `ScanEnd` are
`recover_unfinished_snapshots`; `ArtifactEnds` is the runtime; `Crash` and `Restart` the
process. A step is one call of the repository or of the runtime. A server runs one thread
of each role. A row is its state: it has an image exactly when it has been READY. A fault
(`reject`, `lostCreate`, `timeout`, `store`, `inspect`, `delete`, `crash`) is taken from the
budget.

Every call of the repository may raise: the insert in `Persist`, whose request then removes
the runtime object, and `get`, `update_if_state` and `delete` in `StoreFails`. The field
`onError` of a thread says who catches it. A request reports it and a worker only logs it
(`report`), and so does a recovery in the inline retry of a create. Otherwise the recovery
tries to record FAILED (`fail`), and an error of that ends the scan (`abort`): with
PostgreSQL the loop begins again later, without it the constructor fails and the server is
down. A call that raises has had no effect, except that an update or delete in PostgreSQL
mode may have been carried out. `Written` is what the call does to the row.

### IdlePause

| variables | in the code |
|---|---|
| `now`, `policy`, `cr`, `past` | the clock, the idle-policy annotation, the Sandbox CR and its copy in a late informer |
| `key`, `tomb`, `lock` | Redis: the activity key, the unknown-state tombstone, the pause lock |
| `sent`, `owed` | observations on their way to Redis; the record of the last create or resume |
| `rep` | each sweeper: position and locals, with the history fields `known` and `blind` |
| `newest`, `resumedAt`, `events` | history: the newest observation written, the last resume; bounded events |

`Sweep`, `Decide`, `TryAcquire`, `Verify`, `Probe`, `IssuePause`, `Release` are the sweep
of one candidate, one remote call each; the list of CRs and the `MGET` that follows are
one step, and what happens between them is what the informer's copy may be behind by.
`Observe`, `Write`, `Drop` are ingress; `RecordTransition`, `LoseTransition` the record of
a create or resume; `UserPause`, `Resume`, `Renew`, `Reconcile` the lifecycle API and the
CR's controller; `Flush`, `LockExpires`, `Crash`, `Tick` the rest. Time is a counter of
coarse units. The lock's TTL is far below a unit and may run out at any moment. A failed
pause call may have been carried out. `stop()`'s cancellation is a crash, or a release.

## 3. What TLC checks

| run | hazards | properties | shows |
|---|---|---|---|
| `alloc_faults` | restart, patchError, conflict, podLag | AllocationInv, ExclusiveAllocation, CleanHandover, UsedPodNotIdle, TaskHoldsPod, FinalizerGuardsPods, GoneSandboxFreed, HeldPodKept | the Delete strategy is safe under crashes, failed writes, reruns and old pod lists; the invariant of the proofs holds |
| `alloc_departures` | detach, evict, patchError | CleanHandover, HeldPodKept, GivenPodAlive | pause-detach and eviction are safe while the process lives |
| `alloc_stale` | lag, restart, podLoss, lostReply | ReleasedPodGone | release records stay truthful however old the reconcile's copies are |
| `alloc_live` | detach | DeletedSandboxLeaves, WaitingSandboxServed | progress, under `FairSpec` |
| `scale_bounds` | restart, error, conflict, evict | RampInv, PoolMaxKept, RampKept, ScaleInKeepsBuffer | the expectations make up for the lag of the list |
| `scale_live` | podLoss, timeout | PoolSettles | the Pool settles, under `FairSpec`, with `maxUnavailable` 0 |
| `client_callers` | shutdown, age, connectError | DrainedQuiet, AdmissionBound, CustodySpec | two acquires, warmups and a shutdown of one instance interleave; `SandboxCustody` is implemented |
| `client_faults` | every failure, destroy and crash | ClientInv, ExclusiveCustody, DestroyedEmpty | custody and the fence of destroy() survive every failure; the invariant of the proofs holds |
| `client_leaders` | expire, lostReply, destroy, tombstone, restart | NoOrphan, InFlightExact | two instances take the lead from each other without leaking a sandbox or a count |
| `client_live` | crash, destroy | BufferRefilled, DestroyReachesAll | takeover and destroy() come to their end, under `FairSpec` |
| `snapshot_servers` | two to four of all faults | ReadyRestorable, FailedMeansFailed, ArtifactsOwned, OneTerminalTransition, MadeForLiveRow, CreatingEnds, DeletingEnds | five configurations, with a second server that recovers where PostgreSQL allows it |
| `idle_sweepers` | outage, drop, flush, crash, lag | IdleInv, NeverEarly, ResumeRestartsClock, IdleIsPaused | two sweepers and one sandbox: never early, and in the end |

**Bounds.** The instances of `PoolAllocation` have two pods and one or two sandboxes. The
hazards are about *pairs*: two holders of a pod, a former and a present holder, a first
and a second pod of one sandbox. `TwoForWide` gives one sandbox up to two replicas, so that
alloc-status grows in two steps, releases are partial, and scheduling runs short.
`alloc_stale` is about the records of one sandbox and has only one. The instances of
`PoolScaling` have names for more pods than poolMax, so that a pod too many could exist;
two requests are enough for a buffer that is taken and handed back, an update during an
allocation, and an eviction during an update. Larger instances took longer and showed the
same.

`client_callers` has one instance with two callers and two warmups, so that a request and
a warmup, or two requests, race for one sandbox and for the count; `client_leaders` has two
instances without callers, so that leadership changes in the middle of a warmup, and two
runs of each; `client_faults` has one of everything and every failure. Two sandboxes
suffice for one that is handed out and one that is made beside it. The parts of `ClientInv`
were also checked on these three instances (202,000, 1,271,112 and 646,370 states), with
two instances in a steady environment and with one caller in a calm one.

`snapshot_servers` has one snapshot, because rows and artifacts of different ids never
meet. It has four faults on one server, so that a worker's error, a crash and both errors
that end a recovery fit into one behaviour, three on fast-sandbox with PostgreSQL and two on
Kubernetes with PostgreSQL, so that a second failure meets the recovery from the first.
`idle_sweepers` has X = TTL = 2, the tightest pair policy.py allows, and one event beside
the sweeps. Offline, two replicas with two events (2.15 million states) and one replica
with three events and a longer clock (1.15 million states) showed the same.

Deadlock checking is off where the system may rest: every sandbox is gone or served, a
Pool has settled, every run of a client pool has ended, every id is used.

**Fairness.** `FairSpec` of `PoolAllocation` assumes that a queued Pool is reconciled to
the end (controller-runtime's workers), that a terminating pod goes (kubelet), that
`reconcileDeletion` goes on, since it requeues itself until its tasks are stopped, and
strong fairness of deleting a given-up pod: `pickPodsToDelete` puts those first, so a pass
that deletes at all deletes them, although `maxUnavailable` may postpone some. Nothing is
assumed of users, of task completion, or of pods becoming ready. `FairSpec` of
`PoolScaling` assumes that a queued Pool is reconciled, that pods start and end and watch
events arrive, and strong fairness of `Scale`: a pass that finds open expectations asks to
be called again, and after `ExpectationTimeout` it drops them. The timeout passes only when
the list has caught up, since the informer trails by far less than five minutes.
`FairSpec` of `ClientPool` assumes that every thread that can go on does (scheduler,
heartbeat, shutdown, warmups, kills, acquires, destroy), since its calls have timeouts, and
that a lock nobody renews expires. `Spec` of `SnapshotService` assumes the same of requests
and recoveries, that a server that went down is started again, that the runtime comes to
an end, and that somebody reads every CREATING row (on Docker a read does not complete a
row); nothing depends on the callbacks of the watch. `FairSpec` of `IdlePause` assumes that the sweep loop runs and the lock's TTL
ends.

### Boundaries

Outside the environments above some properties fail. These traces were found with TLC and
are not kept as runs; the constants that reproduce them are given.

Allocation and scaling:

- **Recovery under Noop** (one pod, three sandboxes, `OneEach`, `noop`, `{restart}`:
  ExclusiveAllocation). Sandbox *a* had pod *p* and released it; *b* has it now. Both
  objects name *p* in alloc-status, *a* also in alloc-released. `Recover` writes the entry
  for each object in turn and then deletes the released ones *if the entry carries the
  object's own name*, which it has just written. If *a* is listed last, *p* is free after
  the restart although *b* has it. `Delete` is immune because a name never returns.
- **Release history under Noop** (two pods, three sandboxes, `TwoForWide`, `{}`:
  ExclusiveAllocation). `getLatestReleased` passes the whole alloc-released list with each
  new release and `ReleaseAllocation` does not look at the holder, so the second release
  of a sandbox also frees its first pod, which somebody else has by then.
- **Eviction before recovery** (two pods, two sandboxes, `OneEach`, `delete`,
  `{evict, restart}`: HeldPodKept). `handleEviction` consults the store before the first
  `Schedule` has recovered it.
- **Stale BatchSandboxes** (the same with `{lag}`: CleanHandover). A reconcile that sees a
  BatchSandbox from before the last allocation supplies it a second time and overwrites
  annotation and store entry; the first pod becomes idle without being recycled.
- **Update of a full Pool** (poolMax 2, `maxUnavailable` 1). `Compute` takes the budget
  from the pods that are listed and not ready. The first pass deletes one pod and cannot
  create another. Once that pod is gone the list shows one ready pod, so the next pass
  creates the replacement and deletes the second pod: no pod is available.
- `lostReply` refutes UsedPodNotIdle: the patch was applied, the rollback takes the pod out
  of the store (`allocator.go:641`), and nothing puts it back. It also refutes PoolMaxKept:
  a pod is expected only once the reply to `Create` has its generated name.
- `detach` with `restart` refutes CleanHandover: between the detach and the next Pool
  reconcile the store is the only record of the pod.
- `podLag` refutes GivenPodAlive: a pod that scaling just deleted is still ready in the
  cached list. `podLoss` refutes it too, when a pod goes between the list and the patch, and
  refutes RampKept, as it must.
- A held pod that has died counts as allocated until its sandbox hands it back, so the
  buffer may exceed bufferMax by the number of such pods; `PoolSettles` says so.

Client pool:

- **Callers and destroy()** (one node, slot, caller and manager, two sandboxes, MaxIdle 1,
  `DIRECT_CREATE`, `{destroy}`: NoOrphan). docs/guides/client-pool.md:406 says of a sandbox
  obtained just before the fence landed that it "is killed instead of handed out". When the
  namespace is destroyed and the instance's tick has stopped it between the check of the
  namespace and the last check of the run, that check raises PoolDestroyedException, and
  its handlers (`sync/pool.py:395-399` and `485-488`) kill what was put off, or nothing,
  but not the sandbox in hand. A request that leaves its loop at the top (296) or after a
  stale candidate (384) drops the kills it had put off. These are why `Calm` excludes
  shutdown, destroy and outages where there are callers.
- client-pool.md:368 says that shutdown "does not terminate sandboxes already handed to
  callers". A warmup that has put its entry finds in its recheck (840) that its run is over
  and kills the sandbox, although a caller may have taken it in between. In the model this
  is a lent sandbox that dies, which custody allows: a warmup at `recheck`, `remove` or
  `cleanup` is in none of the five abstract sets.
- A `put_idle` that was carried out and whose reply is lost leaves an entry behind whose
  sandbox the warmup kills, since it does not take the entry back. NoOrphan holds, because
  it asks only for sandboxes that run; the entry goes when an acquire fails to connect to
  it or when it expires.
- A lost lock lets the old and the new primary warm up side by side; OSEP-0021:341 accepts
  the overshoot. This is why AdmissionBound is proved under `OneLeader`.
- Crashes and failing kills leave sandboxes to their own expiry, which is why `Calm` excludes
  them.

Snapshots:

- With PostgreSQL the recovery of one server may create the resource again after a peer
  completed the snapshot and a user deleted it: MadeForLiveRow and ArtifactsOwned are
  stated without PostgreSQL.
- On Kubernetes with SQLite, a lost reply to the create, or a crash between the resource
  and the row, leaves a resource without row; a Docker commit that outlives its timeout
  leaves an image. ArtifactsOwned is stated without faults other than those of the
  repository.
- On Docker a worker whose last call of the repository fails is only logged (`565-569`), and
  a read does not complete a row: it stays in CREATING, although the image is there, until
  the server starts again. CreatingEnds says so (`Abandoned`) and that the start completes
  the row; without that exception it is refuted.
- With PostgreSQL an error of the repository that meets a recovery makes it record FAILED
  (`650-661`) for a snapshot whose artifact is good. FailedMeansFailed leaves out behaviours
  with such errors in PostgreSQL mode; without that it is refuted. With SQLite the recovery
  only runs after the server has stopped.
- An INSERT that is committed and whose reply is lost is not modelled: the creator would
  remove the resource of an existing row (`snapshot_service.py:256-267`).

Idle pause:

- The loss of the activity key alone, with the tombstone kept, refutes NeverEarly: the
  tombstone is older than the lost observation (`decision.py:17-18`, `sweeper.py:388-390`
  and oseps/0024:178 say that losing the key only delays a pause). `Flush` loses all keys.
- The record of a resume is written in the background (`fast_sandbox/service.py:648-649`).
  A sweep that looked before it landed may pause; ResumeRestartsClock speaks of the others.

## 4. What is proved

All theorems hold for every value of the constants that the named assumptions allow
(`PoolAssumption`, `ScalingAssumption`, …): any finite number of pods, sandboxes,
instances, callers, servers, sweepers. Each invariant was first checked with TLC.

### PoolAllocation

`TypeCorrect` holds for every instance: both strategies, every subset of the hazards. The
other theorems assume `Settled`: the Delete strategy, and none of `lag`, `lostReply` and
`detach`. What remains is `restart`, `patchError`, `conflict`, `podLag`, `podLoss` and
`evict`, in every combination.

| theorem | states | beside `Settled` |
|---|---|---|
| `AllocationInvariant` | `[]AllocationInv` | |
| `Exclusive` | `[]ExclusiveAllocation` | |
| `Clean` | `[]CleanHandover` | |
| `UsedNotIdle` | `[]UsedPodNotIdle` | |
| `Released` | `[]ReleasedPodGone` | |
| `Freed` | `[]GoneSandboxFreed` | |
| `PoolInvariant` | `[]PoolInv` | |
| `TaskSafe` | `[]TaskHoldsPod` | |
| `FinalizerKept` | `[]FinalizerGuardsPods` | |
| `HeldKept` | `HeldPodKept` | `Attentive`: not both `evict` and `restart` |
| `GivenAlive` | `GivenPodAlive` | `Undisturbed`: neither `podLoss` nor `podLag` |

Section 3 shows that the conditions are needed.

ExclusiveAllocation is not inductive: scheduling looks at the store and the pod lists, not
at the annotations it extends. `AllocationInv` ties them together:

- `AllocInv`: an alloc-status entry is for a dead pod, or its sandbox is in the Pool with
  the pool finalizer and, once recovered, the store names that sandbox. Entries of
  different sandboxes are disjoint, dead pods included.
- `GiveInv`: a pod the reconcile has promised is free in the store, in nobody's
  annotation, and promised once. This keeps the gap between `Schedule` and the patch safe.
- `CopyInv` with `Coherent`: the reconcile's copy of a sandbox has the alloc-status of the
  object, except after a failed patch; such a copy is not used again, because a failed
  allocation ends the pass.
- `RecycledInv` and `BornInv`: a released pod is dead, and names in the annotations belong
  to pods that were created, so a new pod is in nobody's list.
- `CacheInv` with `Seen` and `Dead`: the list of pods may be old. A released pod may be
  ready in it only if it carries the eviction label and is left out for that; any other was
  seen leaving, and what the informer has seen leave does not come back.
- `UnrecoveredInv`: before recovery the store is empty and the reconcile has not got
  beyond its lists; `Recover` then re-establishes `AllocInv`, because under Delete living
  pods have one holder only.
- `UsersInv`: whoever used a pod has it in alloc-status, which turns disjointness of the
  annotations into CleanHandover.

`PoolInv` adds what keeps a pod in use from being touched. A reconcile works on copies of
the BatchSandboxes that were current when it began, while users and the BatchSandbox
reconcile go on:

- `TaskInv`: TaskHoldsPod, and a pod with a task is not gone.
- `ViewInv`: an old copy errs on the safe side. It asks for fewer releases than the object
  and knows of more pods released; a copy that is being deleted belongs to an object that
  is; a copy with nothing outstanding belongs to an object with nothing outstanding.
- `BackInv`: what the reconcile takes back, and gives up to scaling, was handed back, and
  it hands out nothing that it takes back.
- `AttentiveInv`: when labelled pods are evicted the store knows the holders, because
  without restarts it is only unrecovered before the first allocation.
- `ReadyInv`: a pod that is promised is alive. A reconcile that starts over after a conflict
  uses the list it has, and may have deleted idle pods of that list itself. It deletes them
  only in a pass that served every request or had no pod left to offer, so the pass that
  follows promises none of them.

### PoolScaling

| theorem | states | unless the environment has |
|---|---|---|
| `ScalingTypes` | `[]TypeOK` | |
| `PoolMaxHeld` | `[]PoolMaxKept` | `lostReply` |
| `RampInvariant`, `RampHeld` | `[]RampInv`, `[]RampKept` | `lostReply`, `podLoss` |
| `BufferInvariant`, `BufferHeld` | `[]BufferInv`, `ScaleInKeepsBuffer` (for bufferMin ≤ bufferMax) | `lostReply`, `podLoss` |

Section 3 shows that the exclusions are needed. The bound poolMax is not inductive, since a
pass counts the pods of its list. `CountInv` adds that a pod which exists is known to the
informer or expected, and that during a pass it is in the list or expected. A pass creates
pods only when no expectation is open, or when the open ones have timed out and none of the
expected pods exists; then the list has every pod, and what is created fits between the
list and poolMax (`CreateBound`). `RampInv` adds that a starting pod is listed as starting
or not at all, so that `countNotReadyPods` counts it, and that the pods left out as evicted
do have the label. `AttemptEffect` reduces the three actions of a pass to what the
invariants need of them.

`BufferInv` says that a pod which the list calls ready is ready, or is labelled, or its
deletion is expected. A pass scales in only with no expectation open, so the idle pods it
counts as ready are. `desiredSchedulable` has every stored pod, every unserved request,
every outdated pod and the desired buffer, so that deleting down to it leaves at least
bufferMin idle pods of the current revision (`ScaleInBound`). `pickPodsToDelete` takes a
ready pod only after those that are not, so all of what it leaves is ready (`PickLeaves`,
`RankedReady`).

### ClientPool

| theorem | states | under |
|---|---|---|
| `CustodyInvariant`, `ClientTypes`, `OneHand` | `[]CustodyInv`, `[]TypeOK`, `[]ExclusiveCustody` | |
| `Refinement` | `Spec => CustodySpec` | |
| `CountInvariant`, `DestroyFences`, `ExactCount`, `DrainComplete` | `[](DestroyInv /\ CountInv)`, `[]DestroyedEmpty`, `[]InFlightExact`, `[]DrainedQuiet` | |
| `AdmissionInvariant`, `AdmissionBounded` | `[]AdmissionInv`, `[]AdmissionBound` | `OneLeader` |
| `OrphanInvariant`, `NothingOrphaned` | `[]OrphanInv`, `[]NoOrphan` | `Calm` |
| `ClientInvariant` | `[]ClientInv` | |

Everything without a condition holds in every environment: any failures, lost locks,
crashes, restarts, several managers.

- *Custody.* `AloneInv` says that nobody but its warmup refers to a sandbox that is not in
  the buffer yet, and that a request has not put off the kill of what it holds. With it each
  action moves sandboxes only along the arrows of `SandboxCustody`: one lemma per thread
  (`LifecycleMoves`, `ReconcileMoves`, `WarmupStepMoves`, `EnterMoves`, …) states how the
  five abstract sets change, and `CustodyStep` concludes with types and the abstract step
  together. `Refinement` follows from that step and `CustodyInit`.
- *Fence.* Entries and the lock are added only while the namespace is active (`Fenced`),
  and it is not active while a manager destroys it.
- *Counts.* `Counted` lists what a step may do to the operations of an instance and to
  `_in_flight`: nothing, begin or end one, submit one, or lose everything. Cardinalities
  come in only there (`CountKept`). A drain that saw zero therefore saw an empty run, and
  `StopInv` with the run generation keeps it from being entered again.
- *Admission* (`OneLeader`: one instance, or nothing makes the primary lose the lock). A
  tick that is about to submit has counted every entry and every warmup, since
  `warming_count` is read before the entries; with two leaders this is false, and
  OSEP-0021 accepts it.
- *Orphans* (`Calm`: no crash, no failing kill, and with callers no shutdown, destroy or
  outage). `OrphanInv` says for each place of a thread that its sandbox is dead or has
  somebody else to end it. A step adds nothing to `alive` that its own thread does not
  refer to, and takes a sandbox from a place only into another or into a kill.

### SnapshotService

`SnapshotInvariant`, `Restorable` (`[]ReadyRestorable`), `OneTransition`
(`OneTerminalTransition`) and `MadeForLive` (`MadeForLiveRow`) hold for any servers,
snapshots, configurations and number of faults. `SnapshotInv` says that an artifact is
only removed when its row is *past*, going or gone for good (`PastInv`), that a READY which
a thread saw stays true until then (`SeenInv`), that a request which opens a snapshot is
alone with it (`OpenInv`), and that without PostgreSQL the recovery has the rows for itself
(`ScanInv`).

An update, a mark and a delete that succeed, or that raise after they were carried out, are
covered by one lemma about `Written` (`WriteMoves`). An error that ends the recovery without
PostgreSQL leaves no thread at all, because the recovery runs alone (`Alone`).

`FailedTrue` (`[]FailedMeansFailed`) and `NothingForgotten` (`[]ArtifactsOwned`) are about
behaviours in which nothing but the repository has failed yet, and rest on `CalmInvariant`:
until another fault, no server is down, a row in CREATING has its artifact as soon as a
second thread may look, a FAILED that a thread saw is true unless a recovery in PostgreSQL
mode has met an error (`Misjudged`), a Docker commit runs only for a row that waits for it,
and whoever removes a row, finds it gone or cannot write it also removes the artifact
(`CalmInv`).

### IdlePause

`IdleInvariant` (`[]IdleInv`), `PauseNeverEarly` (`[]NeverEarly`) and `ResumeProtected`
(`ResumeRestartsClock`) hold for any number of sweepers, thresholds up to the TTL, write
delays and faults. `RedisInv` relates the key and the tombstone to the newest observation;
`ReadInv`, `JudgedInv` and `PauseInv` say what a sweep may conclude at each position from
what it read, although the key may expire, be lost or move on behind it.

### Only model-checked

- The liveness properties: PoolSettles, DeletedSandboxLeaves, WaitingSandboxServed,
  BufferRefilled, DestroyReachesAll, CreatingEnds, DeletingEnds, IdleIsPaused. Fairness and
  ENABLED are out of the prover's reach.
- The environments that the conditions of the theorems leave out. Of the runs these are
  `detach` in `alloc_departures`, `lag` and `lostReply` in `alloc_stale`. With them store,
  annotations and copies drift apart, so the invariants above do not hold there; those the
  properties would need are not worked out.

Every safety property that a run checks is also a theorem. `PoolInv`, `BufferInv` and
`CalmInv`, which no run lists, were checked before their proofs: `PoolInv` on two pods and
two sandboxes with `{podLag, restart, patchError, conflict}` (1,074,326 states),
`{podLag, evict, conflict}` (3,788,845), `{podLag, podLoss, conflict, patchError}`
(4,696,821), its part `ReadyInv` with `{conflict, evict, restart, patchError}` (1,714,893),
`BufferInv` with
`{restart, error, conflict, evict, timeout}` (196,724), `CalmInv` on
the instance of `snapshot_servers` (103,583).


## 5. Not modelled

- **Task scheduler and task executor**: assignment, status collection and recovery after a
  restart of either side; `PoolAllocation` has only tasks that run, end or are stopped.
- **Pause and resume** of BatchSandboxes with the SandboxSnapshot controller: phases, queued
  requests, commit job, recovery budget; only the detaching end of a pause is modelled.
- **Teardown of a Pool**: deletion and re-creation, the legacy backfill, `ClearAllocation`.
- The **Restart** recycle strategy, and the assignment of sandboxes to Pools (a selection
  without protocol state).
- **asyncio client pool and in-memory stores**, and the client pools of other languages:
  second implementations of the same protocol.
- **Renew on access** (intents in Redis), wake on access in ingress, the revisions of
  egress, the sessions of execd, the checkpoints of nodeagent: candidates for models of
  their own.
- In `SnapshotService`: tenants, pagination, the preflight, the size of the worker pool, a
  READY status without image. In `IdlePause`: namespaces, tenants, the annotation written
  for clients, the uid fence.
- Image committer, QEMU helpers, telemetry, configuration, CLI and console: I/O and wiring.
