------------------------ MODULE PoolAllocationProofs ------------------------
(***************************************************************************)
(* Type correctness of PoolAllocation, for any number of pods and          *)
(* sandboxes and in every environment; and AllocationInv is inductive: it  *)
(* is kept by users, the BatchSandbox reconcile, the kubelet and restarts,  *)
(* and by every step of the Pool reconcile.  Exclusive allocation follows. *)
(***************************************************************************)
EXTENDS PoolAllocationInv, FiniteSetTheorems, TLAPS

-----------------------------------------------------------------------------
(* Types *)

\* A set of pods has a size.
LEMMA PodsCardinality == \A S \in SUBSET Pods : IsFiniteSet(S) /\ Cardinality(S) \in Nat
BY FS_Subset, FS_CardinalityType, AllocAssumption, Zenon

\* The object constructors stay within SandboxObject.
LEMMA UnbornType == Unborn \in SandboxObject
BY Zenon DEF Unborn, SandboxObject, Finalizers

LEMMA SettleType == ASSUME NEW o \in SandboxObject PROVE Settle(o) \in SandboxObject
BY Zenon DEF Settle, SandboxObject

LEMMA DropFinType ==
    ASSUME NEW o \in SandboxObject, NEW f PROVE [o EXCEPT !.fin = @ \ {f}] \in SandboxObject
BY Zenon DEF SandboxObject

LEMMA WithAllocationType ==
    ASSUME NEW o \in SandboxObject, NEW pods \in SUBSET Pods
    PROVE  WithAllocation(o, pods) \in SandboxObject
<1> DEFINE n == o.allocLen + Cardinality(pods)
<1>1. n \in Nat
  BY PodsCardinality DEF SandboxObject
<1> HIDE DEF n
<1>2. [o EXCEPT !.alloc = o.alloc \cup pods, !.allocLen = n, !.fin = o.fin \cup {"pool"}]
        \in SandboxObject
  BY <1>1, Zenon DEF SandboxObject, Finalizers
<1> QED
  BY <1>2, Zenon DEF WithAllocation, n

LEMMA WithReleasedType ==
    ASSUME NEW o \in SandboxObject, NEW pods \in SUBSET Pods
    PROVE  WithReleased(o, pods) \in SandboxObject
BY Zenon DEF WithReleased, SandboxObject, Finalizers

LEMMA IdleType ==
    ASSUME Idle
    PROVE  /\ view' \in [Sandboxes -> SandboxObject]
           /\ give' \in [Sandboxes -> SUBSET Pods]
           /\ back' \in [Sandboxes -> SUBSET Pods]
           /\ recycled' \in [Sandboxes -> SUBSET Pods]
           /\ listed' \in SUBSET Pods /\ ready' \in SUBSET Pods /\ marked' \in SUBSET Pods
           /\ evicted' \in SUBSET Pods /\ drop' \in SUBSET Pods
           /\ pc' \in PCs /\ failed' \in BOOLEAN /\ supply' \in BOOLEAN
BY UnbornType, Zenon DEF Idle, Empty, PCs

LEMMA RetryType ==
    ASSUME Retry, TypeOK
    PROVE  /\ view' \in [Sandboxes -> SandboxObject]
           /\ give' \in [Sandboxes -> SUBSET Pods]
           /\ back' \in [Sandboxes -> SUBSET Pods]
           /\ recycled' \in [Sandboxes -> SUBSET Pods]
           /\ listed' \in SUBSET Pods /\ ready' \in SUBSET Pods /\ marked' \in SUBSET Pods
           /\ evicted' \in SUBSET Pods /\ drop' \in SUBSET Pods
           /\ pc' \in PCs /\ failed' \in BOOLEAN /\ supply' \in BOOLEAN
BY Zenon DEF Retry, TypeOK, Empty, PCs

LEMMA PatchAllocationType ==
    ASSUME TypeOK, NEW s \in Sandboxes, PatchAllocation(s)
    PROVE  sbx' \in [Sandboxes -> SandboxObject] /\ users' \in [Pods -> SUBSET Sandboxes]
<1> DEFINE mine == WithAllocation(view[s], give[s])
<1>1. mine \in SandboxObject
  BY WithAllocationType, Zenon DEF TypeOK
<1>2. sbx[s] \in SandboxObject /\ view[s] \in SandboxObject
  BY Zenon DEF TypeOK
<1>3. AllocationFin(s) \in SUBSET Finalizers
  BY <1>2, Zenon DEF AllocationFin, SandboxObject, Finalizers
<1>4. \A l, a, f, o : o \in SandboxObject /\ l \in Nat /\ a \in SUBSET Pods /\ f \in SUBSET Finalizers
        => [o EXCEPT !.alloc = a, !.allocLen = l, !.fin = f] \in SandboxObject
  BY ZenonT(30) DEF SandboxObject
<1>5. mine.alloc \in SUBSET Pods /\ mine.allocLen \in Nat
  BY <1>1, Zenon DEF SandboxObject
<1> HIDE DEF mine
<1> DEFINE new == [sbx[s] EXCEPT !.alloc = mine.alloc, !.allocLen = mine.allocLen,
                                 !.fin = AllocationFin(s)]
<1>6. new \in SandboxObject
  BY <1>2, <1>3, <1>4, <1>5, Zenon
<1>7. sbx' = [sbx EXCEPT ![s] = new]
  BY Zenon DEF PatchAllocation, mine
<1> HIDE DEF new
<1> QED
  BY <1>6, <1>7 DEF PatchAllocation, TypeOK

LEMMA PatchReleasedType ==
    ASSUME TypeOK, NEW s \in Sandboxes, PatchReleased(s)
    PROVE  sbx' \in [Sandboxes -> SandboxObject] /\ queued' \in BOOLEAN
<1>1. sbx[s] \in SandboxObject /\ view[s] \in SandboxObject /\ recycled[s] \in SUBSET Pods
  BY Zenon DEF TypeOK
<1>2. ReleasedFin(s) \in SUBSET Finalizers
  BY <1>1, WithReleasedType, Zenon DEF ReleasedFin, SandboxObject
<1> DEFINE o == [sbx[s] EXCEPT !.released = view[s].released \cup recycled[s],
                               !.fin = ReleasedFin(s)]
<1>3. o \in SandboxObject
  BY <1>1, <1>2, Zenon DEF SandboxObject
<1> HIDE DEF o
<1>4. Settle(o) \in SandboxObject
  BY <1>3, SettleType, Zenon
<1>5. sbx' = [sbx EXCEPT ![s] = Settle(o)]
  BY Zenon DEF PatchReleased, o
<1>6. queued' \in BOOLEAN
  BY Zenon DEF PatchReleased, TypeOK
<1> QED
  BY <1>4, <1>5, <1>6, Zenon DEF TypeOK

LEMMA RecoverType == Recover \subseteq [Pods -> Sandboxes \cup {NoSandbox}]
BY Zenon DEF Recover

LEMMA TypeInit == Init => TypeOK
<1> SUFFICES ASSUME Init PROVE TypeOK
  OBVIOUS
<1>1. /\ sbx \in [Sandboxes -> SandboxObject]
      /\ cache \in [Sandboxes -> SandboxObject]
      /\ view \in [Sandboxes -> SandboxObject]
  BY UnbornType, Zenon DEF Init
<1>2. /\ pod \in [Pods -> PodStates]
      /\ podCache \in [Pods -> PodStates]
      /\ store \in [Pods -> Sandboxes \cup {NoSandbox}]
      /\ users \in [Pods -> SUBSET Sandboxes]
      /\ give \in [Sandboxes -> SUBSET Pods]
      /\ back \in [Sandboxes -> SUBSET Pods]
      /\ recycled \in [Sandboxes -> SUBSET Pods]
      /\ tasks \in [Sandboxes -> SUBSET Pods]
  BY Zenon DEF Init, Empty, PodStates
<1> QED
  BY <1>1, <1>2, Zenon DEF Init, TypeOK, PCs

LEMMA TypePool == ASSUME TypeOK, PoolStep PROVE TypeOK'
<1>1. CASE Begin
  BY <1>1, Zenon DEF Begin, TypeOK, PCs, Read, ReadPod, apiVars, infVars, ctlVars
<1>2. CASE Schedule
  <2>1. /\ store' \in [Pods -> Sandboxes \cup {NoSandbox}]
        /\ evicted' \in SUBSET Pods
        /\ pod' \in [Pods -> PodStates]
        /\ queued' \in BOOLEAN /\ supply' \in BOOLEAN /\ recovered' \in BOOLEAN
    BY <1>2, RecoverType, Zenon DEF Schedule, TypeOK, Evictable, PodStates
  <2>2. give' \in [Sandboxes -> SUBSET Pods]
    BY <1>2, Zenon DEF Schedule, TypeOK, PackedSchedule, Available
  <2>3. back' \in [Sandboxes -> SUBSET Pods]
    BY <1>2, Zenon DEF Schedule, TypeOK, AllRelease, ToRelease, SandboxObject
  <2> QED
    BY <1>2, <2>1, <2>2, <2>3, Zenon DEF Schedule, TypeOK, PCs, infVars
<1>3. CASE DoRecycle
  <2>1. PICK answer \in [UNION {back[s] : s \in Sandboxes} ->
                           {"succeeded", "recycling", "delete", "error"}] :
          /\ recycled' = [s \in Sandboxes |->
                             back[s] \cap {p \in DOMAIN answer : answer[p] = "succeeded"}]
          /\ drop' = {p \in DOMAIN answer : answer[p] = "delete"}
          /\ failed' = ({p \in DOMAIN answer : answer[p] = "error"} # {})
          /\ users' = [p \in Pods |->
                          IF p \in {q \in DOMAIN answer : answer[q] = "succeeded"}
                             /\ Recycler # "delete" THEN {} ELSE users[p]]
    BY <1>3, Zenon DEF DoRecycle
  <2>2. UNION {back[s] : s \in Sandboxes} \subseteq Pods
    BY DEF TypeOK
  <2> QED
    BY <1>3, <2>1, <2>2 DEF DoRecycle, TypeOK, PCs, apiVars, infVars, ctlVars
<1>4. CASE DoFinalize
  <2>1. \A s \in Sandboxes : Settle([sbx[s] EXCEPT !.fin = @ \ {"pool"}]) \in SandboxObject
    <3> TAKE s \in Sandboxes
    <3>1. [sbx[s] EXCEPT !.fin = @ \ {"pool"}] \in SandboxObject
      BY DropFinType, Zenon DEF TypeOK
    <3> QED
      BY <3>1, SettleType, Zenon
  <2>2. \A s \in Sandboxes : [view[s] EXCEPT !.fin = @ \ {"pool"}] \in SandboxObject
    BY DropFinType, Zenon DEF TypeOK
  <2>3. sbx' \in [Sandboxes -> SandboxObject] /\ view' \in [Sandboxes -> SandboxObject]
    BY <1>4, <2>1, <2>2 DEF DoFinalize, TypeOK
  <2>4. failed' \in BOOLEAN /\ queued' \in BOOLEAN
    BY <1>4, Zenon DEF DoFinalize, TypeOK
  <2> QED
    BY <1>4, <2>3, <2>4, Zenon DEF DoFinalize, TypeOK, PCs, ReleaseAllocation, Empty, infVars
<1>5. CASE Scale
  <2>1. pod' \in [Pods -> PodStates] /\ queued' \in BOOLEAN
    BY <1>5, Zenon DEF Scale, TypeOK, PodStates
  <2> QED
    BY <1>5, <2>1, IdleType, RetryType, Zenon DEF Scale, TypeOK, infVars, ctlVars
<1>6. CASE Abort
  BY <1>6, IdleType, RetryType, Zenon DEF Abort, TypeOK, apiVars, infVars, ctlVars
<1>7. ASSUME NEW s \in Sandboxes, SyncSandboxAllocation(s) PROVE TypeOK'
  <2>1. WithAllocation(view[s], give[s]) \in SandboxObject
    BY WithAllocationType, Zenon DEF TypeOK
  <2> QED
    BY <1>7, <2>1, PatchAllocationType, Zenon
    DEF SyncSandboxAllocation, TypeOK, UpdateAllocation, infVars
<1>8. ASSUME NEW s \in Sandboxes, SyncSandboxAllocationFails(s) PROVE TypeOK'
  <2>1. WithAllocation(view[s], give[s]) \in SandboxObject
    BY WithAllocationType, Zenon DEF TypeOK
  <2>2. sbx' \in [Sandboxes -> SandboxObject] /\ users' \in [Pods -> SUBSET Sandboxes]
    BY <1>8, PatchAllocationType, Zenon DEF SyncSandboxAllocationFails, TypeOK
  <2> QED
    BY <1>8, <2>1, <2>2, Zenon DEF SyncSandboxAllocationFails, TypeOK, UpdateAllocation, infVars
<1>9. ASSUME NEW s \in Sandboxes, SyncSandboxReleased(s) PROVE TypeOK'
  <2>1. WithReleased(view[s], recycled[s]) \in SandboxObject
    BY WithReleasedType, Zenon DEF TypeOK
  <2> QED
    BY <1>9, <2>1, PatchReleasedType, Zenon
    DEF SyncSandboxReleased, TypeOK, ReleaseAllocation, infVars
<1>10. ASSUME NEW s \in Sandboxes, SyncSandboxReleasedFails(s) PROVE TypeOK'
  <2>1. WithReleased(view[s], recycled[s]) \in SandboxObject
    BY WithReleasedType, Zenon DEF TypeOK
  <2>2. sbx' \in [Sandboxes -> SandboxObject] /\ queued' \in BOOLEAN
    BY <1>10, PatchReleasedType DEF SyncSandboxReleasedFails, TypeOK
  <2> QED
    BY <1>10, <2>1, <2>2, Zenon DEF SyncSandboxReleasedFails, TypeOK, infVars, ctlVars
<1> QED
  BY <1>1, <1>2, <1>3, <1>4, <1>5, <1>6, <1>7, <1>8, <1>9, <1>10, Zenon DEF PoolStep

LEMMA TypeSandbox == ASSUME TypeOK, NEW s \in Sandboxes, SandboxStep(s) PROVE TypeOK'
<1> USE DEF Others, recVars, infVars, ctlVars, apiVars
<1>0. sbx[s] \in SandboxObject
  BY Zenon DEF TypeOK
<1>1. CASE CreateSandbox(s)
  <2>1. PICK n \in 1..MaxReplicas[s] :
          sbx' = [sbx EXCEPT ![s].phase = "live", ![s].replicas = n]
    BY <1>1, Zenon DEF CreateSandbox
  <2>2. n \in Nat
    BY AllocAssumption
  <2>3. [[sbx[s] EXCEPT !.phase = "live"] EXCEPT !.replicas = n] \in SandboxObject
    BY <1>0, <2>2, Zenon DEF SandboxObject
  <2>4. sbx' \in [Sandboxes -> SandboxObject]
    BY <2>1, <2>3, Zenon DEF TypeOK
  <2> QED
    BY <1>1, <2>4, Zenon DEF CreateSandbox, TypeOK
<1>2. CASE ScaleOut(s)
  <2>1. sbx' = [sbx EXCEPT ![s] = [sbx[s] EXCEPT !.replicas = sbx[s].replicas + 1]]
    BY <1>2, Zenon DEF ScaleOut
  <2>2. sbx[s].replicas + 1 \in Nat
    BY <1>0 DEF SandboxObject
  <2>3. [sbx[s] EXCEPT !.replicas = sbx[s].replicas + 1] \in SandboxObject
    BY <1>0, <2>2, Zenon DEF SandboxObject
  <2> QED
    BY <1>2, <2>1, <2>3 DEF ScaleOut, TypeOK
<1>3. CASE AddTaskFinalizer(s)
  <2>1. [sbx[s] EXCEPT !.fin = sbx[s].fin \cup {"task"}] \in SandboxObject
    BY <1>0, Zenon DEF SandboxObject, Finalizers
  <2> QED
    BY <1>3, <2>1, Zenon DEF AddTaskFinalizer, TypeOK
<1>4. CASE DeleteSandbox(s)
  <2>1. [sbx[s] EXCEPT !.phase = "deleting"] \in SandboxObject
    BY <1>0, Zenon DEF SandboxObject
  <2> QED
    BY <1>4, <2>1, SettleType, Zenon DEF DeleteSandbox, TypeOK
<1>5. CASE RemoveTaskFinalizer(s)
  <2> DEFINE o == Settle([sbx[s] EXCEPT !.fin = sbx[s].fin \ {"task"}])
  <2>0. [sbx[s] EXCEPT !.fin = sbx[s].fin \ {"task"}] \in SandboxObject
    BY <1>0, DropFinType, Zenon
  <2>1. o \in SandboxObject
    BY <2>0, SettleType, Zenon
  <2>2. sbx' = [sbx EXCEPT ![s] = o]
    BY <1>5, Zenon DEF RemoveTaskFinalizer
  <2> HIDE DEF o
  <2> QED
    BY <1>5, <2>1, <2>2 DEF RemoveTaskFinalizer, TypeOK
<1>6. CASE Detach(s)
  <2>1. Read(s) \in SandboxObject
    BY Zenon DEF Read, TypeOK
  <2> DEFINE f == Read(s).fin \ {"pool"}
  <2>2. f \in SUBSET Finalizers
    BY <2>1, Zenon DEF SandboxObject
  <2>3. sbx' = [sbx EXCEPT ![s].phase = "detached", ![s].release = {}, ![s].fin = f]
    BY <1>6, Zenon DEF Detach
  <2> HIDE DEF f
  <2>4. [[[sbx[s] EXCEPT !.phase = "detached"] EXCEPT !.release = {}] EXCEPT !.fin = f]
          \in SandboxObject
    BY <1>0, <2>2, Zenon DEF SandboxObject
  <2>5. sbx' \in [Sandboxes -> SandboxObject]
    BY <2>3, <2>4, Zenon DEF TypeOK
  <2> QED
    BY <1>6, <2>5, Zenon DEF Detach, TypeOK
<1>7. CASE CacheSync(s)
  BY <1>0, <1>7, Zenon DEF CacheSync, TypeOK
<1>8. ASSUME NEW p \in Pods, AssignTask(s, p) PROVE TypeOK'
  BY <1>8, Zenon DEF AssignTask, TypeOK
<1>9. ASSUME NEW p \in Pods, ReleasePod(s, p) PROVE TypeOK'
  <2>1. Read(s).release \cup {p} \in SUBSET Pods
    BY Zenon DEF Read, TypeOK, SandboxObject
  <2>2. [sbx[s] EXCEPT !.release = Read(s).release \cup {p}] \in SandboxObject
    BY <1>0, <2>1, Zenon DEF SandboxObject
  <2> QED
    BY <1>9, <2>2, Zenon DEF ReleasePod, TypeOK
<1>10. ASSUME NEW p \in Pods, StopTask(s, p) PROVE TypeOK'
  BY <1>10, Zenon DEF StopTask, TypeOK
<1> QED
  BY <1>1, <1>2, <1>3, <1>4, <1>5, <1>6, <1>7, <1>8, <1>9, <1>10, Zenon DEF SandboxStep

LEMMA TypePod == ASSUME TypeOK, NEW p \in Pods, PodStep(p) PROVE TypeOK'
<1> USE DEF recVars, infVars, ctlVars, apiVars
<1>1. ASSUME NEW st \in PodStates, PodTo(p, st), tasks' \in [Sandboxes -> SUBSET Pods]
      PROVE  TypeOK'
  BY <1>1, Zenon DEF PodTo, TypeOK
<1>2. CASE PodReady(p) \/ PodUnready(p) \/ LosePod(p)
  BY <1>1, <1>2, Zenon DEF PodReady, PodUnready, LosePod, TypeOK, PodStates
<1>3. CASE PodGone(p)
  <2>1. tasks' \in [Sandboxes -> SUBSET Pods]
    BY <1>3, Zenon DEF PodGone, TypeOK
  <2> QED
    BY <1>1, <1>3, <2>1, Zenon DEF PodGone, PodStates
<1>4. CASE MarkEvict(p)
  BY <1>4, Zenon DEF MarkEvict, TypeOK
<1>5. CASE PodCacheSync(p)
  BY <1>5, Zenon DEF PodCacheSync, TypeOK
<1> QED
  BY <1>2, <1>3, <1>4, <1>5, Zenon DEF PodStep

\* Every reachable state is well typed, in every environment.
THEOREM TypeCorrect == Spec => []TypeOK
<1>1. TypeOK /\ [Next]_vars => TypeOK'
  <2> SUFFICES ASSUME TypeOK, [Next]_vars PROVE TypeOK'
    OBVIOUS
  <2>1. CASE Restart
    BY <2>1, IdleType, Zenon DEF Restart, TypeOK, apiVars
  <2>2. CASE UNCHANGED vars
    BY <2>2, Zenon DEF vars, TypeOK, recVars, infVars, ctlVars, apiVars
  <2> QED
    BY <2>1, <2>2, TypePool, TypeSandbox, TypePod, Zenon DEF Next
<1> QED
  BY <1>1, TypeInit, PTL DEF Spec

-----------------------------------------------------------------------------
(* What the writes do to the fields of an object *)

LEMMA WithAllocationFields ==
    ASSUME NEW o \in SandboxObject, NEW pods \in SUBSET Pods
    PROVE  /\ WithAllocation(o, pods).phase = o.phase
           /\ WithAllocation(o, pods).alloc = o.alloc \cup pods
           /\ WithAllocation(o, pods).release = o.release
           /\ WithAllocation(o, pods).released = o.released
           /\ WithAllocation(o, pods).fin = o.fin \cup {"pool"}
BY Zenon DEF WithAllocation, SandboxObject

LEMMA WithReleasedFields ==
    ASSUME NEW o \in SandboxObject, NEW pods \in SUBSET Pods
    PROVE  /\ WithReleased(o, pods).phase = o.phase
           /\ WithReleased(o, pods).alloc = o.alloc
           /\ WithReleased(o, pods).release = o.release
           /\ WithReleased(o, pods).released = o.released \cup pods
           /\ \/ WithReleased(o, pods).fin = o.fin
              \/ /\ WithReleased(o, pods).fin = o.fin \ {"pool"}
                 /\ o.alloc \subseteq o.released \cup pods
BY Zenon DEF WithReleased, SandboxObject

LEMMA SettleFields ==
    ASSUME NEW o \in SandboxObject
    PROVE  /\ Settle(o).alloc = o.alloc
           /\ Settle(o).release = o.release
           /\ Settle(o).released = o.released
           /\ Settle(o).fin = o.fin
           /\ Settle(o).phase = o.phase \/ (Settle(o).phase = "gone" /\ o.phase = "deleting" /\ o.fin = {})
BY Zenon DEF Settle, SandboxObject

LEMMA PatchAllocationFields ==
    ASSUME TypeOK, NEW s \in Sandboxes, PatchAllocation(s)
    PROVE  /\ \A t \in Sandboxes \ {s} : sbx'[t] = sbx[t]
           /\ sbx'[s].phase = sbx[s].phase
           /\ sbx'[s].alloc = view[s].alloc \cup give[s]
           /\ sbx'[s].release = sbx[s].release
           /\ sbx'[s].released = sbx[s].released
           /\ sbx'[s].fin = AllocationFin(s)
<1> DEFINE mine == WithAllocation(view[s], give[s])
           new == [sbx[s] EXCEPT !.alloc = mine.alloc, !.allocLen = mine.allocLen,
                                 !.fin = AllocationFin(s)]
<1>1. mine.alloc = view[s].alloc \cup give[s]
  BY WithAllocationFields DEF TypeOK
<1>2. sbx' = [sbx EXCEPT ![s] = new]
  BY Zenon DEF PatchAllocation
<1>3. sbx[s] \in SandboxObject /\ sbx \in [Sandboxes -> SandboxObject]
  BY Zenon DEF TypeOK
<1> HIDE DEF mine
<1>4. /\ new.phase = sbx[s].phase /\ new.alloc = mine.alloc
      /\ new.release = sbx[s].release /\ new.released = sbx[s].released
      /\ new.fin = AllocationFin(s)
  BY <1>3, Zenon DEF SandboxObject
<1> HIDE DEF new
<1> QED
  BY <1>1, <1>2, <1>3, <1>4, Zenon

LEMMA PatchReleasedFields ==
    ASSUME TypeOK, NEW s \in Sandboxes, PatchReleased(s)
    PROVE  /\ \A t \in Sandboxes \ {s} : sbx'[t] = sbx[t]
           /\ sbx'[s].alloc = sbx[s].alloc
           /\ sbx'[s].release = sbx[s].release
           /\ sbx'[s].released = view[s].released \cup recycled[s]
           /\ sbx'[s].fin = ReleasedFin(s)
           /\ \/ sbx'[s].phase = sbx[s].phase
              \/ sbx'[s].phase = "gone" /\ ReleasedFin(s) = {}
<1> DEFINE o == [sbx[s] EXCEPT !.released = view[s].released \cup recycled[s],
                               !.fin = ReleasedFin(s)]
<1>1. sbx[s] \in SandboxObject /\ view[s] \in SandboxObject /\ recycled[s] \in SUBSET Pods
  BY Zenon DEF TypeOK
<1>2. ReleasedFin(s) \in SUBSET Finalizers
  BY <1>1, WithReleasedType, Zenon DEF ReleasedFin, SandboxObject
<1>3. /\ o \in SandboxObject
      /\ o.phase = sbx[s].phase /\ o.alloc = sbx[s].alloc
      /\ o.release = sbx[s].release /\ o.released = view[s].released \cup recycled[s]
      /\ o.fin = ReleasedFin(s)
  BY <1>1, <1>2, Zenon DEF SandboxObject
<1>4. sbx' = [sbx EXCEPT ![s] = Settle(o)]
  BY Zenon DEF PatchReleased
<1> HIDE DEF o
<1> QED
  BY <1>3, <1>4, SettleFields, Zenon DEF TypeOK

\* What TypeOK says of the parts the invariant is about.
LEMMA Fields ==
    ASSUME TypeOK
    PROVE  /\ sbx \in [Sandboxes -> SandboxObject] /\ view \in [Sandboxes -> SandboxObject]
           /\ pod \in [Pods -> PodStates] /\ users \in [Pods -> SUBSET Sandboxes]
           /\ store \in [Pods -> Sandboxes \cup {NoSandbox}]
           /\ give \in [Sandboxes -> SUBSET Pods] /\ recycled \in [Sandboxes -> SUBSET Pods]
           /\ \A s \in Sandboxes :
                /\ sbx[s] \in SandboxObject /\ view[s] \in SandboxObject
                /\ sbx[s].alloc \subseteq Pods /\ view[s].alloc \subseteq Pods
                /\ sbx[s].release \subseteq Pods /\ view[s].release \subseteq Pods
                /\ sbx[s].released \subseteq Pods /\ view[s].released \subseteq Pods
                /\ give[s] \subseteq Pods /\ back[s] \subseteq Pods
                /\ recycled[s] \subseteq Pods /\ tasks[s] \subseteq Pods
           /\ listed \subseteq Pods
BY Zenon DEF TypeOK, SandboxObject

-----------------------------------------------------------------------------
(* The informer's pods *)

\* The informer only ever catches up with pods that go their way.
LEMMA CacheNext == ASSUME AllocationInv, [Next]_vars PROVE CacheInv'
<1>0. pod \in [Pods -> PodStates] /\ podCache \in [Pods -> PodStates]
  BY Zenon DEF AllocationInv, TypeOK
<1> DEFINE Forward ==
             /\ \A p \in Pods : /\ pod'[p] = "absent" => pod[p] = "absent"
                                /\ pod[p] \in Leaving => pod'[p] \in Leaving
             /\ Lagging => \A p \in Pods : podCache'[p] = podCache[p] \/ podCache'[p] = pod'[p]
<1>1. Forward
  <2>1. CASE UNCHANGED <<pod, podCache>>
    BY <2>1, Zenon
  <2>2. Begin \/ DoRecycle \/ DoFinalize \/ Abort \/ UNCHANGED vars => UNCHANGED <<pod, podCache>>
    BY Zenon DEF Begin, DoRecycle, DoFinalize, Abort, vars, apiVars, infVars
  <2>3. \A s \in Sandboxes :
          \/ SyncSandboxAllocation(s) \/ SyncSandboxAllocationFails(s)
          \/ SyncSandboxReleased(s) \/ SyncSandboxReleasedFails(s)
          => UNCHANGED <<pod, podCache>>
    BY Zenon DEF SyncSandboxAllocation, SyncSandboxAllocationFails, SyncSandboxReleased,
         SyncSandboxReleasedFails, infVars
  <2>4. \A s \in Sandboxes : SandboxStep(s) => UNCHANGED <<pod, podCache>>
    BY ZenonT(30) DEF SandboxStep, CreateSandbox, ScaleOut, AddTaskFinalizer, DeleteSandbox,
         RemoveTaskFinalizer, Detach, CacheSync, AssignTask, ReleasePod, StopTask, Others,
         infVars, apiVars
  <2>5. CASE Schedule
    BY <1>0, <2>5 DEF Schedule, Alive, Leaving, infVars
  <2>6. CASE Scale
    BY <1>0, <2>6 DEF Scale, Alive, Leaving, infVars
  <2>7. CASE Restart
    BY <2>7, Zenon DEF Restart, Lagging, apiVars
  <2>8. ASSUME NEW p \in Pods, PodStep(p) PROVE Forward
    BY <1>0, <2>8 DEF PodStep, PodReady, PodUnready, LosePod, PodGone, MarkEvict, PodCacheSync,
         PodTo, Alive, Leaving, infVars, apiVars
  <2> QED
    BY <2>1, <2>2, <2>3, <2>4, <2>5, <2>6, <2>7, <2>8, Zenon DEF Next, PoolStep
<1> QED
  BY <1>1, Zenon DEF AllocationInv, CacheInv

-----------------------------------------------------------------------------
(* Steps that leave the reconcile alone *)

\* Users and the BatchSandbox reconcile: they neither allocate nor release.
LEMMA SandboxFrame ==
    ASSUME AllocationInv, TypeOK', CacheInv',
           UNCHANGED <<pod, podCache, evict, listed, marked, ready, evicted, store, recovered, pc, view, give,
                       back, recycled, failed, users>>,
           \A t \in Sandboxes :
             /\ sbx'[t].alloc = sbx[t].alloc
             /\ sbx'[t].released = sbx[t].released
             /\ \A p \in sbx'[t].release \cup tasks'[t] : Born(p)
             /\ InPool(sbx[t]) /\ "pool" \in sbx[t].fin
                  => InPool(sbx'[t]) /\ "pool" \in sbx'[t].fin
             /\ InPool(sbx'[t]) => InPool(sbx[t]) \/ sbx[t].phase = "unborn"
             /\ sbx'[t].phase # "detached"
             /\ sbx'[t].phase = "unborn" => sbx[t].phase = "unborn"
    PROVE  AllocationInv'
<1> USE DEF AllocationInv
<1>1. UnrecoveredInv' /\ ListInv' /\ BornInv'
  BY DEF UnrecoveredInv, ListInv, BornInv, Born, Seen
<1>2. RecycledInv' /\ UsersInv'
  BY Zenon DEF RecycledInv, Dead, UsersInv, TypeOK
<1>3. AllocInv'
  BY DEF AllocInv, Dead
<1>4. CopyInv'
  BY DEF CopyInv, Coherent, InPool
<1>5. GiveInv'
  BY Zenon DEF GiveInv, Empty
<1> QED
  BY <1>1, <1>2, <1>3, <1>4, <1>5, Zenon

\* The kubelet and whoever deletes or labels pods.
LEMMA PodFrame ==
    ASSUME AllocationInv, TypeOK', CacheInv',
           UNCHANGED <<sbx, listed, marked, ready, evicted, store, recovered, pc, view, give,
                       back, recycled, failed, users>>,
           evict \subseteq evict',
           \A p \in Pods : /\ Dead(p) => Dead(p)'
                           /\ Born(p) => Born(p)',
           \A t \in Sandboxes : tasks'[t] \subseteq tasks[t]
    PROVE  AllocationInv'
<1> USE DEF AllocationInv
<1>0. /\ \A s \in Sandboxes : /\ sbx[s].alloc \subseteq Pods /\ sbx[s].release \subseteq Pods
                              /\ view[s].alloc \subseteq Pods /\ view[s].release \subseteq Pods
                              /\ sbx[s].released \subseteq Pods
                              /\ view[s].released \subseteq Pods
                              /\ back[s] \subseteq Pods /\ tasks[s] \subseteq Pods
                              /\ recycled[s] \subseteq Pods
      /\ listed \subseteq Pods
  BY Zenon DEF TypeOK, SandboxObject
<1>1. UnrecoveredInv' /\ ListInv' /\ BornInv'
  BY <1>0 DEF UnrecoveredInv, ListInv, BornInv
<1>2. RecycledInv' /\ UsersInv'
  BY <1>0, Zenon DEF RecycledInv, UsersInv
<1>3. AllocInv'
  BY <1>0, Zenon DEF AllocInv
<1>4. CopyInv' /\ GiveInv'
  BY Zenon DEF CopyInv, GiveInv, Coherent
<1> QED
  BY <1>1, <1>2, <1>3, <1>4, Zenon

\* The end of a reconcile, in which only pods change, and a restart.
LEMMA EndFrame ==
    ASSUME AllocationInv, TypeOK', CacheInv', UNCHANGED <<sbx, evict, tasks, users>>,
           \A p \in Pods : /\ Dead(p) => Dead(p)'
                           /\ Born(p) => Born(p)',
           \/ Idle /\ UNCHANGED <<store, recovered>>
           \/ Idle /\ ~recovered' /\ \A p \in Pods : store'[p] = NoSandbox
           \/ Retry /\ pc = "scaling" /\ UNCHANGED <<store, recovered>>
    PROVE  AllocationInv'
<1> USE DEF AllocationInv
<1>0. /\ \A s \in Sandboxes : /\ sbx[s].alloc \subseteq Pods /\ sbx[s].release \subseteq Pods
                              /\ view[s].alloc \subseteq Pods /\ view[s].release \subseteq Pods
                              /\ sbx[s].released \subseteq Pods
                              /\ view[s].released \subseteq Pods
                              /\ tasks[s] \subseteq Pods
      /\ listed \subseteq Pods
  BY Zenon DEF TypeOK, SandboxObject
<1>1. /\ \A s \in Sandboxes : view'[s] = Unborn \/ view'[s] = view[s]
      /\ \A s \in Sandboxes : back'[s] = {} /\ recycled'[s] = {} /\ give'[s] = {}
      /\ evicted' = {} /\ give' = Empty
      /\ \/ listed' = {} /\ ready' = {} /\ marked' = {}
         \/ UNCHANGED <<listed, ready, marked>>
      /\ pc' \in {"idle", "listed"}
  BY Zenon DEF Idle, Retry, Empty
<1>2. UnrecoveredInv'
  BY Zenon DEF UnrecoveredInv, Idle, Retry
<1>3. ListInv'
  BY <1>0, <1>1, Zenon DEF ListInv
<1>4. BornInv'
  BY <1>0, <1>1 DEF BornInv, Unborn
<1>5. RecycledInv' /\ UsersInv'
  BY <1>0, <1>1 DEF RecycledInv, UsersInv, Unborn
<1>6. AllocInv'
  BY <1>0 DEF AllocInv
<1>7. CopyInv'
  <2>1. CASE Idle
    BY <2>1, Zenon DEF CopyInv, Coherent, Idle, Unborn
  <2>2. CASE Retry /\ pc = "scaling"
    BY <2>2, Zenon DEF CopyInv, Coherent, Retry
  <2> QED
    BY <2>1, <2>2, Zenon
<1>8. GiveInv'
  BY <1>1, Zenon DEF GiveInv
<1> QED
  BY <1>2, <1>3, <1>4, <1>5, <1>6, <1>7, <1>8, Zenon


LEMMA ReadsCurrent ==
    ASSUME Settled PROVE \A s \in Sandboxes : Read(s) = sbx[s]
BY Zenon DEF Settled, Read

LEMMA InvSandbox ==
    ASSUME Settled, AllocationInv, CacheInv', NEW s \in Sandboxes, SandboxStep(s)
    PROVE  AllocationInv'
<1> USE DEF Others, recVars, infVars, ctlVars, apiVars
<1>0. TypeOK' /\ TypeOK
  BY TypeSandbox, Zenon DEF AllocationInv
<1>1. /\ sbx[s] \in SandboxObject /\ sbx \in [Sandboxes -> SandboxObject]
      /\ sbx[s].phase # "detached"
  BY <1>0, Zenon DEF TypeOK, AllocationInv, CopyInv
<1>2. \A t \in Sandboxes : \A p \in sbx[t].release \cup tasks[t] : Born(p)
  BY Zenon DEF AllocationInv, BornInv
<1>3. \A t \in Sandboxes : sbx[t].phase # "detached"
  BY Zenon DEF AllocationInv, CopyInv
<1>4. CASE CreateSandbox(s)
  <2>1. PICK n \in 1..MaxReplicas[s] :
          sbx' = [sbx EXCEPT ![s].phase = "live", ![s].replicas = n]
    BY <1>4, Zenon DEF CreateSandbox
  <2>2. /\ sbx'[s].phase = "live" /\ sbx'[s].alloc = sbx[s].alloc
        /\ sbx'[s].released = sbx[s].released /\ sbx'[s].release = sbx[s].release
        /\ sbx'[s].fin = sbx[s].fin
        /\ \A t \in Sandboxes \ {s} : sbx'[t] = sbx[t]
    BY <1>1, <2>1, Zenon DEF SandboxObject
  <2> QED
    BY <1>0, <1>2, <1>3, <1>4, <2>2, SandboxFrame, Zenon DEF CreateSandbox, InPool
<1>5. CASE ScaleOut(s)
  <2>1. /\ sbx'[s].phase = sbx[s].phase /\ sbx'[s].alloc = sbx[s].alloc
        /\ sbx'[s].released = sbx[s].released /\ sbx'[s].release = sbx[s].release
        /\ sbx'[s].fin = sbx[s].fin
        /\ \A t \in Sandboxes \ {s} : sbx'[t] = sbx[t]
    BY <1>1, <1>5, Zenon DEF SandboxObject, ScaleOut
  <2> QED
    BY <1>0, <1>2, <1>3, <1>5, <2>1, SandboxFrame DEF ScaleOut, InPool
<1>6. CASE AddTaskFinalizer(s)
  <2>1. /\ sbx'[s].phase = sbx[s].phase /\ sbx'[s].alloc = sbx[s].alloc
        /\ sbx'[s].released = sbx[s].released /\ sbx'[s].release = sbx[s].release
        /\ sbx[s].fin \subseteq sbx'[s].fin
        /\ \A t \in Sandboxes \ {s} : sbx'[t] = sbx[t]
    BY <1>1, <1>6, Zenon DEF SandboxObject, AddTaskFinalizer
  <2> QED
    BY <1>0, <1>2, <1>3, <1>6, <2>1, SandboxFrame DEF AddTaskFinalizer, InPool
<1>7. CASE DeleteSandbox(s)
  <2> DEFINE o == [sbx[s] EXCEPT !.phase = "deleting"]
  <2>1. /\ o \in SandboxObject /\ o.phase = "deleting" /\ o.alloc = sbx[s].alloc
        /\ o.released = sbx[s].released /\ o.release = sbx[s].release
        /\ o.fin = sbx[s].fin
    BY <1>1, Zenon DEF SandboxObject
  <2>2. sbx' = [sbx EXCEPT ![s] = Settle(o)]
    BY <1>7, Zenon DEF DeleteSandbox
  <2> HIDE DEF o
  <2>3. /\ sbx'[s].phase \in {"deleting", "gone"}
        /\ sbx'[s].phase = "gone" => sbx[s].fin = {}
        /\ sbx'[s].alloc = sbx[s].alloc /\ sbx'[s].fin = sbx[s].fin
        /\ sbx'[s].released = sbx[s].released /\ sbx'[s].release = sbx[s].release
        /\ \A t \in Sandboxes \ {s} : sbx'[t] = sbx[t]
    BY <1>1, <2>1, <2>2, SettleFields, Zenon
  <2> QED
    BY <1>0, <1>2, <1>3, <1>7, <2>3, SandboxFrame DEF DeleteSandbox, InPool
<1>8. CASE RemoveTaskFinalizer(s)
  <2> DEFINE o == [sbx[s] EXCEPT !.fin = sbx[s].fin \ {"task"}]
  <2>1. /\ o \in SandboxObject /\ o.phase = sbx[s].phase /\ o.alloc = sbx[s].alloc
        /\ o.released = sbx[s].released /\ o.release = sbx[s].release
        /\ o.fin = sbx[s].fin \ {"task"}
    BY <1>1, Zenon DEF SandboxObject
  <2>2. sbx' = [sbx EXCEPT ![s] = Settle(o)]
    BY <1>8, Zenon DEF RemoveTaskFinalizer
  <2> HIDE DEF o
  <2>3. /\ sbx'[s].phase \in {"deleting", "gone"}
        /\ sbx'[s].phase = "gone" => "pool" \notin sbx[s].fin
        /\ "pool" \in sbx[s].fin => "pool" \in sbx'[s].fin
        /\ sbx'[s].alloc = sbx[s].alloc
        /\ sbx'[s].released = sbx[s].released /\ sbx'[s].release = sbx[s].release
        /\ \A t \in Sandboxes \ {s} : sbx'[t] = sbx[t]
    BY <1>1, <1>8, <2>1, <2>2, SettleFields DEF RemoveTaskFinalizer
  <2> QED
    BY <1>0, <1>2, <1>3, <1>8, <2>3, SandboxFrame, Zenon DEF RemoveTaskFinalizer, InPool
<1>9. ~Detach(s) /\ ~CacheSync(s)
  BY Zenon DEF Settled, Detach, CacheSync
<1>10. ASSUME NEW p \in Pods, AssignTask(s, p) PROVE AllocationInv'
  <2>1. Born(p)
    BY <1>10, ReadsCurrent, Zenon DEF AssignTask, AllocationInv, BornInv
  <2>2. \A t \in Sandboxes : tasks'[t] \subseteq tasks[t] \cup {p}
    BY <1>0, <1>10, Zenon DEF AssignTask, TypeOK
  <2> QED
    BY <1>0, <1>2, <1>3, <1>10, <2>1, <2>2, SandboxFrame DEF AssignTask
<1>11. ASSUME NEW p \in Pods, ReleasePod(s, p) PROVE AllocationInv'
  <2>1. Born(p)
    BY <1>2, <1>11, Zenon DEF ReleasePod
  <2>2. \A t \in Sandboxes : tasks'[t] \subseteq tasks[t]
    BY <1>0, <1>11, Zenon DEF ReleasePod, TypeOK
  <2>3. /\ sbx'[s].phase = sbx[s].phase /\ sbx'[s].alloc = sbx[s].alloc
        /\ sbx'[s].released = sbx[s].released /\ sbx'[s].release = sbx[s].release \cup {p}
        /\ sbx'[s].fin = sbx[s].fin
        /\ \A t \in Sandboxes \ {s} : sbx'[t] = sbx[t]
    BY <1>1, <1>11, ReadsCurrent, Zenon DEF SandboxObject, ReleasePod
  <2> QED
    BY <1>0, <1>2, <1>3, <1>11, <2>1, <2>2, <2>3, SandboxFrame DEF ReleasePod, InPool
<1>12. ASSUME NEW p \in Pods, StopTask(s, p) PROVE AllocationInv'
  <2>1. \A t \in Sandboxes : tasks'[t] \subseteq tasks[t]
    BY <1>0, <1>12, Zenon DEF StopTask, TypeOK
  <2> QED
    BY <1>0, <1>2, <1>3, <1>12, <2>1, SandboxFrame, Zenon DEF StopTask
<1> QED
  BY <1>4, <1>5, <1>6, <1>7, <1>8, <1>9, <1>10, <1>11, <1>12, Zenon DEF SandboxStep

LEMMA InvPod ==
    ASSUME Settled, AllocationInv, CacheInv', NEW p \in Pods, PodStep(p)
    PROVE  AllocationInv'
<1> USE DEF recVars, infVars, ctlVars, apiVars
<1>0. TypeOK' /\ TypeOK
  BY TypePod, Zenon DEF AllocationInv
<1>1. evict \subseteq evict' /\ \A q \in Pods : (Dead(q) => Dead(q)') /\ (Born(q) => Born(q)')
  <2>1. /\ evict \subseteq evict' /\ UNCHANGED <<pc, listed, marked>>
        /\ \A q \in Pods : /\ pod[q] = "gone" => pod'[q] = "gone"
                           /\ pod[q] # "absent" => pod'[q] # "absent"
                           /\ podCache'[q] = podCache[q] \/ podCache'[q] = pod[q]
    BY <1>0 DEF PodStep, PodReady, PodUnready, LosePod, PodGone, MarkEvict, PodCacheSync, PodTo,
                Alive, TypeOK
  <2>2. \A q \in Pods : Dead(q) => Dead(q)'
    BY <2>1 DEF Dead
  <2>3. \A q \in Pods : Born(q) => Born(q)'
    BY <2>1 DEF Born, Seen, AllocationInv, CacheInv, Leaving
  <2> QED
    BY <2>1, <2>2, <2>3, Zenon
<1>2. \A t \in Sandboxes : tasks'[t] \subseteq tasks[t]
  BY <1>0, Zenon DEF PodStep, PodReady, PodUnready, LosePod, PodGone, MarkEvict, PodCacheSync, TypeOK
<1>3. UNCHANGED <<sbx, listed, marked, ready, evicted, store, recovered, pc, view, give,
                  back, recycled, failed, users>>
  BY Zenon DEF PodStep, PodReady, PodUnready, LosePod, PodGone, MarkEvict, PodCacheSync, PodTo
<1> QED
  BY <1>0, <1>1, <1>2, <1>3, PodFrame, Zenon

LEMMA InvRestart == ASSUME AllocationInv, CacheInv', Restart PROVE AllocationInv'
<1>1. TypeOK'
  BY IdleType, Zenon DEF Restart, TypeOK, AllocationInv, apiVars
<1>2. Idle /\ ~recovered' /\ (\A p \in Pods : store'[p] = NoSandbox) /\ UNCHANGED <<pod, sbx, evict, tasks, users>>
  BY Zenon DEF Restart, apiVars
<1>3. \A p \in Pods : Born(p) => Born(p)'
  BY <1>2 DEF Restart, Born, Seen, Lagging, Idle
<1>4. \A p \in Pods : Dead(p) => Dead(p)'
  BY <1>2 DEF Restart, Dead, Lagging, Idle
<1> QED
  BY <1>1, <1>2, <1>3, <1>4, EndFrame, Zenon
-----------------------------------------------------------------------------
(* Steps of the reconcile *)

LEMMA InvBegin == ASSUME Settled, AllocationInv, CacheInv', Begin PROVE AllocationInv'
<1> USE DEF AllocationInv, apiVars, infVars, ctlVars
<1>0. TypeOK' /\ TypeOK
  BY TypePool, Zenon DEF PoolStep
<1>1. /\ \A s \in Sandboxes : view'[s] = sbx[s]
      /\ listed' = {p \in Pods : ReadPod(p) \in {"pending", "ready"}}
      /\ ready' \subseteq listed' /\ marked' = evict \cap listed' /\ pc' = "listed" /\ pc = "idle"
      /\ give = Empty /\ evicted' = evicted
      /\ UNCHANGED <<sbx, pod, podCache, evict, store, recovered>>
  BY ReadsCurrent, Zenon DEF Begin, GiveInv
<1>2. evicted = {}
  BY Zenon DEF Begin, ListInv
<1>3. \A p \in Pods : Dead(p) => Dead(p)'
  BY <1>1, ZenonT(60) DEF Dead, ReadPod, Lagging
<1>4. /\ \A p \in Pods : Born(p) => Born(p)'
      /\ \A p \in listed' : Born(p)'
  BY <1>0, <1>1, ZenonT(60) DEF Born, Seen, ReadPod, Lagging, Leaving, CacheInv, TypeOK, PodStates
<1>5. UnrecoveredInv' /\ ListInv' /\ BornInv'
  BY <1>0, <1>1, <1>2, <1>4, Fields DEF Begin, UnrecoveredInv, ListInv, BornInv
<1>6. RecycledInv' /\ UsersInv'
  BY <1>0, <1>1, <1>3, Fields DEF Begin, RecycledInv, UsersInv
<1>7. AllocInv'
  BY <1>0, <1>1, <1>3, Fields, Zenon DEF AllocInv
<1>8. CopyInv'
  BY <1>1, Zenon DEF CopyInv, Coherent, InPool
<1>9. GiveInv'
  BY <1>1, Zenon DEF Begin, GiveInv, Empty
<1> QED
  BY <1>0, <1>5, <1>6, <1>7, <1>8, <1>9, Zenon


\* What Schedule hands out is known to nobody: an allocated pod is in the store by then,
\* recovered or not, and a pod that is gone is not on the list or carries the label, which
\* keeps it out.
LEMMA InvSchedule == ASSUME Settled, AllocationInv, CacheInv', Schedule PROVE AllocationInv'
<1> USE DEF AllocationInv, infVars
<1>0. TypeOK' /\ TypeOK
  BY TypePool, Zenon DEF PoolStep
<1>1. /\ UNCHANGED <<sbx, podCache, evict, view, listed, ready, marked, recycled, failed, tasks,
                     users>>
      /\ pc = "listed" /\ pc' = "allocating" /\ recovered'
      /\ evicted' = {p \in marked : store[p] = NoSandbox}
      /\ give' \in PackedSchedule(Available(store', evicted'), Supplements(view))
      /\ back' = AllRelease(store', view)
      /\ IF recovered THEN store' = store ELSE store' \in Recover
  BY Zenon DEF Schedule, Evictable
<1>2. \A p \in Pods : /\ pod[p] = "gone" => pod'[p] = "gone"
                      /\ pod'[p] = "gone" => pod[p] = "gone"
                      /\ Born(p) => Born(p)'
  <2>1. \A p \in Pods : /\ pod[p] = "gone" => pod'[p] = "gone"
                        /\ pod'[p] = "gone" => pod[p] = "gone"
                        /\ pod[p] # "absent" => pod'[p] # "absent"
    BY <1>0, Fields, Zenon DEF Schedule, Alive
  <2> QED
    BY <1>1, <2>1 DEF Born, Seen
<1>3. \A p \in Pods : Dead(p)' <=> Dead(p)
  BY <1>1, <1>2, Zenon DEF Dead
<1>4. /\ \A s \in Sandboxes : /\ sbx[s].alloc \subseteq Pods /\ sbx[s].release \subseteq Pods
                              /\ view[s].alloc \subseteq Pods /\ view[s].release \subseteq Pods
                              /\ sbx[s].released \subseteq Pods
                              /\ view[s].released \subseteq Pods
                              /\ tasks[s] \subseteq Pods /\ recycled[s] \subseteq Pods
      /\ listed \subseteq Pods
  BY <1>0, Fields, Zenon
<1>5. \A s \in Sandboxes : \A p \in sbx[s].alloc : Dead(p) \/ store'[p] = s
  <2> SUFFICES ASSUME NEW s \in Sandboxes, NEW p \in sbx[s].alloc, ~Dead(p)
               PROVE  store'[p] = s
    OBVIOUS
  <2>1. CASE recovered
    BY <1>1, <2>1, Zenon DEF AllocInv
  <2>2. CASE ~recovered
    <3>1. InPool(Read(s)) /\ p \in Read(s).alloc /\ p \notin Read(s).released
      BY ReadsCurrent, Zenon DEF AllocInv, RecycledInv
    <3>2. \A t \in Sandboxes : p \in Read(t).alloc => t = s
      BY ReadsCurrent, Zenon DEF AllocInv
    <3>3. store' \in Recover /\ p \in Pods
      BY <1>1, <1>4, <2>2, Zenon
    <3> QED
      BY <3>1, <3>2, <3>3, Zenon DEF Recover
  <2> QED
    BY <2>1, <2>2, Zenon
<1>6. \A p \in Pods : store'[p] # NoSandbox => Born(p)
  <2>1. CASE recovered
    BY <1>1, <2>1, Zenon DEF BornInv
  <2>2. CASE ~recovered
    <3> SUFFICES ASSUME NEW p \in Pods, store'[p] # NoSandbox PROVE Born(p)
      OBVIOUS
    <3>1. \E s \in Sandboxes : p \in Read(s).alloc
      BY <1>1, <2>2, Zenon DEF Recover
    <3> QED
      BY <3>1, ReadsCurrent, Zenon DEF BornInv
  <2> QED
    BY <2>1, <2>2, Zenon
<1>7. \A s \in Sandboxes : \A p \in give'[s] :
        p \in listed /\ p \notin marked /\ store'[p] = NoSandbox /\ ~Dead(p)
  <2> SUFFICES ASSUME NEW s \in Sandboxes, NEW p \in give'[s]
               PROVE  p \in listed /\ p \notin marked /\ store'[p] = NoSandbox /\ ~Dead(p)
    OBVIOUS
  <2>1. p \in ready /\ p \notin evicted' /\ store'[p] = NoSandbox
    BY <1>1, Zenon DEF PackedSchedule, Available
  <2>2. store[p] = NoSandbox
    BY <1>1, <2>1, Fields, Zenon DEF UnrecoveredInv, ListInv
  <2>3. p \in listed /\ p \notin marked
    BY <1>1, <2>1, <2>2, Zenon DEF ListInv
  <2> QED
    BY <2>1, <2>3, Zenon DEF Dead
<1>8. UnrecoveredInv' /\ ListInv'
  BY <1>1, <1>2, <1>4, Zenon DEF UnrecoveredInv, ListInv
<1>9. BornInv'
  <2>1. \A s \in Sandboxes : \A p \in back'[s] : p \in Pods /\ Born(p)
    BY <1>1, <1>4, <1>6, AllocAssumption, Zenon DEF AllRelease, ToRelease, BornInv
  <2> QED
    BY <1>1, <1>2, <1>4, <1>6, <2>1 DEF BornInv
<1>10. RecycledInv' /\ UsersInv'
  BY <1>1, <1>3, <1>4, Zenon DEF RecycledInv, UsersInv
<1>11. AllocInv'
  BY <1>1, <1>3, <1>4, <1>5, Zenon DEF AllocInv
<1>12. CopyInv'
  BY <1>1, Zenon DEF CopyInv, Coherent
<1>13. GiveInv'
  <2>1. \A s \in Sandboxes : give'[s] # {} => InPool(view[s])
    <3> SUFFICES ASSUME NEW s \in Sandboxes, ~InPool(view[s]) PROVE give'[s] = {}
      OBVIOUS
    <3>1. Cardinality(give'[s]) <= 0
      BY <1>1, Zenon DEF PackedSchedule, Supplements
    <3>2. IsFiniteSet(give'[s]) /\ Cardinality(give'[s]) \in Nat
      BY <1>0, PodsCardinality, Zenon DEF TypeOK
    <3> QED
      BY <3>1, <3>2, FS_EmptySet
  <2>2. \A s, t \in Sandboxes : s # t => give'[s] \cap give'[t] = {}
    BY <1>1, Zenon DEF PackedSchedule
  <2>3. \A s, t \in Sandboxes : \A p \in give'[s] : p \notin sbx[t].alloc
    BY <1>0, <1>5, <1>7, AllocAssumption, Fields
  <2> QED
    BY <1>1, <1>7, <2>1, <2>2, <2>3, Zenon DEF GiveInv
<1> QED
  BY <1>0, <1>8, <1>9, <1>10, <1>11, <1>12, <1>13, Zenon

-----------------------------------------------------------------------------
(* The allocations *)

\* Allocation: the store and the annotation gain the same pods, which were free.
LEMMA InvSyncAllocation ==
    ASSUME Settled, AllocationInv, CacheInv', NEW s \in Sandboxes, SyncSandboxAllocation(s)
    PROVE  AllocationInv'
<1> USE DEF AllocationInv, infVars
<1>0. TypeOK' /\ TypeOK
  BY TypePool, SMTT(30) DEF PoolStep
<1>1. /\ UNCHANGED <<pod, podCache, evict, recovered, pc, listed, ready, marked, evicted, back, recycled,
                     failed, tasks>>
      /\ pc = "allocating" /\ give[s] # {}
      /\ view' = [view EXCEPT ![s] = WithAllocation(view[s], give[s])]
      /\ give' = [give EXCEPT ![s] = {}]
      /\ store' = UpdateAllocation(store, s, view[s].alloc \cup give[s])
      /\ users' = [p \in Pods |-> IF p \in give[s] THEN users[p] \cup {s} ELSE users[p]]
  BY ZenonT(60) DEF SyncSandboxAllocation, PatchAllocation
<1>2. /\ \A t \in Sandboxes \ {s} : sbx'[t] = sbx[t] /\ view'[t] = view[t] /\ give'[t] = give[t]
      /\ give'[s] = {}
      /\ sbx'[s].phase = sbx[s].phase
      /\ sbx'[s].alloc = view[s].alloc \cup give[s]
      /\ sbx'[s].release = sbx[s].release
      /\ sbx'[s].released = sbx[s].released
      /\ sbx'[s].fin = AllocationFin(s)
      /\ view'[s].phase = view[s].phase
      /\ view'[s].alloc = view[s].alloc \cup give[s]
      /\ view'[s].release = view[s].release
      /\ view'[s].released = view[s].released
      /\ view'[s].fin = view[s].fin \cup {"pool"}
  <2> DEFINE mine == WithAllocation(view[s], give[s])
  <2>1. /\ mine.phase = view[s].phase /\ mine.alloc = view[s].alloc \cup give[s]
        /\ mine.release = view[s].release /\ mine.released = view[s].released
        /\ mine.fin = view[s].fin \cup {"pool"}
    <3>1. view[s] \in SandboxObject /\ give[s] \in SUBSET Pods
      BY <1>0, Fields, Zenon
    <3> QED
      BY <3>1, WithAllocationFields, Zenon
  <2>2. view'[s] = mine
    BY <1>0, <1>1, Fields, Zenon
  <2>3. /\ \A t \in Sandboxes \ {s} : view'[t] = view[t] /\ give'[t] = give[t]
        /\ give'[s] = {}
    BY <1>0, <1>1, Fields, Zenon
  <2>4. PatchAllocation(s)
    BY Zenon DEF SyncSandboxAllocation
  <2>5. /\ \A t \in Sandboxes \ {s} : sbx'[t] = sbx[t]
        /\ sbx'[s].phase = sbx[s].phase
        /\ sbx'[s].alloc = view[s].alloc \cup give[s]
        /\ sbx'[s].release = sbx[s].release
        /\ sbx'[s].released = sbx[s].released
        /\ sbx'[s].fin = AllocationFin(s)
    BY <1>0, <2>4, PatchAllocationFields, Zenon
  <2> HIDE DEF mine
  <2> QED
    BY <2>1, <2>2, <2>3, <2>5, Zenon
<1>3. Coherent(s) /\ view[s].alloc = sbx[s].alloc /\ InPool(view[s])
  BY <1>1, SMTT(30) DEF CopyInv, GiveInv, Coherent
<1>4. InPool(sbx[s])
  <2>1. Exists(sbx[s])
    BY SMTT(30) DEF SyncSandboxAllocation, PatchAllocation, PatchAllowed
  <2> QED
    BY <2>1, SMTT(30) DEF Exists, InPool, CopyInv
<1>5. "pool" \in sbx'[s].fin
  <2>1. sbx'[s].fin = AllocationFin(s)
    BY <1>2, Zenon
  <2>2. "pool" \in view[s].fin => "pool" \in sbx[s].fin
    BY <1>3, <1>4, Zenon DEF CopyInv
  <2> QED
    BY <2>1, <2>2, SMTT(30) DEF AllocationFin
<1>6. \A p \in Pods : Dead(p)' <=> Dead(p)
  BY <1>1, SMTT(30) DEF Dead
<1>7. /\ \A t \in Sandboxes : /\ sbx[t].alloc \subseteq Pods /\ view[t].alloc \subseteq Pods
                              /\ sbx[t].released \subseteq Pods
                              /\ view[t].released \subseteq Pods
                              /\ recycled[t] \subseteq Pods /\ give[t] \subseteq Pods
      /\ listed \subseteq Pods
  BY <1>0, Fields, SMTT(30)
<1>8. \A p \in Pods :
        store'[p] = IF p \in view[s].alloc \cup give[s] THEN s
                    ELSE IF store[p] = s THEN NoSandbox ELSE store[p]
  BY <1>1, SMTT(30) DEF UpdateAllocation
<1>9. \A p \in give[s] : Born(p) /\ ~Dead(p)
  BY <1>7, SMTT(30) DEF GiveInv, ListInv, Dead
<1>10. UnrecoveredInv' /\ ListInv'
  BY <1>1, SMTT(30) DEF UnrecoveredInv, ListInv, Born, Seen
<1>11. BornInv'
  <2>1. \A p \in Pods : store'[p] # NoSandbox => Born(p)
    BY <1>8, <1>9, SMTT(30) DEF BornInv
  <2>2. \A t \in Sandboxes :
          \A p \in sbx'[t].alloc \cup sbx'[t].release \cup view'[t].alloc \cup view'[t].release
                   \cup back'[t] \cup tasks'[t] : Born(p)
    <3> SUFFICES ASSUME NEW t \in Sandboxes,
                        NEW p \in sbx'[t].alloc \cup sbx'[t].release \cup view'[t].alloc
                                   \cup view'[t].release \cup back'[t] \cup tasks'[t]
                 PROVE  Born(p)
      BY Zenon
    <3>1. \/ p \in give[s]
          \/ p \in view[s].alloc
          \/ p \in sbx[t].alloc \cup sbx[t].release \cup view[t].alloc \cup view[t].release
                    \cup back[t] \cup tasks[t]
      <4> HIDE DEF AllocationInv
      <4> QED
        BY <1>1, <1>2, ZenonT(60)
    <3> QED
      BY <1>9, <3>1, Zenon DEF BornInv
  <2> QED
    BY <1>1, <2>1, <2>2, ZenonT(30) DEF BornInv, Born, Seen
<1>12. RecycledInv'
  BY <1>1, <1>2, <1>6, <1>7, ZenonT(60) DEF RecycledInv
<1>13. UsersInv'
  <2> SUFFICES ASSUME NEW p \in Pods, NEW t \in users'[p] PROVE p \in sbx'[t].alloc
    BY ZenonT(60) DEF UsersInv
  <2>1. t \in Sandboxes
    BY <1>0, ZenonT(60) DEF TypeOK
  <2>2. t \in users[p] \/ (t = s /\ p \in give[s])
    BY <1>1, SMTT(30)
  <2> QED
    BY <1>2, <1>3, <2>1, <2>2, SMTT(30) DEF UsersInv
<1>14. AllocInv'
  <2>1. \A t, u \in Sandboxes : t # u => sbx'[t].alloc \cap sbx'[u].alloc = {}
    <3>1. \A t, u \in Sandboxes : t # u => sbx[t].alloc \cap sbx[u].alloc = {}
      BY Zenon DEF AllocInv
    <3>2. \A p \in give[s] : \A t \in Sandboxes : p \notin sbx[t].alloc
      BY Zenon DEF GiveInv
    <3>3. \A t \in Sandboxes \ {s} : sbx'[t].alloc = sbx[t].alloc
      BY <1>2, Zenon
    <3>4. sbx'[s].alloc = sbx[s].alloc \cup give[s]
      BY <1>2, <1>3, Zenon
    <3> HIDE DEF AllocationInv
    <3> QED
      BY <3>1, <3>2, <3>3, <3>4, SMTT(30)
  <2>2. \A t \in Sandboxes : \A p \in sbx'[t].alloc :
          Dead(p) \/ (InPool(sbx'[t]) /\ "pool" \in sbx'[t].fin /\ (recovered => store'[p] = t))
    <3> SUFFICES ASSUME NEW t \in Sandboxes, NEW p \in sbx'[t].alloc, ~Dead(p)
                 PROVE  InPool(sbx'[t]) /\ "pool" \in sbx'[t].fin /\ (recovered => store'[p] = t)
      OBVIOUS
    <3>1. CASE t = s
      BY <1>2, <1>4, <1>5, <1>7, <1>8, <3>1, ZenonT(60) DEF InPool
    <3>2. CASE t # s
      <4>1. p \in sbx[t].alloc /\ p \notin view[s].alloc /\ p \notin give[s] /\ p \in Pods
        BY <1>2, <1>3, <1>7, <3>2, ZenonT(60) DEF AllocInv, GiveInv
      <4>2. InPool(sbx[t]) /\ "pool" \in sbx[t].fin /\ (recovered => store[p] = t)
        BY <4>1, Zenon DEF AllocInv
      <4>3. sbx'[t] = sbx[t]
        BY <1>2, <3>2, Zenon
      <4>4. recovered => store'[p] = t
        <5> HIDE DEF AllocationInv
        <5> QED
          BY <1>8, <3>2, <4>1, <4>2
      <4> QED
        BY <4>2, <4>3, <4>4, Zenon
    <3> QED
      BY <3>1, <3>2, Zenon
  <2>3. \A t \in Sandboxes : sbx'[t].alloc \subseteq Pods
    BY <1>2, <1>7, ZenonT(60)
  <2> QED
    BY <1>1, <1>6, <2>1, <2>2, <2>3, Zenon DEF AllocInv
<1>15. CopyInv'
  <2>1. ASSUME NEW t \in Sandboxes, t # s, Coherent(t)' PROVE Coherent(t)
    BY <1>1, <1>2, <2>1, ZenonT(60) DEF Coherent
  <2>2. sbx'[s].phase # "unborn" /\ sbx'[s].phase # "detached" /\ view'[s].phase # "detached"
    <3>1. sbx[s].phase # "detached" /\ view[s].phase # "detached"
      BY Zenon DEF CopyInv
    <3> QED
      BY <1>2, <1>4, <3>1, SMTT(30) DEF InPool
  <2>3. ASSUME NEW t \in Sandboxes
        PROVE  /\ sbx'[t].phase # "detached" /\ view'[t].phase # "detached"
               /\ sbx'[t].phase = "unborn" => sbx'[t].alloc = {}
               /\ Coherent(t)' =>
                    /\ view'[t].alloc = sbx'[t].alloc
                    /\ sbx'[t].phase # "unborn"
                    /\ "pool" \in view'[t].fin /\ InPool(sbx'[t]) => "pool" \in sbx'[t].fin
    <3>1. CASE t = s
      BY <1>2, <1>5, <2>2, <3>1, Zenon
    <3>2. CASE t # s
      BY <1>2, <2>1, <3>2, SMTT(30) DEF CopyInv
    <3> QED
      BY <3>1, <3>2, SMTT(30)
  <2> QED
    BY <2>3, ZenonT(60) DEF CopyInv
<1>16. GiveInv'
  <2>1. \A t, u \in Sandboxes : t # u => give'[t] \cap give'[u] = {}
    BY <1>2, ZenonT(60) DEF GiveInv
  <2>2. \A t \in Sandboxes : give'[t] # {} => t # s /\ InPool(view'[t])
    BY <1>2, SMTT(30) DEF GiveInv
  <2>3. ASSUME NEW t \in Sandboxes, NEW p \in give'[t]
        PROVE  /\ p \in listed' /\ p \notin marked' /\ store'[p] = NoSandbox
               /\ \A u \in Sandboxes : p \notin sbx'[u].alloc
    <3>1. t # s /\ p \in give[t] /\ p \in Pods
      BY <1>2, <1>7, ZenonT(60)
    <3>2. p \notin view[s].alloc /\ p \notin give[s] /\ store[p] = NoSandbox
      BY <1>3, <3>1, SMTT(30) DEF GiveInv
    <3>3. p \in listed' /\ p \notin marked' /\ \A u \in Sandboxes : p \notin sbx[u].alloc
      BY <1>1, <3>1, ZenonT(60) DEF GiveInv
    <3>4. store'[p] = NoSandbox
      BY <1>3, <1>8, <3>1, <3>2, <3>3, ZenonT(60)
    <3>5. \A u \in Sandboxes : p \notin sbx'[u].alloc
      BY <1>2, <3>2, <3>3, SMTT(30)
    <3> QED
      BY <3>3, <3>4, <3>5, ZenonT(60)
  <2> QED
    BY <1>1, <2>1, <2>2, <2>3, ZenonT(30) DEF GiveInv
<1> QED
  BY <1>0, <1>10, <1>11, <1>12, <1>13, <1>14, <1>15, <1>16, SMTT(30)


\* A failed allocation: the object has not changed, and the store is rolled back to it.
LEMMA InvSyncAllocationFails ==
    ASSUME Settled, AllocationInv, CacheInv', NEW s \in Sandboxes, SyncSandboxAllocationFails(s)
    PROVE  AllocationInv'
<1> USE DEF AllocationInv, infVars
<1>0. TypeOK' /\ TypeOK
  BY TypePool, SMTT(30) DEF PoolStep
<1>1. /\ UNCHANGED <<sbx, users, pod, podCache, evict, recovered, pc, listed, ready, marked, evicted, back,
                     recycled, tasks>>
      /\ pc = "allocating" /\ give[s] # {} /\ failed'
      /\ view' = [view EXCEPT ![s] = WithAllocation(view[s], give[s])]
      /\ give' = [give EXCEPT ![s] = {}]
      /\ store' = UpdateAllocation(UpdateAllocation(store, s, view[s].alloc \cup give[s]),
                                   s, view[s].alloc)
  <2>1. "lostReply" \notin Environment
    BY SMTT(30) DEF Settled
  <2> QED
    BY <2>1, Zenon DEF SyncSandboxAllocationFails
<1>2. /\ \A t \in Sandboxes \ {s} : view'[t] = view[t] /\ give'[t] = give[t]
      /\ give'[s] = {}
      /\ view'[s].phase = view[s].phase
      /\ view'[s].alloc = view[s].alloc \cup give[s]
      /\ view'[s].release = view[s].release
      /\ view'[s].released = view[s].released
  <2> DEFINE mine == WithAllocation(view[s], give[s])
  <2>1. /\ mine.phase = view[s].phase /\ mine.alloc = view[s].alloc \cup give[s]
        /\ mine.release = view[s].release /\ mine.released = view[s].released
    BY WithAllocationFields, Fields
  <2>2. view'[s] = mine
    BY <1>0, <1>1, Fields, Zenon
  <2>3. /\ \A t \in Sandboxes \ {s} : view'[t] = view[t] /\ give'[t] = give[t]
        /\ give'[s] = {}
    BY <1>1, Fields, Zenon
  <2> HIDE DEF mine
  <2> QED
    BY <2>1, <2>2, <2>3, Zenon
<1>3. Coherent(s) /\ view[s].alloc = sbx[s].alloc /\ InPool(view[s])
  BY <1>1, ZenonT(60) DEF CopyInv, GiveInv, Coherent
<1>4. \A p \in Pods : Dead(p)' <=> Dead(p)
  BY <1>1, ZenonT(60) DEF Dead
<1>5. /\ \A t \in Sandboxes : /\ sbx[t].alloc \subseteq Pods
                              /\ sbx[t].released \subseteq Pods
                              /\ view[t].released \subseteq Pods
                              /\ recycled[t] \subseteq Pods /\ give[t] \subseteq Pods
      /\ listed \subseteq Pods
  BY <1>0, Fields, ZenonT(60)
<1>6. \A p \in Pods :
        store'[p] = IF p \in view[s].alloc THEN s
                    ELSE IF p \in give[s] \/ store[p] = s THEN NoSandbox ELSE store[p]
  BY <1>1, ZenonT(60) DEF UpdateAllocation
<1>7. UnrecoveredInv' /\ ListInv' /\ UsersInv'
  BY <1>1, SMTT(30) DEF UnrecoveredInv, ListInv, UsersInv, Born, Seen
<1>8. BornInv'
  <2>1. \A p \in give[s] : Born(p)
    BY SMTT(30) DEF GiveInv, ListInv
  <2>2. \A p \in Pods : store'[p] # NoSandbox => Born(p)
    BY <1>6, SMTT(30) DEF BornInv
  <2>3. \A t \in Sandboxes : \A p \in view'[t].alloc \cup view'[t].release : Born(p)
    BY <1>2, <2>1, ZenonT(60) DEF BornInv
  <2> QED
    BY <1>1, <2>2, <2>3, ZenonT(30) DEF BornInv, Born, Seen
<1>9. RecycledInv'
  BY <1>1, <1>2, <1>4, <1>5, ZenonT(60) DEF RecycledInv
<1>10. AllocInv'
  <2>1. ASSUME NEW t \in Sandboxes, NEW p \in sbx[t].alloc, recovered, store[p] = t
        PROVE  store'[p] = t
    <3>1. CASE t = s
      BY <1>3, <1>5, <1>6, <3>1, ZenonT(60)
    <3>2. CASE t # s
      BY <1>3, <1>5, <1>6, <2>1, <3>2, ZenonT(60) DEF AllocInv, GiveInv
    <3> QED
      BY <3>1, <3>2, ZenonT(60)
  <2> QED
    BY <1>1, <1>4, <1>5, <2>1, Zenon DEF AllocInv
<1>11. CopyInv'
  <2>1. ASSUME NEW t \in Sandboxes, Coherent(t)' PROVE t # s /\ Coherent(t)
    BY <1>1, <1>2, <2>1, SMTT(30) DEF Coherent
  <2>2. ASSUME NEW t \in Sandboxes
        PROVE  /\ sbx'[t].phase # "detached" /\ view'[t].phase # "detached"
               /\ sbx'[t].phase = "unborn" => sbx'[t].alloc = {}
               /\ Coherent(t)' =>
                    /\ view'[t].alloc = sbx'[t].alloc
                    /\ sbx'[t].phase # "unborn"
                    /\ "pool" \in view'[t].fin /\ InPool(sbx'[t]) => "pool" \in sbx'[t].fin
    <3>1. sbx'[t] = sbx[t] /\ view'[t].phase = view[t].phase
      BY <1>1, <1>2, Zenon
    <3>2. Coherent(t)' => Coherent(t) /\ view'[t] = view[t]
      BY <1>2, <2>1, Zenon
    <3> QED
      BY <3>1, <3>2, Zenon DEF CopyInv
  <2> HIDE DEF AllocationInv
  <2> QED
    BY <2>2, Zenon DEF CopyInv
<1>12. GiveInv'
  <2>1. \A t, u \in Sandboxes : t # u => give'[t] \cap give'[u] = {}
    BY <1>2, ZenonT(60) DEF GiveInv
  <2>2. \A t \in Sandboxes : give'[t] # {} => t # s /\ InPool(view'[t])
    BY <1>2, SMTT(30) DEF GiveInv
  <2>3. ASSUME NEW t \in Sandboxes, NEW p \in give'[t]
        PROVE  /\ p \in listed' /\ p \notin marked' /\ store'[p] = NoSandbox
               /\ \A u \in Sandboxes : p \notin sbx'[u].alloc
    <3>1. t # s /\ p \in give[t] /\ p \in Pods
      BY <1>2, <1>5, SMTT(30)
    <3>2. p \notin view[s].alloc /\ store[p] = NoSandbox
      BY <1>3, <3>1, SMTT(30) DEF GiveInv
    <3> QED
      BY <1>1, <1>6, <3>1, <3>2, Zenon DEF GiveInv
  <2> QED
    BY <1>1, <2>1, <2>2, <2>3, ZenonT(30) DEF GiveInv
<1> QED
  BY <1>0, <1>7, <1>8, <1>9, <1>10, <1>11, <1>12, ZenonT(60)

\* Recycling: only a pod the API server no longer has is reported as recycled.
LEMMA InvRecycle == ASSUME Settled, AllocationInv, CacheInv', DoRecycle PROVE AllocationInv'
<1> USE DEF AllocationInv, apiVars, infVars, ctlVars
<1>0. TypeOK' /\ TypeOK
  BY TypePool, Zenon DEF PoolStep
<1>1. /\ UNCHANGED <<sbx, pod, podCache, evict, store, recovered, view, listed, ready, marked, evicted, give,
                     back, tasks, users>>
      /\ pc = "allocating" /\ pc' = "releasing" /\ give = Empty /\ ~failed
  <2>1. users' = users
    <3>1. users' = [p \in Pods |-> users[p]]
      BY Zenon DEF DoRecycle, Settled
    <3> QED
      BY <1>0, <3>1, Fields, Zenon
  <2> QED
    BY <2>1, Zenon DEF DoRecycle
<1>2. \A s \in Sandboxes : \A p \in recycled'[s] : p \in back[s] /\ Absent(p)
  BY DEF DoRecycle, TryRecycle, Settled
<1>3. \A p \in Pods : Dead(p)' <=> Dead(p)
  BY <1>1, Zenon DEF Dead
<1>4. \A s \in Sandboxes : \A p \in recycled'[s] : p \in Pods /\ Dead(p)
  <2> SUFFICES ASSUME NEW s \in Sandboxes, NEW p \in recycled'[s] PROVE p \in Pods /\ Dead(p)
    OBVIOUS
  <2>1. p \in Pods /\ Born(p) /\ Absent(p)
    BY <1>0, <1>2, Fields, Zenon DEF BornInv
  <2> QED
    BY <1>1, <2>1, ZenonT(60) DEF Born, Seen, Absent, SchedulePods, ListInv, Dead, Leaving
<1>5. UnrecoveredInv' /\ ListInv' /\ BornInv' /\ UsersInv'
  BY <1>1, Zenon DEF UnrecoveredInv, ListInv, BornInv, UsersInv, Born, Seen
<1>6. RecycledInv'
  BY <1>0, <1>1, <1>3, <1>4, Fields, Zenon DEF RecycledInv
<1>7. AllocInv'
  BY <1>0, <1>1, <1>3, Fields, Zenon DEF AllocInv
<1>8. CopyInv' /\ GiveInv'
  BY <1>1, Zenon DEF CopyInv, Coherent, GiveInv, Empty
<1> QED
  BY <1>0, <1>5, <1>6, <1>7, <1>8, Zenon


\* Release: the store forgets pods that are gone, and the finalizer goes only when all are.
LEMMA InvSyncReleased ==
    ASSUME Settled, AllocationInv, CacheInv', NEW s \in Sandboxes, SyncSandboxReleased(s)
    PROVE  AllocationInv'
<1> USE DEF AllocationInv, infVars
<1>0. TypeOK' /\ TypeOK
  BY TypePool, Zenon DEF PoolStep
<1>1. /\ UNCHANGED <<pod, podCache, evict, recovered, pc, listed, ready, marked, evicted, give, back, failed,
                     tasks, users>>
      /\ pc = "releasing" /\ InPool(view[s])
      /\ view' = [view EXCEPT ![s] = WithReleased(view[s], recycled[s])]
      /\ recycled' = [recycled EXCEPT ![s] = {}]
      /\ store' = ReleaseAllocation(store, view[s].released \cup recycled[s])
  BY Zenon DEF SyncSandboxReleased
<1> DEFINE mine == WithReleased(view[s], recycled[s])
<1>2. /\ \A t \in Sandboxes \ {s} : /\ sbx'[t] = sbx[t] /\ view'[t] = view[t]
                                    /\ recycled'[t] = recycled[t]
      /\ recycled'[s] = {}
      /\ sbx'[s].alloc = sbx[s].alloc
      /\ sbx'[s].release = sbx[s].release
      /\ sbx'[s].released = view[s].released \cup recycled[s]
      /\ sbx'[s].fin = ReleasedFin(s)
      /\ sbx'[s].phase = sbx[s].phase \/ (sbx'[s].phase = "gone" /\ ReleasedFin(s) = {})
      /\ view'[s] = mine
  BY <1>0, <1>1, PatchReleasedFields, Fields, Zenon DEF SyncSandboxReleased
<1>3. /\ mine.phase = view[s].phase /\ mine.alloc = view[s].alloc
      /\ mine.release = view[s].release /\ mine.released = view[s].released \cup recycled[s]
      /\ \/ mine.fin = view[s].fin
         \/ /\ mine.fin = view[s].fin \ {"pool"}
            /\ view[s].alloc \subseteq view[s].released \cup recycled[s]
  BY <1>0, WithReleasedFields, Fields, Zenon
<1>4. ReleasedFin(s) = IF mine.fin = view[s].fin THEN sbx[s].fin ELSE mine.fin
  BY Zenon DEF ReleasedFin
<1> HIDE DEF mine
<1>5. Coherent(s) /\ view[s].alloc = sbx[s].alloc /\ sbx[s].phase # "unborn"
  BY <1>1, Zenon DEF CopyInv, Coherent
<1>6. \A p \in Pods : Dead(p)' <=> Dead(p)
  BY <1>1, Zenon DEF Dead
<1>7. /\ \A t \in Sandboxes : /\ sbx[t].alloc \subseteq Pods
                              /\ sbx[t].released \subseteq Pods
                              /\ view[t].released \subseteq Pods
                              /\ recycled[t] \subseteq Pods
      /\ listed \subseteq Pods
  BY <1>0, Fields, Zenon
<1>8. \A p \in Pods :
        store'[p] = IF p \in view[s].released \cup recycled[s] THEN NoSandbox ELSE store[p]
  BY <1>1, Zenon DEF ReleaseAllocation
<1>9. \A p \in view[s].released \cup recycled[s] : p \in Pods /\ Dead(p)
  BY <1>7, Zenon DEF RecycledInv
<1>10. UnrecoveredInv' /\ ListInv'
  BY <1>1, Zenon DEF UnrecoveredInv, ListInv, Born, Seen
<1>11. BornInv'
  <2>1. \A t \in Sandboxes :
          \A p \in sbx'[t].alloc \cup sbx'[t].release \cup view'[t].alloc \cup view'[t].release
                   \cup back'[t] \cup tasks'[t] : Born(p)
    <3> SUFFICES ASSUME NEW t \in Sandboxes,
                        NEW p \in sbx'[t].alloc \cup sbx'[t].release \cup view'[t].alloc
                                   \cup view'[t].release \cup back'[t] \cup tasks'[t]
                 PROVE  Born(p)
      BY Zenon
    <3>1. p \in sbx[t].alloc \cup sbx[t].release \cup view[t].alloc \cup view[t].release
                \cup back[t] \cup tasks[t]
      <4> HIDE DEF AllocationInv
      <4> QED
        BY <1>1, <1>2, <1>3, Zenon
    <3> QED
      BY <3>1, Zenon DEF BornInv
  <2> QED
    BY <1>1, <1>8, <2>1, ZenonT(30) DEF BornInv, Born, Seen
<1>12. RecycledInv'
  <2>1. \A t \in Sandboxes : \A p \in sbx'[t].released \cup view'[t].released \cup recycled'[t] :
          p \in Pods /\ Dead(p)
    BY <1>2, <1>3, <1>7, <1>9, Zenon DEF RecycledInv
  <2> QED
    BY <1>6, <2>1, Zenon DEF RecycledInv
<1>13. UsersInv'
  <2>1. \A t \in Sandboxes : sbx'[t].alloc = sbx[t].alloc
    BY <1>2, Zenon
  <2> QED
    BY <1>0, <1>1, <2>1, Fields, Zenon DEF UsersInv
<1>14. AllocInv'
  <2>1. ASSUME NEW t \in Sandboxes, NEW p \in sbx[t].alloc, ~Dead(p)
        PROVE  InPool(sbx'[t]) /\ "pool" \in sbx'[t].fin /\ (recovered => store'[p] = t)
    <3>1. p \notin view[s].released \cup recycled[s] /\ p \in Pods
      BY <1>7, <1>9, <2>1, Zenon
    <3>2. InPool(sbx[t]) /\ "pool" \in sbx[t].fin /\ (recovered => store'[p] = t)
      BY <1>8, <2>1, <3>1, Zenon DEF AllocInv
    <3>3. CASE t = s
      <4>1. ReleasedFin(s) = sbx[s].fin
        BY <1>3, <1>4, <1>5, <3>1, <3>3, Zenon
      <4> QED
        BY <1>2, <3>2, <3>3, <4>1, Zenon DEF InPool
    <3> QED
      BY <1>2, <3>2, <3>3, Zenon
  <2>2. \A t \in Sandboxes : sbx'[t].alloc = sbx[t].alloc
    BY <1>2, Zenon
  <2> QED
    BY <1>1, <1>6, <1>7, <2>1, <2>2, Zenon DEF AllocInv
<1>15. CopyInv'
  <2>1. ASSUME NEW t \in Sandboxes
        PROVE  /\ sbx'[t].phase # "detached" /\ view'[t].phase # "detached"
               /\ sbx'[t].phase = "unborn" => sbx'[t].alloc = {}
               /\ Coherent(t)' =>
                    /\ view'[t].alloc = sbx'[t].alloc
                    /\ sbx'[t].phase # "unborn"
                    /\ "pool" \in view'[t].fin /\ InPool(sbx'[t]) => "pool" \in sbx'[t].fin
    <3>1. CASE t = s
      BY <1>2, <1>3, <1>4, <1>5, <3>1, ZenonT(60) DEF CopyInv, InPool
    <3>2. CASE t # s
      BY <1>1, <1>2, <3>2 DEF CopyInv, Coherent
    <3> QED
      BY <3>1, <3>2, ZenonT(30)
  <2> QED
    BY <2>1, Zenon DEF CopyInv
<1>16. GiveInv'
  BY <1>1, Zenon DEF GiveInv, Empty
<1> QED
  BY <1>0, <1>10, <1>11, <1>12, <1>13, <1>14, <1>15, <1>16, Zenon

LEMMA InvSyncReleasedFails ==
    ASSUME Settled, AllocationInv, CacheInv', NEW s \in Sandboxes, SyncSandboxReleasedFails(s)
    PROVE  AllocationInv'
<1> USE DEF AllocationInv, infVars, ctlVars
<1>0. TypeOK' /\ TypeOK
  BY TypePool, Zenon DEF PoolStep
<1>1. /\ UNCHANGED <<sbx, pod, podCache, evict, store, recovered, pc, listed, ready, marked, evicted, give,
                     back, tasks, users>>
      /\ pc = "releasing" /\ InPool(view[s])
      /\ view' = [view EXCEPT ![s] = WithReleased(view[s], recycled[s])]
      /\ recycled' = [recycled EXCEPT ![s] = {}]
  BY Zenon DEF SyncSandboxReleasedFails, Settled
<1> DEFINE mine == WithReleased(view[s], recycled[s])
<1>2. /\ \A t \in Sandboxes \ {s} : view'[t] = view[t] /\ recycled'[t] = recycled[t]
      /\ recycled'[s] = {} /\ view'[s] = mine
  BY <1>0, <1>1, Fields, ZenonT(30)
<1>3. /\ mine.phase = view[s].phase /\ mine.alloc = view[s].alloc
      /\ mine.release = view[s].release /\ mine.released = view[s].released \cup recycled[s]
      /\ "pool" \in mine.fin => "pool" \in view[s].fin
  BY <1>0, WithReleasedFields, Fields
<1> HIDE DEF mine
<1>4. \A p \in Pods : Dead(p)' <=> Dead(p)
  BY <1>1, Zenon DEF Dead
<1>5. /\ \A t \in Sandboxes : /\ sbx[t].alloc \subseteq Pods
                              /\ sbx[t].released \subseteq Pods
                              /\ view[t].released \subseteq Pods
                              /\ recycled[t] \subseteq Pods
  BY <1>0, Fields, Zenon
<1>6. UnrecoveredInv' /\ ListInv' /\ UsersInv' /\ GiveInv'
  BY <1>1, Zenon DEF UnrecoveredInv, ListInv, UsersInv, GiveInv, Born, Seen, Empty
<1>7. BornInv'
  BY <1>1, <1>2, <1>3 DEF BornInv, Born, Seen
<1>8. RecycledInv'
  <2>1. \A t \in Sandboxes : \A p \in view'[t].released \cup recycled'[t] : p \in Pods /\ Dead(p)
    BY <1>2, <1>3, <1>5, Zenon DEF RecycledInv
  <2> QED
    BY <1>1, <1>4, <1>5, <2>1, Zenon DEF RecycledInv
<1>9. AllocInv'
  BY <1>1, <1>4, <1>5, ZenonT(30) DEF AllocInv
<1>10. CopyInv'
  <2>1. \A t \in Sandboxes : Coherent(t)' <=> Coherent(t)
    BY <1>1, <1>2, <1>3, Zenon DEF Coherent, InPool
  <2> QED
    BY <1>1, <1>2, <1>3, <2>1 DEF CopyInv
<1> QED
  BY <1>0, <1>6, <1>7, <1>8, <1>9, <1>10, Zenon


\* The finalizer of a deleted sandbox goes when all its pods are recycled, and an orphan's
\* pods are forgotten when they are gone.
LEMMA InvFinalize == ASSUME Settled, AllocationInv, CacheInv', DoFinalize PROVE AllocationInv'
<1> USE DEF AllocationInv, infVars
<1>0. TypeOK' /\ TypeOK
  BY TypePool, Zenon DEF PoolStep
<1>1. PICK done \in SUBSET {s \in Sandboxes : view[s].phase = "deleting"
                                              /\ Outstanding(view[s]) = {}} :
        /\ sbx' = [s \in Sandboxes |->
                     IF s \in done /\ Exists(sbx[s])
                     THEN Settle([sbx[s] EXCEPT !.fin = sbx[s].fin \ {"pool"}]) ELSE sbx[s]]
        /\ view' = [s \in Sandboxes |->
                      IF s \in done THEN [view[s] EXCEPT !.fin = view[s].fin \ {"pool"}]
                      ELSE view[s]]
  BY Zenon DEF DoFinalize
<1>2. /\ UNCHANGED <<pod, podCache, evict, recovered, listed, ready, marked, evicted, give, back, tasks, users>>
      /\ pc = "releasing" /\ pc' = "scaling" /\ recycled' = Empty
      /\ store' = ReleaseAllocation(store, UNION {recycled[s] : s \in Sandboxes})
  BY Zenon DEF DoFinalize
<1>3. ASSUME NEW s \in Sandboxes
      PROVE  /\ view'[s].phase = view[s].phase /\ view'[s].alloc = view[s].alloc
             /\ view'[s].release = view[s].release /\ view'[s].released = view[s].released
             /\ "pool" \in view'[s].fin => "pool" \in view[s].fin /\ s \notin done
  <2>1. view[s] \in SandboxObject
    BY <1>0, Fields, Zenon
  <2> DEFINE v == [view[s] EXCEPT !.fin = view[s].fin \ {"pool"}]
  <2>2. /\ v.phase = view[s].phase /\ v.alloc = view[s].alloc
        /\ v.release = view[s].release /\ v.released = view[s].released
        /\ v.fin = view[s].fin \ {"pool"}
    BY <2>1, Zenon DEF SandboxObject
  <2>3. view'[s] = IF s \in done THEN v ELSE view[s]
    BY <1>1, Zenon
  <2> HIDE DEF v
  <2> QED
    BY <2>2, <2>3, Zenon
<1>4. ASSUME NEW s \in Sandboxes
      PROVE  /\ sbx'[s].alloc = sbx[s].alloc /\ sbx'[s].release = sbx[s].release
             /\ sbx'[s].released = sbx[s].released
             /\ s \notin done => sbx'[s] = sbx[s]
             /\ \/ sbx'[s].phase = sbx[s].phase
                \/ sbx'[s].phase = "gone"
  <2>1. sbx[s] \in SandboxObject
    BY <1>0, Fields, Zenon
  <2> DEFINE o == [sbx[s] EXCEPT !.fin = sbx[s].fin \ {"pool"}]
  <2>2. /\ o \in SandboxObject /\ o.phase = sbx[s].phase /\ o.alloc = sbx[s].alloc
        /\ o.release = sbx[s].release /\ o.released = sbx[s].released
    BY <2>1, Zenon DEF SandboxObject
  <2>3. sbx'[s] = IF s \in done /\ Exists(sbx[s]) THEN Settle(o) ELSE sbx[s]
    BY <1>1, Zenon
  <2> HIDE DEF o
  <2> QED
    BY <2>2, <2>3, SettleFields
<1>5. \A s \in Sandboxes : Coherent(s)' <=> Coherent(s)
  BY <1>2, <1>3, Zenon DEF Coherent, InPool
<1>6. /\ \A t \in Sandboxes : /\ sbx[t].alloc \subseteq Pods
                              /\ sbx[t].released \subseteq Pods
                              /\ view[t].released \subseteq Pods
                              /\ recycled[t] \subseteq Pods
  BY <1>0, Fields, Zenon
<1>7. \A s \in done : \A p \in sbx[s].alloc : Dead(p)
  <2> SUFFICES ASSUME NEW s \in done, NEW p \in sbx[s].alloc PROVE Dead(p)
    OBVIOUS
  <2>1. view[s].alloc = sbx[s].alloc /\ Outstanding(view[s]) = {}
    BY <1>2, Zenon DEF CopyInv, Coherent, InPool
  <2> QED
    BY <2>1, Zenon DEF Outstanding, RecycledInv
<1>8. \A p \in Pods : Dead(p)' <=> Dead(p)
  BY <1>2, Zenon DEF Dead
<1>9. \A p \in Pods : store'[p] = store[p] \/ (store'[p] = NoSandbox /\ Dead(p))
  BY <1>2, Zenon DEF ReleaseAllocation, RecycledInv
<1>10. UnrecoveredInv' /\ ListInv' /\ GiveInv'
  BY <1>2, Zenon DEF UnrecoveredInv, ListInv, GiveInv, Born, Seen, Empty
<1>11. BornInv'
  <2>1. \A s \in Sandboxes :
          \A p \in sbx'[s].alloc \cup sbx'[s].release \cup view'[s].alloc \cup view'[s].release
                   \cup back'[s] \cup tasks'[s] : Born(p)
    <3> SUFFICES ASSUME NEW s \in Sandboxes,
                        NEW p \in sbx'[s].alloc \cup sbx'[s].release \cup view'[s].alloc
                                   \cup view'[s].release \cup back'[s] \cup tasks'[s]
                 PROVE  Born(p)
      BY Zenon
    <3>1. p \in sbx[s].alloc \cup sbx[s].release \cup view[s].alloc \cup view[s].release
                \cup back[s] \cup tasks[s]
      <4> HIDE DEF AllocationInv
      <4> QED
        BY <1>2, <1>3, <1>4, Zenon
    <3> QED
      BY <3>1, Zenon DEF BornInv
  <2> QED
    BY <1>2, <1>9, <2>1, ZenonT(60) DEF BornInv, Born, Seen
<1>12. RecycledInv'
  <2>1. \A s \in Sandboxes : recycled'[s] = {}
    BY <1>2, Zenon DEF Empty
  <2> QED
    BY <1>3, <1>4, <1>6, <1>8, <2>1 DEF RecycledInv
<1>13. UsersInv'
  BY <1>0, <1>2, <1>4, Fields, Zenon DEF UsersInv
<1>14. AllocInv'
  <2>1. ASSUME NEW t \in Sandboxes, NEW p \in sbx[t].alloc, ~Dead(p)
        PROVE  InPool(sbx'[t]) /\ "pool" \in sbx'[t].fin /\ (recovered => store'[p] = t)
    BY <1>4, <1>6, <1>7, <1>9, <2>1, ZenonT(60) DEF AllocInv
  <2>2. \A t \in Sandboxes : sbx'[t].alloc = sbx[t].alloc
    BY <1>4, Zenon
  <2> QED
    BY <1>2, <1>6, <1>8, <2>1, <2>2, ZenonT(30) DEF AllocInv
<1>15. CopyInv'
  <2>1. ASSUME NEW t \in Sandboxes
        PROVE  /\ sbx'[t].phase # "detached" /\ view'[t].phase # "detached"
               /\ sbx'[t].phase = "unborn" => sbx'[t].alloc = {}
               /\ Coherent(t)' =>
                    /\ view'[t].alloc = sbx'[t].alloc
                    /\ sbx'[t].phase # "unborn"
                    /\ "pool" \in view'[t].fin /\ InPool(sbx'[t]) => "pool" \in sbx'[t].fin
    BY <1>3, <1>4, <1>5 DEF CopyInv
  <2> QED
    BY <2>1, Zenon DEF CopyInv
<1> QED
  BY <1>0, <1>10, <1>11, <1>12, <1>13, <1>14, <1>15, Zenon

LEMMA InvEnd == ASSUME Settled, AllocationInv, CacheInv', Scale \/ Abort PROVE AllocationInv'
<1> USE DEF apiVars, infVars, ctlVars
<1>0. TypeOK' /\ TypeOK
  BY TypePool, Zenon DEF PoolStep, AllocationInv
<1>1. /\ UNCHANGED <<sbx, podCache, evict, tasks, users, store, recovered>>
      /\ Idle \/ (Retry /\ pc = "scaling")
  BY Zenon DEF Scale, Abort
<1>2. \A p \in Pods : /\ pod[p] = "gone" => pod'[p] = "gone"
                      /\ pod[p] # "absent" => pod'[p] # "absent"
  <2>1. CASE Scale
    BY <1>0, <2>1, Fields, Zenon DEF Scale, Alive
  <2>2. CASE Abort
    BY <2>2, Zenon DEF Abort
  <2> QED
    BY <2>1, <2>2, Zenon
<1>3. /\ pc' = "idle" \/ (UNCHANGED listed /\ pc # "idle")
      /\ listed' = {} \/ UNCHANGED <<listed, marked>>
  BY <1>1 DEF Idle, Retry
<1>4. \A p \in Pods : (Dead(p) => Dead(p)') /\ (Born(p) => Born(p)')
  BY <1>1, <1>2, <1>3 DEF Born, Seen, Dead
<1> QED
  BY <1>0, <1>1, <1>4, EndFrame, Zenon

-----------------------------------------------------------------------------
(* The theorems *)

LEMMA InvInit == Init => AllocationInv
<1> SUFFICES ASSUME Init PROVE AllocationInv
  OBVIOUS
<1>1. TypeOK
  BY TypeInit, Zenon
<1>2. /\ \A s \in Sandboxes : /\ sbx[s] = Unborn /\ view[s] = Unborn /\ back[s] = {}
                              /\ tasks[s] = {} /\ recycled[s] = {} /\ give[s] = {}
      /\ \A p \in Pods : users[p] = {} /\ store[p] = NoSandbox
      /\ listed = {} /\ ready = {} /\ marked = {} /\ evicted = {} /\ pc = "idle" /\ give = Empty
  BY Zenon DEF Init, Empty
<1>3. UnrecoveredInv /\ ListInv /\ BornInv /\ RecycledInv
  BY <1>2 DEF UnrecoveredInv, ListInv, BornInv, RecycledInv, Unborn
<1>4. CacheInv
  BY ZenonT(60) DEF Init, CacheInv, Leaving
<1>5. AllocInv /\ CopyInv /\ GiveInv /\ UsersInv
  BY <1>2 DEF AllocInv, CopyInv, GiveInv, UsersInv, Coherent, Unborn
<1> QED
  BY <1>1, <1>3, <1>5, <1>4, Zenon DEF AllocationInv

LEMMA InvNext == ASSUME Settled, AllocationInv, [Next]_vars PROVE AllocationInv'
<1>0. CacheInv'
  BY CacheNext, Zenon
<1>1. CASE PoolStep
  BY <1>0, <1>1, InvBegin, InvSchedule, InvSyncAllocation, InvSyncAllocationFails, InvRecycle,
     InvSyncReleased, InvSyncReleasedFails, InvFinalize, InvEnd, Zenon DEF PoolStep
<1>2. CASE UNCHANGED vars
  <2>1. TypeOK'
    BY <1>2, Zenon DEF TypeOK, vars, recVars, infVars, ctlVars, apiVars, AllocationInv
  <2> QED
    BY <1>0, <1>2, <2>1, PodFrame, Zenon DEF vars, recVars, infVars, ctlVars, apiVars, Born, Seen, Dead
<1> QED
  BY <1>0, <1>1, <1>2, InvRestart, InvSandbox, InvPod, Zenon DEF Next

\* The invariant that explains exclusive allocation holds in every instance in which the
\* BatchSandboxes read are current, replies arrive and no sandbox detaches, whatever else
\* happens: restarts, failed writes, conflicts, evictions, lost pods, old lists of pods.
THEOREM AllocationInvariant == Settled => (Spec => []AllocationInv)
<1> SUFFICES ASSUME Settled PROVE Spec => []AllocationInv
  OBVIOUS
<1>1. AllocationInv /\ [Next]_vars => AllocationInv'
  BY InvNext, Zenon
<1> QED
  BY <1>1, InvInit, PTL DEF Spec

\* No pod is allocated to two sandboxes at a time.
THEOREM Exclusive == Settled => (Spec => []ExclusiveAllocation)
<1>1. AllocationInv => ExclusiveAllocation
  BY Zenon DEF AllocationInv, AllocInv, ExclusiveAllocation, Outstanding
<1> QED
  BY <1>1, AllocationInvariant, PTL

\* A pod serves one sandbox in its life: what it left behind meets no other.
THEOREM Clean == Settled => (Spec => []CleanHandover)
<1>1. AllocationInv => CleanHandover
  <2> SUFFICES ASSUME AllocationInv, NEW p \in Pods PROVE Cardinality(users[p]) <= 1
    BY Zenon DEF CleanHandover
  <2>1. users[p] \subseteq Sandboxes
    BY Fields, Zenon DEF AllocationInv
  <2>2. \A s, t \in users[p] : s = t
    BY <2>1, Zenon DEF AllocationInv, AllocInv, UsersInv
  <2>3. CASE users[p] = {}
    BY <2>3, FS_EmptySet
  <2>4. CASE users[p] # {}
    <3>1. PICK s : s \in users[p]
      BY <2>4, Zenon
    <3>2. users[p] = {s}
      BY <2>2, <3>1, Zenon
    <3>3. Cardinality({s}) = 1
      BY FS_Singleton, Zenon
    <3> QED
      BY <3>2, <3>3
  <2> QED
    BY <2>3, <2>4, Zenon
<1> QED
  BY <1>1, AllocationInvariant, PTL

\* A pod that has been used and is alive is never idle in the store.
THEOREM UsedNotIdle == Settled => (Spec => []UsedPodNotIdle)
<1>1. AllocationInv => UsedPodNotIdle
  <2> SUFFICES ASSUME AllocationInv, recovered, NEW p \in Pods, Alive(p), NEW s \in users[p]
               PROVE  store[p] \in users[p]
    BY Zenon DEF UsedPodNotIdle
  <2>1. s \in Sandboxes /\ p \in sbx[s].alloc
    BY Fields, Zenon DEF AllocationInv, UsersInv
  <2>2. ~Dead(p)
    BY Zenon DEF Dead, Alive
  <2> QED
    BY <2>1, <2>2 DEF AllocationInv, AllocInv
<1> QED
  BY <1>1, AllocationInvariant, PTL

\* A release is recorded only for a pod that is gone.
THEOREM Released == Settled => (Spec => []ReleasedPodGone)
<1>1. AllocationInv => ReleasedPodGone
  BY Zenon DEF AllocationInv, RecycledInv, Dead, ReleasedPodGone
<1> QED
  BY <1>1, AllocationInvariant, PTL

\* A sandbox that has left the API server leaves no pod behind.
THEOREM Freed == Settled => (Spec => []GoneSandboxFreed)
<1>1. AllocationInv => GoneSandboxFreed
  BY Zenon DEF AllocationInv, AllocInv, Dead, Alive, InPool, GoneSandboxFreed
<1> QED
  BY <1>1, AllocationInvariant, PTL
=============================================================================
