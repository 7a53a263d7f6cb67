------------------------- MODULE PoolAllocationHold -------------------------
(***************************************************************************)
(* A pod in use is left alone: HoldInv is inductive beside AllocationInv,   *)
(* and the Pool neither recycles, evicts nor scales away a pod that a      *)
(* sandbox holds, nor hands out one that is not alive.                     *)
(***************************************************************************)
EXTENDS PoolAllocationProofs
-----------------------------------------------------------------------------
(* HoldInv: what is in use is left alone *)

LEMMA HoldBegin == ASSUME Settled, AllocationInv, HoldInv, Begin PROVE HoldInv'
<1>1. /\ \A s \in Sandboxes : view'[s] = sbx[s]
      /\ listed' = {p \in Pods : ReadPod(p) \in {"pending", "ready"}}
      /\ marked' = evict \cap listed'
      /\ give' = Empty /\ pc = "idle" /\ pc' = "listed"
      /\ UNCHANGED <<sbx, pod, podCache, evict, tasks, back, drop>>
  BY ReadsCurrent, Zenon DEF Begin, GiveInv, AllocationInv, apiVars, infVars
<1>2. TaskInv' /\ FinalizerGuardsPods'
  BY <1>1, Zenon DEF HoldInv, TaskInv, TaskHoldsPod, FinalizerGuardsPods
<1>3. /\ \A p \in Pods : Dead(p) => Dead(p)'
      /\ \A s \in Sandboxes : sbx[s].alloc \subseteq Pods
  <2>1. \A p \in Pods : Dead(p) => Dead(p)'
    BY <1>1 DEF Dead, ReadPod, Lagging
  <2> QED
    BY <2>1, Fields, Zenon DEF AllocationInv
<1>4. BackInv'
  <2>1. drop = {} /\ drop' = {} /\ \A s \in Sandboxes : give'[s] = {} /\ back'[s] = back[s]
    BY <1>1, Zenon DEF HoldInv, BackInv, Empty
  <2>2. \A s, t \in Sandboxes : \A p \in back[t] :
          InPool(sbx'[s]) /\ p \in sbx'[s].alloc => Dead(p)' \/ HandedBack(s, p)'
    BY <1>1, <1>3, Zenon DEF HoldInv, BackInv, HandedBack
  <2> QED
    BY <2>1, <2>2, Zenon DEF BackInv
<1>5. ViewInv'
  BY <1>1 DEF HoldInv, ViewInv, AllocationInv, CopyInv, Empty, InPool
<1> QED
  BY <1>2, <1>4, <1>5, Zenon DEF HoldInv

LEMMA HoldSchedule ==
    ASSUME Settled, AllocationInv, AllocationInv', HoldInv, Schedule PROVE HoldInv'
<1>1. /\ UNCHANGED <<sbx, podCache, evict, view, listed, marked, tasks, drop>>
      /\ pc = "listed" /\ pc' = "allocating" /\ recovered'
      /\ give' \in PackedSchedule(Available(store', evicted'), Supplements(view))
      /\ back' = AllRelease(store', view)
  BY Zenon DEF Schedule, infVars
<1>2. \A p \in Pods : pod[p] = "gone" <=> pod'[p] = "gone"
  BY Fields, Zenon DEF Schedule, Alive, AllocationInv
<1>3. \A p \in Pods : Dead(p)' <=> Dead(p)
  BY <1>1, <1>2, Zenon DEF Dead
<1>4. \A s \in Sandboxes : /\ sbx[s].alloc \subseteq Pods /\ tasks[s] \subseteq Pods
                           /\ view[s].alloc \subseteq Pods /\ view[s].release \subseteq Pods
  BY Fields, Zenon DEF AllocationInv
<1>5. TaskInv' /\ FinalizerGuardsPods'
  BY <1>1, <1>2, <1>4, Zenon DEF HoldInv, TaskInv, TaskHoldsPod, FinalizerGuardsPods
<1>6. \A s \in Sandboxes : give'[s] # {} => view[s].phase = "live"
  <2> SUFFICES ASSUME NEW s \in Sandboxes, view[s].phase # "live" PROVE give'[s] = {}
    OBVIOUS
  <2>1. Supplements(view)[s] = 0
    BY Zenon DEF Supplements, PodSupplement
  <2>2. Cardinality(give'[s]) <= Supplements(view)[s]
    BY <1>1, Zenon DEF PackedSchedule
  <2>3. IsFiniteSet(give'[s]) /\ Cardinality(give'[s]) \in Nat
    BY PodsCardinality, Zenon DEF AllocationInv, TypeOK
  <2> QED
    BY <2>1, <2>2, <2>3, FS_EmptySet
<1>7. ViewInv'
  BY <1>1, <1>6 DEF HoldInv, ViewInv
<1>8. ASSUME NEW t \in Sandboxes, NEW p \in back'[t]
      PROVE  \/ ~InPool(view[t]) /\ store'[p] = t
             \/ p \in view[t].release /\ p \in sbx[t].release /\ p \in sbx[t].alloc
             \/ /\ p \in sbx[t].alloc /\ sbx[t].phase \in {"deleting", "gone"}
                /\ "task" \notin sbx[t].fin
  <2>1. CASE ~InPool(view[t])
    BY <1>1, <1>8, <2>1, Zenon DEF AllRelease
  <2>2. CASE InPool(view[t])
    <3>1. p \in ToRelease(view[t])
      BY <1>1, <1>8, <2>2, Zenon DEF AllRelease
    <3>2. CASE p \in view[t].release
      BY <2>2, <3>2, Zenon DEF HoldInv, ViewInv
    <3>3. CASE view[t].phase = "deleting" /\ "task" \notin view[t].fin /\ p \in view[t].alloc
      <4>1. view[t].alloc = sbx[t].alloc
        BY <1>1, <2>2 DEF AllocationInv, CopyInv, Coherent
      <4> QED
        BY <3>3, <4>1, Zenon DEF HoldInv, ViewInv
    <3> QED
      BY <3>1, <3>2, <3>3, Zenon DEF ToRelease
  <2> QED
    BY <2>1, <2>2, Zenon
<1>9. BackInv'
  <2>1. drop' = {}
    BY <1>1, Zenon DEF HoldInv, BackInv
  <2>2. ASSUME NEW s \in Sandboxes, NEW t \in Sandboxes PROVE give'[s] \cap back'[t] = {}
    <3> SUFFICES ASSUME NEW p \in give'[s], p \in back'[t] PROVE FALSE
      BY Zenon
    <3>1. store'[p] = NoSandbox /\ \A u \in Sandboxes : p \notin sbx[u].alloc
      BY <1>1, Zenon DEF AllocationInv, GiveInv
    <3> QED
      BY <1>8, <3>1, AllocAssumption, Zenon
  <2>3. ASSUME NEW s \in Sandboxes, NEW t \in Sandboxes, NEW p \in back'[t],
               InPool(sbx[s]), p \in sbx[s].alloc, ~Dead(p)
        PROVE  HandedBack(s, p)
    <3>1. store'[p] = s
      BY <1>1, <1>3, <1>4, <2>3, Zenon DEF AllocationInv, AllocInv
    <3>2. p \in sbx[t].alloc => t = s
      BY <2>3, Zenon DEF AllocationInv, AllocInv
    <3>3. CASE ~InPool(view[t]) /\ store'[p] = t
      <4>1. view[s].phase \in {"unborn", "gone"}
        BY <3>1, <3>3, Fields DEF AllocationInv, CopyInv, InPool, SandboxObject
      <4> QED
        BY <1>1, <2>3, <4>1 DEF HoldInv, ViewInv, InPool
    <3>4. CASE p \in sbx[t].release /\ p \in sbx[t].alloc
      BY <3>2, <3>4, Zenon DEF HandedBack
    <3>5. CASE /\ p \in sbx[t].alloc /\ sbx[t].phase \in {"deleting", "gone"}
               /\ "task" \notin sbx[t].fin
      BY <2>3, <3>2, <3>5 DEF HandedBack, InPool
    <3> QED
      BY <1>8, <3>3, <3>4, <3>5, Zenon
  <2>4. \A s, t \in Sandboxes : \A p \in back'[t] :
          InPool(sbx'[s]) /\ p \in sbx'[s].alloc => Dead(p)' \/ HandedBack(s, p)'
    BY <1>1, <1>3, <1>4, <2>3, Zenon DEF HandedBack
  <2> QED
    BY <2>1, <2>2, <2>4, Zenon DEF BackInv
<1> QED
  BY <1>5, <1>7, <1>9, Zenon DEF HoldInv
-----------------------------------------------------------------------------
(* The writes *)

LEMMA HoldSyncAllocation ==
    ASSUME Settled, AllocationInv, AllocationInv', HoldInv,
           NEW s \in Sandboxes, SyncSandboxAllocation(s)
    PROVE  HoldInv'
<1> USE DEF AllocationInv
<1>1. /\ UNCHANGED <<pod, podCache, evict, pc, listed, marked, back, drop, tasks>>
      /\ pc = "allocating" /\ give[s] # {}
      /\ view' = [view EXCEPT ![s] = WithAllocation(view[s], give[s])]
      /\ give' = [give EXCEPT ![s] = {}]
      /\ PatchAllocation(s)
  BY Zenon DEF SyncSandboxAllocation, infVars
<1>2. /\ \A t \in Sandboxes \ {s} : sbx'[t] = sbx[t] /\ view'[t] = view[t]
      /\ \A t \in Sandboxes : give'[t] \subseteq give[t]
      /\ give'[s] = {}
      /\ sbx'[s].phase = sbx[s].phase /\ sbx'[s].alloc = view[s].alloc \cup give[s]
      /\ sbx'[s].release = sbx[s].release /\ sbx'[s].released = sbx[s].released
      /\ sbx'[s].fin = AllocationFin(s)
      /\ view'[s] = WithAllocation(view[s], give[s])
  BY <1>1, PatchAllocationFields, Fields, Zenon
<1>3. /\ view'[s].phase = view[s].phase /\ view'[s].release = view[s].release
      /\ view'[s].released = view[s].released /\ "pool" \in view'[s].fin
  <2> DEFINE mine == WithAllocation(view[s], give[s])
  <2>1. /\ mine.phase = view[s].phase /\ mine.release = view[s].release
        /\ mine.released = view[s].released /\ mine.fin = view[s].fin \cup {"pool"}
    BY WithAllocationFields, Fields
  <2>2. view'[s] = mine
    BY <1>2, Zenon
  <2> HIDE DEF mine
  <2> QED
    BY <2>1, <2>2, Zenon
<1>4. /\ view[s].phase = "live" /\ view[s].alloc = sbx[s].alloc
      /\ "pool" \in view[s].fin /\ InPool(sbx[s]) => "pool" \in sbx[s].fin
  <2>1. view[s].phase = "live"
    BY <1>1, Zenon DEF HoldInv, ViewInv
  <2>2. Coherent(s)
    BY <1>1, <2>1 DEF Coherent, InPool
  <2> QED
    BY <2>1, <2>2, Zenon DEF CopyInv
<1>5. /\ InPool(sbx[s])
      /\ sbx[s].phase = "deleting" => AllocationFin(s) \subseteq sbx[s].fin
  BY <1>1, Zenon DEF PatchAllocation, PatchAllowed, CopyInv, Exists, InPool
<1>6. AllocationFin(s) = IF "pool" \in view[s].fin THEN sbx[s].fin ELSE view[s].fin \cup {"pool"}
  BY Zenon DEF AllocationFin
<1>7. \A p : Dead(p)' <=> Dead(p)
  BY <1>1, Zenon DEF Dead
<1>8. TaskInv'
  <2>1. \A t \in Sandboxes : \A p \in tasks[t] : pod[p] # "gone" /\ ~Dead(p)
    BY Zenon DEF HoldInv, TaskInv, Dead
  <2>2. tasks[s] # {} => AllocationFin(s) = sbx[s].fin
    <3>1. tasks[s] # {} => "pool" \in sbx[s].fin
      BY <2>1, Zenon DEF HoldInv, TaskInv, TaskHoldsPod, AllocInv, Outstanding
    <3> QED
      BY <1>4, <1>6, <3>1, Zenon DEF HoldInv, ViewInv
  <2>3. ASSUME NEW t \in Sandboxes, NEW p \in tasks[t]
        PROVE  /\ InPool(sbx'[t]) /\ "task" \in sbx'[t].fin
               /\ p \in Outstanding(sbx'[t]) \ sbx'[t].release
    <3>1. /\ InPool(sbx[t]) /\ "task" \in sbx[t].fin
          /\ p \in Outstanding(sbx[t]) \ sbx[t].release
      BY Zenon DEF HoldInv, TaskInv, TaskHoldsPod
    <3>2. CASE t = s
      BY <1>2, <1>4, <1>5, <2>2, <3>1, <3>2, Zenon DEF Outstanding, InPool
    <3> QED
      BY <1>2, <3>1, <3>2, Zenon
  <2> QED
    BY <1>1, <2>1, <2>3, Zenon DEF TaskInv, TaskHoldsPod
<1>9. FinalizerGuardsPods'
  <2>1. "pool" \in sbx'[s].fin
    BY <1>2, <1>4, <1>5, <1>6, Zenon
  <2> QED
    BY <1>2, <2>1, Zenon DEF HoldInv, FinalizerGuardsPods
<1>10. ViewInv'
  <2>1. sbx'[s].release \subseteq sbx'[s].alloc
    BY <1>2, <1>4, Zenon DEF HoldInv, ViewInv
  <2>2. view[s].release \subseteq sbx[s].release /\ sbx[s].released \subseteq view[s].released
    BY <1>4 DEF HoldInv, ViewInv, InPool
  <2>3. \A t \in Sandboxes \ {s} : give'[t] # {} => view[t].phase = "live"
    BY <1>2, Zenon DEF HoldInv, ViewInv
  <2>4. /\ give'[s] = {} /\ view'[s].phase = "live" /\ "pool" \in view'[s].fin
        /\ view'[s].release \subseteq sbx'[s].release
        /\ sbx'[s].released \subseteq view'[s].released
    BY <1>2, <1>3, <1>4, <2>2, Zenon
  <2>5. UNCHANGED pc
    BY <1>1, Zenon
  <2> QED
    BY <1>2, <2>1, <2>3, <2>4, <2>5 DEF HoldInv, ViewInv
<1>11. BackInv'
  <2>1. ASSUME NEW t \in Sandboxes, NEW u \in Sandboxes, NEW p \in back[u],
               InPool(sbx'[t]), p \in sbx'[t].alloc
        PROVE  Dead(p) \/ HandedBack(t, p)'
    <3>1. CASE t = s
      <4>1. p \notin give[s]
        BY Zenon DEF HoldInv, BackInv
      <4>2. p \in sbx[s].alloc
        BY <1>2, <1>4, <2>1, <3>1, <4>1, Zenon
      <4>3. Dead(p) \/ HandedBack(s, p)
        BY <1>5, <4>2, Zenon DEF HoldInv, BackInv
      <4>4. HandedBack(s, p) => HandedBack(s, p)'
        BY <1>2, <1>5, Zenon DEF HandedBack
      <4> QED
        BY <3>1, <4>3, <4>4, Zenon
    <3>2. CASE t # s
      BY <1>2, <2>1, <3>2, Zenon DEF HoldInv, BackInv, HandedBack
    <3> QED
      BY <3>1, <3>2, Zenon
  <2>2. \A t, u \in Sandboxes : give'[t] \cap back[u] = {}
    BY <1>2, Zenon DEF HoldInv, BackInv
  <2> QED
    BY <1>1, <1>7, <2>1, <2>2, Zenon DEF HoldInv, BackInv
<1> QED
  BY <1>8, <1>9, <1>10, <1>11, Zenon DEF HoldInv

LEMMA HoldSyncAllocationFails ==
    ASSUME Settled, AllocationInv, HoldInv, NEW s \in Sandboxes, SyncSandboxAllocationFails(s)
    PROVE  HoldInv'
<1> USE DEF AllocationInv
<1>1. /\ UNCHANGED <<sbx, pod, podCache, evict, pc, listed, marked, back, drop, tasks>>
      /\ pc = "allocating" /\ give[s] # {}
      /\ view' = [view EXCEPT ![s] = WithAllocation(view[s], give[s])]
      /\ give' = [give EXCEPT ![s] = {}]
  BY Zenon DEF SyncSandboxAllocationFails, Settled, infVars
<1>2. /\ \A t \in Sandboxes \ {s} : view'[t] = view[t]
      /\ \A t \in Sandboxes : give'[t] \subseteq give[t]
      /\ give'[s] = {}
      /\ view'[s] = WithAllocation(view[s], give[s])
  BY <1>1, Fields, Zenon
<1>3. /\ view'[s].phase = view[s].phase /\ view'[s].release = view[s].release
      /\ view'[s].released = view[s].released /\ "pool" \in view'[s].fin
  <2> DEFINE mine == WithAllocation(view[s], give[s])
  <2>1. /\ mine.phase = view[s].phase /\ mine.release = view[s].release
        /\ mine.released = view[s].released /\ mine.fin = view[s].fin \cup {"pool"}
    BY WithAllocationFields, Fields
  <2>2. view'[s] = mine
    BY <1>2, Zenon
  <2> HIDE DEF mine
  <2> QED
    BY <2>1, <2>2, Zenon
<1>4. TaskInv' /\ FinalizerGuardsPods'
  BY <1>1, Zenon DEF HoldInv, TaskInv, TaskHoldsPod, FinalizerGuardsPods
<1>5. view[s].phase = "live"
  BY <1>1, Zenon DEF HoldInv, ViewInv
<1>6. ViewInv'
  <2>1. view[s].release \subseteq sbx[s].release /\ sbx[s].released \subseteq view[s].released
    BY <1>5 DEF HoldInv, ViewInv, InPool
  <2>2. \A t \in Sandboxes \ {s} : give'[t] # {} => view[t].phase = "live"
    BY <1>2, Zenon DEF HoldInv, ViewInv
  <2>3. /\ give'[s] = {} /\ view'[s].phase = "live" /\ "pool" \in view'[s].fin
        /\ view'[s].release \subseteq sbx[s].release
        /\ sbx[s].released \subseteq view'[s].released
    BY <1>2, <1>3, <1>5, <2>1, Zenon
  <2> QED
    BY <1>1, <1>2, <2>2, <2>3 DEF HoldInv, ViewInv
<1>7. BackInv'
  <2>1. \A t, u \in Sandboxes : give'[t] \cap back[u] = {}
    BY <1>2, Zenon DEF HoldInv, BackInv
  <2>2. \A t \in Sandboxes : \A p : /\ Dead(p)' <=> Dead(p)
                                    /\ HandedBack(t, p)' <=> HandedBack(t, p)
    BY <1>1, Zenon DEF Dead, HandedBack
  <2> QED
    BY <1>1, <2>1, <2>2, Zenon DEF HoldInv, BackInv
<1> QED
  BY <1>4, <1>6, <1>7, Zenon DEF HoldInv
\* What SetReleased does to the finalizers, by the phase of the copy.
LEMMA WithReleasedFin ==
    ASSUME NEW o \in SandboxObject, NEW pods \in SUBSET Pods
    PROVE  /\ o.phase # "deleting" => WithReleased(o, pods).fin = o.fin
           /\ o.phase = "deleting" /\ o.alloc \subseteq o.released \cup pods
                => WithReleased(o, pods).fin = o.fin \ {"pool"}
BY Zenon DEF WithReleased, SandboxObject

LEMMA HoldSyncReleased ==
    ASSUME Settled, AllocationInv, AllocationInv', HoldInv,
           NEW s \in Sandboxes, SyncSandboxReleased(s)
    PROVE  HoldInv'
<1> USE DEF AllocationInv
<1>1. /\ UNCHANGED <<pod, podCache, evict, pc, listed, marked, give, back, drop, tasks>>
      /\ pc = "releasing" /\ InPool(view[s])
      /\ view' = [view EXCEPT ![s] = WithReleased(view[s], recycled[s])]
      /\ PatchReleased(s)
  BY Zenon DEF SyncSandboxReleased, infVars
<1> DEFINE mine == WithReleased(view[s], recycled[s])
           new == view[s].released \cup recycled[s]
<1>2. /\ \A t \in Sandboxes \ {s} : sbx'[t] = sbx[t] /\ view'[t] = view[t]
      /\ sbx'[s].alloc = sbx[s].alloc
      /\ sbx'[s].release = sbx[s].release
      /\ sbx'[s].released = new
      /\ sbx'[s].fin = ReleasedFin(s)
      /\ sbx'[s].phase = sbx[s].phase \/ (sbx'[s].phase = "gone" /\ ReleasedFin(s) = {})
      /\ view'[s] = mine
  BY <1>1, PatchReleasedFields, Fields, Zenon
<1>3. /\ mine.phase = view[s].phase /\ mine.alloc = view[s].alloc
      /\ mine.release = view[s].release /\ mine.released = new
      /\ \/ mine.fin = view[s].fin
         \/ /\ mine.fin = view[s].fin \ {"pool"}
            /\ view[s].alloc \subseteq new
      /\ view[s].phase # "deleting" => mine.fin = view[s].fin
  BY WithReleasedFields, WithReleasedFin, Fields, Zenon
<1>4. ReleasedFin(s) = IF mine.fin = view[s].fin THEN sbx[s].fin ELSE mine.fin
  BY Zenon DEF ReleasedFin
<1> HIDE DEF mine
<1>5. /\ view[s].alloc = sbx[s].alloc /\ InPool(sbx[s])
      /\ sbx[s].phase = "deleting" => ReleasedFin(s) \subseteq sbx[s].fin
  BY <1>1, Zenon DEF CopyInv, Coherent, PatchReleased, PatchAllowed, Exists, InPool
<1>6. \A p : Dead(p)' <=> Dead(p)
  BY <1>1, Zenon DEF Dead
<1>7. /\ view[s].release \subseteq sbx[s].release
      /\ sbx[s].released \subseteq new
      /\ \A p \in new : Dead(p)
  BY <1>1, Zenon DEF HoldInv, ViewInv, RecycledInv
<1> HIDE DEF new
<1>8. ~(view[s].alloc \subseteq new) => ReleasedFin(s) = sbx[s].fin
  BY <1>3, <1>4, Zenon
<1>9. TaskInv'
  <2>1. \A t \in Sandboxes : \A p \in tasks[t] : pod[p] # "gone" /\ ~Dead(p)
    BY Zenon DEF HoldInv, TaskInv, Dead
  <2>2. ASSUME NEW t \in Sandboxes, NEW p \in tasks[t]
        PROVE  /\ InPool(sbx'[t]) /\ "task" \in sbx'[t].fin
               /\ p \in Outstanding(sbx'[t]) \ sbx'[t].release
    <3>1. /\ InPool(sbx[t]) /\ "task" \in sbx[t].fin
          /\ p \in sbx[t].alloc /\ p \in Outstanding(sbx[t]) \ sbx[t].release
      BY Zenon DEF HoldInv, TaskInv, TaskHoldsPod, Outstanding
    <3>2. CASE t = s
      <4>1. p \notin new
        BY <1>7, <2>1, Zenon
      <4>2. ReleasedFin(s) = sbx[s].fin
        BY <1>5, <1>8, <3>1, <3>2, <4>1, Zenon
      <4>3. sbx'[s].phase = sbx[s].phase
        BY <1>2, <3>1, <3>2, <4>2, Zenon
      <4> QED
        BY <1>2, <3>1, <3>2, <4>1, <4>2, <4>3, Zenon DEF Outstanding, InPool
    <3> QED
      BY <1>2, <3>1, <3>2, Zenon
  <2> QED
    BY <1>1, <2>1, <2>2, Zenon DEF TaskInv, TaskHoldsPod
<1>10. FinalizerGuardsPods'
  <2>1. Outstanding(sbx'[s]) # {} => /\ Outstanding(sbx[s]) # {}
                                     /\ ReleasedFin(s) = sbx[s].fin
    BY <1>2, <1>5, <1>7, <1>8, Zenon DEF Outstanding
  <2>2. Outstanding(sbx'[s]) # {} => "pool" \in sbx'[s].fin
    BY <1>2, <1>5, <2>1, ZenonT(30) DEF HoldInv, FinalizerGuardsPods
  <2> QED
    BY <1>2, <2>2, Zenon DEF HoldInv, FinalizerGuardsPods
<1>11. ViewInv'
  <2>1. \A t \in Sandboxes : give[t] = {} /\ give'[t] = {}
    BY <1>1 DEF GiveInv, Empty
  <2>2. sbx'[s].release \subseteq sbx'[s].alloc
    BY <1>2, Zenon DEF HoldInv, ViewInv
  <2>3. view'[s].phase = "live" /\ "pool" \in sbx'[s].fin => "pool" \in view'[s].fin
    BY <1>2, <1>3, <1>4 DEF HoldInv, ViewInv
  <2>4. ASSUME view'[s].phase = "deleting"
        PROVE  /\ sbx'[s].phase \in {"deleting", "gone"}
               /\ "task" \in sbx'[s].fin => "task" \in view'[s].fin
               /\ Outstanding(view'[s]) = {} => Outstanding(sbx'[s]) = {}
    <3>1. /\ sbx[s].phase \in {"deleting", "gone"}
          /\ "task" \in sbx[s].fin => "task" \in view[s].fin
      BY <1>2, <1>3, <2>4, ZenonT(30) DEF HoldInv, ViewInv
    <3>2. Outstanding(view'[s]) = Outstanding(sbx'[s])
      BY <1>2, <1>3, <1>5, Zenon DEF Outstanding
    <3> QED
      BY <1>2, <1>3, <1>4, <3>1, <3>2, Zenon
  <2>5. /\ view'[s].release \subseteq sbx'[s].release
        /\ sbx'[s].released \subseteq view'[s].released
        /\ InPool(view'[s])
    BY <1>1, <1>2, <1>3, <1>7, Zenon DEF InPool
  <2> QED
    BY <1>1, <1>2, <2>1, <2>2, <2>3, <2>4, <2>5, SMTT(30) DEF HoldInv, ViewInv, InPool
<1>12. BackInv'
  <2>1. ASSUME NEW t \in Sandboxes, NEW u \in Sandboxes, NEW p \in back[u],
               InPool(sbx'[t]), p \in sbx'[t].alloc
        PROVE  Dead(p) \/ HandedBack(t, p)'
    <3>1. CASE t = s
      <4>1. Dead(p) \/ HandedBack(s, p)
        BY <1>2, <1>5, <2>1, <3>1, Zenon DEF HoldInv, BackInv
      <4>2. sbx'[s].phase = sbx[s].phase
        BY <1>2, <2>1, <3>1 DEF InPool
      <4>3. HandedBack(s, p) => HandedBack(s, p)'
        BY <1>2, <1>5, <4>2, Zenon DEF HandedBack
      <4> QED
        BY <3>1, <4>1, <4>3, Zenon
    <3>2. CASE t # s
      BY <1>2, <2>1, <3>2, Zenon DEF HoldInv, BackInv, HandedBack
    <3> QED
      BY <3>1, <3>2, Zenon
  <2> QED
    BY <1>1, <1>6, <2>1, Zenon DEF HoldInv, BackInv
<1> QED
  BY <1>9, <1>10, <1>11, <1>12, Zenon DEF HoldInv

LEMMA HoldSyncReleasedFails ==
    ASSUME Settled, AllocationInv, HoldInv, NEW s \in Sandboxes, SyncSandboxReleasedFails(s)
    PROVE  HoldInv'
<1> USE DEF AllocationInv
<1>1. /\ UNCHANGED <<sbx, pod, podCache, evict, pc, listed, marked, give, back, drop, tasks>>
      /\ pc = "releasing" /\ InPool(view[s])
      /\ view' = [view EXCEPT ![s] = WithReleased(view[s], recycled[s])]
  BY Zenon DEF SyncSandboxReleasedFails, Settled, infVars
<1> DEFINE mine == WithReleased(view[s], recycled[s])
<1>2. view'[s] = mine /\ \A t \in Sandboxes \ {s} : view'[t] = view[t]
  BY <1>1, Fields, Zenon
<1>3. /\ mine.phase = view[s].phase /\ mine.alloc = view[s].alloc
      /\ mine.release = view[s].release /\ mine.released = view[s].released \cup recycled[s]
      /\ "task" \in view[s].fin => "task" \in mine.fin
      /\ view[s].phase # "deleting" => mine.fin = view[s].fin
      /\ view[s].phase = "deleting" /\ Outstanding(mine) = {} => "pool" \notin mine.fin
  <2>1. view[s] \in SandboxObject /\ recycled[s] \in SUBSET Pods
    BY Fields, Zenon
  <2>2. Outstanding(mine) = {} => view[s].alloc \subseteq view[s].released \cup recycled[s]
    BY <2>1, WithReleasedFields, Zenon DEF Outstanding
  <2> QED
    BY <2>1, <2>2, WithReleasedFields, WithReleasedFin
<1> HIDE DEF mine
<1>4. TaskInv' /\ FinalizerGuardsPods'
  BY <1>1, Zenon DEF HoldInv, TaskInv, TaskHoldsPod, FinalizerGuardsPods
<1>5. ViewInv'
  <2>1. ASSUME view'[s].phase = "deleting"
        PROVE  /\ sbx[s].phase \in {"deleting", "gone"}
               /\ "task" \in sbx[s].fin => "task" \in view'[s].fin
               /\ ~("pool" \in view'[s].fin /\ Outstanding(view'[s]) = {})
    BY <1>2, <1>3, <2>1, Zenon DEF HoldInv, ViewInv
  <2>2. /\ view'[s].release \subseteq sbx[s].release
        /\ sbx[s].released \subseteq view'[s].released
        /\ InPool(view'[s])
    BY <1>1, <1>2, <1>3, Zenon DEF HoldInv, ViewInv, InPool
  <2>3. view'[s].phase = "live" /\ "pool" \in sbx[s].fin => "pool" \in view'[s].fin
    BY <1>2, <1>3 DEF HoldInv, ViewInv
  <2>4. give'[s] # {} => view'[s].phase = "live"
    BY <1>1, <1>2, <1>3, Zenon DEF HoldInv, ViewInv
  <2> QED
    BY <1>1, <1>2, <2>1, <2>2, <2>3, <2>4 DEF HoldInv, ViewInv, InPool
<1>6. BackInv'
  <2>1. \A t \in Sandboxes : \A p : /\ Dead(p)' <=> Dead(p)
                                    /\ HandedBack(t, p)' <=> HandedBack(t, p)
    BY <1>1, Zenon DEF Dead, HandedBack
  <2> QED
    BY <1>1, <2>1, Zenon DEF HoldInv, BackInv
<1> QED
  BY <1>4, <1>5, <1>6, Zenon DEF HoldInv

LEMMA HoldRecycle == ASSUME AllocationInv, HoldInv, DoRecycle PROVE HoldInv'
<1>1. /\ UNCHANGED <<sbx, pod, podCache, evict, view, listed, marked, give, back, tasks>>
      /\ pc = "allocating" /\ pc' = "releasing"
      /\ drop' \subseteq UNION {back[s] : s \in Sandboxes}
  BY Zenon DEF DoRecycle, apiVars, infVars
<1>2. TaskInv' /\ FinalizerGuardsPods'
  BY <1>1, Zenon DEF HoldInv, TaskInv, TaskHoldsPod, FinalizerGuardsPods
<1>3. ViewInv'
  BY <1>1 DEF HoldInv, ViewInv
<1>4. BackInv'
  <2>1. \A t \in Sandboxes : \A p : /\ Dead(p)' <=> Dead(p)
                                    /\ HandedBack(t, p)' <=> HandedBack(t, p)
    BY <1>1, Zenon DEF Dead, HandedBack
  <2>2. pc' \notin {"idle", "listed", "allocating"}
    BY <1>1
  <2> QED
    BY <1>1, <2>1, <2>2, Zenon DEF HoldInv, BackInv
<1> QED
  BY <1>2, <1>3, <1>4, Zenon DEF HoldInv

\* The finalizer goes from a sandbox whose copy had every pod recycled: so had the object.
LEMMA HoldFinalize == ASSUME Settled, AllocationInv, HoldInv, DoFinalize PROVE HoldInv'
<1> USE DEF AllocationInv
<1>1. PICK done \in SUBSET {s \in Sandboxes : /\ view[s].phase = "deleting"
                                              /\ "pool" \in view[s].fin
                                              /\ Outstanding(view[s]) = {}} :
        /\ sbx' = [s \in Sandboxes |->
                     IF s \in done /\ Exists(sbx[s])
                     THEN Settle([sbx[s] EXCEPT !.fin = sbx[s].fin \ {"pool"}]) ELSE sbx[s]]
        /\ view' = [s \in Sandboxes |->
                      IF s \in done THEN [view[s] EXCEPT !.fin = view[s].fin \ {"pool"}]
                      ELSE view[s]]
  BY Zenon DEF DoFinalize
<1>2. /\ UNCHANGED <<pod, podCache, evict, listed, marked, give, back, drop, tasks>>
      /\ pc = "releasing" /\ pc' = "scaling"
  BY Zenon DEF DoFinalize, infVars
<1>3. ASSUME NEW s \in Sandboxes
      PROVE  /\ view'[s].phase = view[s].phase /\ view'[s].alloc = view[s].alloc
             /\ view'[s].release = view[s].release /\ view'[s].released = view[s].released
             /\ s \notin done => view'[s].fin = view[s].fin
             /\ s \in done => view'[s].fin = view[s].fin \ {"pool"}
  <2>1. view[s] \in SandboxObject
    BY Fields, Zenon
  <2> DEFINE v == [view[s] EXCEPT !.fin = view[s].fin \ {"pool"}]
  <2>2. /\ v.phase = view[s].phase /\ v.alloc = view[s].alloc
        /\ v.release = view[s].release /\ v.released = view[s].released
        /\ v.fin = view[s].fin \ {"pool"}
    BY <2>1, Zenon DEF SandboxObject
  <2>3. view'[s] = IF s \in done THEN v ELSE view[s]
    BY <1>1, Zenon
  <2> HIDE DEF v
  <2> QED
    BY <2>2, <2>3, Zenon
<1>4. ASSUME NEW s \in Sandboxes
      PROVE  /\ sbx'[s].alloc = sbx[s].alloc /\ sbx'[s].release = sbx[s].release
             /\ sbx'[s].released = sbx[s].released
             /\ s \notin done => sbx'[s] = sbx[s]
             /\ sbx'[s].phase = sbx[s].phase \/ sbx'[s].phase = "gone"
             /\ sbx'[s].fin \subseteq sbx[s].fin
  <2>1. sbx[s] \in SandboxObject
    BY Fields, Zenon
  <2> DEFINE o == [sbx[s] EXCEPT !.fin = sbx[s].fin \ {"pool"}]
  <2>2. /\ o \in SandboxObject /\ o.phase = sbx[s].phase /\ o.alloc = sbx[s].alloc
        /\ o.release = sbx[s].release /\ o.released = sbx[s].released
        /\ o.fin \subseteq sbx[s].fin
    BY <2>1, Zenon DEF SandboxObject
  <2>3. sbx'[s] = IF s \in done /\ Exists(sbx[s]) THEN Settle(o) ELSE sbx[s]
    BY <1>1, Zenon
  <2> HIDE DEF o
  <2> QED
    BY <2>2, <2>3, SettleFields
<1>5. \A s \in done : /\ view[s].phase = "deleting" /\ Outstanding(sbx[s]) = {}
                      /\ sbx[s].phase \in {"deleting", "gone"}
  BY <1>1, Zenon DEF HoldInv, ViewInv
<1>6. \A s \in Sandboxes : /\ Outstanding(sbx'[s]) = Outstanding(sbx[s])
                           /\ Outstanding(view'[s]) = Outstanding(view[s])
                           /\ InPool(view'[s]) <=> InPool(view[s])
                           /\ InPool(sbx'[s]) => InPool(sbx[s]) /\ sbx'[s].phase = sbx[s].phase
  <2>1. \A s \in Sandboxes : InPool(sbx'[s]) => sbx'[s].phase = sbx[s].phase
    BY <1>4 DEF InPool
  <2> QED
    BY <1>3, <1>4, <2>1, Zenon DEF Outstanding, InPool
<1>7. TaskInv'
  <2>1. \A s \in Sandboxes : \A p \in tasks[s] : sbx'[s] = sbx[s]
    BY <1>4, <1>5, Zenon DEF HoldInv, TaskInv, TaskHoldsPod
  <2> QED
    BY <1>2, <2>1, Zenon DEF HoldInv, TaskInv, TaskHoldsPod
<1>8. FinalizerGuardsPods'
  BY <1>4, <1>5, <1>6, Zenon DEF HoldInv, FinalizerGuardsPods
<1>9. ViewInv'
  <2>1. ASSUME NEW s \in Sandboxes, view[s].phase = "deleting"
        PROVE  /\ sbx'[s].phase \in {"deleting", "gone"}
               /\ "task" \in sbx'[s].fin => "task" \in view'[s].fin
               /\ "pool" \in view'[s].fin /\ Outstanding(view'[s]) = {}
                    => Outstanding(sbx'[s]) = {}
    <3>1. /\ sbx[s].phase \in {"deleting", "gone"}
          /\ "task" \in sbx[s].fin => "task" \in view[s].fin
          /\ "pool" \in view[s].fin /\ Outstanding(view[s]) = {} => Outstanding(sbx[s]) = {}
      BY <2>1, Zenon DEF HoldInv, ViewInv
    <3> QED
      BY <1>3, <1>4, <1>6, <3>1
  <2>2. \A s \in Sandboxes : view[s].phase = "live" => sbx'[s] = sbx[s] /\ s \notin done
    BY <1>4, <1>5
  <2>3. ASSUME NEW s \in Sandboxes
        PROVE  /\ sbx'[s].release \subseteq sbx'[s].alloc
               /\ give'[s] # {} => view'[s].phase = "live"
               /\ view'[s].phase = "live" /\ "pool" \in sbx'[s].fin => "pool" \in view'[s].fin
               /\ InPool(view'[s]) => /\ view'[s].release \subseteq sbx'[s].release
                                      /\ sbx'[s].released \subseteq view'[s].released
               /\ view'[s].phase = "gone" => sbx'[s].phase = "gone"
               /\ view'[s].phase = "unborn" /\ pc' # "idle" => sbx'[s].alloc = {}
    <3>1. pc # "idle"
      BY <1>2
    <3>2. give'[s] # {} => view'[s].phase = "live"
      BY <1>2, <1>3 DEF HoldInv, ViewInv
    <3>3. view'[s].phase = "live" /\ "pool" \in sbx'[s].fin => "pool" \in view'[s].fin
      BY <1>3, <2>2 DEF HoldInv, ViewInv
    <3>4. /\ sbx'[s].release \subseteq sbx'[s].alloc
          /\ InPool(view'[s]) => /\ view'[s].release \subseteq sbx'[s].release
                                 /\ sbx'[s].released \subseteq view'[s].released
      BY <1>3, <1>4, <1>6, ZenonT(30) DEF HoldInv, ViewInv
    <3>5. /\ view'[s].phase = "gone" => sbx'[s].phase = "gone"
          /\ view'[s].phase = "unborn" => sbx'[s].alloc = {}
      BY <1>3, <1>4, <3>1 DEF HoldInv, ViewInv
    <3> QED
      BY <3>2, <3>3, <3>4, <3>5, Zenon
  <2> QED
    BY <1>3, <2>1, <2>3, SMTT(60) DEF ViewInv
<1>10. BackInv'
  <2>1. \A p : Dead(p)' <=> Dead(p)
    BY <1>2, Zenon DEF Dead
  <2>2. \A s \in Sandboxes : \A p : InPool(sbx'[s]) /\ HandedBack(s, p) => HandedBack(s, p)'
    BY <1>4, <1>6, Zenon DEF HandedBack
  <2>3. pc' \notin {"idle", "listed", "allocating"}
    BY <1>2
  <2> QED
    BY <1>2, <1>4, <1>6, <2>1, <2>2, <2>3 DEF HoldInv, BackInv
<1> QED
  BY <1>7, <1>8, <1>9, <1>10, Zenon DEF HoldInv

\* The reconcile ends, or starts over on its lists; so does a restart.
LEMMA HoldEnd ==
    ASSUME AllocationInv, HoldInv, UNCHANGED <<sbx, tasks>>, Idle \/ (Retry /\ pc # "idle"),
           \A p \in Pods : pod'[p] = "gone" => pod[p] = "gone"
    PROVE  HoldInv'
<1>1. \A s \in Sandboxes : tasks[s] \subseteq Pods
  BY Fields, Zenon DEF AllocationInv
<1>2. TaskInv' /\ FinalizerGuardsPods'
  BY <1>1, Zenon DEF HoldInv, TaskInv, TaskHoldsPod, FinalizerGuardsPods
<1>3. drop' = {} /\ \A s \in Sandboxes : give'[s] = {} /\ back'[s] = {}
  BY Zenon DEF Idle, Retry, Empty
<1>4. BackInv'
  BY <1>3, Zenon DEF BackInv
<1>5. CASE Idle
  <2>1. pc' = "idle" /\ \A s \in Sandboxes : view'[s].phase = "unborn"
    BY <1>5, Zenon DEF Idle, Unborn
  <2>2. ViewInv'
    BY <1>3, <2>1 DEF HoldInv, ViewInv, InPool
  <2> QED
    BY <1>2, <1>4, <2>2, Zenon DEF HoldInv
<1>6. CASE Retry /\ pc # "idle"
  <2>1. ViewInv'
    BY <1>3, <1>6, Zenon DEF HoldInv, ViewInv, Retry
  <2> QED
    BY <1>2, <1>4, <2>1, Zenon DEF HoldInv
<1> QED
  BY <1>5, <1>6, Zenon
-----------------------------------------------------------------------------
(* Steps that leave the reconcile alone *)

\* What a write of the BatchSandbox reconcile or of a user may do to an object, and no more.
LEMMA HoldFrame ==
    ASSUME HoldInv, TaskInv', UNCHANGED <<pod, podCache, evict, listed, marked, pc, view, give, back, drop>>,
           \A t \in Sandboxes :
             /\ sbx'[t].alloc = sbx[t].alloc /\ sbx'[t].released = sbx[t].released
             /\ sbx[t].release \subseteq sbx'[t].release
             /\ sbx'[t].release \subseteq sbx[t].alloc
             /\ "pool" \in sbx'[t].fin <=> "pool" \in sbx[t].fin
             /\ InPool(sbx'[t]) => InPool(sbx[t]) \/ sbx[t].alloc = {}
             /\ sbx[t].phase \in {"deleting", "gone"} =>
                  /\ sbx'[t].phase \in {sbx[t].phase, "gone"}
                  /\ "task" \in sbx'[t].fin => "task" \in sbx[t].fin
    PROVE  HoldInv'
<1>1. \A t \in Sandboxes : Outstanding(sbx'[t]) = Outstanding(sbx[t])
  BY Zenon DEF Outstanding
<1>2. FinalizerGuardsPods'
  BY <1>1, Zenon DEF HoldInv, FinalizerGuardsPods, Outstanding
<1>3. ViewInv'
  <2>1. ASSUME NEW s \in Sandboxes, view[s].phase = "deleting"
        PROVE  /\ sbx'[s].phase \in {"deleting", "gone"}
               /\ "task" \in sbx'[s].fin => "task" \in view[s].fin
               /\ "pool" \in view[s].fin /\ Outstanding(view[s]) = {}
                    => Outstanding(sbx'[s]) = {}
    BY <1>1, <2>1, Zenon DEF HoldInv, ViewInv
  <2>2. ASSUME NEW s \in Sandboxes
        PROVE  /\ sbx'[s].release \subseteq sbx'[s].alloc
               /\ view[s].phase = "live" /\ "pool" \in sbx'[s].fin => "pool" \in view[s].fin
               /\ InPool(view[s]) => /\ view[s].release \subseteq sbx'[s].release
                                     /\ sbx'[s].released \subseteq view[s].released
               /\ view[s].phase = "gone" => sbx'[s].phase = "gone"
               /\ view[s].phase = "unborn" /\ pc # "idle" => sbx'[s].alloc = {}
    BY DEF HoldInv, ViewInv
  <2> QED
    BY <2>1, <2>2 DEF HoldInv, ViewInv
<1>4. BackInv'
  <2>1. \A p : Dead(p)' <=> Dead(p)
    BY Zenon DEF Dead
  <2>2. \A s \in Sandboxes : \A p : InPool(sbx'[s]) /\ HandedBack(s, p) => HandedBack(s, p)'
    BY DEF HandedBack, InPool
  <2>3. \A s, t \in Sandboxes : \A p \in back[t] :
          InPool(sbx'[s]) /\ p \in sbx'[s].alloc => Dead(p) \/ HandedBack(s, p)'
    BY <2>2, Zenon DEF HoldInv, BackInv
  <2> QED
    BY <2>1, <2>3 DEF HoldInv, BackInv
<1> QED
  BY <1>2, <1>3, <1>4, Zenon DEF HoldInv

LEMMA HoldSandbox ==
    ASSUME Settled, AllocationInv, HoldInv, NEW s \in Sandboxes, SandboxStep(s) PROVE HoldInv'
<1> USE DEF Others, recVars, infVars
<1>1. /\ sbx[s] \in SandboxObject /\ sbx \in [Sandboxes -> SandboxObject]
      /\ tasks \in [Sandboxes -> SUBSET Pods]
      /\ \A t \in Sandboxes : sbx[t].phase = "unborn" => sbx[t].alloc = {}
      /\ \A t \in Sandboxes : sbx[t].release \subseteq sbx[t].alloc
  BY Zenon DEF AllocationInv, TypeOK, CopyInv, HoldInv, ViewInv
<1>2. \A t \in Sandboxes : \A p \in tasks[t] :
        /\ pod[p] # "gone" /\ InPool(sbx[t]) /\ "task" \in sbx[t].fin
        /\ p \in sbx[t].alloc /\ p \notin sbx[t].released /\ p \notin sbx[t].release
  BY Zenon DEF HoldInv, TaskInv, TaskHoldsPod, Outstanding
<1>3. ASSUME UNCHANGED pod,
             \A t \in Sandboxes : \A p \in tasks'[t] :
               /\ pod[p] # "gone" /\ InPool(sbx'[t]) /\ "task" \in sbx'[t].fin
               /\ p \in sbx'[t].alloc /\ p \notin sbx'[t].released /\ p \notin sbx'[t].release
      PROVE  TaskInv'
  BY <1>3, Zenon DEF TaskInv, TaskHoldsPod, Outstanding
<1>4. CASE CreateSandbox(s)
  <2>1. PICK n \in 1..MaxReplicas[s] :
          sbx' = [sbx EXCEPT ![s].phase = "live", ![s].replicas = n]
    BY <1>4, Zenon DEF CreateSandbox
  <2>2. /\ sbx'[s].phase = "live" /\ sbx'[s].alloc = sbx[s].alloc
        /\ sbx'[s].released = sbx[s].released /\ sbx'[s].release = sbx[s].release
        /\ sbx'[s].fin = sbx[s].fin
        /\ \A t \in Sandboxes \ {s} : sbx'[t] = sbx[t]
    BY <1>1, <2>1, Zenon DEF SandboxObject
  <2>3. TaskInv'
    BY <1>2, <1>3, <1>4, <2>2, Zenon DEF CreateSandbox, InPool
  <2> QED
    BY <1>1, <1>4, <2>2, <2>3, HoldFrame DEF CreateSandbox
<1>5. CASE ScaleOut(s)
  <2>1. /\ sbx'[s].phase = sbx[s].phase /\ sbx'[s].alloc = sbx[s].alloc
        /\ sbx'[s].released = sbx[s].released /\ sbx'[s].release = sbx[s].release
        /\ sbx'[s].fin = sbx[s].fin
        /\ \A t \in Sandboxes \ {s} : sbx'[t] = sbx[t]
    BY <1>1, <1>5, Zenon DEF SandboxObject, ScaleOut
  <2>2. TaskInv'
    BY <1>2, <1>3, <1>5, <2>1 DEF ScaleOut, InPool
  <2> QED
    BY <1>1, <1>5, <2>1, <2>2, HoldFrame DEF ScaleOut, InPool
<1>6. CASE AddTaskFinalizer(s)
  <2>1. /\ sbx'[s].phase = sbx[s].phase /\ sbx'[s].alloc = sbx[s].alloc
        /\ sbx'[s].released = sbx[s].released /\ sbx'[s].release = sbx[s].release
        /\ sbx'[s].fin = sbx[s].fin \cup {"task"} /\ sbx[s].phase = "live"
        /\ \A t \in Sandboxes \ {s} : sbx'[t] = sbx[t]
    BY <1>1, <1>6, Zenon DEF SandboxObject, AddTaskFinalizer
  <2>2. TaskInv'
    BY <1>2, <1>3, <1>6, <2>1 DEF AddTaskFinalizer, InPool
  <2> QED
    BY <1>1, <1>6, <2>1, <2>2, HoldFrame DEF AddTaskFinalizer, InPool
<1>7. CASE DeleteSandbox(s)
  <2> DEFINE o == [sbx[s] EXCEPT !.phase = "deleting"]
  <2>1. /\ o \in SandboxObject /\ o.phase = "deleting" /\ o.alloc = sbx[s].alloc
        /\ o.released = sbx[s].released /\ o.release = sbx[s].release
        /\ o.fin = sbx[s].fin
    BY <1>1, Zenon DEF SandboxObject
  <2>2. sbx' = [sbx EXCEPT ![s] = Settle(o)]
    BY <1>7, Zenon DEF DeleteSandbox
  <2> HIDE DEF o
  <2>3. /\ sbx'[s].phase \in {"deleting", "gone"}
        /\ sbx'[s].phase = "gone" => sbx[s].fin = {}
        /\ sbx'[s].alloc = sbx[s].alloc /\ sbx'[s].fin = sbx[s].fin
        /\ sbx'[s].released = sbx[s].released /\ sbx'[s].release = sbx[s].release
        /\ \A t \in Sandboxes \ {s} : sbx'[t] = sbx[t]
    BY <1>1, <2>1, <2>2, SettleFields, Zenon
  <2>4. TaskInv'
    BY <1>2, <1>3, <1>7, <2>3 DEF DeleteSandbox, InPool
  <2> QED
    BY <1>1, <1>7, <2>3, <2>4, HoldFrame DEF DeleteSandbox, InPool
<1>8. CASE RemoveTaskFinalizer(s)
  <2> DEFINE o == [sbx[s] EXCEPT !.fin = sbx[s].fin \ {"task"}]
  <2>1. /\ o \in SandboxObject /\ o.phase = sbx[s].phase /\ o.alloc = sbx[s].alloc
        /\ o.released = sbx[s].released /\ o.release = sbx[s].release
        /\ o.fin = sbx[s].fin \ {"task"}
    BY <1>1, Zenon DEF SandboxObject
  <2>2. sbx' = [sbx EXCEPT ![s] = Settle(o)] /\ sbx[s].phase = "deleting"
    BY <1>8, Zenon DEF RemoveTaskFinalizer
  <2> HIDE DEF o
  <2>3. /\ sbx'[s].phase \in {"deleting", "gone"}
        /\ sbx'[s].fin = sbx[s].fin \ {"task"}
        /\ sbx'[s].alloc = sbx[s].alloc
        /\ sbx'[s].released = sbx[s].released /\ sbx'[s].release = sbx[s].release
        /\ \A t \in Sandboxes \ {s} : sbx'[t] = sbx[t]
    BY <1>1, <2>1, <2>2, SettleFields
  <2>4. TaskInv'
    BY <1>2, <1>3, <1>8, <2>3, Zenon DEF RemoveTaskFinalizer
  <2> QED
    BY <1>1, <1>8, <2>2, <2>3, <2>4, HoldFrame, Zenon DEF RemoveTaskFinalizer, InPool
<1>9. ~Detach(s) /\ ~CacheSync(s)
  BY Zenon DEF Settled, Detach, CacheSync
<1>10. ASSUME NEW p \in Pods, AssignTask(s, p) PROVE HoldInv'
  <2>1. /\ p \in sbx[s].alloc /\ p \notin sbx[s].release /\ pod[p] = "ready"
        /\ sbx[s].phase = "live" /\ "task" \in sbx[s].fin /\ UNCHANGED <<sbx, pod>>
    BY <1>10, ReadsCurrent, Zenon DEF AssignTask
  <2>2. p \notin sbx[s].released
    BY <2>1 DEF AllocationInv, RecycledInv, Dead
  <2>3. \A t \in Sandboxes : tasks'[t] \subseteq tasks[t] \cup (IF t = s THEN {p} ELSE {})
    BY <1>1, <1>10, Zenon DEF AssignTask
  <2>4. TaskInv'
    BY <1>2, <1>3, <2>1, <2>2, <2>3 DEF InPool
  <2> QED
    BY <1>1, <1>10, <2>1, <2>4, HoldFrame DEF AssignTask
<1>11. ASSUME NEW p \in Pods, ReleasePod(s, p) PROVE HoldInv'
  <2>1. /\ p \in tasks[s] /\ sbx[s].phase = "live" /\ UNCHANGED pod
        /\ sbx' = [sbx EXCEPT ![s].release = sbx[s].release \cup {p}]
        /\ tasks' = [tasks EXCEPT ![s] = tasks[s] \ {p}]
    BY <1>11, ReadsCurrent, Zenon DEF ReleasePod
  <2>2. /\ sbx'[s].phase = sbx[s].phase /\ sbx'[s].alloc = sbx[s].alloc
        /\ sbx'[s].released = sbx[s].released /\ sbx'[s].release = sbx[s].release \cup {p}
        /\ sbx'[s].fin = sbx[s].fin
        /\ \A t \in Sandboxes \ {s} : sbx'[t] = sbx[t] /\ tasks'[t] = tasks[t]
        /\ tasks'[s] = tasks[s] \ {p}
    BY <1>1, <2>1, Zenon DEF SandboxObject
  <2>3. TaskInv'
    BY <1>2, <1>3, <2>1, <2>2 DEF InPool
  <2> QED
    BY <1>1, <1>2, <1>11, <2>1, <2>2, <2>3, HoldFrame DEF ReleasePod, InPool
<1>12. ASSUME NEW p \in Pods, StopTask(s, p) PROVE HoldInv'
  <2>1. \A t \in Sandboxes : tasks'[t] \subseteq tasks[t]
    BY <1>1, <1>12, Zenon DEF StopTask
  <2>2. UNCHANGED <<sbx, pod>>
    BY <1>12, Zenon DEF StopTask
  <2>3. TaskInv'
    BY <1>2, <1>3, <2>1, <2>2, Zenon
  <2> QED
    BY <1>1, <1>12, <2>2, <2>3, HoldFrame DEF StopTask
<1> QED
  BY <1>4, <1>5, <1>6, <1>7, <1>8, <1>9, <1>10, <1>11, <1>12, Zenon DEF SandboxStep

LEMMA HoldPod == ASSUME AllocationInv, HoldInv, NEW p \in Pods, PodStep(p) PROVE HoldInv'
<1>1. /\ pod \in [Pods -> PodStates] /\ tasks \in [Sandboxes -> SUBSET Pods]
      /\ \A s \in Sandboxes : tasks[s] \subseteq Pods /\ sbx[s].alloc \subseteq Pods
  BY Fields, Zenon DEF AllocationInv, TypeOK
<1>2. /\ \A q \in Pods : pod[q] = "gone" => pod'[q] = "gone"
      /\ \A t \in Sandboxes : \A q \in tasks'[t] :
           q \in tasks[t] /\ (pod[q] # "gone" => pod'[q] # "gone")
  BY <1>1 DEF PodStep, PodReady, PodUnready, LosePod, PodGone, MarkEvict, PodCacheSync, PodTo,
              Alive, apiVars
<1>3. UNCHANGED <<sbx, listed, marked, pc, view, give, back, drop>>
  BY Zenon DEF PodStep, PodReady, PodUnready, LosePod, PodGone, MarkEvict, PodCacheSync, PodTo,
               recVars, apiVars
<1>4. TaskInv' /\ FinalizerGuardsPods'
  BY <1>2, <1>3, Zenon DEF HoldInv, TaskInv, TaskHoldsPod, FinalizerGuardsPods
<1>5. ViewInv'
  BY <1>3, Zenon DEF HoldInv, ViewInv
<1>6. BackInv'
  <2>1. /\ evict \subseteq evict'
        /\ \A q \in Pods : podCache'[q] = podCache[q] \/ podCache'[q] = pod[q]
    BY <1>1 DEF PodStep, PodReady, PodUnready, LosePod, PodGone, MarkEvict, PodCacheSync, PodTo,
                AllocationInv, TypeOK, infVars, apiVars
  <2>2. \A q \in Pods : Dead(q) => Dead(q)'
    BY <1>2, <1>3, <2>1 DEF Dead
  <2>3. \A s, t \in Sandboxes : \A q \in back[t] :
          InPool(sbx[s]) /\ q \in sbx[s].alloc => Dead(q)' \/ HandedBack(s, q)'
    BY <1>1, <1>3, <2>2, Zenon DEF HoldInv, BackInv, HandedBack
  <2> QED
    BY <1>3, <2>3, Zenon DEF HoldInv, BackInv
<1> QED
  BY <1>4, <1>5, <1>6, Zenon DEF HoldInv

LEMMA HoldInit == Init => HoldInv
<1> SUFFICES ASSUME Init PROVE HoldInv
  OBVIOUS
<1>1. /\ \A s \in Sandboxes : /\ sbx[s] = Unborn /\ view[s] = Unborn /\ back[s] = {}
                              /\ tasks[s] = {} /\ give[s] = {}
      /\ drop = {}
  BY Zenon DEF Init, Empty
<1>2. TaskInv /\ FinalizerGuardsPods /\ BackInv
  BY <1>1 DEF TaskInv, TaskHoldsPod, FinalizerGuardsPods, BackInv, Unborn, InPool
<1>3. ViewInv
  BY <1>1 DEF ViewInv, Unborn, InPool
<1> QED
  BY <1>2, <1>3, Zenon DEF HoldInv

LEMMA HoldNext ==
    ASSUME Settled, AllocationInv, AllocationInv', HoldInv, [Next]_vars PROVE HoldInv'
<1>1. CASE PoolStep
  <2>1. CASE Scale \/ Abort
    <3>1. /\ UNCHANGED <<sbx, tasks>> /\ (Idle \/ (Retry /\ pc # "idle"))
          /\ \A p \in Pods : pod'[p] = "gone" => pod[p] = "gone"
      BY <2>1, Fields DEF Scale, Abort, Alive, AllocationInv, apiVars
    <3> QED
      BY <3>1, HoldEnd, Zenon
  <2> QED
    BY <1>1, <2>1, HoldBegin, HoldSchedule, HoldSyncAllocation, HoldSyncAllocationFails,
       HoldRecycle, HoldSyncReleased, HoldSyncReleasedFails, HoldFinalize, Zenon DEF PoolStep
<1>2. CASE Restart
  BY <1>2, HoldEnd, Zenon DEF Restart, apiVars
<1>3. CASE UNCHANGED vars
  <2>1. UNCHANGED <<sbx, pod, podCache, evict, listed, marked, pc, view, give, back, drop, tasks>>
    BY <1>3, Zenon DEF vars, recVars, infVars, apiVars
  <2>2. TaskInv'
    BY <2>1, Zenon DEF HoldInv, TaskInv, TaskHoldsPod
  <2>3. \A s \in Sandboxes : sbx[s].release \subseteq sbx[s].alloc
    BY Zenon DEF HoldInv, ViewInv
  <2> QED
    BY <2>1, <2>2, <2>3, HoldFrame
<1> QED
  BY <1>1, <1>2, <1>3, HoldSandbox, HoldPod, Zenon DEF Next
-----------------------------------------------------------------------------
(* What only a step of the reconcile changes *)

\* Only SyncSandboxAllocation adds to alloc-status, and no step takes from it.
LEMMA OnlySyncAllocates ==
    ASSUME Settled, AllocationInv, [Next]_vars
    PROVE  \/ \E s \in Sandboxes : SyncSandboxAllocation(s)
           \/ \A s \in Sandboxes : sbx'[s].alloc = sbx[s].alloc
<1>0. TypeOK /\ sbx \in [Sandboxes -> SandboxObject]
  BY Zenon DEF AllocationInv, TypeOK
<1>1. CASE UNCHANGED sbx
  BY <1>1, Zenon
<1>2. ASSUME NEW s \in Sandboxes, SyncSandboxReleased(s)
      PROVE  \A t \in Sandboxes : sbx'[t].alloc = sbx[t].alloc
  BY <1>0, <1>2, PatchReleasedFields, Zenon DEF SyncSandboxReleased
<1>3. ASSUME DoFinalize PROVE \A t \in Sandboxes : sbx'[t].alloc = sbx[t].alloc
  <2>1. PICK done : sbx' = [s \in Sandboxes |->
                              IF s \in done /\ Exists(sbx[s])
                              THEN Settle([sbx[s] EXCEPT !.fin = sbx[s].fin \ {"pool"}])
                              ELSE sbx[s]]
    BY <1>3, Zenon DEF DoFinalize
  <2> TAKE t \in Sandboxes
  <2> DEFINE o == [sbx[t] EXCEPT !.fin = sbx[t].fin \ {"pool"}]
  <2>2. o \in SandboxObject /\ o.alloc = sbx[t].alloc
    BY <1>0, Zenon DEF SandboxObject
  <2>3. sbx'[t] = IF t \in done /\ Exists(sbx[t]) THEN Settle(o) ELSE sbx[t]
    BY <2>1, Zenon
  <2> HIDE DEF o
  <2> QED
    BY <2>2, <2>3, SettleFields
<1>4. ASSUME NEW s \in Sandboxes, SandboxStep(s)
      PROVE  \A t \in Sandboxes : sbx'[t].alloc = sbx[t].alloc
  <2>1. CASE CreateSandbox(s) \/ ScaleOut(s) \/ AddTaskFinalizer(s)
             \/ \E p \in Pods : ReleasePod(s, p)
    <3>1. CASE CreateSandbox(s)
      <4>1. PICK n \in 1..MaxReplicas[s] :
              sbx' = [sbx EXCEPT ![s].phase = "live", ![s].replicas = n]
        BY <3>1, Zenon DEF CreateSandbox
      <4>2. sbx'[s].alloc = sbx[s].alloc /\ \A t \in Sandboxes \ {s} : sbx'[t] = sbx[t]
        BY <1>0, <4>1, Zenon DEF SandboxObject
      <4> QED
        BY <4>2, Zenon
    <3>2. CASE ScaleOut(s)
      BY <1>0, <3>2, Zenon DEF ScaleOut, SandboxObject
    <3>3. CASE AddTaskFinalizer(s)
      BY <1>0, <3>3, Zenon DEF AddTaskFinalizer, SandboxObject
    <3>4. CASE \E p \in Pods : ReleasePod(s, p)
      <4>1. PICK p \in Pods : ReleasePod(s, p)
        BY <3>4, Zenon
      <4>2. sbx'[s].alloc = sbx[s].alloc /\ \A t \in Sandboxes \ {s} : sbx'[t] = sbx[t]
        BY <1>0, <4>1, Zenon DEF ReleasePod, SandboxObject
      <4> QED
        BY <4>2, Zenon
    <3> QED
      BY <2>1, <3>1, <3>2, <3>3, <3>4, Zenon
  <2>2. ASSUME NEW o \in SandboxObject, o.alloc = sbx[s].alloc,
               sbx' = [sbx EXCEPT ![s] = Settle(o)]
        PROVE  \A t \in Sandboxes : sbx'[t].alloc = sbx[t].alloc
    BY <1>0, <2>2, SettleFields, Zenon
  <2>3. CASE DeleteSandbox(s)
    <3> DEFINE o == [sbx[s] EXCEPT !.phase = "deleting"]
    <3>1. o \in SandboxObject /\ o.alloc = sbx[s].alloc
      BY <1>0, Zenon DEF SandboxObject
    <3>2. sbx' = [sbx EXCEPT ![s] = Settle(o)]
      BY <2>3, Zenon DEF DeleteSandbox
    <3> HIDE DEF o
    <3> QED
      BY <2>2, <3>1, <3>2, Zenon
  <2>4. CASE RemoveTaskFinalizer(s)
    <3> DEFINE o == [sbx[s] EXCEPT !.fin = sbx[s].fin \ {"task"}]
    <3>1. o \in SandboxObject /\ o.alloc = sbx[s].alloc
      BY <1>0, Zenon DEF SandboxObject
    <3>2. sbx' = [sbx EXCEPT ![s] = Settle(o)]
      BY <2>4, Zenon DEF RemoveTaskFinalizer
    <3> HIDE DEF o
    <3> QED
      BY <2>2, <3>1, <3>2, Zenon
  <2>5. CASE \E p \in Pods : AssignTask(s, p) \/ StopTask(s, p)
    BY <2>5, Zenon DEF AssignTask, StopTask
  <2>6. ~Detach(s) /\ ~CacheSync(s)
    BY Zenon DEF Settled, Detach, CacheSync
  <2> QED
    BY <1>4, <2>1, <2>3, <2>4, <2>5, <2>6, Zenon DEF SandboxStep
<1>5. Begin \/ Schedule \/ DoRecycle \/ Scale \/ Abort \/ Restart \/ UNCHANGED vars
        => UNCHANGED sbx
  BY Zenon DEF Begin, Schedule, DoRecycle, Scale, Abort, Restart, vars, apiVars
<1>6. \A s \in Sandboxes :
        SyncSandboxAllocationFails(s) \/ SyncSandboxReleasedFails(s) => UNCHANGED sbx
  BY Zenon DEF SyncSandboxAllocationFails, SyncSandboxReleasedFails, Settled
<1>7. \A p \in Pods : PodStep(p) => UNCHANGED sbx
  BY Zenon DEF PodStep, PodReady, PodUnready, LosePod, PodGone, MarkEvict, PodCacheSync, PodTo,
               apiVars
<1> QED
  BY <1>1, <1>2, <1>3, <1>4, <1>5, <1>6, <1>7, Zenon DEF Next, PoolStep

\* Where nothing restarts, sandboxes have no pods before the store is filled; where no pod
\* gets the label, none is marked.
LEMMA AttentiveNext ==
    ASSUME Settled, AllocationInv, AttentiveInv, [Next]_vars PROVE AttentiveInv'
<1> DEFINE Kept == UNCHANGED <<recovered, evict, marked>>
<1>1. ASSUME NEW s \in Sandboxes, SandboxStep(s) PROVE Kept
  BY <1>1, Zenon DEF SandboxStep, CreateSandbox, ScaleOut, AddTaskFinalizer, DeleteSandbox,
       RemoveTaskFinalizer, Detach, CacheSync, AssignTask, ReleasePod, StopTask, Others,
       ctlVars, recVars, apiVars
<1>2. \A p \in Pods : PodStep(p) => Kept \/ ("evict" \in Environment /\ UNCHANGED recovered)
  BY Zenon DEF PodStep, PodReady, PodUnready, LosePod, PodGone, MarkEvict, PodCacheSync, PodTo,
       ctlVars, recVars, apiVars
<1>3. \A s \in Sandboxes : SyncSandboxAllocation(s) \/ SyncSandboxAllocationFails(s)
                           \/ SyncSandboxReleased(s) \/ SyncSandboxReleasedFails(s) => Kept
  BY Zenon DEF SyncSandboxAllocation, SyncSandboxAllocationFails, SyncSandboxReleased,
       SyncSandboxReleasedFails, ctlVars
<1>4. DoRecycle \/ DoFinalize \/ UNCHANGED vars => Kept
  BY Zenon DEF DoRecycle, DoFinalize, ctlVars, apiVars, recVars, vars
<1>5. Begin => UNCHANGED <<recovered, evict>> /\ marked' = evict \cap listed'
  BY Zenon DEF Begin, ctlVars, apiVars
<1>6. Schedule => recovered' /\ UNCHANGED <<evict, marked>>
  BY Zenon DEF Schedule
<1>7. Scale \/ Abort => UNCHANGED <<recovered, evict>> /\ (marked' = {} \/ UNCHANGED marked)
  BY Zenon DEF Scale, Abort, Idle, Retry, ctlVars, apiVars
<1>8. Restart => "restart" \in Environment /\ UNCHANGED evict /\ marked' = {}
  BY Zenon DEF Restart, Idle, apiVars
<1>9. /\ \/ recovered' \/ UNCHANGED recovered
         \/ "restart" \in Environment
      /\ \/ "evict" \in Environment
         \/ /\ UNCHANGED evict
            /\ UNCHANGED marked \/ marked' = {} \/ marked' = evict \cap listed'
  BY <1>1, <1>2, <1>3, <1>4, <1>5, <1>6, <1>7, <1>8, Zenon DEF Next, PoolStep
<1>10. ASSUME "restart" \notin Environment, ~recovered'
       PROVE  \A s \in Sandboxes : sbx'[s].alloc = {}
  <2>1. ~recovered
    BY <1>9, <1>10, Zenon
  <2>2. pc \in {"idle", "listed"}
    BY <2>1, Zenon DEF AllocationInv, UnrecoveredInv
  <2>3. \A s \in Sandboxes : ~SyncSandboxAllocation(s)
    BY <2>2 DEF SyncSandboxAllocation
  <2> QED
    BY <1>10, <2>1, <2>3, OnlySyncAllocates, Zenon DEF AttentiveInv
<1>11. ASSUME "evict" \notin Environment PROVE evict' = {} /\ marked' = {}
  BY <1>9, <1>11, Zenon DEF AttentiveInv
<1> QED
  BY <1>10, <1>11, Zenon DEF AttentiveInv

\* An allocation patches the copy's list, and no step takes from alloc-status.
LEMMA AllocKept ==
    ASSUME Settled, AllocationInv, [Next]_vars
    PROVE  \A s \in Sandboxes :
             /\ sbx[s].alloc \subseteq sbx'[s].alloc
             /\ pc = "allocating" /\ give[s] # {} => view[s].alloc = sbx[s].alloc
<1>1. ASSUME NEW s \in Sandboxes, pc = "allocating", give[s] # {}
      PROVE  view[s].alloc = sbx[s].alloc
  <2>1. Coherent(s)
    BY <1>1 DEF AllocationInv, GiveInv, Coherent
  <2> QED
    BY <2>1, Zenon DEF AllocationInv, CopyInv
<1>2. ASSUME NEW s \in Sandboxes, SyncSandboxAllocation(s)
      PROVE  \A t \in Sandboxes : sbx[t].alloc \subseteq sbx'[t].alloc
  BY <1>1, <1>2, PatchAllocationFields, Zenon DEF SyncSandboxAllocation, AllocationInv
<1> QED
  BY <1>1, <1>2, OnlySyncAllocates, Zenon

\* The store names a sandbox only for pods of its alloc-status.
LEMMA StoredNext ==
    ASSUME Settled, AllocationInv, StoredInv, [Next]_vars PROVE StoredInv'
<1>0. /\ store \in [Pods -> Sandboxes \cup {NoSandbox}] /\ NoSandbox \notin Sandboxes
      /\ \A s \in Sandboxes : sbx[s].alloc \subseteq sbx'[s].alloc
  BY AllocKept, AllocAssumption, Fields, Zenon DEF AllocationInv, AllocAssumption
<1>1. CASE \A p \in Pods : store'[p] = store[p] \/ store'[p] = NoSandbox
  BY <1>0, <1>1, Zenon DEF StoredInv
<1>2. CASE Schedule
  <2>1. CASE store' = store
    BY <1>1, <2>1, Zenon
  <2>2. CASE store' \in Recover
    <3>1. \A p \in Pods : store'[p] = NoSandbox
                          \/ \E s \in Sandboxes : store'[p] = s /\ p \in Read(s).alloc
      BY <2>2, Zenon DEF Recover
    <3> QED
      BY <1>0, <3>1, ReadsCurrent, Zenon DEF StoredInv
  <2> QED
    BY <1>2, <2>1, <2>2, Zenon DEF Schedule
<1>3. ASSUME NEW s \in Sandboxes, SyncSandboxAllocation(s) PROVE StoredInv'
  <2>1. sbx'[s].alloc = view[s].alloc \cup give[s]
    BY <1>3, PatchAllocationFields, Zenon DEF SyncSandboxAllocation, AllocationInv
  <2>2. \A p \in Pods : \/ p \in view[s].alloc \cup give[s] /\ store'[p] = s
                        \/ store'[p] = store[p] \/ store'[p] = NoSandbox
    BY <1>3, Zenon DEF SyncSandboxAllocation, UpdateAllocation
  <2> QED
    BY <1>0, <2>1, <2>2, Zenon DEF StoredInv
<1>4. ASSUME NEW s \in Sandboxes, SyncSandboxAllocationFails(s) PROVE StoredInv'
  <2>1. view[s].alloc = sbx[s].alloc
    BY <1>4, AllocKept, Zenon DEF SyncSandboxAllocationFails
  <2>2. \A p \in Pods : \/ p \in view[s].alloc /\ store'[p] = s
                        \/ store'[p] = store[p] \/ store'[p] = NoSandbox
    BY <1>4, Zenon DEF SyncSandboxAllocationFails, UpdateAllocation
  <2> QED
    BY <1>0, <2>1, <2>2, Zenon DEF StoredInv
<1>5. CASE DoFinalize \/ Restart \/ \E s \in Sandboxes : SyncSandboxReleased(s)
  BY <1>1, <1>5, Zenon DEF DoFinalize, Restart, SyncSandboxReleased, ReleaseAllocation
<1>6. Begin \/ DoRecycle \/ Scale \/ Abort \/ UNCHANGED vars => UNCHANGED store
  BY Zenon DEF Begin, DoRecycle, Scale, Abort, vars, ctlVars
<1>7. \A s \in Sandboxes : SyncSandboxReleasedFails(s) \/ SandboxStep(s) => UNCHANGED store
  BY ZenonT(30) DEF SyncSandboxReleasedFails, SandboxStep, CreateSandbox, ScaleOut,
       AddTaskFinalizer, DeleteSandbox, RemoveTaskFinalizer, Detach, CacheSync, AssignTask,
       ReleasePod, StopTask, Others, ctlVars
<1>8. \A p \in Pods : PodStep(p) => UNCHANGED store
  BY Zenon DEF PodStep, PodReady, PodUnready, LosePod, PodGone, MarkEvict, PodCacheSync, PodTo,
       ctlVars
<1>9. UNCHANGED store => StoredInv'
  BY <1>1, Zenon
<1> QED
  BY <1>2, <1>3, <1>4, <1>5, <1>6, <1>7, <1>8, <1>9, Zenon DEF Next, PoolStep

\* Requests are numbers.  An allocation answers its request, and a release asks for nothing.
LEMMA Requests ==
    ASSUME NEW o \in SandboxObject, NEW pods \in SUBSET Pods
    PROVE  /\ PodSupplement(o) \in Nat
           /\ PodSupplement(o) <= Cardinality(pods) => PodSupplement(WithAllocation(o, pods)) = 0
           /\ PodSupplement(WithReleased(o, pods)) = PodSupplement(o)
           /\ PodSupplement([o EXCEPT !.fin = o.fin \ {"pool"}]) = PodSupplement(o)
<1>1. o.replicas \in Nat /\ o.allocLen \in Nat /\ Cardinality(pods) \in Nat
  BY PodsCardinality DEF SandboxObject
<1>2. /\ WithAllocation(o, pods).phase = o.phase
      /\ WithAllocation(o, pods).replicas = o.replicas
      /\ WithAllocation(o, pods).allocLen = o.allocLen + Cardinality(pods)
  BY Zenon DEF WithAllocation, SandboxObject
<1>3. /\ WithReleased(o, pods).phase = o.phase
      /\ WithReleased(o, pods).replicas = o.replicas
      /\ WithReleased(o, pods).allocLen = o.allocLen
  BY Zenon DEF WithReleased, SandboxObject
<1> DEFINE q == [o EXCEPT !.fin = o.fin \ {"pool"}]
<1>4. q.phase = o.phase /\ q.replicas = o.replicas /\ q.allocLen = o.allocLen
  BY Zenon DEF SandboxObject
<1>5. PodSupplement(o) \in Nat
  BY <1>1 DEF PodSupplement
<1>6. PodSupplement(o) <= Cardinality(pods) => PodSupplement(WithAllocation(o, pods)) = 0
  BY <1>1, <1>2 DEF PodSupplement
<1>7. PodSupplement(WithReleased(o, pods)) = PodSupplement(o)
  BY <1>3, Zenon DEF PodSupplement
<1>8. PodSupplement(q) = PodSupplement(o)
  <2> HIDE DEF q
  <2> QED
    BY <1>4, Zenon DEF PodSupplement
<1> QED
  BY <1>5, <1>6, <1>7, <1>8, Zenon

\* Where nobody else deletes pods, what the reconcile hands out is alive, also when it
\* starts over on its list: the steps up to the last allocation,
LEMMA ReadySchedule ==
    ASSUME Settled, AllocationInv, AllocationInv', ReadyInv, StoredInv', Schedule
    PROVE  ReadyInv'
<1>0. /\ pod \in [Pods -> PodStates] /\ give' \in [Sandboxes -> SUBSET Pods] /\ ready \subseteq Pods
      /\ \A s \in Sandboxes : view[s] \in SandboxObject
  BY Fields, Zenon DEF AllocationInv, TypeOK
<1>1. /\ pc = "listed" /\ pc' = "allocating" /\ UNCHANGED <<view, ready, marked>>
      /\ evicted' = {p \in marked : store[p] = NoSandbox}
      /\ give' \in PackedSchedule(Available(store', evicted'), Supplements(view))
      /\ \A p \in Pods : pod'[p] = pod[p] \/ p \in evicted'
      /\ store' = store \/ ~recovered
  BY Zenon DEF Schedule, Evictable
<1>2. \A p \in Available(store', evicted') : p \in Offered
  BY <1>0, <1>1, Zenon DEF Available, Offered, AllocationInv, UnrecoveredInv
<1>3. \A s \in Sandboxes : give'[s] \subseteq Offered
  BY <1>1, <1>2, Zenon DEF PackedSchedule
<1>4. \A p \in Offered : p \in Pods /\ p \notin evicted'
  BY <1>0, <1>1, Zenon DEF Offered
<1>5. \A s \in Sandboxes : \A p \in give'[s] : Alive(p)'
  <2>1. CASE Wanting
    <3>1. \A p \in Offered : Alive(p) /\ pod'[p] = pod[p]
      BY <1>1, <1>4, <2>1, Zenon DEF ReadyInv
    <3> QED
      BY <1>3, <3>1, Zenon DEF Alive
  <2>2. CASE ~Wanting
    <3> TAKE s \in Sandboxes
    <3>1. Supplements(view)[s] = 0
      <4>1. Supplements(view)[s] \in Nat
        BY <1>0, Requests, Zenon DEF Supplements
      <4> QED
        BY <2>2, <4>1 DEF Wanting
    <3>2. Cardinality(give'[s]) <= Supplements(view)[s]
      BY <1>1, Zenon DEF PackedSchedule
    <3>3. IsFiniteSet(give'[s]) /\ Cardinality(give'[s]) \in Nat
      BY <1>0, PodsCardinality, Zenon
    <3>4. give'[s] = {}
      BY <3>1, <3>2, <3>3, FS_EmptySet
    <3> QED
      BY <3>4, Zenon
  <2> QED
    BY <2>1, <2>2, Zenon
<1>6. \/ \A s \in Sandboxes : Supplements(view')[s] <= Cardinality(give'[s])
      \/ \A p \in Offered' : \E s \in Sandboxes : p \in give'[s]
  <2> DEFINE short == {s \in Sandboxes : Cardinality(give'[s]) < Supplements(view)[s]}
  <2>1. CASE short = {}
    <3> SUFFICES ASSUME NEW s \in Sandboxes
                 PROVE  Supplements(view')[s] <= Cardinality(give'[s])
      OBVIOUS
    <3>1. Supplements(view)[s] \in Nat /\ Cardinality(give'[s]) \in Nat
      BY <1>0, Requests, PodsCardinality, Zenon DEF Supplements
    <3>2. ~(Cardinality(give'[s]) < Supplements(view)[s])
      BY <2>1, Zenon
    <3> QED
      BY <1>1, <3>1, <3>2
  <2>2. CASE short # {}
    <3>1. UNION {give'[s] : s \in Sandboxes} = Available(store', evicted')
      BY <1>1, <2>2, Zenon DEF PackedSchedule
    <3>2. \A p \in Offered' : p \in Available(store', evicted')
      BY <1>1, Zenon DEF Offered, Available
    <3> QED
      BY <3>1, <3>2, Zenon
  <2> QED
    BY <2>1, <2>2, Zenon
<1>7. pc' = "allocating" /\ pc' # "listed" /\ pc' \notin {"releasing", "scaling"}
  BY <1>1
<1> QED
  BY <1>5, <1>6, <1>7, Zenon DEF ReadyInv

LEMMA ReadySync ==
    ASSUME Settled, AllocationInv, ReadyInv, StoredInv', [Next]_vars, NEW s \in Sandboxes,
           SyncSandboxAllocation(s) \/ SyncSandboxAllocationFails(s)
    PROVE  ReadyInv'
<1>0. /\ give \in [Sandboxes -> SUBSET Pods] /\ view \in [Sandboxes -> SandboxObject]
      /\ ready \subseteq Pods /\ NoSandbox \notin Sandboxes
      /\ store \in [Pods -> Sandboxes \cup {NoSandbox}]
  BY Fields, AllocAssumption, Zenon DEF AllocationInv, TypeOK, AllocAssumption
<1>1. /\ UNCHANGED <<pod, pc, ready, marked>> /\ pc = "allocating" /\ give[s] # {}
      /\ give' = [give EXCEPT ![s] = {}]
      /\ view' = [view EXCEPT ![s] = WithAllocation(view[s], give[s])]
      /\ ~failed' => ~failed /\ store' = UpdateAllocation(store, s, view[s].alloc \cup give[s])
  <2>1. CASE SyncSandboxAllocation(s)
    BY <2>1, Zenon DEF SyncSandboxAllocation
  <2>2. CASE SyncSandboxAllocationFails(s)
    BY <2>2, Zenon DEF SyncSandboxAllocationFails
  <2> QED
    BY <2>1, <2>2, Zenon
<1>2. /\ give'[s] = {} /\ \A t \in Sandboxes \ {s} : give'[t] = give[t] /\ view'[t] = view[t]
      /\ view'[s] = WithAllocation(view[s], give[s])
  BY <1>0, <1>1, Zenon
<1>3. \A t \in Sandboxes : \A p \in give'[t] : Alive(p)'
  BY <1>1, <1>2, Zenon DEF ReadyInv, Alive
<1>4. ASSUME ~failed',
             \A t \in Sandboxes : Supplements(view)[t] <= Cardinality(give[t])
      PROVE  \A t \in Sandboxes : Supplements(view')[t] <= Cardinality(give'[t])
  <2>1. InPool(view[s])
    BY <1>1, Zenon DEF AllocationInv, GiveInv
  <2>2. PodSupplement(view[s]) <= Cardinality(give[s])
    BY <1>4, <2>1, Zenon DEF Supplements
  <2>3. PodSupplement(view'[s]) = 0
    <3>1. view[s] \in SandboxObject /\ give[s] \in SUBSET Pods
      BY <1>0, Zenon
    <3>2. PodSupplement(WithAllocation(view[s], give[s])) = 0
      BY <2>2, <3>1, Requests, Zenon
    <3> QED
      BY <1>2, <3>2, Zenon
  <2>4. Supplements(view')[s] = 0
    BY <2>3, Zenon DEF Supplements
  <2>5. Supplements(view')[s] <= Cardinality(give'[s])
    BY <1>2, <2>4, FS_EmptySet
  <2>6. \A t \in Sandboxes \ {s} : Supplements(view')[t] = Supplements(view)[t]
    BY <1>2, Zenon DEF Supplements
  <2> QED
    BY <1>2, <1>4, <2>5, <2>6, Zenon
<1>5. ASSUME ~failed', \A p \in Offered : \E t \in Sandboxes : p \in give[t]
      PROVE  \A p \in Offered' : \E t \in Sandboxes : p \in give'[t]
  <2> TAKE p \in Offered'
  <2>1. p \in ready /\ p \notin marked /\ store'[p] = NoSandbox /\ p \in Pods
    BY <1>0, <1>1, Zenon DEF Offered
  <2>2. p \notin view[s].alloc \cup give[s] /\ (store[p] = s \/ store[p] = NoSandbox)
    BY <1>0, <1>1, <1>5, <2>1, Zenon DEF UpdateAllocation
  <2>3. view[s].alloc = sbx[s].alloc
    BY <1>1, AllocKept, Zenon
  <2>4. store[p] = NoSandbox
    BY <1>0, <2>1, <2>2, <2>3, Zenon DEF ReadyInv, StoredInv
  <2>5. p \in Offered
    BY <2>1, <2>4, Zenon DEF Offered
  <2> QED
    BY <1>2, <1>5, <2>2, <2>5, Zenon
<1>6. pc' = "allocating" /\ pc' # "listed" /\ pc' \notin {"releasing", "scaling"}
  BY <1>1
<1> QED
  BY <1>1, <1>3, <1>4, <1>5, <1>6, Zenon DEF ReadyInv

\* the releases, which free no pod of the list,
LEMMA ReadyRelease ==
    ASSUME Settled, AllocationInv, ReadyInv, StoredInv', UNCHANGED <<give, pod, ready, marked>>,
           pc \in {"releasing", "scaling"}, pc' \in {"releasing", "scaling"},
           \A p \in Pods : \/ store'[p] = store[p]
                           \/ \E s \in Sandboxes : p \in view[s].released \cup recycled[s],
           \A s \in Sandboxes : Supplements(view')[s] = Supplements(view)[s]
    PROVE  ReadyInv'
<1>1. Wanting' => Wanting
  BY Zenon DEF Wanting
<1>2. \A p \in Offered' : p \in Offered
  <2> TAKE p \in Offered'
  <2>1. p \in ready /\ p \notin marked /\ store'[p] = NoSandbox
    BY Zenon DEF Offered
  <2>2. p \in listed /\ p \in Pods
    BY <2>1, Zenon DEF AllocationInv, ListInv, TypeOK
  <2>3. ~Dead(p)
    BY <2>1, <2>2, Zenon DEF Dead
  <2>4. store'[p] = store[p]
    BY <2>2, <2>3, Zenon DEF AllocationInv, RecycledInv
  <2> QED
    BY <2>1, <2>4, Zenon DEF Offered
<1>3. \A s \in Sandboxes : \A p \in give'[s] : Alive(p)'
  BY Zenon DEF ReadyInv, Alive
<1>4. ~Wanting' \/ Offered' = {}
  <2>1. ~Wanting \/ Offered = {}
    BY Zenon DEF ReadyInv
  <2>2. Offered = {} => Offered' = {}
    BY <1>2, Zenon
  <2> QED
    BY <1>1, <2>1, <2>2, Zenon
<1>5. pc' # "listed" /\ pc' # "allocating"
  OBVIOUS
<1> QED
  BY <1>3, <1>4, <1>5, Zenon DEF ReadyInv

\* and the others.
LEMMA ReadyNext ==
    ASSUME Settled, Undisturbed, AllocationInv, AllocationInv', ReadyInv, [Next]_vars
    PROVE  ReadyInv'
<1>0. /\ pod \in [Pods -> PodStates] /\ give \in [Sandboxes -> SUBSET Pods]
      /\ ready \subseteq Pods /\ view \in [Sandboxes -> SandboxObject]
      /\ \A s \in Sandboxes : view[s] \in SandboxObject /\ recycled[s] \in SUBSET Pods
  BY Fields, Zenon DEF AllocationInv, TypeOK
<1>1. StoredInv'
  BY StoredNext, Zenon DEF ReadyInv
<1>2. CASE Begin
  <2>1. /\ \A p \in ready' : pod[p] = "ready"
        /\ UNCHANGED <<pod, give>> /\ pc' = "listed"
    BY <1>2, Zenon DEF Begin, Undisturbed, ReadPod, apiVars
  <2>2. \A p \in Offered' : Alive(p)'
    BY <2>1 DEF Offered, Alive
  <2>3. \A s \in Sandboxes : \A p \in give'[s] : Alive(p)'
    BY <2>1, Zenon DEF ReadyInv, Alive
  <2>4. pc' # "allocating" /\ pc' \notin {"releasing", "scaling"}
    BY <2>1
  <2> QED
    BY <1>1, <2>2, <2>3, <2>4, Zenon DEF ReadyInv
<1>3. CASE Schedule
  BY <1>1, <1>3, ReadySchedule, Zenon
<1>4. CASE \E s \in Sandboxes : SyncSandboxAllocation(s) \/ SyncSandboxAllocationFails(s)
  BY <1>1, <1>4, ReadySync, Zenon
<1>5. CASE DoRecycle
  <2>1. /\ pc = "allocating" /\ ~failed /\ give = Empty /\ pc' = "releasing"
        /\ UNCHANGED <<pod, ready, marked, give, view, store>>
    BY <1>5, Zenon DEF DoRecycle, apiVars, ctlVars
  <2>2. \A s \in Sandboxes : give[s] = {}
    BY <2>1, Zenon DEF Empty
  <2>3. \/ \A s \in Sandboxes : Supplements(view)[s] <= Cardinality(give[s])
        \/ \A p \in Offered : \E s \in Sandboxes : p \in give[s]
    BY <2>1, Zenon DEF ReadyInv
  <2>4. ASSUME \A s \in Sandboxes : Supplements(view)[s] <= Cardinality(give[s]) PROVE ~Wanting
    <3>1. \A s \in Sandboxes : Supplements(view)[s] <= 0
      BY <2>2, <2>4, FS_EmptySet
    <3>2. \A s \in Sandboxes : Supplements(view)[s] \in Nat
      BY <1>0, Requests, Zenon DEF Supplements
    <3> QED
      BY <3>1, <3>2 DEF Wanting
  <2>5. ~Wanting \/ Offered = {}
    BY <2>2, <2>3, <2>4, Zenon
  <2>6. ~Wanting' \/ Offered' = {}
    BY <2>1, <2>5, Zenon DEF Wanting, Offered
  <2>7. \A s \in Sandboxes : \A p \in give'[s] : Alive(p)'
    BY <2>1, <2>2, Zenon
  <2>8. pc' # "listed" /\ pc' # "allocating"
    BY <2>1
  <2> QED
    BY <1>1, <2>6, <2>7, <2>8, Zenon DEF ReadyInv
<1>6. ASSUME NEW s \in Sandboxes, SyncSandboxReleased(s) \/ SyncSandboxReleasedFails(s)
      PROVE  ReadyInv'
  <2>1. /\ UNCHANGED <<pod, ready, marked, give, pc>> /\ pc = "releasing"
        /\ view' = [view EXCEPT ![s] = WithReleased(view[s], recycled[s])]
        /\ \A p \in Pods : store'[p] = store[p] \/ p \in view[s].released \cup recycled[s]
    <3>1. CASE SyncSandboxReleased(s)
      BY <3>1, Zenon DEF SyncSandboxReleased, ReleaseAllocation
    <3>2. CASE SyncSandboxReleasedFails(s)
      BY <3>2, Zenon DEF SyncSandboxReleasedFails, ctlVars
    <3> QED
      BY <1>6, <3>1, <3>2, Zenon
  <2>2. \A t \in Sandboxes : Supplements(view')[t] = Supplements(view)[t]
    <3>1. /\ view'[s] = WithReleased(view[s], recycled[s])
          /\ \A t \in Sandboxes \ {s} : view'[t] = view[t]
      BY <1>0, <2>1, Zenon
    <3>2. PodSupplement(view'[s]) = PodSupplement(view[s])
      BY <1>0, <3>1, Requests, Zenon
    <3>3. InPool(view'[s]) <=> InPool(view[s])
      <4>1. view'[s].phase = view[s].phase
        BY <1>0, <3>1, WithReleasedFields
      <4> QED
        BY <4>1, Zenon DEF InPool
    <3> QED
      BY <3>1, <3>2, <3>3, Zenon DEF Supplements
  <2>3. pc \in {"releasing", "scaling"} /\ pc' \in {"releasing", "scaling"}
    BY <2>1
  <2> QED
    BY <1>1, <2>1, <2>2, <2>3, ReadyRelease, Zenon
<1>7. CASE DoFinalize
  <2>1. PICK done : view' = [s \in Sandboxes |->
                               IF s \in done THEN [view[s] EXCEPT !.fin = view[s].fin \ {"pool"}]
                               ELSE view[s]]
    BY <1>7, Zenon DEF DoFinalize
  <2>2. /\ UNCHANGED <<pod, ready, marked, give>> /\ pc = "releasing" /\ pc' = "scaling"
        /\ \A p \in Pods : store'[p] = store[p] \/ \E s \in Sandboxes : p \in recycled[s]
    <3>1. store' = ReleaseAllocation(store, UNION {recycled[s] : s \in Sandboxes})
      BY <1>7, Zenon DEF DoFinalize
    <3>2. \A p \in Pods : store'[p] = store[p] \/ \E s \in Sandboxes : p \in recycled[s]
      BY <3>1 DEF ReleaseAllocation
    <3> QED
      BY <1>7, <3>2, Zenon DEF DoFinalize
  <2>3. \A s \in Sandboxes : Supplements(view')[s] = Supplements(view)[s]
    <3> TAKE s \in Sandboxes
    <3> DEFINE q == [view[s] EXCEPT !.fin = view[s].fin \ {"pool"}]
    <3>1. PodSupplement(q) = PodSupplement(view[s])
      BY <1>0, Requests, ZenonT(60)
    <3>2. InPool(q) <=> InPool(view[s])
      BY <1>0, Zenon DEF InPool, SandboxObject
    <3>3. view'[s] = q \/ view'[s] = view[s]
      BY <2>1, Zenon
    <3> HIDE DEF q
    <3> QED
      BY <3>1, <3>2, <3>3, Zenon DEF Supplements
  <2>4. pc \in {"releasing", "scaling"} /\ pc' \in {"releasing", "scaling"}
    BY <2>2
  <2> QED
    BY <1>1, <2>2, <2>3, <2>4, ReadyRelease, Zenon
<1>8. CASE Idle
  <2>1. pc' = "idle" /\ \A s \in Sandboxes : \A p \in give'[s] : Alive(p)'
    BY <1>8, Zenon DEF Idle, Empty
  <2>2. pc' # "listed" /\ pc' # "allocating" /\ pc' \notin {"releasing", "scaling"}
    BY <2>1
  <2> QED
    BY <1>1, <2>1, <2>2, Zenon DEF ReadyInv
<1>9. CASE pc = "scaling" /\ Retry /\ UNCHANGED store
  <2>1. /\ pc' = "listed" /\ UNCHANGED <<view, ready, marked, store>>
        /\ \A s \in Sandboxes : \A p \in give'[s] : Alive(p)'
    BY <1>9, Zenon DEF Retry, Empty
  <2>2. ~Wanting \/ Offered = {}
    BY <1>9, Zenon DEF ReadyInv
  <2>3. ~Wanting' \/ Offered' = {}
    BY <2>1, <2>2, Zenon DEF Wanting, Offered
  <2>4. pc' # "allocating" /\ pc' \notin {"releasing", "scaling"}
    BY <2>1
  <2> QED
    BY <1>1, <2>1, <2>3, <2>4, Zenon DEF ReadyInv
<1>10. CASE Scale \/ Abort \/ Restart
  BY <1>8, <1>9, <1>10, Zenon DEF Scale, Abort, Restart, ctlVars
<1>11. ASSUME UNCHANGED <<ready, marked, give, pc, view, store, failed>>,
              \A q \in Pods : Alive(q) => Alive(q)'
       PROVE  ReadyInv'
  <2>1. (Wanting' <=> Wanting) /\ Offered' = Offered /\ \A p \in Offered : p \in Pods
    BY <1>0, <1>11, Zenon DEF Wanting, Offered
  <2>2. \A s \in Sandboxes : \A p \in give'[s] : Alive(p)'
    BY <1>0, <1>11, Zenon DEF ReadyInv
  <2>3. pc' = "listed" => ~Wanting' \/ \A p \in Offered' : Alive(p)'
    BY <1>11, <2>1, Zenon DEF ReadyInv
  <2>4. pc' = "allocating" /\ ~failed' =>
          \/ \A s \in Sandboxes : Supplements(view')[s] <= Cardinality(give'[s])
          \/ \A p \in Offered' : \E s \in Sandboxes : p \in give'[s]
    BY <1>11, <2>1, Zenon DEF ReadyInv
  <2>5. pc' \in {"releasing", "scaling"} => ~Wanting' \/ Offered' = {}
    BY <1>11, <2>1, Zenon DEF ReadyInv
  <2> QED
    BY <1>1, <2>2, <2>3, <2>4, <2>5, Zenon DEF ReadyInv
<1>12. ASSUME NEW s \in Sandboxes, SandboxStep(s) PROVE ReadyInv'
  <2>1. UNCHANGED <<pod, ready, marked, give, pc, view, store, failed>>
    BY <1>12, Zenon DEF SandboxStep, CreateSandbox, ScaleOut, AddTaskFinalizer, DeleteSandbox,
         RemoveTaskFinalizer, Detach, CacheSync, AssignTask, ReleasePod, StopTask, Others,
         recVars, ctlVars, apiVars
  <2>2. \A q \in Pods : Alive(q) => Alive(q)'
    BY <2>1, Zenon DEF Alive
  <2> QED
    BY <1>11, <2>1, <2>2, Zenon
<1>13. ASSUME NEW p \in Pods, PodStep(p) PROVE ReadyInv'
  <2>1. UNCHANGED <<ready, marked, give, pc, view, store, failed>>
    BY <1>13, Zenon DEF PodStep, PodReady, PodUnready, LosePod, PodGone, MarkEvict,
         PodCacheSync, PodTo, recVars, ctlVars
  <2>2. \A q \in Pods : Alive(q) => Alive(q)'
    BY <1>0, <1>13 DEF PodStep, PodReady, PodUnready, LosePod, PodGone, MarkEvict,
         PodCacheSync, PodTo, Alive, apiVars, Undisturbed
  <2> QED
    BY <1>11, <2>1, <2>2, Zenon
<1>14. CASE UNCHANGED vars
  <2>1. UNCHANGED <<pod, ready, marked, give, pc, view, store, failed>>
    BY <1>14, Zenon DEF vars, recVars, apiVars, ctlVars
  <2>2. \A q \in Pods : Alive(q) => Alive(q)'
    BY <2>1, Zenon DEF Alive
  <2> QED
    BY <1>11, <2>1, <2>2, Zenon
<1> QED
  BY <1>2, <1>3, <1>4, <1>5, <1>6, <1>7, <1>10, <1>12, <1>13, <1>14, Zenon DEF Next, PoolStep

-----------------------------------------------------------------------------
(* The theorems *)

\* A pod in use is left alone because the reconcile's copies of the sandboxes, however
\* old, only err on the safe side; this holds in every Settled instance, and with it what
\* keeps the store filled when labelled pods are evicted, and listed pods alive.
THEOREM PoolInvariant == Settled => (Spec => []PoolInv)
<1> SUFFICES ASSUME Settled PROVE Spec => []PoolInv
  BY ZenonT(60)
<1>1. Init => PoolInv
  <2> SUFFICES ASSUME Init PROVE AttentiveInv /\ ReadyInv
    BY InvInit, HoldInit, Zenon DEF PoolInv
  <2>1. /\ \A s \in Sandboxes : sbx[s].alloc = {} /\ give[s] = {}
        /\ \A p \in Pods : store[p] = NoSandbox
    BY Zenon DEF Init, Unborn, Empty
  <2>2. pc = "idle" /\ evict = {} /\ marked = {}
    BY Zenon DEF Init
  <2> QED
    BY <2>1, <2>2 DEF AttentiveInv, ReadyInv, StoredInv
<1>2. ASSUME PoolInv, [Next]_vars PROVE PoolInv'
  <2>1. AllocationInv'
    BY <1>2, InvNext, Zenon DEF PoolInv
  <2>2. HoldInv'
    BY <1>2, <2>1, HoldNext, Zenon DEF PoolInv
  <2>3. Attentive => AttentiveInv'
    BY <1>2, AttentiveNext, Zenon DEF PoolInv
  <2>4. Undisturbed => ReadyInv'
    BY <1>2, <2>1, ReadyNext, Zenon DEF PoolInv
  <2> QED
    BY <2>1, <2>2, <2>3, <2>4, Zenon DEF PoolInv, Attentive, Undisturbed
<1> QED
  BY <1>1, <1>2, PTL DEF Spec

\* A task runs only in a pod that its sandbox holds, and that the Pool may not recycle.
THEOREM TaskSafe == Settled => (Spec => []TaskHoldsPod)
<1>1. PoolInv => TaskHoldsPod
  BY Zenon DEF PoolInv, HoldInv, TaskInv
<1> QED
  BY <1>1, PoolInvariant, PTL

\* A sandbox with pods that are not recycled yet keeps the pool finalizer.
THEOREM FinalizerKept == Settled => (Spec => []FinalizerGuardsPods)
<1>1. PoolInv => FinalizerGuardsPods
  BY Zenon DEF PoolInv, HoldInv
<1> QED
  BY <1>1, PoolInvariant, PTL

\* The Pool deletes no pod that a sandbox holds and has not handed back.  Where the process
\* restarts and pods carry the eviction label, it may: eviction reads the store before
\* recovery has filled it.
THEOREM HeldKept == Settled /\ Attentive => (Spec => HeldPodKept)
<1> SUFFICES ASSUME Settled, Attentive PROVE Spec => HeldPodKept
  OBVIOUS
<1>1. ASSUME PoolInv, PoolStep, NEW p \in Pods, Alive(p), pod'[p] = "terminating",
             NEW s \in Sandboxes, InPool(sbx[s]), p \in Outstanding(sbx[s])
      PROVE  HandedBack(s, p)
  <2>1. p \in sbx[s].alloc /\ ~Dead(p) /\ pod'[p] # pod[p]
    BY <1>1 DEF Outstanding, Dead, Alive
  <2>2. recovered => store[p] = s /\ store[p] # NoSandbox
    BY <1>1, <2>1, AllocAssumption DEF PoolInv, AllocationInv, AllocInv
  <2>3. CASE Schedule
    <3>1. p \in marked /\ store[p] = NoSandbox
      BY <2>1, <2>3, Zenon DEF Schedule, Evictable
    <3>2. "restart" \notin Environment
      BY <1>1, <3>1, Zenon DEF Attentive, PoolInv, AttentiveInv
    <3>3. recovered
      BY <1>1, <2>1, <3>2, Zenon DEF PoolInv, AttentiveInv
    <3> QED
      BY <2>2, <3>1, <3>3, Zenon
  <2>4. CASE Scale
    <3>1. store[p] = NoSandbox \/ p \in drop
      BY <1>1, <2>1, <2>4, SMTT(60) DEF Scale, Alive
    <3>2. recovered
      BY <1>1, <2>4 DEF Scale, PoolInv, AllocationInv, UnrecoveredInv
    <3>3. PICK t \in Sandboxes : p \in back[t]
      BY <1>1, <2>2, <3>1, <3>2, ZenonT(30) DEF PoolInv, HoldInv, BackInv
    <3> QED
      BY <1>1, <2>1, <3>3, Zenon DEF PoolInv, HoldInv, BackInv
  <2>5. Begin \/ DoRecycle \/ DoFinalize \/ Abort => UNCHANGED pod
    BY Zenon DEF Begin, DoRecycle, DoFinalize, Abort, apiVars
  <2>6. \A t \in Sandboxes : SyncSandboxAllocation(t) \/ SyncSandboxAllocationFails(t)
                             \/ SyncSandboxReleased(t) \/ SyncSandboxReleasedFails(t)
          => UNCHANGED pod
    BY Zenon DEF SyncSandboxAllocation, SyncSandboxAllocationFails, SyncSandboxReleased,
         SyncSandboxReleasedFails
  <2> QED
    BY <1>1, <2>1, <2>3, <2>4, <2>5, <2>6, Zenon DEF PoolStep
<1>2. PoolInv /\ [Next]_vars =>
        [PoolStep => \A p \in Pods :
           Alive(p) /\ pod'[p] = "terminating" =>
              \A s \in Sandboxes :
                  InPool(sbx[s]) /\ p \in Outstanding(sbx[s]) =>
                      \/ p \in sbx[s].release
                      \/ sbx[s].phase = "deleting" /\ "task" \notin sbx[s].fin]_vars
  BY <1>1, Zenon DEF HandedBack
<1> QED
  BY <1>2, PoolInvariant, PTL DEF Spec, HeldPodKept

\* A pod is alive when it is handed to a sandbox, as long as nobody but the Pool deletes
\* pods and its list of them is current when a reconcile begins; also when the reconcile
\* starts over, after a conflict, on the list it has.
THEOREM GivenAlive == Settled /\ Undisturbed => (Spec => GivenPodAlive)
<1> SUFFICES ASSUME Settled, Undisturbed PROVE Spec => GivenPodAlive
  OBVIOUS
<1>1. ASSUME PoolInv, [Next]_vars, NEW s \in Sandboxes, NEW p \in Pods,
             p \in sbx'[s].alloc \ sbx[s].alloc
      PROVE  Alive(p)
  <2>1. PICK t \in Sandboxes : SyncSandboxAllocation(t)
    BY <1>1, OnlySyncAllocates, Zenon DEF PoolInv
  <2>2. TypeOK /\ PatchAllocation(t) /\ pc = "allocating" /\ give[t] # {}
    BY <1>1, <2>1, Zenon DEF PoolInv, AllocationInv, SyncSandboxAllocation
  <2>3. s = t /\ p \in view[t].alloc \cup give[t]
    BY <1>1, <2>2, PatchAllocationFields, ZenonT(30)
  <2>4. view[t].alloc = sbx[t].alloc
    <3>1. Coherent(t)
      BY <1>1, <2>2 DEF PoolInv, AllocationInv, GiveInv, Coherent
    <3> QED
      BY <1>1, <3>1, Zenon DEF PoolInv, AllocationInv, CopyInv
  <2> QED
    BY <1>1, <2>3, <2>4, Zenon DEF PoolInv, ReadyInv
<1>2. PoolInv /\ [Next]_vars =>
        [\A s \in Sandboxes, p \in Pods :
           p \in sbx'[s].alloc \ sbx[s].alloc => Alive(p)]_vars
  BY <1>1, Zenon
<1> QED
  BY <1>2, PoolInvariant, PTL DEF Spec, GivenPodAlive
=============================================================================
