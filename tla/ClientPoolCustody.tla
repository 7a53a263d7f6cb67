-------------------------- MODULE ClientPoolCustody --------------------------
(* Proofs about ClientPool: who has a sandbox, for any number of instances,    *)
(* warmups, callers and managers and in every environment.                     *)
EXTENDS ClientPoolInv, TLAPS

\* The values that tasks, ticks and requests start and end with.
LEMMA Constants ==
    /\ FreeTask \in TaskRec /\ FreeTask.sb = None /\ FreeTask.pc = "free"
    /\ NoTick \in TickRec /\ NoTick.pc = "off"
    /\ Closing \in TickRec /\ Closing.pc = "end"
    /\ NoStop \in StopRec /\ NoStop.pc = "none" /\ NoStop.drained = FALSE
    /\ NoAcquire \in AcquireRec /\ NoAcquire.sb = None /\ NoAcquire.pending = {}
    /\ NoAcquire.pc = "out"
    /\ Raised \in AcquireRec /\ Raised.sb = None /\ Raised.pending = {} /\ Raised.pc = "end"
BY Zenon DEF FreeTask, TaskRec, TaskPc, NoTick, Closing, TickRec, TickPc, NoStop, StopRec, NoAcquire,
       Raised, AcquireRec, AcquirePc

\* A key is an instance and a slot.
LEMMA KeyType == \A k \in Key : k[1] \in Node
BY Zenon DEF Key

\* The end of a tenure changes neither the place nor the sandbox of a warmup.
LEMMA EndTenureType ==
    ASSUME TypeOK, NEW n \in Node
    PROVE  /\ EndTenure(n) \in [Key -> TaskRec]
           /\ \A k \in Key : /\ EndTenure(n)[k].pc = task[k].pc
                             /\ EndTenure(n)[k].sb = task[k].sb
                             /\ EndTenure(n)[k].gen = task[k].gen
<1> SUFFICES ASSUME NEW k \in Key
             PROVE  /\ EndTenure(n)[k] \in TaskRec
                    /\ EndTenure(n)[k].pc = task[k].pc
                    /\ EndTenure(n)[k].sb = task[k].sb
                    /\ EndTenure(n)[k].gen = task[k].gen
  BY Zenon DEF EndTenure
<1>1. task[k] \in TaskRec
  BY Zenon DEF TypeOK
<1>2. \/ EndTenure(n)[k] = task[k]
      \/ EndTenure(n)[k] = [task[k] EXCEPT !.tenure = FALSE, !.cancelled = TRUE]
  BY Zenon DEF EndTenure
<1> QED
  BY <1>1, <1>2, Zenon DEF TaskRec

\* A kill makes nothing alive.
LEMMA KillShrinks ==
    ASSUME TypeOK, NEW S, Kill(S)
    PROVE  alive' \subseteq alive
BY Zenon DEF Kill

\* _mark_primary_lost changes neither the place nor the sandbox of a warmup.
LEMMA PrimaryLost ==
    ASSUME TypeOK, NEW n \in Node, MarkPrimaryLost(n)
    PROVE  /\ owned' \in [Node -> BOOLEAN]
           /\ task' \in [Key -> TaskRec]
           /\ \A k \in Key : /\ task'[k].pc = task[k].pc
                             /\ task'[k].sb = task[k].sb
                             /\ task'[k].gen = task[k].gen
<1>1. owned' \in [Node -> BOOLEAN]
  BY Zenon DEF MarkPrimaryLost, TypeOK
<1>2. task' = EndTenure(n) \/ task' = task
  BY Zenon DEF MarkPrimaryLost
<1>3. task \in [Key -> TaskRec]
  BY Zenon DEF TypeOK
<1> QED
  BY <1>1, <1>2, <1>3, EndTenureType, Zenon

\* So does _stop_reconcile, which drops the kills queued on its executor.
LEMMA Stopped ==
    ASSUME TypeOK, NEW n \in Node, StopReconcile(n)
    PROVE  /\ lock' \in {lock, None}
           /\ owned' \in [Node -> BOOLEAN]
           /\ task' \in [Key -> TaskRec]
           /\ \A k \in Key : /\ task'[k].pc = task[k].pc
                             /\ task'[k].sb = task[k].sb
                             /\ task'[k].gen = task[k].gen
           /\ alive' \subseteq alive
           /\ doomed' \in [Node -> SUBSET Sandbox]
           /\ \A m \in Node : doomed'[m] \subseteq doomed[m]
<1>1. lock' \in {lock, None}
  BY Zenon DEF StopReconcile, LockReleased
<1>2. owned' \in [Node -> BOOLEAN] /\ alive' \subseteq alive
  BY Zenon DEF StopReconcile, TypeOK
<1>3. doomed' \in [Node -> SUBSET Sandbox] /\ \A m \in Node : doomed'[m] \subseteq doomed[m]
  BY Zenon DEF StopReconcile, TypeOK
<1>4. task' = EndTenure(n)
  BY Zenon DEF StopReconcile
<1> QED
  BY <1>1, <1>2, <1>3, <1>4, EndTenureType, Zenon

\* What Dispose leaves: nothing new is alive, and only kills that were put off are
\* queued.
LEMMA Disposed ==
    ASSUME TypeOK, NEW n \in Node, NEW now, NEW later \in SUBSET Sandbox,
           Dispose(n, now, later)
    PROVE  /\ alive' \subseteq alive
           /\ doomed' \in [Node -> SUBSET Sandbox]
           /\ \A m \in Node : doomed'[m] \subseteq doomed[m] \cup later
<1>1. alive' \subseteq alive
  BY KillShrinks, Zenon DEF Dispose
<1>2. doomed \in [Node -> SUBSET Sandbox]
  BY Zenon DEF TypeOK
<1>3. doomed' = [doomed EXCEPT ![n] = @ \cup later] \/ doomed' = doomed
  BY Zenon DEF Dispose
<1> QED
  BY <1>1, <1>2, <1>3, Zenon

\* What take_idle leaves: the entries in front and the one that is handed out go.
LEMMA Took ==
    ASSUME TypeOK, NEW classes, NEW s, NEW D \in SUBSET Idle, TakeIdle(classes, s, D)
    PROVE  /\ idle' \in [Sandbox -> {"none", "fresh", "near", "expired"}]
           /\ Idle' = Idle \ (D \cup {s})
           /\ s = None \/ (s \in Idle \ D)
           /\ s = None => Idle' = {}
BY PoolAssumption DEF TypeOK, TakeIdle, Idle, Eligible

-----------------------------------------------------------------------------
(* Types.                                                                   *)

\* start() and shutdown() keep the types.
LEMMA LifecycleTypes ==
    ASSUME TypeOK, NEW n \in Node, Lifecycle(n)
    PROVE  TypeOK'
<1>1. CASE Start(n)
  <2>1. /\ lock' \in Node \cup {None} /\ owned' \in [Node -> BOOLEAN]
        /\ task' \in [Key -> TaskRec] /\ alive' \subseteq Sandbox
        /\ doomed' \in [Node -> SUBSET Sandbox]
    BY <1>1, Stopped, Zenon DEF Start, TypeOK
  <2>2. maxIdle' \in 0 .. MaxIdle /\ gen' \in [Node -> Nat]
    <3>1. MaxIdle \in 0 .. MaxIdle
      BY PoolAssumption
    <3>2. gen[n] + 1 \in Nat
      BY DEF TypeOK
    <3>3. maxIdle' \in {MaxIdle, maxIdle} /\ gen' \in {gen, [gen EXCEPT ![n] = gen[n] + 1]}
      BY <1>1, Zenon DEF Start
    <3> QED
      BY <3>1, <3>2, <3>3 DEF TypeOK
  <2>3. /\ accept' \in [Node -> BOOLEAN] /\ installed' \in [Node -> BOOLEAN]
        /\ life' \in [Node -> {"NOT_STARTED", "RUNNING", "DRAINING", "STOPPED"}]
    BY <1>1, Zenon DEF Start, TypeOK
  <2> QED
    BY <1>1, <2>1, <2>2, <2>3, Zenon DEF Start, TypeOK
<1>2. ASSUME NEW graceful \in BOOLEAN, Shutdown(n, graceful)
      PROVE  TypeOK'
  <2>1. accept' \in [Node -> BOOLEAN]
    BY <1>2, Zenon DEF Shutdown, TypeOK
  <2>2. /\ life' \in [Node -> {"NOT_STARTED", "RUNNING", "DRAINING", "STOPPED"}]
        /\ stopper' \in [Node -> StopRec]
    BY <1>2, Zenon DEF Shutdown, TypeOK, StopRec
  <2> QED
    BY <1>2, <2>1, <2>2, Zenon DEF Shutdown, TypeOK, store
<1>3. CASE ShutdownDrain(n)
  <2>1. accept' \in [Node -> BOOLEAN]
    BY <1>3, Zenon DEF ShutdownDrain, TypeOK
  <2>2. stopper' \in [Node -> StopRec]
    <3>1. stopper[n] \in StopRec /\ (inflight[n] = 0) \in BOOLEAN
      BY Zenon DEF TypeOK
    <3>2. \A d \in BOOLEAN : [stopper[n] EXCEPT !.pc = "stop", !.drained = d] \in StopRec
      BY <3>1, Zenon DEF StopRec
    <3>3. stopper' = [stopper EXCEPT ![n] =
                         [stopper[n] EXCEPT !.pc = "stop", !.drained = (inflight[n] = 0)]]
      BY <1>3, Zenon DEF ShutdownDrain
    <3> QED
      BY <3>1, <3>2, <3>3, Zenon DEF TypeOK
  <2> QED
    BY <1>3, <2>1, <2>2, Zenon DEF ShutdownDrain, TypeOK, store
<1>4. CASE ShutdownStop(n)
  <2>1. /\ lock' \in Node \cup {None} /\ owned' \in [Node -> BOOLEAN]
        /\ task' \in [Key -> TaskRec] /\ alive' \subseteq Sandbox
        /\ doomed' \in [Node -> SUBSET Sandbox]
    BY <1>4, Stopped, Zenon DEF ShutdownStop, TypeOK
  <2>2. stopper' \in [Node -> StopRec] /\ installed' \in [Node -> BOOLEAN]
    BY <1>4, ZenonT(60) DEF ShutdownStop, TypeOK, StopRec
  <2> QED
    BY <1>4, <2>1, <2>2, Zenon DEF ShutdownStop, TypeOK
<1>5. CASE ShutdownFinish(n)
  <2>1. stopper' \in [Node -> StopRec]
    BY <1>5, Constants, Zenon DEF ShutdownFinish, TypeOK
  <2>2. life' \in [Node -> {"NOT_STARTED", "RUNNING", "DRAINING", "STOPPED"}]
    BY <1>5, Zenon DEF ShutdownFinish, TypeOK
  <2> QED
    BY <1>5, <2>1, <2>2, Zenon DEF ShutdownFinish, TypeOK, store
<1>6. CASE Crash(n)
  <2>1. /\ tick' \in [Node -> TickRec] /\ stopper' \in [Node -> StopRec]
        /\ task' \in [Key -> TaskRec] /\ acq' \in [Caller -> AcquireRec]
        /\ borrowed' \in [Caller -> SUBSET Sandbox]
    BY <1>6, Constants, Zenon DEF Crash, TypeOK
  <2>2. /\ owned' \in [Node -> BOOLEAN] /\ accept' \in [Node -> BOOLEAN]
        /\ installed' \in [Node -> BOOLEAN] /\ inflight' \in [Node -> Nat]
        /\ doomed' \in [Node -> SUBSET Sandbox]
        /\ life' \in [Node -> {"NOT_STARTED", "RUNNING", "DRAINING", "STOPPED"}]
    BY <1>6, Zenon DEF Crash, TypeOK
  <2> QED
    BY <1>6, <2>1, <2>2, Zenon DEF Crash, TypeOK, store
<1> QED
  BY <1>1, <1>2, <1>3, <1>4, <1>5, <1>6, Zenon DEF Lifecycle

\* The sizes that a tick computes are numbers.
Sized ==
    /\ \A n \in Node : Warming(n) \in Nat
    /\ Cardinality(Eligible({"fresh"})) \in Nat

\* The reconcile tick keeps the types.
LEMMA ReconcileTypes ==
    ASSUME CustodyInv, Sized, NEW n \in Node, Reconcile(n)
    PROVE  TypeOK'
<1> USE DEF CustodyInv
<1>1. CASE TickBegin(n)
  <2>1. task' \in [Key -> TaskRec] /\ owned' \in [Node -> BOOLEAN]
    BY <1>1, PrimaryLost, Zenon DEF TickBegin, TypeOK
  <2>2. tick' \in [Node -> TickRec] /\ inflight' \in [Node -> Nat]
    <3>1. tick[n] \in TickRec /\ gen[n] \in Nat /\ inflight[n] + 1 \in Nat
      BY DEF TypeOK
    <3>2. /\ [tick[n] EXCEPT !.pc = "lock"] \in TickRec
          /\ [NoTick EXCEPT !.pc = "retire", !.gen = gen[n]] \in TickRec
      BY <3>1, Constants, Zenon DEF TickRec, TickPc
    <3>3. \E v \in TickRec : tick' = [tick EXCEPT ![n] = v]
      BY <1>1, <3>2, Constants, Zenon DEF TickBegin
    <3> QED
      BY <1>1, <3>1, <3>3 DEF TickBegin, TypeOK
  <2>3. /\ accept' \in [Node -> BOOLEAN]
        /\ life' \in [Node -> {"NOT_STARTED", "RUNNING", "DRAINING", "STOPPED"}]
    BY <1>1, Zenon DEF TickBegin, TypeOK
  <2> QED
    BY <1>1, <2>1, <2>2, <2>3, Zenon DEF TickBegin, TypeOK, store
<1>2. CASE TickLock(n)
  <2>1. task' \in [Key -> TaskRec] /\ owned' \in [Node -> BOOLEAN]
    BY <1>2, PrimaryLost, Zenon DEF TickLock, TypeOK
  <2>2. tick' \in [Node -> TickRec] /\ lock' \in Node \cup {None}
    <3>1. maxIdle \in Nat
      BY PoolAssumption DEF TypeOK
    <3>2. tick[n] \in TickRec /\ Warming(n) \in Nat
      BY Zenon DEF TypeOK, Sized
    <3>3. [tick[n] EXCEPT !.pc = "plan", !.warming = Warming(n), !.max = maxIdle] \in TickRec
      BY <3>1, <3>2, Zenon DEF TickRec, TickPc
    <3>4. \E v \in TickRec : tick' = [tick EXCEPT ![n] = v]
      BY <1>2, <3>3, Constants, Zenon DEF TickLock
    <3> QED
      BY <1>2, <3>4 DEF TickLock, TypeOK
  <2> QED
    BY <1>2, <2>1, <2>2, Zenon DEF TickLock, TypeOK
<1>3. CASE TickRetire(n)
  <2>1. /\ lock' \in Node \cup {None} /\ owned' \in [Node -> BOOLEAN]
        /\ task' \in [Key -> TaskRec] /\ alive' \subseteq Sandbox
        /\ doomed' \in [Node -> SUBSET Sandbox]
    BY <1>3, Stopped, Zenon DEF TickRetire, TypeOK
  <2>2. tick' \in [Node -> TickRec] /\ installed' \in [Node -> BOOLEAN]
    BY <1>3, Constants, Zenon DEF TickRetire, TypeOK
  <2> QED
    BY <1>3, <2>1, <2>2, Zenon DEF TickRetire, TypeOK
<1>4. CASE TickPlan(n)
  <2>1. alive' \subseteq Sandbox
    BY <1>4, KillShrinks, Zenon DEF TickPlan, TypeOK
  <2>2. idle' \in [Sandbox -> {"none", "fresh", "near", "expired"}]
    BY <1>4, Zenon DEF TickPlan, TypeOK
  <2>3. tick' \in [Node -> TickRec]
    <3> DEFINE size == Cardinality(Eligible({"fresh"}))
               warm == tick[n].warming
               top == tick[n].max
    <3>1. size \in Int /\ top \in Nat /\ warm \in Nat
      BY DEF TypeOK, TickRec, Sized
    <3>2. \E v \in TickRec : tick' = [tick EXCEPT ![n] = v]
      <4>1. size - top > 0 => AtMost(size - top, Concurrency) \in Nat
        BY <3>1, PoolAssumption DEF AtMost
      <4>2. top - size - warm > 0 => AtMost(top - size - warm, CreateQps) \in Nat
        BY <3>1, PoolAssumption DEF AtMost
      <4>3. \A d \in Nat : /\ [NoTick EXCEPT !.pc = "shrink", !.todo = d] \in TickRec
                           /\ [NoTick EXCEPT !.pc = "submit", !.todo = d] \in TickRec
        BY Zenon DEF NoTick, TickRec, TickPc
      <4> QED
        BY <1>4, <4>1, <4>2, <4>3, Constants, Zenon DEF TickPlan
    <3> QED
      BY <3>2, Zenon DEF TypeOK
  <2> QED
    BY <1>4, <2>1, <2>2, <2>3, Zenon DEF TickPlan, TypeOK, run
<1>5. CASE TickShrink(n)
  <2>1. alive' \subseteq Sandbox
    BY <1>5, KillShrinks, Zenon DEF TickShrink, TypeOK
  <2>2. idle' \in [Sandbox -> {"none", "fresh", "near", "expired"}]
    BY <1>5, Took, Zenon DEF TickShrink, TypeOK
  <2>3. tick' \in [Node -> TickRec]
    <3>1. tick[n] \in TickRec /\ tick[n].todo > 0
      BY <1>5, Zenon DEF TickShrink, TypeOK
    <3>2. tick[n].todo = 1 \/ [tick[n] EXCEPT !.todo = @ - 1] \in TickRec
      BY <3>1 DEF TickRec
    <3>3. \E v \in TickRec : tick' = [tick EXCEPT ![n] = v]
      <4> DEFINE v(s) == IF s = None \/ tick[n].todo = 1
                         THEN Closing ELSE [tick[n] EXCEPT !.todo = @ - 1]
      <4>1. \A s : v(s) \in TickRec
        BY <3>2, Constants, Zenon
      <4>2. \/ \E s : tick' = [tick EXCEPT ![n] = v(s)]
            \/ tick' = [tick EXCEPT ![n] = Closing]
        BY <1>5, Zenon DEF TickShrink
      <4> QED
        BY <4>1, <4>2, Constants, Zenon
    <3> QED
      BY <3>3, Zenon DEF TypeOK
  <2> QED
    BY <1>5, <2>1, <2>2, <2>3, Zenon DEF TickShrink, TypeOK, run
<1>6. CASE TickSubmit(n)
  <2>1. tick' \in [Node -> TickRec]
    BY <1>6, Constants, Zenon DEF TickSubmit, TypeOK
  <2>2. inflight' \in [Node -> Nat]
    <3>1. tick[n] \in TickRec /\ inflight[n] \in Nat
      BY Zenon DEF TypeOK
    <3>2. inflight[n] + tick[n].todo \in Nat
      BY <3>1 DEF TickRec
    <3>3. inflight' \in {inflight, [inflight EXCEPT ![n] = inflight[n] + tick[n].todo]}
      BY <1>6, Zenon DEF TickSubmit
    <3> QED
      BY <3>2, <3>3 DEF TypeOK
  <2>3. task' \in [Key -> TaskRec]
    <3>1. [FreeTask EXCEPT !.pc = "create", !.gen = gen[n], !.tenure = owned[n]] \in TaskRec
      <4>1. gen[n] \in Nat /\ owned[n] \in BOOLEAN
        BY Zenon DEF TypeOK
      <4> HIDE DEF CustodyInv
      <4> QED
        BY <4>1, Zenon DEF FreeTask, TaskRec, TaskPc
    <3> QED
      BY <1>6, <3>1 DEF TickSubmit, TypeOK
  <2> QED
    BY <1>6, <2>1, <2>2, <2>3, Zenon DEF TickSubmit, TypeOK, store, run
<1>7. CASE TickFails(n)
  <2>1. tick' \in [Node -> TickRec]
    BY <1>7, Constants, Zenon DEF TickFails, TypeOK
  <2> QED
    BY <1>7, <2>1, PrimaryLost, Zenon DEF TickFails, TypeOK, store
<1>8. CASE TickEnd(n)
  <2>1. tick' \in [Node -> TickRec]
    BY <1>8, Constants, Zenon DEF TickEnd, TypeOK
  <2>2. inflight' \in [Node -> Nat]
    BY <1>8 DEF TickEnd, TypeOK, Ended
  <2> QED
    BY <1>8, <2>1, <2>2, Zenon DEF TickEnd, TypeOK, store, run
<1>9. CASE HeartbeatLost(n)
  BY <1>9, PrimaryLost, Zenon DEF HeartbeatLost, TypeOK, store
<1>10. CASE KillDoomed(n)
  <2>1. alive' \subseteq Sandbox
    BY <1>10, KillShrinks, Zenon DEF KillDoomed, TypeOK
  <2>2. doomed' \in [Node -> SUBSET Sandbox]
    BY <1>10 DEF KillDoomed, TypeOK
  <2> QED
    BY <1>10, <2>1, <2>2, Zenon DEF KillDoomed, TypeOK, store, run
<1> QED
  BY <1>1, <1>2, <1>3, <1>4, <1>5, <1>6, <1>7, <1>8, <1>9, <1>10, Zenon DEF Reconcile

\* A record that may follow that of warmup k: it keeps its sandbox, gives it up or
\* has a new one.
Follows(k, v) ==
    /\ v \in TaskRec
    /\ v.sb \in {None, task[k].sb} \cup Unused
    /\ v.pc \in {"stage", "commit", "put"} =>
          v.sb \in Unused \/ (v.sb = task[k].sb /\ Warms(k))

\* Each step of a warmup replaces its record by one that may follow.
LEMMA WarmupRecord ==
    ASSUME TypeOK, NEW k \in Key, Warmup(k)
    PROVE  \E v : /\ Follows(k, v)
                  /\ \/ task' = [task EXCEPT ![k] = v]
                     \/ task' = [EndTenure(k[1]) EXCEPT ![k] = v]
<1>0. task[k] \in TaskRec /\ FreeTask \in TaskRec /\ task \in [Key -> TaskRec]
  BY Constants, Zenon DEF TypeOK
<1>1. Follows(k, FreeTask) /\ Follows(k, [FreeTask EXCEPT !.pc = "late"])
  BY Constants, Zenon DEF Follows, TaskPc, TaskRec
<1>2. \A s \in Unused, pc \in {"stage", "lateKill"} :
         /\ Follows(k, [task[k] EXCEPT !.pc = pc, !.sb = s])
         /\ [task EXCEPT ![k].pc = pc, ![k].sb = s]
               = [task EXCEPT ![k] = [task[k] EXCEPT !.pc = pc, !.sb = s]]
  <2>1. Unused \subseteq Sandbox
    BY Zenon DEF Unused
  <2> QED
    BY <1>0, <2>1, Zenon DEF Follows, TaskPc, TaskRec
<1>3. /\ Warms(k) => /\ Follows(k, [task[k] EXCEPT !.pc = "commit"])
                     /\ Follows(k, [task[k] EXCEPT !.pc = "put"])
      /\ Follows(k, [task[k] EXCEPT !.pc = "recheck"])
  BY <1>0, Zenon DEF Follows, TaskPc, TaskRec
<1>4. Follows(k, TakingBack(k, "cleanup")) /\ Follows(k, TakingBack(k, "remove"))
  BY <1>0, Zenon DEF Follows, TaskPc, TaskRec, TakingBack, FreeTask
<1>5. CASE WarmupCreate(k)
  <2>1. \/ task' = [task EXCEPT ![k] = FreeTask]
        \/ task' = [task EXCEPT ![k] = [FreeTask EXCEPT !.pc = "late"]]
        \/ \E s \in Unused : task' = [task EXCEPT ![k].pc = "stage", ![k].sb = s]
    BY <1>5, Zenon DEF WarmupCreate, Complete
  <2>2. ASSUME NEW s \in Unused, task' = [task EXCEPT ![k].pc = "stage", ![k].sb = s]
        PROVE  \E v : Follows(k, v) /\ task' = [task EXCEPT ![k] = v]
    BY <1>2, <2>2, Zenon
  <2> QED
    BY <1>1, <2>1, <2>2, Zenon
<1>6. CASE LateCreate(k)
  BY <1>1, <1>2, <1>6, ZenonT(60) DEF LateCreate
<1>7. CASE WarmupStage(k)
  BY <1>3, <1>4, <1>7, Zenon DEF WarmupStage, Goto, Retreat, Warms
<1>8. CASE CanCommitWarmup(k)
  BY <1>3, <1>4, <1>8, Zenon DEF CanCommitWarmup, Goto, Retreat, Warms
<1>9. CASE WarmupPutIdle(k)
  BY <1>3, <1>4, <1>9, Zenon DEF WarmupPutIdle, Goto, Retreat
<1>10. CASE WarmupRecheck(k)
  BY <1>1, <1>4, <1>10, Zenon DEF WarmupRecheck, Complete, Retreat
<1>11. CASE WarmupRemoveIdle(k)
  BY <1>4, <1>11, Zenon DEF WarmupRemoveIdle, Retreat
<1>12. CASE WarmupCleanup(k)
  BY <1>1, <1>12, Zenon DEF WarmupCleanup, Complete
<1> QED
  BY <1>5, <1>6, <1>7, <1>8, <1>9, <1>10, <1>11, <1>12, Zenon DEF Warmup

\* The steps of a warmup keep the types.
LEMMA WarmupTypes ==
    ASSUME TypeOK, NEW k \in Key, Warmup(k)
    PROVE  TypeOK'
<1>1. task' \in [Key -> TaskRec]
  <2>1. task \in [Key -> TaskRec] /\ EndTenure(k[1]) \in [Key -> TaskRec]
    BY KeyType, EndTenureType, Zenon DEF TypeOK
  <2> QED
    BY <2>1, WarmupRecord, Zenon DEF Follows
<1>2. inflight' \in [Node -> Nat]
  <2>1. inflight' = inflight \/ inflight' = Ended(k[1])
    BY Zenon DEF Warmup, WarmupCreate, LateCreate, WarmupStage, CanCommitWarmup, WarmupPutIdle,
                 WarmupRecheck, WarmupRemoveIdle, WarmupCleanup, Complete
  <2> QED
    BY <2>1, KeyType DEF TypeOK, Ended
<1>3. alive' \subseteq Sandbox
  <2>1. Unused \subseteq Sandbox /\ alive \subseteq Sandbox
    BY Zenon DEF Unused, TypeOK
  <2>2. alive' \subseteq alive \/ \E s \in Unused : alive' = alive \cup {s}
    BY KillShrinks, Zenon DEF Warmup, WarmupCreate, LateCreate, WarmupStage, CanCommitWarmup,
          WarmupPutIdle, WarmupRecheck, WarmupRemoveIdle, WarmupCleanup, Complete
  <2> QED
    BY <2>1, <2>2, Zenon
<1>4. idle' \in [Sandbox -> {"none", "fresh", "near", "expired"}]
  <2>1. \/ idle' = idle
        \/ \E v \in {"none", "fresh"} : idle' = [idle EXCEPT ![task[k].sb] = v]
    BY Zenon DEF Warmup, WarmupCreate, LateCreate, WarmupStage, CanCommitWarmup, WarmupPutIdle,
                 WarmupRecheck, WarmupRemoveIdle, WarmupCleanup, store
  <2> QED
    BY <2>1, Zenon DEF TypeOK
<1>5. owned' \in [Node -> BOOLEAN]
  <2>1. owned' = owned \/ owned' = [owned EXCEPT ![k[1]] = FALSE]
    BY Zenon DEF Warmup, WarmupCreate, LateCreate, WarmupStage, CanCommitWarmup, WarmupPutIdle,
                 WarmupRecheck, WarmupRemoveIdle, WarmupCleanup, run
  <2> QED
    BY <2>1, Zenon DEF TypeOK
<1>6. UNCHANGED <<lock, destroy, maxIdle, life, gen, accept, installed, doomed, tick, stopper, acq,
                  borrowed, mgr>>
  BY Zenon DEF Warmup, WarmupCreate, LateCreate, WarmupStage, CanCommitWarmup, WarmupPutIdle,
               WarmupRecheck, WarmupRemoveIdle, WarmupCleanup, run, store
<1> QED
  BY <1>1, <1>2, <1>3, <1>4, <1>5, <1>6, Zenon DEF TypeOK

\* A request that has nothing, at the end of a round or of the call.
Emptied(v) ==
    /\ v \in AcquireRec /\ v.sb = None /\ v.pending = {}
    /\ v.pc \notin {"connect", "fence", "created", "final"}

\* The ends of a round leave nothing with the request.
LEMMA EmptiedEnds ==
    ASSUME TypeOK, NEW c \in Caller
    PROVE  Emptied(NoAcquire) /\ Emptied(Raised) /\ Emptied(Exhausted(c))
<1>1. acq[c] \in AcquireRec
  BY Zenon DEF TypeOK
<1> QED
  BY <1>1, Constants, ZenonT(60) DEF Emptied, Exhausted, NoAcquire, AcquireRec, AcquirePc

\* What a step of caller c does to the sandboxes: they come to it from the buffer or
\* are new, and go from it to the application or to the queued kills.
CallerMoves(c) ==
    /\ UNCHANGED task
    /\ \A d \in Caller \ {c} : acq'[d] = acq[d] /\ borrowed'[d] = borrowed[d]
    /\ Holds(c)' => acq'[c].sb \in Sandbox
    /\ acq'[c].sb \notin acq'[c].pending
    /\ Idle' \subseteq Idle
    /\ Taken(c)' \subseteq Taken(c) \cup (Idle \ Idle') \cup Unused
    /\ borrowed'[c] \subseteq borrowed[c] \cup Taken(c)
    /\ Doomed' \subseteq Doomed \cup Taken(c) \cup (Idle \ Idle')
    /\ Taken(c)' \cap (Doomed' \ Doomed) = {}
    /\ Taken(c)' \cap (borrowed'[c] \ borrowed[c]) = {}
    /\ (borrowed'[c] \ borrowed[c]) \cap (Doomed' \ Doomed) = {}

\* The sandbox of a request and the kills it put off.
LEMMA RequestType ==
    ASSUME CustodyInv, NEW c \in Caller
    PROVE  /\ acq[c] \in AcquireRec /\ Home[c] \in Node
           /\ acq[c].pending \subseteq Sandbox /\ acq[c].pending \subseteq Taken(c)
           /\ acq[c].sb \in Sandbox => acq[c].sb \in Taken(c)
           /\ Holds(c) => acq[c].sb \in Sandbox
           /\ acq[c].sb \notin acq[c].pending
           /\ acq \in [Caller -> AcquireRec] /\ borrowed \in [Caller -> SUBSET Sandbox]
<1>1. acq[c] \in AcquireRec /\ Home[c] \in Node
  BY PoolAssumption, Zenon DEF CustodyInv, TypeOK
<1>2. acq[c].pending \subseteq Sandbox
  BY <1>1, Zenon DEF AcquireRec
<1> QED
  BY <1>1, <1>2, Zenon DEF CustodyInv, AloneInv, TypeOK, Taken

\* Queued kills after Dispose.
LEMMA DisposedUnion ==
    ASSUME TypeOK, NEW n \in Node, NEW now, NEW later \in SUBSET Sandbox,
           Dispose(n, now, later)
    PROVE  Doomed' \subseteq Doomed \cup later
<1>1. \A m \in Node : doomed'[m] \subseteq doomed[m] \cup later
  BY Disposed, Zenon
<1> QED
  BY <1>1, Zenon DEF Doomed

\* A step that takes nothing and at whose end the request has nothing or what it
\* had.
LEMMA StayMoves ==
    ASSUME CustodyInv, NEW c \in Caller, NEW v, Emptied(v) \/ (v.sb = acq[c].sb /\ v.pending = acq[c].pending),
           v \in AcquireRec, acq' = [acq EXCEPT ![c] = v],
           v.pc \in {"connect", "fence", "created", "final"} => Holds(c),
           UNCHANGED <<task, idle, doomed, borrowed>>
    PROVE  CallerMoves(c)
<1>1. acq'[c] = v /\ \A d \in Caller \ {c} : acq'[d] = acq[d]
  BY RequestType, Zenon
<1>2. Idle' = Idle /\ Doomed' = Doomed
  BY Zenon DEF Idle, Doomed
<1>3. Taken(c)' \subseteq Taken(c)
  BY <1>1, PoolAssumption, Zenon DEF Taken, Emptied
<1> QED
  BY <1>1, <1>2, <1>3, RequestType, Zenon DEF CallerMoves, Holds, Emptied

\* A step after which the request has nothing: what it had is gone or queued.
LEMMA EndMoves ==
    ASSUME CustodyInv, NEW c \in Caller, NEW v, Emptied(v), acq' = [acq EXCEPT ![c] = v],
           UNCHANGED <<task, borrowed>>, Idle' \subseteq Idle,
           Doomed' \subseteq Doomed \cup Taken(c) \cup (Idle \ Idle')
    PROVE  CallerMoves(c)
<1>1. acq'[c] = v /\ \A d \in Caller \ {c} : acq'[d] = acq[d]
  BY RequestType, Zenon
<1>2. Taken(c)' = {}
  BY <1>1, PoolAssumption, Zenon DEF Taken, Emptied
<1> QED
  BY <1>1, <1>2, Zenon DEF CallerMoves, Holds, Emptied

\* What the types of a caller's step come down to.
LEMMA CallerTypes ==
    ASSUME TypeOK, NEW c \in Caller, NEW v \in AcquireRec, acq' = [acq EXCEPT ![c] = v],
           idle' \in [Sandbox -> {"none", "fresh", "near", "expired"}],
           alive' \subseteq Sandbox,
           doomed' \in [Node -> SUBSET Sandbox],
           borrowed' \in [Caller -> SUBSET Sandbox],
           inflight' \in [Node -> Nat],
           UNCHANGED <<lock, destroy, maxIdle, run, tick, stopper, task, mgr>>
    PROVE  TypeOK'
BY Zenon DEF TypeOK, run

\* The fields of a request that goes on.
LEMMA RequestGoesOn ==
    ASSUME TypeOK, NEW c \in Caller, NEW pc \in AcquirePc
    PROVE  /\ [acq[c] EXCEPT !.pc = pc] \in AcquireRec
           /\ [acq[c] EXCEPT !.pc = pc].pc = pc
           /\ [acq[c] EXCEPT !.pc = pc].sb = acq[c].sb
           /\ [acq[c] EXCEPT !.pc = pc].pending = acq[c].pending
<1>1. acq[c] \in AcquireRec
  BY Zenon DEF TypeOK
<1> QED
  BY <1>1, Zenon DEF AcquireRec

\* The call and its first checks.
LEMMA EnterMoves ==
    ASSUME CustodyInv, NEW c \in Caller,
           AcquireCall(c) \/ AcquireBegin(c) \/ AcquireEnter(c) \/ AcquireEnd(c)
    PROVE  TypeOK' /\ CallerMoves(c)
<1> USE DEF CustodyInv
<1>1. inflight' \in [Node -> Nat]
  <2>1. inflight[Home[c]] + 1 \in Nat
    BY RequestType DEF TypeOK
  <2>2. \/ inflight' = inflight
        \/ inflight' = [inflight EXCEPT ![Home[c]] = inflight[Home[c]] + 1]
        \/ inflight' = Ended(Home[c])
    BY Zenon DEF AcquireCall, AcquireBegin, AcquireEnter, AcquireEnd
  <2> QED
    BY <2>1, <2>2, RequestType DEF TypeOK, Ended
<1>2. UNCHANGED <<idle, alive, lock, destroy, maxIdle, run, doomed, tick, stopper, task, borrowed,
                  mgr>>
  BY Zenon DEF AcquireCall, AcquireBegin, AcquireEnter, AcquireEnd, store
<1>3. \E v : /\ v \in AcquireRec
             /\ Emptied(v) \/ (v.sb = acq[c].sb /\ v.pending = acq[c].pending)
             /\ v.pc \notin {"connect", "fence", "created", "final"}
             /\ acq' = [acq EXCEPT ![c] = v]
  <2>1. /\ [acq[c] EXCEPT !.pc = "enter"] \in AcquireRec
        /\ [acq[c] EXCEPT !.pc = "take"] \in AcquireRec
        /\ [acq[c] EXCEPT !.pc = "enter"].sb = acq[c].sb
        /\ [acq[c] EXCEPT !.pc = "take"].sb = acq[c].sb
        /\ [acq[c] EXCEPT !.pc = "enter"].pending = acq[c].pending
        /\ [acq[c] EXCEPT !.pc = "take"].pending = acq[c].pending
        /\ [acq[c] EXCEPT !.pc = "enter"].pc = "enter"
        /\ [acq[c] EXCEPT !.pc = "take"].pc = "take"
    BY RequestGoesOn, Zenon DEF AcquirePc
  <2>2. CASE AcquireCall(c)
    <3>1. PICK p \in Policies : acq' = [acq EXCEPT ![c] = [NoAcquire EXCEPT !.pc = "begin",
                                             !.gen = gen[Home[c]], !.policy = p]]
      BY <2>2, Zenon DEF AcquireCall
    <3>2. gen[Home[c]] \in Nat
      BY RequestType, Zenon DEF TypeOK
    <3>3. Emptied([NoAcquire EXCEPT !.pc = "begin", !.gen = gen[Home[c]], !.policy = p])
          /\ [NoAcquire EXCEPT !.pc = "begin", !.gen = gen[Home[c]], !.policy = p].pc = "begin"
      BY <3>2, Constants, Zenon DEF Emptied, AcquireRec, AcquirePc
    <3> QED
      BY <3>1, <3>3, Zenon DEF Emptied
  <2>3. CASE AcquireBegin(c)
    BY <2>1, <2>3, Zenon DEF AcquireBegin
  <2>4. CASE AcquireEnter(c) \/ AcquireEnd(c)
    <3>1. /\ Emptied(Raised) /\ Emptied(NoAcquire) /\ Raised.pc = "end" /\ NoAcquire.pc = "out"
      BY EmptiedEnds, Constants, Zenon
    <3>2. acq' \in {[acq EXCEPT ![c] = Raised], [acq EXCEPT ![c] = NoAcquire],
                    [acq EXCEPT ![c] = [acq[c] EXCEPT !.pc = "take"]]}
      BY <2>4, Zenon DEF AcquireEnter, AcquireEnd
    <3> QED
      BY <2>1, <3>1, <3>2, Zenon DEF Emptied
  <2> QED
    BY <2>2, <2>3, <2>4, Zenon
<1>4. PICK v : /\ v \in AcquireRec
               /\ Emptied(v) \/ (v.sb = acq[c].sb /\ v.pending = acq[c].pending)
               /\ v.pc \notin {"connect", "fence", "created", "final"}
               /\ acq' = [acq EXCEPT ![c] = v]
  BY <1>3, Zenon
<1>5. CallerMoves(c)
  BY <1>2, <1>4, StayMoves, Zenon
<1>6. TypeOK'
  <2>1. /\ idle' \in [Sandbox -> {"none", "fresh", "near", "expired"}]
        /\ alive' \subseteq Sandbox /\ doomed' \in [Node -> SUBSET Sandbox]
        /\ borrowed' \in [Caller -> SUBSET Sandbox]
    BY <1>2, Zenon DEF TypeOK
  <2> QED
    BY <1>1, <1>2, <1>4, <2>1, CallerTypes, Zenon
<1> QED
  BY <1>5, <1>6, Zenon

\* A step that ends the round and disposes of what the request had.
LEMMA EndRound ==
    ASSUME CustodyInv, NEW c \in Caller, NEW v, Emptied(v), acq' = [acq EXCEPT ![c] = v],
           NEW now, NEW later, later \subseteq Taken(c) \cup (Idle \ Idle'),
           Dispose(Home[c], now, later),
           idle' \in [Sandbox -> {"none", "fresh", "near", "expired"}], Idle' \subseteq Idle,
           UNCHANGED <<lock, destroy, maxIdle, run, inflight, tick, stopper, task, borrowed, mgr>>
    PROVE  TypeOK' /\ CallerMoves(c)
<1>1. later \in SUBSET Sandbox
  BY Zenon DEF Taken, Idle
<1>2. Doomed' \subseteq Doomed \cup Taken(c) \cup (Idle \ Idle')
  BY <1>1, RequestType, DisposedUnion, Zenon DEF CustodyInv
<1>3. CallerMoves(c)
  BY <1>2, EndMoves, Zenon
<1>4. alive' \subseteq Sandbox /\ doomed' \in [Node -> SUBSET Sandbox]
  <2>1. alive' \subseteq alive /\ doomed' \in [Node -> SUBSET Sandbox]
    BY <1>1, RequestType, Disposed, Zenon DEF CustodyInv
  <2> QED
    BY <2>1, Zenon DEF CustodyInv, TypeOK
<1>5. borrowed' \in [Caller -> SUBSET Sandbox] /\ inflight' \in [Node -> Nat]
  BY Zenon DEF CustodyInv, TypeOK
<1> QED
  BY <1>3, <1>4, <1>5, CallerTypes, Zenon DEF CustodyInv, Emptied

\* A step that ends the round and forgets what the request had, or goes on with it.
LEMMA StayRound ==
    ASSUME CustodyInv, NEW c \in Caller, NEW v, v \in AcquireRec,
           Emptied(v) \/ (v.sb = acq[c].sb /\ v.pending = acq[c].pending /\ Holds(c)),
           acq' = [acq EXCEPT ![c] = v],
           UNCHANGED <<idle, alive, doomed, lock, destroy, maxIdle, run, inflight, tick, stopper,
                       task, borrowed, mgr>>
    PROVE  TypeOK' /\ CallerMoves(c)
<1>1. CallerMoves(c)
  BY StayMoves, Zenon DEF Emptied
<1>2. /\ idle' \in [Sandbox -> {"none", "fresh", "near", "expired"}]
      /\ alive' \subseteq Sandbox /\ doomed' \in [Node -> SUBSET Sandbox]
      /\ borrowed' \in [Caller -> SUBSET Sandbox] /\ inflight' \in [Node -> Nat]
  BY Zenon DEF CustodyInv, TypeOK
<1> QED
  BY <1>1, <1>2, CallerTypes, Zenon DEF CustodyInv

\* The top of the loop.
LEMMA TakeMoves ==
    ASSUME CustodyInv, NEW c \in Caller, AcquireTake(c)
    PROVE  TypeOK' /\ CallerMoves(c)
<1>0. /\ UNCHANGED <<lock, destroy, maxIdle, run, inflight, tick, stopper, task, borrowed, mgr>>
      /\ TypeOK
  BY Zenon DEF AcquireTake, CustodyInv
<1>1. CASE acq' = [acq EXCEPT ![c] = Raised] /\ UNCHANGED <<idle, alive, doomed>>
  BY <1>0, <1>1, EmptiedEnds, StayRound, Zenon DEF Emptied
<1>2. ASSUME NEW s \in Sandbox \cup {None}, NEW D \in SUBSET Idle, TakeIdle({"fresh"}, s, D),
             s # None,
             acq' = [acq EXCEPT ![c].pc = "connect", ![c].sb = s,
                                ![c].pending = acq[c].pending \cup DiscardedAlive(D),
                                ![c].attempts = acq[c].attempts + 1],
             UNCHANGED <<alive, doomed>>
      PROVE  TypeOK' /\ CallerMoves(c)
  <2> DEFINE later == acq[c].pending \cup DiscardedAlive(D)
             v == [acq[c] EXCEPT !.pc = "connect", !.sb = s, !.pending = later,
                                 !.attempts = acq[c].attempts + 1]
  <2>1. /\ idle' \in [Sandbox -> {"none", "fresh", "near", "expired"}]
        /\ Idle' = Idle \ (D \cup {s}) /\ s \in Idle \ D
    BY <1>0, <1>2, Took, Zenon
  <2>2. DiscardedAlive(D) \subseteq D /\ D \subseteq Idle /\ Idle \subseteq Sandbox
    BY Zenon DEF DiscardedAlive, Idle
  <2>3. Idle \cap Taken(c) = {}
    BY Zenon DEF CustodyInv, ExclusiveCustody, Custody!Exclusive
  <2>4. v \in AcquireRec /\ v.pc = "connect" /\ v.sb = s /\ v.pending = later
    <3>1. later \in SUBSET Sandbox /\ s \in Sandbox /\ acq[c] \in AcquireRec
      BY <2>1, <2>2, RequestType, Zenon
    <3>2. acq[c].attempts + 1 \in Nat
      BY <3>1 DEF AcquireRec
    <3> HIDE DEF later
    <3> QED
      BY <3>1, <3>2, Zenon DEF AcquireRec, AcquirePc
  <2>5. acq' = [acq EXCEPT ![c] = v]
    BY <1>2, RequestType, Zenon DEF AcquireRec
  <2> HIDE DEF v
  <2>6. acq'[c] = v /\ \A d \in Caller \ {c} : acq'[d] = acq[d]
    BY <2>5, RequestType, Zenon
  <2>7. Taken(c)' \subseteq Taken(c) \cup (Idle \ Idle')
    BY <2>1, <2>2, <2>4, <2>6, Zenon DEF Taken
  <2>8. Doomed' = Doomed /\ s \notin later
    BY <1>2, <2>1, <2>2, <2>3, RequestType, Zenon DEF Doomed
  <2>9. CallerMoves(c)
    BY <1>0, <2>1, <2>2, <2>4, <2>6, <2>7, <2>8 DEF CallerMoves
  <2>10. /\ alive' \subseteq Sandbox /\ doomed' \in [Node -> SUBSET Sandbox]
         /\ borrowed' \in [Caller -> SUBSET Sandbox] /\ inflight' \in [Node -> Nat]
    BY <1>0, <1>2, Zenon DEF TypeOK
  <2> QED
    BY <1>0, <2>1, <2>4, <2>5, <2>9, <2>10, CallerTypes, Zenon
<1>3. ASSUME NEW s \in Sandbox \cup {None}, NEW D \in SUBSET Idle, TakeIdle({"fresh"}, s, D),
             acq' = [acq EXCEPT ![c] = Exhausted(c)], s = None,
             Dispose(Home[c], {}, acq[c].pending \cup DiscardedAlive(D))
      PROVE  TypeOK' /\ CallerMoves(c)
  <2>1. /\ idle' \in [Sandbox -> {"none", "fresh", "near", "expired"}]
        /\ Idle' = {}
    BY <1>0, <1>3, Took
  <2>2. acq[c].pending \cup DiscardedAlive(D) \subseteq Taken(c) \cup (Idle \ Idle')
    BY <2>1, RequestType, Zenon DEF DiscardedAlive
  <2>3. Idle' \subseteq Idle
    BY <2>1, Zenon
  <2> QED
    BY <1>0, <1>3, <2>1, <2>2, <2>3, EmptiedEnds, EndRound, Zenon
<1>4. CASE /\ acq' = [acq EXCEPT ![c] = Exhausted(c)]
           /\ Dispose(Home[c], {}, acq[c].pending)
           /\ UNCHANGED idle
  <2>1. idle' \in [Sandbox -> {"none", "fresh", "near", "expired"}] /\ Idle' \subseteq Idle
    BY <1>0, <1>4, Zenon DEF TypeOK, Idle
  <2>2. acq[c].pending \subseteq Taken(c) \cup (Idle \ Idle')
    BY RequestType, Zenon
  <2> QED
    BY <1>0, <1>4, <2>1, <2>2, EmptiedEnds, EndRound, Zenon
<1> QED
  BY <1>1, <1>2, <1>3, <1>4, Zenon DEF AcquireTake

\* A candidate is connected, given up or replaced by the next one.
LEMMA ConnectMoves ==
    ASSUME CustodyInv, NEW c \in Caller, AcquireConnect(c)
    PROVE  TypeOK' /\ CallerMoves(c)
<1>0. /\ UNCHANGED <<lock, destroy, maxIdle, run, inflight, tick, stopper, task, borrowed, mgr>>
      /\ TypeOK
      /\ Holds(c)
  BY Zenon DEF AcquireConnect, CustodyInv, Holds
<1>1. /\ acq[c].sb \in Taken(c) /\ acq[c].pending \subseteq Taken(c) /\ acq[c].sb \in Sandbox
      /\ acq[c].sb \notin acq[c].pending
  BY <1>0, RequestType, Zenon
<1>2. /\ idle' \in [Sandbox -> {"none", "fresh", "near", "expired"}]
      /\ Idle' \subseteq Idle
  <2>1. idle' = idle \/ idle' = [idle EXCEPT ![acq[c].sb] = "none"]
    BY Zenon DEF AcquireConnect
  <2> QED
    BY <1>0, <1>1, <2>1, Zenon DEF TypeOK, Idle
<1>3. CASE acq' = [acq EXCEPT ![c].pc = "fence"] /\ UNCHANGED <<idle, alive, doomed>>
  <2> DEFINE v == [acq[c] EXCEPT !.pc = "fence"]
  <2>1. v \in AcquireRec /\ v.sb = acq[c].sb /\ v.pending = acq[c].pending
    BY <1>0, RequestGoesOn, Zenon DEF AcquirePc
  <2>2. acq' = [acq EXCEPT ![c] = v]
    BY <1>3, Zenon
  <2> HIDE DEF v
  <2> QED
    BY <1>0, <1>3, <2>1, <2>2, StayRound, Zenon
<1>4. CASE acq' = [acq EXCEPT ![c] = Raised] /\ UNCHANGED <<idle, alive, doomed>>
  BY <1>0, <1>4, EmptiedEnds, StayRound, Zenon DEF Emptied
<1>5. ASSUME NEW v, Emptied(v), acq' = [acq EXCEPT ![c] = v],
             NEW later, later \in {acq[c].pending \cup {acq[c].sb}, {acq[c].sb}},
             Dispose(Home[c], {}, later)
      PROVE  TypeOK' /\ CallerMoves(c)
  <2>1. later \subseteq Taken(c) \cup (Idle \ Idle')
    BY <1>1, <1>5
  <2> QED
    BY <1>0, <1>2, <1>5, <2>1, EndRound, Zenon
<1>6. CASE /\ acq' = [acq EXCEPT ![c].pc = "take", ![c].sb = None]
           /\ Dispose(Home[c], {}, {acq[c].sb})
  <2> DEFINE v == [acq[c] EXCEPT !.pc = "take", !.sb = None]
  <2>1. /\ v \in AcquireRec /\ v.sb = None /\ v.pending = acq[c].pending /\ v.pc = "take"
        /\ acq' = [acq EXCEPT ![c] = v]
    BY <1>6, RequestType, Zenon DEF AcquireRec, AcquirePc
  <2> HIDE DEF v
  <2>2. acq'[c] = v /\ \A d \in Caller \ {c} : acq'[d] = acq[d]
    BY <2>1, RequestType, Zenon
  <2>3. Taken(c)' = acq[c].pending
    BY <2>1, <2>2, PoolAssumption, RequestType DEF Taken
  <2>4. Doomed' \subseteq Doomed \cup {acq[c].sb}
    <3>1. {acq[c].sb} \in SUBSET Sandbox
      BY <1>1, Zenon
    <3> QED
      BY <1>0, <1>6, <3>1, RequestType, DisposedUnion, Zenon
  <2>5. CallerMoves(c)
    <3>1. None \notin acq[c].pending
      BY PoolAssumption, RequestType, Zenon
    <3>2. UNCHANGED <<task, borrowed>>
      BY <1>0, Zenon
    <3> QED
      BY <1>1, <1>2, <2>1, <2>2, <2>3, <2>4, <3>1, <3>2, Zenon DEF CallerMoves, Holds
  <2>6. alive' \subseteq Sandbox /\ doomed' \in [Node -> SUBSET Sandbox]
    <3>1. {acq[c].sb} \in SUBSET Sandbox
      BY <1>1, Zenon
    <3>2. alive' \subseteq alive /\ doomed' \in [Node -> SUBSET Sandbox]
      BY <1>0, <1>6, <3>1, RequestType, Disposed, Zenon
    <3> QED
      BY <1>0, <3>2, Zenon DEF TypeOK
  <2>7. borrowed' \in [Caller -> SUBSET Sandbox] /\ inflight' \in [Node -> Nat]
    BY <1>0, Zenon DEF TypeOK
  <2> QED
    BY <1>0, <1>2, <2>1, <2>5, <2>6, <2>7, CallerTypes, Zenon
<1>7. Emptied(Raised) /\ Emptied(Exhausted(c))
  BY <1>0, EmptiedEnds, Zenon
<1> QED
  BY <1>3, <1>4, <1>5, <1>6, <1>7, Zenon DEF AcquireConnect

\* The renewal and the check of the namespace.
LEMMA FenceMoves ==
    ASSUME CustodyInv, NEW c \in Caller, AcquireFence(c)
    PROVE  TypeOK' /\ CallerMoves(c)
<1>0. /\ UNCHANGED <<idle, lock, destroy, maxIdle, run, inflight, tick, stopper, task, borrowed, mgr>>
      /\ TypeOK
      /\ Holds(c)
  BY Zenon DEF AcquireFence, CustodyInv, Holds, store
<1>1. CASE acq' = [acq EXCEPT ![c].pc = "final"] /\ UNCHANGED <<alive, doomed>>
  <2> DEFINE v == [acq[c] EXCEPT !.pc = "final"]
  <2>1. v \in AcquireRec /\ v.sb = acq[c].sb /\ v.pending = acq[c].pending
    BY <1>0, RequestGoesOn, Zenon DEF AcquirePc
  <2>2. acq' = [acq EXCEPT ![c] = v]
    BY <1>1, Zenon
  <2> HIDE DEF v
  <2> QED
    BY <1>0, <1>1, <2>1, <2>2, StayRound, Zenon
<1>2. CASE /\ acq' = [acq EXCEPT ![c] = Raised]
           /\ Dispose(Home[c], {acq[c].sb}, acq[c].pending)
  <2>1. idle' \in [Sandbox -> {"none", "fresh", "near", "expired"}] /\ Idle' \subseteq Idle
    BY <1>0, Zenon DEF TypeOK, Idle
  <2>2. acq[c].pending \subseteq Taken(c) \cup (Idle \ Idle')
    BY RequestType, Zenon
  <2> QED
    BY <1>0, <1>2, <2>1, <2>2, EmptiedEnds, EndRound, Zenon
<1> QED
  BY <1>1, <1>2, Zenon DEF AcquireFence

\* The sandbox is handed out or taken back.
LEMMA FinalMoves ==
    ASSUME CustodyInv, NEW c \in Caller, AcquireFinal(c)
    PROVE  TypeOK' /\ CallerMoves(c)
<1>0. /\ UNCHANGED <<idle, lock, destroy, maxIdle, run, inflight, tick, stopper, task, mgr>>
      /\ TypeOK
      /\ Holds(c)
      /\ acq' = [acq EXCEPT ![c] = Raised]
  BY Zenon DEF AcquireFinal, CustodyInv, Holds, store
<1>1. idle' \in [Sandbox -> {"none", "fresh", "near", "expired"}] /\ Idle' = Idle
  BY <1>0, Zenon DEF TypeOK, Idle
<1>2. PICK now : Dispose(Home[c], now, acq[c].pending)
  BY Zenon DEF AcquireFinal
<1>3. acq[c].pending \subseteq Taken(c) \cup (Idle \ Idle')
  BY RequestType, Zenon
<1>4. CASE UNCHANGED borrowed
  BY <1>0, <1>1, <1>2, <1>3, <1>4, EmptiedEnds, EndRound, Zenon
<1>5. CASE borrowed' = [borrowed EXCEPT ![c] = @ \cup {acq[c].sb}]
  <2>1. acq[c].sb \in Taken(c) /\ acq[c].sb \in Sandbox /\ acq[c].sb \notin acq[c].pending
    BY <1>0, RequestType, Zenon
  <2>2. /\ borrowed' \in [Caller -> SUBSET Sandbox]
        /\ borrowed'[c] = borrowed[c] \cup {acq[c].sb}
        /\ \A d \in Caller \ {c} : borrowed'[d] = borrowed[d]
    BY <1>5, <2>1, RequestType, Zenon
  <2>3. Raised \in AcquireRec /\ acq'[c] = Raised /\ \A d \in Caller \ {c} : acq'[d] = acq[d]
    BY <1>0, RequestType, Constants, Zenon
  <2>4. Taken(c)' = {}
    BY <2>3, PoolAssumption, Constants DEF Taken
  <2>5. acq[c].pending \in SUBSET Sandbox
    BY RequestType, Zenon
  <2>6. Doomed' \subseteq Doomed \cup acq[c].pending
    BY <1>0, <1>2, <2>5, RequestType, DisposedUnion, Zenon
  <2>7. CallerMoves(c)
    <3>1. ~Holds(c)' /\ acq'[c].sb \notin acq'[c].pending /\ UNCHANGED task
      BY <1>0, <2>3, Constants DEF Holds
    <3> QED
      BY <1>1, <1>3, <2>1, <2>2, <2>3, <2>4, <2>6, <3>1, Zenon DEF CallerMoves
  <2>8. alive' \subseteq Sandbox /\ doomed' \in [Node -> SUBSET Sandbox]
    <3>1. alive' \subseteq alive /\ doomed' \in [Node -> SUBSET Sandbox]
      BY <1>0, <1>2, <2>5, RequestType, Disposed, Zenon
    <3> QED
      BY <1>0, <3>1, Zenon DEF TypeOK
  <2>9. inflight' \in [Node -> Nat]
    BY <1>0, Zenon DEF TypeOK
  <2> QED
    BY <1>0, <1>1, <2>2, <2>3, <2>7, <2>8, <2>9, CallerTypes, Zenon
<1> QED
  BY <1>4, <1>5, Zenon DEF AcquireFinal

\* A request has a sandbox made for it.
LEMMA CreateMoves ==
    ASSUME CustodyInv, NEW c \in Caller, AcquireCreate(c)
    PROVE  TypeOK' /\ CallerMoves(c)
<1>0. /\ UNCHANGED <<idle, lock, destroy, maxIdle, run, inflight, doomed, tick, stopper, task,
                     borrowed, mgr>>
      /\ TypeOK
  BY Zenon DEF AcquireCreate, CustodyInv, store
<1>1. CASE acq' = [acq EXCEPT ![c] = Raised] /\ UNCHANGED alive
  BY <1>0, <1>1, EmptiedEnds, StayRound, Zenon DEF Emptied
<1>2. ASSUME NEW s \in Unused, alive' = alive \cup {s},
             acq' = [acq EXCEPT ![c].pc = "created", ![c].sb = s]
      PROVE  TypeOK' /\ CallerMoves(c)
  <2> DEFINE v == [acq[c] EXCEPT !.pc = "created", !.sb = s]
  <2>1. s \in Sandbox /\ s \notin acq[c].pending
    BY Zenon DEF Unused, Tracked, InAcquire
  <2>2. /\ v \in AcquireRec /\ v.sb = s /\ v.pending = acq[c].pending /\ v.pc = "created"
        /\ acq' = [acq EXCEPT ![c] = v]
    BY <1>2, <2>1, RequestType, Zenon DEF AcquireRec, AcquirePc
  <2> HIDE DEF v
  <2>3. acq'[c] = v /\ \A d \in Caller \ {c} : acq'[d] = acq[d]
    BY <2>2, RequestType, Zenon
  <2>4. Taken(c)' \subseteq Taken(c) \cup {s}
    BY <2>2, <2>3, Zenon DEF Taken
  <2>5. Idle' = Idle /\ Doomed' = Doomed /\ borrowed' = borrowed /\ task' = task
    BY <1>0, Zenon DEF Idle, Doomed
  <2>6. CallerMoves(c)
    BY <1>2, <2>1, <2>2, <2>3, <2>4, <2>5, Zenon DEF CallerMoves, Holds
  <2>7. alive' \subseteq Sandbox
    BY <1>0, <1>2, <2>1 DEF TypeOK
  <2>8. /\ idle' \in [Sandbox -> {"none", "fresh", "near", "expired"}]
        /\ doomed' \in [Node -> SUBSET Sandbox]
        /\ borrowed' \in [Caller -> SUBSET Sandbox] /\ inflight' \in [Node -> Nat]
    BY <1>0, Zenon DEF TypeOK
  <2> QED
    BY <1>0, <2>2, <2>6, <2>7, <2>8, CallerTypes, Zenon
<1> QED
  BY <1>1, <1>2, Zenon DEF AcquireCreate

\* The other operations, and what time and failures do, keep the types.
LEMMA OtherTypes ==
    ASSUME TypeOK,
           \/ \E n \in Node : Resize(n) \/ ReleaseIdle(n)
           \/ \E c \in Caller : CallerDone(c)
           \/ \E m \in Manager : DestroyBegin(m) \/ Destroy(m)
           \/ TombstoneExpires \/ LockExpires
           \/ \E s \in Sandbox : Age(s) \/ Die(s)
    PROVE  TypeOK'
<1>1. ASSUME NEW n \in Node, Resize(n) PROVE TypeOK'
  BY <1>1, Zenon DEF Resize, TypeOK, run
<1>2. ASSUME NEW n \in Node, ReleaseIdle(n) PROVE TypeOK'
  <2>1. /\ idle' \in [Sandbox -> {"none", "fresh", "near", "expired"}] /\ alive' \subseteq alive
    BY <1>2, Took, KillShrinks, Zenon DEF ReleaseIdle
  <2> QED
    BY <1>2, <2>1, Zenon DEF ReleaseIdle, TypeOK, run
<1>3. ASSUME NEW c \in Caller, CallerDone(c) PROVE TypeOK'
  <2>1. borrowed' \in [Caller -> SUBSET Sandbox] /\ alive' \subseteq Sandbox
    BY <1>3 DEF CallerDone, TypeOK
  <2> QED
    BY <1>3, <2>1, Zenon DEF CallerDone, TypeOK, store, run
<1>4. ASSUME NEW m \in Manager, DestroyBegin(m) PROVE TypeOK'
  <2>1. mgr' \in [Manager -> {"off", "drain", "clear", "mark"}]
    BY <1>4, Zenon DEF DestroyBegin, TypeOK
  <2> QED
    BY <1>4, <2>1, Zenon DEF DestroyBegin, TypeOK, run
<1>5. ASSUME NEW m \in Manager, DestroyDrain(m) PROVE TypeOK'
  <2>1. /\ idle' \in [Sandbox -> {"none", "fresh", "near", "expired"}] /\ alive' \subseteq alive
    BY <1>5, Took, KillShrinks, Zenon DEF DestroyDrain
  <2>2. mgr' \in [Manager -> {"off", "drain", "clear", "mark"}]
    <3>1. \E v \in {"off", "drain", "clear", "mark"} : mgr' = [mgr EXCEPT ![m] = v]
      BY <1>5 DEF DestroyDrain, TypeOK
    <3> QED
      BY <3>1, Zenon DEF TypeOK
  <2> QED
    BY <1>5, <2>1, <2>2, Zenon DEF DestroyDrain, TypeOK, run
<1>6. ASSUME NEW m \in Manager, DestroyClear(m) PROVE TypeOK'
  <2>1. /\ mgr' \in [Manager -> {"off", "drain", "clear", "mark"}]
        /\ idle' \in [Sandbox -> {"none", "fresh", "near", "expired"}]
        /\ maxIdle' \in 0 .. MaxIdle
    BY <1>6, PoolAssumption DEF DestroyClear, TypeOK
  <2> QED
    BY <1>6, <2>1, Zenon DEF DestroyClear, TypeOK, run
<1>7. ASSUME NEW m \in Manager, DestroyMark(m) \/ DestroyFails(m) PROVE TypeOK'
  <2>1. mgr' \in [Manager -> {"off", "drain", "clear", "mark"}]
    BY <1>7, Zenon DEF DestroyMark, DestroyFails, TypeOK
  <2> QED
    BY <1>7, <2>1, Zenon DEF DestroyMark, DestroyFails, TypeOK, run, store
<1>8. ASSUME NEW s \in Sandbox, Age(s) PROVE TypeOK'
  <2>1. /\ idle' \in [Sandbox -> {"none", "fresh", "near", "expired"}] /\ alive' \subseteq Sandbox
    BY <1>8 DEF Age, TypeOK
  <2> QED
    BY <1>8, <2>1, Zenon DEF Age, TypeOK, run
<1>9. ASSUME NEW s \in Sandbox, Die(s) PROVE TypeOK'
  BY <1>9, Zenon DEF Die, TypeOK, store, run
<1>10. CASE TombstoneExpires \/ LockExpires
  BY <1>10, Zenon DEF TombstoneExpires, LockExpires, TypeOK, run
<1> QED
  BY <1>1, <1>2, <1>3, <1>4, <1>5, <1>6, <1>7, <1>8, <1>9, <1>10, Zenon DEF Destroy

-----------------------------------------------------------------------------
(* The moves of sandboxes are steps of SandboxCustody.                      *)

\* ExclusiveCustody, and a step of SandboxCustody, in the terms of the pool.
LEMMA Unfolded ==
    /\ ExclusiveCustody <=>
          /\ \A c \in Caller : (Taken(c) \cup borrowed[c]) \cap (Warm \cup Idle \cup Doomed) = {}
          /\ \A c \in Caller : Taken(c) \cap borrowed[c] = {}
          /\ \A c, d \in Caller :
                c # d => (Taken(c) \cup borrowed[c]) \cap (Taken(d) \cup borrowed[d]) = {}
          /\ Warm \cap Idle = {} /\ Warm \cap Doomed = {} /\ Idle \cap Doomed = {}
    /\ Custody!Next <=>
          /\ ExclusiveCustody'
          /\ Warm' \ Warm \subseteq Custody!Free
          /\ Idle' \ Idle \subseteq Warm
          /\ \A c \in Caller : Taken(c)' \ Taken(c) \subseteq Idle \cup Custody!Free
          /\ \A c \in Caller : borrowed'[c] \ borrowed[c] \subseteq Taken(c)
          /\ Doomed' \ Doomed \subseteq Idle \cup UNION {Taken(c) : c \in Caller}
    /\ ExclusiveCustody' <=>
          /\ \A c \in Caller : (Taken(c)' \cup borrowed'[c]) \cap (Warm' \cup Idle' \cup Doomed') = {}
          /\ \A c \in Caller : Taken(c)' \cap borrowed'[c] = {}
          /\ \A c, d \in Caller :
                c # d => (Taken(c)' \cup borrowed'[c]) \cap (Taken(d)' \cup borrowed'[d]) = {}
          /\ Warm' \cap Idle' = {} /\ Warm' \cap Doomed' = {} /\ Idle' \cap Doomed' = {}
<1>1. \A c \in Caller : /\ [d \in Caller |-> Taken(d)][c] = Taken(c)
                        /\ [d \in Caller |-> Taken(d)]'[c] = Taken(c)'
  BY Zenon
<1>2. {[d \in Caller |-> Taken(d)][c] : c \in Caller} = {Taken(c) : c \in Caller}
  BY <1>1, Zenon
<1> QED
  BY <1>1, <1>2, Zenon DEF ExclusiveCustody, Custody!Exclusive, Custody!Next

\* What nobody refers to is in no place.
LEMMA UnusedFree ==
    ASSUME TypeOK
    PROVE  /\ Unused \subseteq Custody!Free
           /\ \A s \in Unused : /\ s \in Sandbox /\ s \notin Warm /\ s \notin Idle /\ s \notin Doomed
                                /\ \A c \in Caller : s \notin Taken(c) /\ s \notin borrowed[c]
                                /\ \A k \in Key : task[k].sb # s
<1>1. \A s \in Unused : /\ s \in Sandbox /\ s \notin Warm /\ s \notin Idle /\ s \notin Doomed
                        /\ \A c \in Caller : s \notin Taken(c) /\ s \notin borrowed[c]
                        /\ \A k \in Key : task[k].sb # s
  BY Zenon DEF Unused, Tracked, InWarmup, InAcquire, Borrowed, Warm, Taken
<1>2. \A s \in Unused : /\ s \notin UNION {[d \in Caller |-> Taken(d)][c] : c \in Caller}
                        /\ s \notin UNION {borrowed[c] : c \in Caller}
  BY <1>1, Zenon
<1> QED
  BY <1>1, <1>2, Zenon DEF Custody!Free

\* Steps after which no sandbox is in a new place.
ShrinkMoves ==
    /\ \A k \in Key : /\ task'[k].sb \in {task[k].sb, None}
                      /\ Warms(k)' => Warms(k) /\ task'[k].sb = task[k].sb
    /\ \A c \in Caller : /\ acq'[c].sb \in {acq[c].sb, None}
                         /\ acq'[c].pending \subseteq acq[c].pending
                         /\ Holds(c)' => Holds(c) /\ acq'[c].sb = acq[c].sb
                         /\ borrowed'[c] \subseteq borrowed[c]
    /\ Idle' \subseteq Idle
    /\ Doomed' \subseteq Doomed

\* Such a step is one of SandboxCustody.
LEMMA ShrinkKeeps ==
    ASSUME CustodyInv, TypeOK', ShrinkMoves
    PROVE  AloneInv' /\ Custody!Next
<1>1. Warm' \subseteq Warm
  BY Zenon DEF ShrinkMoves, Warm, Warms
<1>2. \A c \in Caller : Taken(c)' \subseteq Taken(c)
  BY PoolAssumption DEF ShrinkMoves, Taken
<1>3. AloneInv'
  <2>1. \A k \in Key : Warms(k)' =>
           /\ task'[k].sb \in Sandbox
           /\ \A j \in Key \ {k} : task'[j].sb # task'[k].sb
    BY PoolAssumption DEF CustodyInv, AloneInv, ShrinkMoves
  <2>2. \A c \in Caller : /\ Holds(c)' => acq'[c].sb \in Sandbox
                          /\ acq'[c].sb \notin acq'[c].pending
    <3>1. \A c \in Caller : None \notin acq[c].pending
      BY RequestType, PoolAssumption, Zenon
    <3> QED
      BY <3>1, Zenon DEF CustodyInv, AloneInv, ShrinkMoves
  <2> QED
    BY <2>1, <2>2, Zenon DEF AloneInv
<1>4. ExclusiveCustody'
  <2>1. ExclusiveCustody
    BY Zenon DEF CustodyInv
  <2>2. /\ \A c \in Caller : borrowed'[c] \subseteq borrowed[c]
        /\ Idle' \subseteq Idle /\ Doomed' \subseteq Doomed
    BY Zenon DEF ShrinkMoves
  <2> QED
    BY <1>1, <1>2, <2>1, <2>2, Unfolded, Zenon
<1> QED
  BY <1>1, <1>2, <1>3, <1>4, Unfolded, Zenon DEF ShrinkMoves

\* So is what a caller does.
LEMMA CallerKeeps ==
    ASSUME CustodyInv, TypeOK', NEW c \in Caller, CallerMoves(c)
    PROVE  AloneInv' /\ Custody!Next
<1>0. TypeOK /\ ExclusiveCustody /\ AloneInv
  BY Zenon DEF CustodyInv
<1>1. Warm' = Warm /\ \A d \in Caller \ {c} : Taken(d)' = Taken(d)
  BY Zenon DEF CallerMoves, Warm, Taken
<1>2. AloneInv'
  BY <1>0, Zenon DEF CallerMoves, AloneInv, Warms, Holds
<1>3. \A s \in Sandbox : s \in Taken(c)' => s \in Taken(c) \/ (s \in Idle /\ s \notin Idle') \/ s \in Unused
  BY Zenon DEF CallerMoves
<1>4. ExclusiveCustody'
  <2> DEFINE T == Taken(c)'  L == borrowed'[c]  W == Warm  I == Idle'  D == Doomed'
  <2>1. T \cap (W \cup I) = {}
    BY <1>0, <1>3, Unfolded, UnusedFree, Zenon DEF CallerMoves, Taken
  <2>2. T \cap D = {}
    BY <1>0, <1>3, Unfolded, UnusedFree, Zenon DEF CallerMoves, Taken
  <2>3. T \cap L = {}
    BY <1>0, <1>3, Unfolded, UnusedFree, Zenon DEF CallerMoves, Taken
  <2>4. L \cap (W \cup I) = {}
    BY <1>0, Unfolded, Zenon DEF CallerMoves
  <2>5. L \cap D = {}
    BY <1>0, Unfolded, Zenon DEF CallerMoves
  <2>6. D \cap (W \cup I) = {} /\ W \cap I = {}
    BY <1>0, Unfolded DEF CallerMoves
  <2>7. \A d \in Caller \ {c} : /\ (Taken(d) \cup borrowed[d]) \cap T = {}
                                /\ (Taken(d) \cup borrowed[d]) \cap L = {}
                                /\ (Taken(d) \cup borrowed[d]) \cap (W \cup I \cup D) = {}
    BY <1>0, <1>3, Unfolded, UnusedFree DEF CallerMoves, Taken
  <2>8. \A d \in Caller \ {c} : borrowed'[d] = borrowed[d]
    BY Zenon DEF CallerMoves
  <2> QED
    BY <1>0, <1>1, <2>1, <2>2, <2>3, <2>4, <2>5, <2>6, <2>7, <2>8, Unfolded
<1>5. /\ \A d \in Caller : Taken(d)' \ Taken(d) \subseteq Idle \cup Custody!Free
      /\ \A d \in Caller : borrowed'[d] \ borrowed[d] \subseteq Taken(d)
  BY <1>0, <1>1, UnusedFree, Zenon DEF CallerMoves
<1>6. Doomed' \ Doomed \subseteq Idle \cup UNION {Taken(d) : d \in Caller}
  BY Zenon DEF CallerMoves
<1>7. Warm' \ Warm \subseteq Custody!Free /\ Idle' \ Idle \subseteq Warm
  BY <1>1, Zenon DEF CallerMoves
<1> QED
  BY <1>2, <1>4, <1>5, <1>6, <1>7, Unfolded, Zenon

\* And so is what a warmup does.
WarmupMoves(k) ==
    /\ \A j \in Key \ {k} : task'[j].pc = task[j].pc /\ task'[j].sb = task[j].sb
    /\ task'[k].sb \in {None, task[k].sb} \cup Unused
    /\ Warms(k)' => task'[k].sb \in Unused \/ (task'[k].sb = task[k].sb /\ Warms(k))
    /\ \/ Idle' \subseteq Idle
       \/ Warms(k) /\ ~Warms(k)' /\ Idle' \subseteq Idle \cup {task[k].sb}
    /\ UNCHANGED <<acq, borrowed, doomed>>

LEMMA WarmupKeeps ==
    ASSUME CustodyInv, TypeOK', NEW k \in Key, WarmupMoves(k)
    PROVE  AloneInv' /\ Custody!Next
<1>0. TypeOK /\ ExclusiveCustody /\ AloneInv
  BY Zenon DEF CustodyInv
<1>1. Doomed' = Doomed /\ \A c \in Caller : Taken(c)' = Taken(c) /\ borrowed'[c] = borrowed[c]
  BY Zenon DEF WarmupMoves, Doomed, Taken
<1>2. Warm' \subseteq Warm \cup Unused
  BY Zenon DEF WarmupMoves, Warm, Warms
<1>3. Idle' \subseteq Idle \cup Warm
  BY Zenon DEF WarmupMoves, Idle, Warm, Warms
<1>4. Warm' \cap Idle' = {}
  <2> SUFFICES ASSUME NEW s \in Warm', s \in Idle' PROVE FALSE
    OBVIOUS
  <2>1. PICK j \in Key : Warms(j)' /\ task'[j].sb = s
    BY Zenon DEF Warm, Warms
  <2>2. s \in Sandbox /\ s # None /\ (s \in Unused => s \notin Idle /\ task[k].sb # s)
    BY <1>0, UnusedFree, PoolAssumption, Zenon DEF Warm
  <2>3. s \in Unused \/ (Warms(j) /\ task[j].sb = s)
    BY <2>1, Zenon DEF WarmupMoves, Warms
  <2>4. CASE s \in Idle
    BY <1>0, <2>2, <2>3, <2>4, Unfolded DEF Warm, Warms
  <2>5. CASE Warms(k) /\ ~Warms(k)' /\ s = task[k].sb
    BY <1>0, <2>1, <2>2, <2>3, <2>5, Zenon DEF AloneInv
  <2> QED
    BY <2>4, <2>5, Zenon DEF WarmupMoves
<1>5. AloneInv'
  <2>1. \A c \in Caller : /\ Holds(c)' => acq'[c].sb \in Sandbox
                          /\ acq'[c].sb \notin acq'[c].pending
    BY <1>0, Zenon DEF AloneInv, WarmupMoves, Holds
  <2> SUFFICES ASSUME NEW i \in Key, Warms(i)'
               PROVE  task'[i].sb \in Sandbox /\ \A j \in Key \ {i} : task'[j].sb # task'[i].sb
    BY <2>1, Zenon DEF AloneInv
  <2>2. CASE i = k
    BY <1>0, <2>2, UnusedFree DEF WarmupMoves, AloneInv
  <2>3. CASE i # k
    <3>1. Warms(i) /\ task'[i].sb = task[i].sb
      BY <2>3, Zenon DEF WarmupMoves, Warms
    <3>2. task[i].sb \in Sandbox /\ \A j \in Key \ {i} : task[j].sb # task[i].sb
      BY <1>0, <3>1, Zenon DEF AloneInv
    <3> QED
      BY <1>0, <2>3, <3>1, <3>2, UnusedFree, PoolAssumption DEF WarmupMoves
  <2> QED
    BY <2>2, <2>3, Zenon
<1>6. ExclusiveCustody'
  BY <1>0, <1>1, <1>2, <1>3, <1>4, Unfolded, UnusedFree
<1>7. Warm' \ Warm \subseteq Custody!Free /\ Idle' \ Idle \subseteq Warm
  BY <1>0, <1>2, <1>3, UnusedFree, Zenon
<1>8. /\ \A c \in Caller : Taken(c)' \ Taken(c) \subseteq Idle \cup Custody!Free
      /\ \A c \in Caller : borrowed'[c] \ borrowed[c] \subseteq Taken(c)
      /\ Doomed' \ Doomed \subseteq Idle \cup UNION {Taken(c) : c \in Caller}
  BY <1>1, Zenon
<1> QED
  BY <1>5, <1>6, <1>7, <1>8, Unfolded, Zenon

\* Steps that leave the requests and the sandboxes of the warmups alone.
LEMMA QuietMoves ==
    ASSUME UNCHANGED <<acq, borrowed>>, Idle' \subseteq Idle,
           \A n \in Node : doomed'[n] \subseteq doomed[n],
           \A k \in Key : task'[k].pc = task[k].pc /\ task'[k].sb = task[k].sb
    PROVE  ShrinkMoves
<1>1. Doomed' \subseteq Doomed
  BY Zenon DEF Doomed
<1>2. \A c \in Caller : acq'[c].pending \subseteq acq[c].pending /\ borrowed'[c] \subseteq borrowed[c]
  BY Zenon
<1> QED
  BY <1>1, <1>2, Zenon DEF ShrinkMoves, Warms, Holds

\* start() and shutdown() put no sandbox in a new place; a process that dies loses
\* what it had.
LEMMA LifecycleMoves ==
    ASSUME TypeOK, NEW n \in Node, Lifecycle(n)
    PROVE  ShrinkMoves
<1>1. CASE Start(n)
  <2>1. UNCHANGED <<acq, borrowed>> /\ Idle' = Idle /\ StopReconcile(n)
    BY <1>1, Zenon DEF Start, Idle
  <2> QED
    BY <2>1, Stopped, QuietMoves, Zenon
<1>2. CASE (\E graceful \in BOOLEAN : Shutdown(n, graceful)) \/ ShutdownDrain(n) \/ ShutdownFinish(n)
  <2>1. UNCHANGED <<acq, borrowed, task, doomed>> /\ Idle' = Idle
    BY <1>2, Zenon DEF Shutdown, ShutdownDrain, ShutdownFinish, Idle, store
  <2> QED
    BY <2>1, QuietMoves, Zenon
<1>3. CASE ShutdownStop(n)
  <2>1. UNCHANGED <<acq, borrowed>> /\ Idle' = Idle /\ (StopReconcile(n) \/ UNCHANGED <<task, doomed>>)
    BY <1>3, Zenon DEF ShutdownStop, Idle
  <2> QED
    BY <2>1, Stopped, QuietMoves, Zenon
<1>4. CASE Crash(n)
  <2>1. \A k \in Key : task'[k] \in {FreeTask, task[k]}
    BY <1>4, Zenon DEF Crash
  <2>2. \A c \in Caller : /\ acq'[c] \in {NoAcquire, acq[c]}
                          /\ borrowed'[c] \subseteq borrowed[c]
    BY <1>4, Zenon DEF Crash
  <2>3. Idle' = Idle /\ Doomed' \subseteq Doomed
    BY <1>4 DEF Crash, Idle, Doomed, store, TypeOK
  <2> QED
    BY <2>1, <2>2, <2>3, Constants, Zenon DEF ShrinkMoves, Warms, Holds
<1> QED
  BY <1>1, <1>2, <1>3, <1>4, Zenon DEF Lifecycle

\* The tick only takes entries out of the buffer, and admits warmups that have no
\* sandbox yet.
LEMMA ReconcileMoves ==
    ASSUME TypeOK, NEW n \in Node, Reconcile(n)
    PROVE  ShrinkMoves
<1>1. CASE TickBegin(n) \/ TickLock(n) \/ TickFails(n) \/ HeartbeatLost(n)
  <2>1. /\ UNCHANGED <<acq, borrowed, doomed>> /\ Idle' = Idle
        /\ MarkPrimaryLost(n) \/ UNCHANGED task
    BY <1>1, Zenon DEF TickBegin, TickLock, TickFails, HeartbeatLost, Idle, store
  <2> QED
    BY <2>1, PrimaryLost, QuietMoves, Zenon
<1>2. CASE TickRetire(n)
  <2>1. UNCHANGED <<acq, borrowed>> /\ Idle' = Idle /\ (StopReconcile(n) \/ UNCHANGED <<task, doomed>>)
    BY <1>2, Zenon DEF TickRetire, Idle
  <2> QED
    BY <2>1, Stopped, QuietMoves, Zenon
<1>3. CASE TickPlan(n)
  <2>1. UNCHANGED <<acq, borrowed, task, doomed>> /\ Idle' \subseteq Idle
    BY <1>3, Zenon DEF TickPlan, Idle, Eligible
  <2> QED
    BY <2>1, QuietMoves, Zenon
<1>4. CASE TickShrink(n)
  <2>1. UNCHANGED <<acq, borrowed, task, doomed>>
    BY <1>4, Zenon DEF TickShrink
  <2>2. Idle' \subseteq Idle
    <3>1. \/ UNCHANGED idle
          \/ \E s \in Sandbox \cup {None}, D \in SUBSET Idle : TakeIdle({"fresh", "near"}, s, D)
      BY <1>4, Zenon DEF TickShrink
    <3>2. ASSUME NEW s \in Sandbox \cup {None}, NEW D \in SUBSET Idle,
                 TakeIdle({"fresh", "near"}, s, D)
          PROVE  Idle' \subseteq Idle
      BY <3>2, Took
    <3> QED
      BY <3>1, <3>2, Zenon DEF Idle
  <2> QED
    BY <2>1, <2>2, QuietMoves, Zenon
<1>5. CASE TickSubmit(n)
  <2>1. UNCHANGED <<acq, borrowed, doomed>> /\ Idle' = Idle /\ Doomed' = Doomed
    BY <1>5, Zenon DEF TickSubmit, Idle, Doomed, store
  <2>2. \A k \in Key : \/ task'[k] = task[k]
                       \/ task'[k].sb = None /\ task'[k].pc = "create"
    <3>1. [FreeTask EXCEPT !.pc = "create", !.gen = gen[n], !.tenure = owned[n]].sb = None
          /\ [FreeTask EXCEPT !.pc = "create", !.gen = gen[n], !.tenure = owned[n]].pc = "create"
      BY Zenon DEF FreeTask
    <3> QED
      BY <1>5, <3>1, Zenon DEF TickSubmit
  <2> QED
    BY <2>1, <2>2, Zenon DEF ShrinkMoves, Warms, Holds
<1>6. CASE TickEnd(n)
  <2>1. UNCHANGED <<acq, borrowed, task, doomed>> /\ Idle' = Idle
    BY <1>6, Zenon DEF TickEnd, Idle, store
  <2> QED
    BY <2>1, QuietMoves, Zenon
<1>7. CASE KillDoomed(n)
  <2>1. UNCHANGED <<acq, borrowed, task>> /\ Idle' = Idle
    BY <1>7, Zenon DEF KillDoomed, Idle, store
  <2>2. \A m \in Node : doomed'[m] \subseteq doomed[m]
    BY <1>7 DEF KillDoomed, TypeOK
  <2> QED
    BY <2>1, <2>2, QuietMoves, Zenon
<1> QED
  BY <1>1, <1>2, <1>3, <1>4, <1>5, <1>6, <1>7, Zenon DEF Reconcile

\* The other operations take entries out of the buffer or touch no place.
LEMMA OtherMoves ==
    ASSUME TypeOK,
           \/ \E n \in Node : Resize(n) \/ ReleaseIdle(n)
           \/ \E c \in Caller : CallerDone(c)
           \/ \E m \in Manager : DestroyBegin(m) \/ Destroy(m)
           \/ TombstoneExpires \/ LockExpires
           \/ \E s \in Sandbox : Age(s) \/ Die(s)
    PROVE  ShrinkMoves
<1>1. CASE \E c \in Caller : CallerDone(c)
  <2>1. UNCHANGED <<acq, task, doomed>> /\ Idle' = Idle /\ Doomed' = Doomed
    BY <1>1, Zenon DEF CallerDone, Idle, Doomed, store
  <2>2. \A c \in Caller : borrowed'[c] \subseteq borrowed[c]
    BY <1>1 DEF CallerDone, TypeOK
  <2> QED
    BY <2>1, <2>2, Zenon DEF ShrinkMoves, Warms, Holds
<1>2. CASE ~(\E c \in Caller : CallerDone(c))
  <2>1. UNCHANGED <<acq, borrowed, task, doomed>>
    BY <1>2, Zenon DEF Resize, ReleaseIdle, DestroyBegin, Destroy, DestroyDrain, DestroyClear,
          DestroyMark, DestroyFails, TombstoneExpires, LockExpires, Age, Die
  <2>2. Idle' \subseteq Idle
    <3>1. \/ UNCHANGED idle
          \/ idle' = [s \in Sandbox |-> "none"]
          \/ \E s \in Sandbox \cup {None}, D \in SUBSET Idle : TakeIdle({"fresh", "near"}, s, D)
          \/ \E s \in Sandbox : Age(s)
      BY <1>2, Zenon DEF Resize, ReleaseIdle, DestroyBegin, Destroy, DestroyDrain, DestroyClear,
            DestroyMark, DestroyFails, TombstoneExpires, LockExpires, Die, store
    <3>2. ASSUME NEW s \in Sandbox \cup {None}, NEW D \in SUBSET Idle,
                 TakeIdle({"fresh", "near"}, s, D)
          PROVE  Idle' \subseteq Idle
      BY <3>2, Took
    <3>3. ASSUME NEW s \in Sandbox, Age(s) PROVE Idle' \subseteq Idle
      BY <3>3, Zenon DEF Age, Idle, TypeOK
    <3>4. UNCHANGED idle \/ idle' = [s \in Sandbox |-> "none"] => Idle' \subseteq Idle
      BY Zenon DEF Idle
    <3> QED
      BY <3>1, <3>2, <3>3, <3>4, Zenon
  <2> QED
    BY <2>1, <2>2, QuietMoves, Zenon
<1> QED
  BY <1>1, <1>2, Zenon

\* A warmup puts its own sandbox in the buffer, once.
LEMMA WarmupStepMoves ==
    ASSUME CustodyInv, NEW k \in Key, Warmup(k)
    PROVE  WarmupMoves(k)
<1>0. TypeOK
  BY Zenon DEF CustodyInv
<1>1. PICK v : /\ Follows(k, v)
               /\ \/ task' = [task EXCEPT ![k] = v]
                  \/ task' = [EndTenure(k[1]) EXCEPT ![k] = v]
  BY <1>0, WarmupRecord, Zenon
<1>2. task \in [Key -> TaskRec] /\ EndTenure(k[1]) \in [Key -> TaskRec]
  BY <1>0, KeyType, EndTenureType, Zenon DEF TypeOK
<1>3. /\ task'[k] = v
      /\ \A j \in Key \ {k} : task'[j].pc = task[j].pc /\ task'[j].sb = task[j].sb
  <2>1. \A j \in Key : /\ EndTenure(k[1])[j].pc = task[j].pc
                       /\ EndTenure(k[1])[j].sb = task[j].sb
    BY <1>0, KeyType, EndTenureType, Zenon
  <2> QED
    BY <1>1, <1>2, <2>1, Zenon
<1>4. UNCHANGED <<acq, borrowed, doomed>>
  BY Zenon DEF Warmup, WarmupCreate, LateCreate, WarmupStage, CanCommitWarmup, WarmupPutIdle,
               WarmupRecheck, WarmupRemoveIdle, WarmupCleanup
<1>5. \/ Idle' \subseteq Idle
      \/ Warms(k) /\ ~Warms(k)' /\ Idle' \subseteq Idle \cup {task[k].sb}
  <2>1. CASE WarmupPutIdle(k)
    <3>1. idle \in [Sandbox -> {"none", "fresh", "near", "expired"}]
      BY <1>0, Zenon DEF TypeOK
    <3>2. CASE UNCHANGED idle
      BY <3>2, Zenon DEF Idle
    <3>3. CASE idle' = [idle EXCEPT ![task[k].sb] = "fresh"]
                  /\ (Goto(k, "recheck") \/ Retreat(k, "cleanup"))
      <4>1. Idle' \subseteq Idle \cup {task[k].sb}
        BY <3>1, <3>3, Zenon DEF Idle
      <4>2. Warms(k)
        BY <2>1, Zenon DEF WarmupPutIdle, Warms
      <4>3. task'[k].pc \in {"recheck", "cleanup"}
        BY <1>2, <3>3, Zenon DEF Goto, Retreat, TakingBack, FreeTask, TaskRec
      <4> QED
        BY <4>1, <4>2, <4>3, Zenon DEF Warms
    <3> QED
      BY <2>1, <3>2, <3>3, Zenon DEF WarmupPutIdle
  <2>2. CASE ~WarmupPutIdle(k)
    <3>1. UNCHANGED idle \/ idle' = [idle EXCEPT ![task[k].sb] = "none"]
      BY <2>2, Zenon DEF Warmup, WarmupCreate, LateCreate, WarmupStage, CanCommitWarmup,
            WarmupRecheck, WarmupRemoveIdle, WarmupCleanup, store
    <3> QED
      BY <1>0, <3>1, Zenon DEF Idle, TypeOK
  <2> QED
    BY <2>1, <2>2, Zenon
<1> QED
  <2>1. task'[k].sb \in {None, task[k].sb} \cup Unused
    BY <1>1, <1>3, Zenon DEF Follows
  <2>2. Warms(k)' => task'[k].sb \in Unused \/ (task'[k].sb = task[k].sb /\ Warms(k))
    BY <1>1, <1>3, Zenon DEF Follows, Warms
  <2> QED
    BY <1>3, <1>4, <1>5, <2>1, <2>2, Zenon DEF WarmupMoves

\* A tick that shrinks the buffer has something left to take.
LEMMA ShrinkKept ==
    ASSUME CustodyInv, Sized, TypeOK', Next, NEW n \in Node, tick'[n].pc = "shrink"
    PROVE  tick'[n].todo > 0
<1>0. TypeOK /\ (tick[n].pc = "shrink" => tick[n].todo > 0) /\ tick \in [Node -> TickRec]
  BY Zenon DEF CustodyInv, TypeOK
<1>1. CASE tick'[n] = tick[n]
  BY <1>0, <1>1, Zenon
<1>2. ASSUME tick'[n] # tick[n]
      PROVE  \/ tick'[n].pc # "shrink"
             \/ TickPlan(n) \/ TickShrink(n)
  <2> SUFFICES ASSUME ~TickPlan(n), ~TickShrink(n)
               PROVE  tick'[n].pc # "shrink"
    OBVIOUS
  <2>1. PICK m \in Node : Lifecycle(m) \/ Reconcile(m)
    BY <1>2, ZenonT(60) DEF Next, Resize, ReleaseIdle, Warmup, WarmupCreate, LateCreate, WarmupStage,
       CanCommitWarmup, WarmupPutIdle, WarmupRecheck, WarmupRemoveIdle, WarmupCleanup, AcquireCall,
       Acquire, AcquireBegin, AcquireEnter, AcquireTake, AcquireConnect, AcquireFence, AcquireFinal,
       AcquireCreate, AcquireEnd, CallerDone, DestroyBegin, Destroy, DestroyDrain, DestroyClear,
       DestroyMark, DestroyFails, TombstoneExpires, LockExpires, Age, Die
  <2>2. CASE Lifecycle(m)
    <3>1. tick' = [tick EXCEPT ![m] = NoTick]
      BY <1>2, <2>2, Zenon DEF Lifecycle, Start, Shutdown, ShutdownDrain, ShutdownStop,
                               ShutdownFinish, Crash
    <3> QED
      BY <1>0, <1>2, <3>1, Constants, Zenon
  <2>3. CASE Reconcile(m) /\ m # n
    <3>1. tick'[n] = tick[n]
      BY <1>0, <2>3, Zenon DEF Reconcile, TickBegin, TickLock, TickPlan, TickShrink, TickSubmit, TickFails,
             TickRetire, TickEnd, HeartbeatLost, KillDoomed
    <3> QED
      BY <1>2, <3>1, Zenon
  <2>4. CASE Reconcile(n)
    <3>1. tick' \in {tick, [tick EXCEPT ![n] = NoTick], [tick EXCEPT ![n] = Closing],
                     [tick EXCEPT ![n].pc = "lock"],
                     [tick EXCEPT ![n] = [NoTick EXCEPT !.pc = "retire", !.gen = gen[n]]],
                     [tick EXCEPT ![n].pc = "plan", ![n].warming = Warming(n), ![n].max = maxIdle]}
      BY <2>4, Zenon DEF Reconcile, TickBegin, TickLock, TickSubmit, TickFails, TickRetire, TickEnd,
                  HeartbeatLost, KillDoomed
    <3>2. /\ [NoTick EXCEPT !.pc = "retire", !.gen = gen[n]].pc = "retire"
          /\ [tick[n] EXCEPT !.pc = "lock"].pc = "lock"
          /\ [tick EXCEPT ![n].pc = "plan", ![n].warming = Warming(n), ![n].max = maxIdle][n].pc = "plan"
      BY <1>0, Constants DEF TickRec
    <3> QED
      BY <1>0, <1>2, <3>1, <3>2, Constants, Zenon
  <2> QED
    BY <2>1, <2>2, <2>3, <2>4, Zenon
<1>3. CASE TickPlan(n)
  <2> DEFINE size == Cardinality(Eligible({"fresh"}))
             top == tick[n].max
  <2>1. size \in Nat /\ top \in Nat
    BY <1>0 DEF TickRec, Sized
  <2>2. \/ tick'[n] = [NoTick EXCEPT !.pc = "shrink", !.todo = AtMost(size - top, Concurrency)]
           /\ size - top > 0
      \/ tick'[n].pc # "shrink"
    <3> DEFINE deficit == top - size - tick[n].warming
    <3>1. \/ /\ size - top > 0
             /\ tick' = [tick EXCEPT ![n] = [NoTick EXCEPT !.pc = "shrink",
                                               !.todo = AtMost(size - top, Concurrency)]]
          \/ tick' = [tick EXCEPT ![n] = [NoTick EXCEPT !.pc = "submit",
                                               !.todo = AtMost(deficit, CreateQps)]]
          \/ tick' = [tick EXCEPT ![n] = Closing]
      BY <1>3, Zenon DEF TickPlan
    <3> HIDE DEF deficit, size, top
    <3> QED
      BY <1>0, <3>1, Constants, Zenon DEF NoTick
  <2>3. size - top > 0 => AtMost(size - top, Concurrency) > 0
    BY <2>1, PoolAssumption DEF AtMost
  <2> HIDE DEF size, top
  <2> QED
    BY <2>2, <2>3, Zenon DEF NoTick
<1>4. CASE TickShrink(n)
  <2>1. \/ tick' = [tick EXCEPT ![n] = Closing]
        \/ tick[n].todo # 1 /\ tick' = [tick EXCEPT ![n] = [tick[n] EXCEPT !.todo = @ - 1]]
    BY <1>4, Zenon DEF TickShrink
  <2>2. tick[n] \in TickRec /\ tick[n].todo > 0
    BY <1>0, <1>4, Zenon DEF TickShrink
  <2> QED
    BY <1>0, <2>1, <2>2, Constants DEF TickRec
<1> QED
  BY <1>1, <1>2, <1>3, <1>4, Zenon

-----------------------------------------------------------------------------
(* All steps.                                                               *)

\* The pool starts with no sandbox anywhere.
LEMMA CustodyInit ==
    ASSUME Init
    PROVE  CustodyInv /\ Custody!Init
<1>1. TypeOK
  <2>1. 0 \in 0 .. MaxIdle /\ MaxIdle \in 0 .. MaxIdle
    BY PoolAssumption
  <2> QED
    BY <2>1, Constants, Zenon DEF Init, TypeOK
<1>2. /\ Idle = {} /\ Doomed = {} /\ Warm = {}
      /\ \A c \in Caller : Taken(c) = {} /\ borrowed[c] = {}
  BY PoolAssumption, Constants, Zenon DEF Init, Idle, Doomed, Warm, Taken
<1>3. AloneInv /\ \A n \in Node : tick[n].pc # "shrink"
  BY Constants, Zenon DEF Init, AloneInv, Warms, Holds
<1>4. ExclusiveCustody
  BY <1>2, Unfolded, Zenon
<1>5. Custody!Init
  BY <1>2, Zenon DEF Init, Custody!Init
<1> QED
  BY <1>1, <1>3, <1>4, <1>5, Zenon DEF CustodyInv

\* Every step keeps the types and the invariant and is one of SandboxCustody.
LEMMA CustodyStep ==
    ASSUME CustodyInv, Sized, Next
    PROVE  CustodyInv' /\ Custody!Next
<1>0. TypeOK
  BY Zenon DEF CustodyInv
<1>1. TypeOK' /\ AloneInv' /\ Custody!Next
  <2>1. ASSUME NEW n \in Node, Lifecycle(n) \/ Reconcile(n)
        PROVE  TypeOK' /\ AloneInv' /\ Custody!Next
    BY <1>0, <2>1, LifecycleTypes, LifecycleMoves, ReconcileTypes, ReconcileMoves,
       ShrinkKeeps, Zenon
  <2>2. ASSUME NEW k \in Key, Warmup(k)
        PROVE  TypeOK' /\ AloneInv' /\ Custody!Next
    BY <1>0, <2>2, WarmupTypes, WarmupStepMoves, WarmupKeeps, Zenon
  <2>3. ASSUME NEW c \in Caller, AcquireCall(c) \/ Acquire(c)
        PROVE  TypeOK' /\ AloneInv' /\ Custody!Next
    <3>1. TypeOK' /\ CallerMoves(c)
      BY <2>3, EnterMoves, TakeMoves, ConnectMoves, FenceMoves, FinalMoves, CreateMoves, Zenon
         DEF Acquire
    <3> QED
      BY <3>1, CallerKeeps, Zenon
  <2>4. CASE \/ \E n \in Node : Resize(n) \/ ReleaseIdle(n)
             \/ \E c \in Caller : CallerDone(c)
             \/ \E m \in Manager : DestroyBegin(m) \/ Destroy(m)
             \/ TombstoneExpires \/ LockExpires
             \/ \E s \in Sandbox : Age(s) \/ Die(s)
    BY <1>0, <2>4, OtherTypes, OtherMoves, ShrinkKeeps, Zenon
  <2> QED
    BY <2>1, <2>2, <2>3, <2>4, Zenon DEF Next
<1>2. ExclusiveCustody'
  BY <1>1, Unfolded, Zenon
<1>3. \A n \in Node : tick'[n].pc = "shrink" => tick'[n].todo > 0
  BY <1>1, ShrinkKept, Zenon
<1> QED
  BY <1>1, <1>2, <1>3, Zenon DEF CustodyInv

-----------------------------------------------------------------------------
(* What the destroy state, a request and a tick do in a step.               *)

\* The destroy state changes only in destroy() and when its tombstone expires.
LEMMA DestroyFrame ==
    ASSUME Next
    PROVE  \/ UNCHANGED <<destroy, mgr>>
           \/ \E m \in Manager : DestroyBegin(m) \/ Destroy(m)
           \/ TombstoneExpires
<1>1. ASSUME NEW n \in Node, Lifecycle(n) PROVE UNCHANGED <<destroy, mgr>>
  BY <1>1, Zenon DEF Lifecycle, Start, Shutdown, ShutdownDrain, ShutdownStop, ShutdownFinish,
                     Crash, store
<1>2. ASSUME NEW n \in Node, Reconcile(n) PROVE UNCHANGED <<destroy, mgr>>
  BY <1>2, Zenon DEF Reconcile, TickBegin, TickLock, TickPlan, TickShrink, TickSubmit, TickFails,
                     TickRetire, TickEnd, HeartbeatLost, KillDoomed, store
<1>3. ASSUME NEW k \in Key, Warmup(k) PROVE UNCHANGED <<destroy, mgr>>
  BY <1>3, Zenon DEF Warmup, WarmupCreate, LateCreate, WarmupStage, CanCommitWarmup, WarmupPutIdle,
                     WarmupRecheck, WarmupRemoveIdle, WarmupCleanup, store
<1>4. ASSUME NEW c \in Caller, AcquireCall(c) \/ Acquire(c) \/ CallerDone(c)
      PROVE  UNCHANGED <<destroy, mgr>>
  BY <1>4, Zenon DEF AcquireCall, Acquire, AcquireBegin, AcquireEnter, AcquireTake, AcquireConnect,
                     AcquireFence, AcquireFinal, AcquireCreate, AcquireEnd, CallerDone, store
<1>5. ASSUME \/ \E n \in Node : Resize(n) \/ ReleaseIdle(n)
             \/ LockExpires \/ \E s \in Sandbox : Age(s) \/ Die(s)
      PROVE  UNCHANGED <<destroy, mgr>>
  BY <1>5, Zenon DEF Resize, ReleaseIdle, LockExpires, Age, Die, store
<1> QED
  BY <1>1, <1>2, <1>3, <1>4, <1>5, Zenon DEF Next

\* Where a request is after a step of its caller.
LEMMA RequestPc ==
    ASSUME TypeOK, NEW c \in Caller, AcquireCall(c) \/ Acquire(c)
    PROVE  /\ \A d \in Caller \ {c} : acq'[d] = acq[d]
           /\ \/ acq[c].pc = "out" /\ acq'[c].pc = "begin" /\ UNCHANGED inflight
              \/ /\ acq[c].pc = "begin" /\ acq'[c].pc = "enter"
                 /\ inflight' = [inflight EXCEPT ![Home[c]] = @ + 1]
              \/ /\ acq[c].pc = "enter" /\ acq'[c].pc \in {"take", "end"} /\ UNCHANGED inflight
                 /\ acq'[c].pc = "take" => RunActive(c)
              \/ /\ acq[c].pc \in {"take", "connect", "fence", "created", "final", "create"}
                 /\ acq'[c].pc \notin {"out", "begin", "enter"} /\ UNCHANGED inflight
              \/ acq[c].pc = "end" /\ acq'[c].pc = "out" /\ inflight' = Ended(Home[c])
<1>0. acq \in [Caller -> AcquireRec] /\ acq[c] \in AcquireRec
  BY Zenon DEF TypeOK
<1>1. \E v : acq' = [acq EXCEPT ![c] = v]
  <2>1. CASE AcquireTake(c)
    <3>1. ASSUME NEW s, NEW P,
                 acq' = [acq EXCEPT ![c].pc = "connect", ![c].sb = s,
                                    ![c].pending = P, ![c].attempts = @ + 1]
          PROVE  acq' = [acq EXCEPT ![c] = acq'[c]]
      BY <1>0, <3>1, ZenonT(60)
    <3> QED
      BY <2>1, <3>1, Zenon DEF AcquireTake
  <2>2. CASE ~AcquireTake(c)
    <3>1. ASSUME NEW s, NEW pc, acq' = [acq EXCEPT ![c].pc = pc, ![c].sb = s]
          PROVE  acq' = [acq EXCEPT ![c] = acq'[c]]
      BY <1>0, <3>1, ZenonT(60)
    <3> QED
      BY <2>2, <3>1, Zenon DEF AcquireCall, Acquire, AcquireBegin, AcquireEnter, AcquireConnect,
                     AcquireFence, AcquireFinal, AcquireCreate, AcquireEnd
  <2> QED
    BY <2>1, <2>2, Zenon
<1>2. \A d \in Caller \ {c} : acq'[d] = acq[d]
  BY <1>0, <1>1, Zenon
<1>3. \A pc : acq' = [acq EXCEPT ![c].pc = pc] => acq'[c].pc = pc
  BY <1>0 DEF AcquireRec
<1>4. \A pc, s : acq' = [acq EXCEPT ![c].pc = pc, ![c].sb = s] => acq'[c].pc = pc
  BY <1>0 DEF AcquireRec
<1>5. /\ acq' = [acq EXCEPT ![c] = Raised] => acq'[c].pc = "end"
      /\ acq' = [acq EXCEPT ![c] = NoAcquire] => acq'[c].pc = "out"
  BY <1>0, Constants, Zenon
<1>6. acq' = [acq EXCEPT ![c] = Exhausted(c)] => acq'[c].pc \in {"create", "end"}
  BY <1>0, Constants, Zenon DEF Exhausted, NoAcquire
<1>7. CASE AcquireCall(c)
  <2>1. \A p : [NoAcquire EXCEPT !.pc = "begin", !.gen = gen[Home[c]], !.policy = p].pc = "begin"
    BY Zenon DEF NoAcquire
  <2>2. acq'[c].pc = "begin"
    <3>1. PICK p : acq' = [acq EXCEPT ![c] = [NoAcquire EXCEPT !.pc = "begin", !.gen = gen[Home[c]],
                                                               !.policy = p]]
      BY <1>7, Zenon DEF AcquireCall
    <3> QED
      BY <1>0, <2>1, <3>1
  <2> QED
    BY <1>2, <1>7, <2>2, Zenon DEF AcquireCall
<1>8. CASE AcquireBegin(c)
  BY <1>2, <1>3, <1>8, Zenon DEF AcquireBegin
<1>9. CASE AcquireEnter(c)
  BY <1>2, <1>3, <1>5, <1>9, Zenon DEF AcquireEnter
<1>10. CASE AcquireTake(c)
  <2>1. acq[c].pc = "take" /\ UNCHANGED inflight /\ acq'[c].pc \in {"connect", "create", "end"}
    <3> DEFINE Connecting(s, P) == [acq EXCEPT ![c].pc = "connect", ![c].sb = s,
                                               ![c].pending = P, ![c].attempts = @ + 1]
    <3>1. \/ acq' = [acq EXCEPT ![c] = Raised] \/ acq' = [acq EXCEPT ![c] = Exhausted(c)]
          \/ \E s, P : acq' = Connecting(s, P)
      BY <1>10, Zenon DEF AcquireTake
    <3>2. acq[c].pc = "take" /\ UNCHANGED inflight
      BY <1>10, Zenon DEF AcquireTake
    <3>3. \A s, P : Connecting(s, P)[c].pc = "connect"
      BY <1>0 DEF AcquireRec
    <3> HIDE DEF Connecting
    <3> QED
      BY <1>5, <1>6, <3>1, <3>2, <3>3, Zenon
  <2> QED
    BY <1>2, <2>1, Zenon
<1>11. CASE AcquireConnect(c)
  <2>1. acq[c].pc = "connect" /\ UNCHANGED inflight /\ acq'[c].pc \in {"fence", "take", "create", "end"}
    <3>1. \/ acq' = [acq EXCEPT ![c] = Raised] \/ acq' = [acq EXCEPT ![c] = Exhausted(c)]
          \/ acq' = [acq EXCEPT ![c].pc = "fence"]
          \/ acq' = [acq EXCEPT ![c].pc = "take", ![c].sb = None]
      BY <1>11, Zenon DEF AcquireConnect
    <3>2. acq[c].pc = "connect" /\ UNCHANGED inflight
      BY <1>11, Zenon DEF AcquireConnect
    <3> QED
      BY <1>3, <1>4, <1>5, <1>6, <3>1, <3>2, ZenonT(60)
  <2> QED
    BY <1>2, <2>1, Zenon
<1>12. CASE AcquireFence(c) \/ AcquireFinal(c)
  <2>1. /\ acq[c].pc \in {"fence", "created", "final"} /\ UNCHANGED inflight
        /\ acq'[c].pc \in {"final", "end"}
    BY <1>3, <1>5, <1>12, Zenon DEF AcquireFence, AcquireFinal
  <2> QED
    BY <1>2, <2>1, Zenon
<1>13. CASE AcquireCreate(c)
  <2>1. acq[c].pc = "create" /\ UNCHANGED inflight /\ acq'[c].pc \in {"created", "end"}
    BY <1>4, <1>5, <1>13, Zenon DEF AcquireCreate
  <2> QED
    BY <1>2, <2>1, Zenon
<1>14. CASE AcquireEnd(c)
  BY <1>2, <1>5, <1>14, Zenon DEF AcquireEnd
<1> QED
  BY <1>7, <1>8, <1>9, <1>10, <1>11, <1>12, <1>13, <1>14, Zenon DEF Acquire

\* Where a tick is once it has the lock.
LEMMA TickGoesOn ==
    ASSUME TypeOK, NEW m \in Node, TickPlan(m) \/ TickShrink(m) \/ TickSubmit(m)
    PROVE  tick'[m].pc \in {"shrink", "submit", "end"}
<1>0. tick \in [Node -> TickRec] /\ tick[m] \in TickRec
  BY Zenon DEF TypeOK
<1>1. CASE TickPlan(m)
  <2> DEFINE excess == Cardinality(Eligible({"fresh"})) - tick[m].max
             deficit == tick[m].max - Cardinality(Eligible({"fresh"})) - tick[m].warming
             shrink == [NoTick EXCEPT !.pc = "shrink", !.todo = AtMost(excess, Concurrency)]
             submit == [NoTick EXCEPT !.pc = "submit", !.todo = AtMost(deficit, CreateQps)]
  <2>1. \/ tick' = [tick EXCEPT ![m] = shrink] \/ tick' = [tick EXCEPT ![m] = submit]
        \/ tick' = [tick EXCEPT ![m] = Closing]
    BY <1>1, Zenon DEF TickPlan
  <2>2. shrink.pc = "shrink" /\ submit.pc = "submit"
    BY Zenon DEF NoTick
  <2> HIDE DEF shrink, submit
  <2> QED
    BY <1>0, <2>1, <2>2, Constants, Zenon
<1>2. CASE TickShrink(m)
  <2>1. [tick[m] EXCEPT !.todo = @ - 1].pc = tick[m].pc
    BY <1>0, Zenon DEF TickRec
  <2>2. \/ tick' = [tick EXCEPT ![m] = [tick[m] EXCEPT !.todo = @ - 1]]
        \/ tick' = [tick EXCEPT ![m] = Closing]
    BY <1>2, Zenon DEF TickShrink
  <2>3. tick[m].pc = "shrink"
    BY <1>2, Zenon DEF TickShrink
  <2> QED
    BY <1>0, <2>1, <2>2, <2>3, Constants, Zenon
<1>3. CASE TickSubmit(m)
  BY <1>0, <1>3, Constants, Zenon DEF TickSubmit
<1> QED
  BY <1>1, <1>2, <1>3, Zenon
=============================================================================
