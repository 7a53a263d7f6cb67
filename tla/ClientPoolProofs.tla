--------------------------- MODULE ClientPoolProofs ---------------------------
(* Proofs about ClientPool: the in-flight count and the drain that waits for it, *)
(* how many warmups are admitted; and the theorems about the client pool.        *)
EXTENDS ClientPoolSteps

-----------------------------------------------------------------------------
(* The in-flight count.                                                     *)

SameTick(n) == tick'[n].pc = "off" <=> tick[n].pc = "off"
SameOperations(n) == Acquiring(n)' = Acquiring(n) /\ Futures(n)' = Futures(n)

\* What a step may do to the operations of instance n and to their count: nothing,
\* begin or end a tick, an acquire or warmups, or lose everything.
Counted(n) ==
    \/ inflight'[n] = inflight[n] /\ SameTick(n) /\ SameOperations(n)
    \/ /\ life[n] = "RUNNING" /\ tick[n].pc = "off" /\ tick'[n].pc # "off"
       /\ inflight'[n] = inflight[n] + 1 /\ SameOperations(n)
    \/ /\ tick[n].pc # "off" /\ tick'[n].pc = "off"
       /\ inflight'[n] = Ended(n)[n] /\ SameOperations(n)
    \/ /\ SameTick(n) /\ Futures(n)' = Futures(n) /\ inflight'[n] = inflight[n] + 1
       /\ \E c \in Caller \ Acquiring(n) : Acquiring(n)' = Acquiring(n) \cup {c}
    \/ /\ SameTick(n) /\ Futures(n)' = Futures(n) /\ inflight'[n] = Ended(n)[n]
       /\ \E c \in Acquiring(n) : Acquiring(n)' = Acquiring(n) \ {c}
    \/ /\ tick[n].pc # "off" /\ tick'[n].pc # "off" /\ Acquiring(n)' = Acquiring(n)
       /\ \E S \in SUBSET ({k \in Key : k[1] = n} \ Futures(n)) :
             Futures(n)' = Futures(n) \cup S /\ inflight'[n] = inflight[n] + Cardinality(S)
    \/ /\ SameTick(n) /\ Acquiring(n)' = Acquiring(n) /\ inflight'[n] = Ended(n)[n]
       /\ \E k \in Futures(n) : Futures(n)' = Futures(n) \ {k}
    \/ inflight'[n] = 0 /\ tick'[n].pc = "off" /\ Acquiring(n)' = {} /\ Futures(n)' = {}

\* Warmups that stay where they are keep their tokens.
LEMMA TokensKept ==
    ASSUME \A k \in Key : task'[k].pc = task[k].pc, NEW n \in Node
    PROVE  Futures(n)' = Futures(n)
BY Zenon DEF Futures

LEMMA CountLifecycle ==
    ASSUME TypeOK, NEW m \in Node, Lifecycle(m), NEW n \in Node
    PROVE  Counted(n)
<1>1. CASE ~Crash(m)
  <2>1. UNCHANGED <<inflight, tick, acq>>
    BY <1>1, Zenon DEF Lifecycle, Start, Shutdown, ShutdownDrain, ShutdownStop, ShutdownFinish
  <2>2. task' = EndTenure(m) \/ task' = task
    BY <1>1, Zenon DEF Lifecycle, Start, Shutdown, ShutdownDrain, ShutdownStop, ShutdownFinish,
                       StopReconcile
  <2>3. Futures(n)' = Futures(n)
    BY <2>2, EndTenureType, TokensKept, Zenon
  <2> QED
    BY <2>1, <2>3, Zenon DEF Counted, SameTick, SameOperations, Acquiring
<1>2. CASE Crash(m) /\ m = n
  <2>1. inflight'[n] = 0 /\ tick'[n].pc = "off"
    BY <1>2, Constants, Zenon DEF Crash, TypeOK
  <2>2. Acquiring(n)' = {}
    BY <1>2, Constants, Zenon DEF Crash, Acquiring
  <2>3. Futures(n)' = {}
    BY <1>2, Constants, Zenon DEF Crash, Futures
  <2> QED
    BY <2>1, <2>2, <2>3, Zenon DEF Counted
<1>3. CASE Crash(m) /\ m # n
  <2>1. inflight'[n] = inflight[n] /\ SameTick(n)
    BY <1>3, Zenon DEF Crash, TypeOK, SameTick
  <2>2. Acquiring(n)' = Acquiring(n)
    BY <1>3, Zenon DEF Crash, Acquiring
  <2>3. Futures(n)' = Futures(n)
    BY <1>3, Zenon DEF Crash, Futures
  <2> QED
    BY <2>1, <2>2, <2>3, Zenon DEF Counted, SameOperations
<1> QED
  BY <1>1, <1>2, <1>3, Zenon

LEMMA CountReconcile ==
    ASSUME TypeOK, NEW m \in Node, Reconcile(m), NEW n \in Node
    PROVE  Counted(n)
<1>0. /\ tick \in [Node -> TickRec] /\ inflight \in [Node -> Nat] /\ tick[m] \in TickRec
      /\ task \in [Key -> TaskRec]
  BY Zenon DEF TypeOK
<1>1. UNCHANGED acq /\ Acquiring(n)' = Acquiring(n)
  BY Zenon DEF Reconcile, TickBegin, TickLock, TickPlan, TickShrink, TickSubmit, TickFails,
               TickRetire, TickEnd, HeartbeatLost, KillDoomed, Acquiring
<1>2. ASSUME NEW v, tick' = [tick EXCEPT ![m] = v], v.pc # "off", tick[m].pc # "off"
      PROVE  SameTick(n)
  BY <1>0, <1>2, Zenon DEF SameTick
<1>3. CASE TickBegin(m)
  <2>1. Futures(n)' = Futures(n)
    <3>1. task' \in {task, EndTenure(m)}
      BY <1>3, Zenon DEF TickBegin, MarkPrimaryLost
    <3> QED
      BY <3>1, EndTenureType, TokensKept, Zenon
  <2>2. \E v : tick' = [tick EXCEPT ![m] = v] /\ v.pc # "off"
    <3>1. [tick[m] EXCEPT !.pc = "lock"].pc = "lock"
      BY <1>0, Zenon DEF TickRec
    <3>2. [NoTick EXCEPT !.pc = "retire", !.gen = gen[m]].pc = "retire"
      BY Zenon DEF NoTick
    <3> QED
      BY <1>3, <3>1, <3>2, Constants, Zenon DEF TickBegin
  <2>3. CASE n = m
    <3>1. inflight'[n] = inflight[n] + 1
      BY <1>0, <1>3, <2>3, Zenon DEF TickBegin
    <3> QED
      BY <1>0, <1>1, <1>3, <2>1, <2>2, <2>3, <3>1, Zenon DEF TickBegin, Counted, SameOperations
  <2>4. CASE n # m
    <3>1. inflight'[n] = inflight[n]
      BY <1>0, <1>3, <2>4, Zenon DEF TickBegin
    <3> QED
      BY <1>0, <1>1, <2>1, <2>2, <2>4, <3>1, Zenon DEF Counted, SameOperations, SameTick
  <2> QED
    BY <2>3, <2>4, Zenon
<1>4. CASE TickSubmit(m)
  <2>1. SameTick(n)
    BY <1>2, <1>4, Constants, Zenon DEF TickSubmit
  <2>2. CASE UNCHANGED <<inflight, task>>
    BY <1>1, <2>1, <2>2, TokensKept, Zenon DEF Counted, SameOperations
  <2>3. ASSUME NEW S \in SUBSET {k \in Key : k[1] = m /\ task[k].pc = "free"},
               Cardinality(S) = tick[m].todo,
               inflight' = [inflight EXCEPT ![m] = @ + tick[m].todo],
               task' = [k \in Key |-> IF k \in S
                             THEN [FreeTask EXCEPT !.pc = "create", !.gen = gen[m],
                                                   !.tenure = owned[m]]
                             ELSE task[k]]
        PROVE  Counted(n)
    <3>1. \A k \in Key : /\ k \in S => task'[k].pc = "create"
                         /\ k \notin S => task'[k] = task[k]
      BY <2>3, Zenon DEF FreeTask
    <3>2. CASE n # m
      <4>1. inflight'[n] = inflight[n]
        BY <1>0, <2>3, <3>2, Zenon
      <4>2. Futures(n)' = Futures(n)
        BY <3>1, <3>2, Zenon DEF Futures
      <4> QED
        BY <1>1, <2>1, <4>1, <4>2, Zenon DEF Counted, SameOperations
    <3>3. CASE n = m
      <4>1. inflight'[n] = inflight[n] + Cardinality(S)
        BY <1>0, <2>3, <3>3, Zenon
      <4>2. S \in SUBSET ({k \in Key : k[1] = n} \ Futures(n))
        BY <3>3, Zenon DEF Futures
      <4>3. Futures(n)' = Futures(n) \cup S
        BY <3>1, <3>3 DEF Futures
      <4>4. tick[n].pc # "off" /\ tick'[n].pc # "off"
        BY <1>0, <1>4, <3>3, Constants, Zenon DEF TickSubmit
      <4> QED
        BY <1>1, <4>1, <4>2, <4>3, <4>4, Zenon DEF Counted
    <3> QED
      BY <3>2, <3>3, Zenon
  <2> QED
    BY <1>4, <2>2, <2>3, Zenon DEF TickSubmit
<1>5. CASE TickEnd(m)
  <2>1. SameOperations(n)
    BY <1>1, <1>5, TokensKept, Zenon DEF TickEnd, SameOperations
  <2>2. inflight' = Ended(m) /\ tick' = [tick EXCEPT ![m] = NoTick] /\ tick[m].pc = "end"
    BY <1>5, Zenon DEF TickEnd
  <2>3. n # m => inflight'[n] = inflight[n]
    BY <1>0, <2>2, Zenon DEF Ended
  <2> QED
    BY <1>0, <2>1, <2>2, <2>3, Constants, Zenon DEF Counted, SameTick
<1>6. CASE ~TickBegin(m) /\ ~TickSubmit(m) /\ ~TickEnd(m)
  <2>1. UNCHANGED inflight
    BY <1>6, Zenon DEF Reconcile, TickLock, TickPlan, TickShrink, TickFails, TickRetire,
                       HeartbeatLost, KillDoomed
  <2>2. task' \in {task, EndTenure(m)}
    BY <1>6, Zenon DEF Reconcile, TickLock, TickPlan, TickShrink, TickFails, TickRetire,
                       HeartbeatLost, KillDoomed, MarkPrimaryLost, StopReconcile
  <2>3. Futures(n)' = Futures(n)
    BY <2>2, EndTenureType, TokensKept, Zenon
  <2>4. SameTick(n)
    <3>1. CASE UNCHANGED tick
      BY <3>1, Zenon DEF SameTick
    <3>2. CASE tick[m].pc # "off" /\ \E v : tick' = [tick EXCEPT ![m] = v] /\ v.pc # "off"
      BY <1>2, <3>2, Zenon
    <3>3. CASE TickLock(m)
      <4>1. tick' = [tick EXCEPT ![m] = Closing]
            \/ tick' = [tick EXCEPT ![m].pc = "plan", ![m].warming = Warming(m), ![m].max = maxIdle]
        BY <3>3, Zenon DEF TickLock
      <4>2. tick'[m].pc \in {"plan", "end"} /\ (n # m => tick'[n] = tick[n])
        BY <1>0, <4>1, Constants DEF TickRec
      <4> QED
        BY <3>3, <4>2, Zenon DEF TickLock, SameTick
    <3>4. CASE TickPlan(m)
      <4>1. \A d : /\ [NoTick EXCEPT !.pc = "shrink", !.todo = d].pc = "shrink"
                   /\ [NoTick EXCEPT !.pc = "submit", !.todo = d].pc = "submit"
        BY Zenon DEF NoTick
      <4> QED
        BY <3>2, <3>4, <4>1, Constants, Zenon DEF TickPlan
    <3>5. CASE TickShrink(m)
      <4>1. [tick[m] EXCEPT !.todo = @ - 1].pc = tick[m].pc
        BY <1>0, Zenon DEF TickRec
      <4>2. \/ tick' = [tick EXCEPT ![m] = [tick[m] EXCEPT !.todo = @ - 1]]
            \/ tick' = [tick EXCEPT ![m] = Closing]
        BY <3>5, Zenon DEF TickShrink
      <4> QED
        BY <3>2, <3>5, <4>1, <4>2, Constants, Zenon DEF TickShrink
    <3> QED
      BY <1>6, <3>1, <3>2, <3>3, <3>4, <3>5, Constants, Zenon
         DEF Reconcile, TickFails, TickRetire, HeartbeatLost, KillDoomed
  <2> QED
    BY <1>1, <2>1, <2>3, <2>4, Zenon DEF Counted, SameOperations
<1> QED
  BY <1>3, <1>4, <1>5, <1>6, Zenon

LEMMA CountWarmup ==
    ASSUME TypeOK, NEW k \in Key, Warmup(k), NEW n \in Node
    PROVE  Counted(n)
<1>0. inflight \in [Node -> Nat] /\ k[1] \in Node
  BY KeyType, Zenon DEF TypeOK
<1>1. UNCHANGED <<acq, tick>>
  BY Zenon DEF Warmup, WarmupCreate, LateCreate, WarmupStage, CanCommitWarmup, WarmupPutIdle,
               WarmupRecheck, WarmupRemoveIdle, WarmupCleanup
<1>2. SameTick(n) /\ Acquiring(n)' = Acquiring(n)
  BY <1>1, Zenon DEF SameTick, Acquiring
<1>3. \A j \in Key \ {k} : task'[j].pc = task[j].pc
  BY WarmupPc, Zenon
<1>4. CASE inflight' = inflight /\ (task'[k].pc \in Free <=> task[k].pc \in Free)
  <2>1. Futures(n)' = Futures(n)
    BY <1>3, <1>4, Zenon DEF Futures, Free
  <2> QED
    BY <1>2, <1>4, <2>1, Zenon DEF Counted, SameOperations
<1>5. CASE inflight' = Ended(k[1]) /\ task'[k].pc \in Free /\ task[k].pc \notin Free
  <2>1. CASE n = k[1]
    <3>1. k \in Futures(n) /\ Futures(n)' = Futures(n) \ {k}
      BY <1>3, <1>5, <2>1 DEF Futures, Free
    <3> QED
      BY <1>2, <1>5, <2>1, <3>1, Zenon DEF Counted
  <2>2. CASE n # k[1]
    <3>1. Futures(n)' = Futures(n)
      BY <1>3, <2>2, Zenon DEF Futures, Free
    <3>2. inflight'[n] = inflight[n]
      BY <1>0, <1>5, <2>2, Zenon DEF Ended
    <3> QED
      BY <1>2, <3>1, <3>2, Zenon DEF Counted, SameOperations
  <2> QED
    BY <2>1, <2>2, Zenon
<1> QED
  BY <1>4, <1>5, WarmupPc, Zenon

LEMMA CountAcquire ==
    ASSUME TypeOK, NEW c \in Caller, AcquireCall(c) \/ Acquire(c), NEW n \in Node
    PROVE  Counted(n)
<1>0. inflight \in [Node -> Nat] /\ Home[c] \in Node
  BY PoolAssumption, Zenon DEF TypeOK
<1>1. UNCHANGED <<task, tick>>
  BY Zenon DEF AcquireCall, Acquire, AcquireBegin, AcquireEnter, AcquireTake, AcquireConnect,
               AcquireFence, AcquireFinal, AcquireCreate, AcquireEnd
<1>2. SameTick(n) /\ Futures(n)' = Futures(n)
  BY <1>1, TokensKept, Zenon DEF SameTick
<1>3. \A d \in Caller \ {c} : acq'[d] = acq[d]
  BY RequestPc, Zenon
<1>4. CASE UNCHANGED inflight /\ (acq'[c].pc \in {"out", "begin"} <=> acq[c].pc \in {"out", "begin"})
  <2>1. Acquiring(n)' = Acquiring(n)
    BY <1>3, <1>4, Zenon DEF Acquiring
  <2> QED
    BY <1>2, <1>4, <2>1, Zenon DEF Counted, SameOperations
<1>5. CASE Home[c] # n
  <2>1. Acquiring(n)' = Acquiring(n)
    BY <1>3, <1>5, Zenon DEF Acquiring
  <2>2. inflight'[n] = inflight[n]
    BY <1>0, <1>5, RequestPc, Zenon DEF Ended
  <2> QED
    BY <1>2, <2>1, <2>2, Zenon DEF Counted, SameOperations
<1>6. CASE /\ Home[c] = n /\ acq[c].pc = "begin" /\ acq'[c].pc = "enter"
           /\ inflight' = [inflight EXCEPT ![Home[c]] = @ + 1]
  <2>1. c \in Caller \ Acquiring(n) /\ Acquiring(n)' = Acquiring(n) \cup {c}
    BY <1>3, <1>6 DEF Acquiring
  <2>2. inflight'[n] = inflight[n] + 1
    BY <1>0, <1>6, Zenon
  <2> QED
    BY <1>2, <2>1, <2>2, Zenon DEF Counted
<1>7. CASE /\ Home[c] = n /\ acq[c].pc = "end" /\ acq'[c].pc = "out"
           /\ inflight' = Ended(Home[c])
  <2>1. c \in Acquiring(n) /\ Acquiring(n)' = Acquiring(n) \ {c}
    BY <1>3, <1>7 DEF Acquiring
  <2> QED
    BY <1>2, <1>7, <2>1, Zenon DEF Counted
<1> QED
  BY <1>4, <1>5, <1>6, <1>7, RequestPc, Zenon

\* Every step.
LEMMA CountStep ==
    ASSUME TypeOK, Next, NEW n \in Node
    PROVE  Counted(n)
<1>1. CASE \/ \E m \in Node : Resize(m) \/ ReleaseIdle(m)
           \/ \E c \in Caller : CallerDone(c)
           \/ \E m \in Manager : DestroyBegin(m) \/ Destroy(m)
           \/ TombstoneExpires \/ LockExpires
           \/ \E s \in Sandbox : Age(s) \/ Die(s)
  <2>1. UNCHANGED <<inflight, tick, task, acq>>
    BY <1>1, Zenon DEF Resize, ReleaseIdle, CallerDone, DestroyBegin, Destroy, DestroyDrain,
                DestroyClear, DestroyMark, DestroyFails, TombstoneExpires, LockExpires, Age, Die
  <2> QED
    BY <2>1, TokensKept, Zenon DEF Counted, SameTick, SameOperations, Acquiring
<1> QED
  BY <1>1, CountLifecycle, CountReconcile, CountWarmup, CountAcquire, Zenon DEF Next

-----------------------------------------------------------------------------
(* shutdown() and its drain.                                                *)

\* What a step may do to the run of instance n and to the thread that ends it.
StopMove(n) ==
    \/ /\ stopper'[n] = stopper[n] /\ gen'[n] = gen[n]
       /\ life'[n] \in {life[n], "STOPPED"}
    \/ stopper'[n] = stopper[n] /\ gen'[n] = gen[n] + 1
    \/ /\ stopper'[n].pc # "none" /\ stopper'[n].gen = gen[n] /\ stopper'[n].drained = FALSE
       /\ gen'[n] = gen[n] /\ life'[n] = "DRAINING"
    \/ /\ stopper[n].pc # "none" /\ stopper'[n].pc # "none" /\ stopper'[n].gen = stopper[n].gen
       /\ stopper'[n].drained => inflight[n] = 0 /\ UNCHANGED <<acq, tick, task>>
       /\ gen'[n] = gen[n] /\ life'[n] = life[n]
    \/ /\ stopper[n].pc # "none" /\ stopper'[n].pc # "none" /\ stopper'[n].gen = stopper[n].gen
       /\ stopper'[n].drained = stopper[n].drained
       /\ gen'[n] = gen[n] /\ life'[n] = life[n]
    \/ stopper'[n] = NoStop /\ gen'[n] = gen[n]

LEMMA StopMoves ==
    ASSUME TypeOK, Next, NEW n \in Node
    PROVE  StopMove(n)
<1>0. /\ stopper \in [Node -> StopRec] /\ stopper[n] \in StopRec /\ gen \in [Node -> Nat]
      /\ life \in [Node -> {"NOT_STARTED", "RUNNING", "DRAINING", "STOPPED"}]
  BY Zenon DEF TypeOK
<1>1. CASE UNCHANGED <<stopper, gen, life>>
  BY <1>1, Zenon DEF StopMove
<1>2. ASSUME NEW m \in Node, Lifecycle(m)
      PROVE  StopMove(n)
  <2>1. CASE Start(m)
    <3>1. n = m \/ (gen'[n] = gen[n] /\ life'[n] = life[n])
      BY <1>0, <2>1, Zenon DEF Start
    <3>2. n = m => gen'[n] = gen[n] + 1 \/ (gen'[n] = gen[n] /\ life'[n] = "STOPPED")
      BY <1>0, <2>1, Zenon DEF Start
    <3>3. stopper' = stopper
      BY <2>1, Zenon DEF Start
    <3> QED
      BY <3>1, <3>2, <3>3, Zenon DEF StopMove
  <2>2. ASSUME NEW graceful \in BOOLEAN, Shutdown(m, graceful)
        PROVE  StopMove(n)
    <3>1. /\ UNCHANGED gen /\ life' = [life EXCEPT ![m] = "DRAINING"]
          /\ stopper' = [stopper EXCEPT ![m] = [pc |-> IF graceful THEN "drain" ELSE "stop",
                                                gen |-> gen[m], drained |-> FALSE]]
      BY <2>2, Zenon DEF Shutdown
    <3>2. CASE n = m
      BY <1>0, <3>1, <3>2 DEF StopMove
    <3>3. CASE n # m
      BY <1>0, <3>1, <3>3, Zenon DEF StopMove
    <3> QED
      BY <3>2, <3>3, Zenon
  <2>3. CASE ShutdownDrain(m)
    <3>1. /\ UNCHANGED <<gen, life, acq, tick, task>> /\ stopper[m].pc = "drain"
          /\ stopper' = [stopper EXCEPT ![m].pc = "stop", ![m].drained = (inflight[m] = 0)]
      BY <2>3, Zenon DEF ShutdownDrain
    <3>2. CASE n = m
      <4>1. stopper'[n].pc = "stop" /\ stopper'[n].gen = stopper[n].gen
        BY <1>0, <3>1, <3>2 DEF StopRec
      <4>2. stopper'[n].drained => inflight[n] = 0
        BY <1>0, <3>1, <3>2 DEF StopRec
      <4> QED
        BY <3>1, <3>2, <4>1, <4>2, Zenon DEF StopMove
    <3>3. CASE n # m
      BY <1>0, <3>1, <3>3, Zenon DEF StopMove
    <3> QED
      BY <3>2, <3>3, Zenon
  <2>4. CASE ShutdownStop(m)
    <3>1. /\ UNCHANGED <<gen, life>> /\ stopper[m].pc = "stop"
          /\ stopper' = [stopper EXCEPT ![m].pc = "finish"]
      BY <2>4, Zenon DEF ShutdownStop
    <3>2. CASE n = m
      <4>1. /\ stopper'[n].pc = "finish" /\ stopper'[n].gen = stopper[n].gen
            /\ stopper'[n].drained = stopper[n].drained
        BY <1>0, <3>1, <3>2, Zenon DEF StopRec
      <4> QED
        BY <3>1, <3>2, <4>1, Zenon DEF StopMove
    <3>3. CASE n # m
      BY <1>0, <3>1, <3>3, Zenon DEF StopMove
    <3> QED
      BY <3>2, <3>3, Zenon
  <2>5. CASE ShutdownFinish(m) \/ Crash(m)
    <3>1. UNCHANGED gen /\ stopper' = [stopper EXCEPT ![m] = NoStop]
      BY <2>5, Zenon DEF ShutdownFinish, Crash
    <3>2. n # m => life'[n] = life[n]
      BY <1>0, <2>5, Zenon DEF ShutdownFinish, Crash
    <3> QED
      BY <1>0, <3>1, <3>2, Zenon DEF StopMove
  <2> QED
    BY <1>2, <2>1, <2>2, <2>3, <2>4, <2>5, Zenon DEF Lifecycle
<1>3. ASSUME NEW m \in Node, Reconcile(m)
      PROVE  StopMove(n)
  <2>1. UNCHANGED <<stopper, gen>>
    BY <1>3, Zenon DEF Reconcile, TickBegin, TickLock, TickPlan, TickShrink, TickSubmit, TickFails,
              TickRetire, TickEnd, HeartbeatLost, KillDoomed, run
  <2>2. life' = life \/ life' = [life EXCEPT ![m] = "STOPPED"]
    BY <1>3, Zenon DEF Reconcile, TickBegin, TickLock, TickPlan, TickShrink, TickSubmit, TickFails,
              TickRetire, TickEnd, HeartbeatLost, KillDoomed, run
  <2> QED
    BY <1>0, <2>1, <2>2, Zenon DEF StopMove
<1>4. ASSUME NEW k \in Key, Warmup(k)
      PROVE  UNCHANGED <<stopper, gen, life>>
  BY <1>4, Zenon DEF Warmup, WarmupCreate, LateCreate, WarmupStage, CanCommitWarmup, WarmupPutIdle,
                     WarmupRecheck, WarmupRemoveIdle, WarmupCleanup, run
<1>5. ASSUME NEW c \in Caller, AcquireCall(c) \/ Acquire(c) \/ CallerDone(c)
      PROVE  UNCHANGED <<stopper, gen, life>>
  BY <1>5, Zenon DEF AcquireCall, Acquire, AcquireBegin, AcquireEnter, AcquireTake, AcquireConnect,
                     AcquireFence, AcquireFinal, AcquireCreate, AcquireEnd, CallerDone, run
<1>6. ASSUME \/ \E m \in Node : Resize(m) \/ ReleaseIdle(m)
             \/ \E m \in Manager : DestroyBegin(m) \/ Destroy(m)
             \/ TombstoneExpires \/ LockExpires
             \/ \E s \in Sandbox : Age(s) \/ Die(s)
      PROVE  UNCHANGED <<stopper, gen, life>>
  BY <1>6, Zenon DEF Resize, ReleaseIdle, DestroyBegin, Destroy, DestroyDrain, DestroyClear,
              DestroyMark, DestroyFails, TombstoneExpires, LockExpires, Age, Die, run
<1> QED
  BY <1>1, <1>2, <1>3, <1>4, <1>5, <1>6, Zenon DEF Next

\* The thread in shutdown() does not see its run start again.
LEMMA StopStep ==
    ASSUME TypeOK, TypeOK', StopInv, Next
    PROVE  StopInv'
<1> SUFFICES ASSUME NEW n \in Node
             PROVE  /\ stopper'[n].drained => stopper'[n].pc # "none"
                    /\ stopper'[n].gen <= gen'[n]
                    /\ stopper'[n].pc # "none" /\ stopper'[n].gen = gen'[n] => life'[n] # "RUNNING"
  BY Zenon DEF StopInv
<1>0. /\ stopper[n] \in StopRec /\ stopper'[n] \in StopRec /\ gen[n] \in Nat /\ gen'[n] \in Nat
      /\ stopper[n].gen \in Nat /\ stopper'[n].gen \in Nat
  BY Zenon DEF TypeOK, StopRec
<1>1. /\ stopper[n].drained => stopper[n].pc # "none"
      /\ stopper[n].gen <= gen[n]
      /\ stopper[n].pc # "none" /\ stopper[n].gen = gen[n] => life[n] # "RUNNING"
  BY Zenon DEF StopInv
<1>2. NoStop.pc = "none" /\ NoStop.drained = FALSE /\ NoStop.gen = 0
  BY Zenon DEF NoStop
<1>3. /\ stopper[n].gen # gen[n] + 1 /\ stopper[n].gen <= gen[n] + 1
      /\ gen[n] <= gen[n] /\ 0 <= gen[n]
  BY <1>0, <1>1
<1>4. StopMove(n)
  BY StopMoves, Zenon
<1>5. stopper'[n].drained => stopper'[n].pc # "none"
  BY <1>1, <1>2, <1>4, Zenon DEF StopMove
<1>6. stopper'[n].gen <= gen'[n]
  BY <1>1, <1>2, <1>3, <1>4, Zenon DEF StopMove
<1>7. stopper'[n].pc # "none" /\ stopper'[n].gen = gen'[n] => life'[n] # "RUNNING"
  BY <1>1, <1>2, <1>3, <1>4, Zenon DEF StopMove
<1> QED
  BY <1>5, <1>6, <1>7, Zenon

\* No operation of instance n that could still take or create a sandbox.
Quiet(n) ==
    /\ Futures(n) = {}
    /\ tick[n].pc = "off"
    /\ \A c \in Caller : Home[c] = n => acq[c].pc \in {"out", "begin", "enter", "end"}

\* It stays so until the instance starts again.
LEMMA QuietStep ==
    ASSUME TypeOK, Next, NEW n \in Node, Quiet(n), life[n] # "RUNNING"
    PROVE  Quiet(n)'
<1>1. Futures(n)' = {} /\ tick'[n].pc = "off"
  BY CountStep, Zenon DEF Quiet, Counted, SameTick, SameOperations
<1>2. ASSUME NEW c \in Caller, Home[c] = n
      PROVE  acq'[c].pc \in {"out", "begin", "enter", "end"}
  <2>0. acq[c].pc \in {"out", "begin", "enter", "end"}
    BY <1>2, Zenon DEF Quiet
  <2>1. ASSUME NEW m \in Node, Lifecycle(m)
        PROVE  acq'[c] \in {acq[c], NoAcquire}
    BY <2>1, Zenon DEF Lifecycle, Start, Shutdown, ShutdownDrain, ShutdownStop, ShutdownFinish, Crash
  <2>2. ASSUME NEW d \in Caller, AcquireCall(d) \/ Acquire(d)
        PROVE  acq'[c] = acq[c] \/ acq'[c].pc \in {"out", "begin", "enter", "end"}
    <3>1. ~RunActive(c)
      BY <1>2, Zenon DEF RunActive
    <3> QED
      BY <2>0, <2>2, <3>1, RequestPc, Zenon
  <2>3. ASSUME \/ \E m \in Node : Resize(m) \/ ReleaseIdle(m)
               \/ \E d \in Caller : CallerDone(d)
               \/ \E m \in Manager : DestroyBegin(m) \/ Destroy(m)
               \/ TombstoneExpires \/ LockExpires
               \/ \E s \in Sandbox : Age(s) \/ Die(s)
        PROVE  UNCHANGED acq
    BY <2>3, Zenon DEF Resize, ReleaseIdle, CallerDone, DestroyBegin, Destroy, DestroyDrain,
                DestroyClear, DestroyMark, DestroyFails, TombstoneExpires, LockExpires, Age, Die
  <2>4. ASSUME NEW m \in Node, Reconcile(m) PROVE UNCHANGED acq
    BY <2>4, Zenon DEF Reconcile, TickBegin, TickLock, TickPlan, TickShrink, TickSubmit, TickFails,
              TickRetire, TickEnd, HeartbeatLost, KillDoomed
  <2>5. ASSUME NEW k \in Key, Warmup(k) PROVE UNCHANGED acq
    BY <2>5, Zenon DEF Warmup, WarmupCreate, LateCreate, WarmupStage, CanCommitWarmup,
              WarmupPutIdle, WarmupRecheck, WarmupRemoveIdle, WarmupCleanup
  <2>6. acq'[c] \in {acq[c], NoAcquire} \/ acq'[c].pc \in {"out", "begin", "enter", "end"}
    BY <2>1, <2>2, <2>3, <2>4, <2>5, Zenon DEF Next
  <2> QED
    BY <2>0, <2>6, Constants, Zenon
<1> QED
  BY <1>1, <1>2, Zenon DEF Quiet

INSTANCE FiniteSetTheorems

\* An instance has finitely many warmups, and there are finitely many entries.
LEMMA FiniteSizes ==
    /\ \A n \in Node : IsFiniteSet(Futures(n))
    /\ \A n \in Node : IsFiniteSet({k \in Key : k[1] = n})
    /\ IsFiniteSet(Idle)
    /\ Sized
<1>1. ASSUME NEW n \in Node
      PROVE  IsFiniteSet(Futures(n)) /\ IsFiniteSet({k \in Key : k[1] = n})
  <2>1. IsFiniteSet({n} \X Slot)
    BY PoolAssumption, FS_Singleton, FS_Product, Zenon
  <2>2. Futures(n) \subseteq {n} \X Slot /\ {k \in Key : k[1] = n} \subseteq {n} \X Slot
    BY DEF Futures, Key
  <2> QED
    BY <2>1, <2>2, FS_Subset
<1>2. IsFiniteSet(Idle) /\ IsFiniteSet(Eligible({"fresh"}))
  <2>1. Idle \subseteq Sandbox /\ Eligible({"fresh"}) \subseteq Sandbox
    BY Zenon DEF Eligible, Idle
  <2> QED
    BY <2>1, PoolAssumption, FS_Subset
<1>3. Sized
  BY <1>1, <1>2, FS_CardinalityType, Zenon DEF Sized, Warming
<1> QED
  BY <1>1, <1>2, <1>3, Zenon

\* The operations of an instance are finitely many.
LEMMA FiniteOperations ==
    ASSUME NEW n \in Node
    PROVE  /\ IsFiniteSet(Acquiring(n)) /\ Cardinality(Acquiring(n)) \in Nat
           /\ IsFiniteSet(Futures(n)) /\ Cardinality(Futures(n)) \in Nat
<1>1. Acquiring(n) \subseteq Caller
  BY Zenon DEF Acquiring
<1>2. IsFiniteSet(Acquiring(n)) /\ IsFiniteSet(Futures(n))
  BY <1>1, PoolAssumption, FiniteSizes, FS_Subset, ZenonT(60)
<1> QED
  BY <1>2, FS_CardinalityType, Zenon

\* The count follows the operations.
LEMMA CountKept ==
    ASSUME TypeOK, InFlightExact, NEW n \in Node, Counted(n)
    PROVE  inflight'[n] = (IF tick'[n].pc = "off" THEN 0 ELSE 1)
                             + Cardinality(Acquiring(n)') + Cardinality(Futures(n)')
<1> DEFINE a == Cardinality(Acquiring(n))
           f == Cardinality(Futures(n))
           t == IF tick[n].pc = "off" THEN 0 ELSE 1
           e == Ended(n)[n]
<1>1. a \in Nat /\ f \in Nat /\ IsFiniteSet(Acquiring(n)) /\ IsFiniteSet(Futures(n))
  BY FiniteOperations, Zenon
<1>2. inflight[n] \in Nat /\ inflight[n] = t + a + f
  BY Zenon DEF TypeOK, InFlightExact, Warming
<1>3. e = IF inflight[n] > 0 THEN inflight[n] - 1 ELSE 0
  BY DEF Ended, TypeOK
<1>4. /\ \A c \in Caller \ Acquiring(n) : Cardinality(Acquiring(n) \cup {c}) = a + 1
      /\ \A c \in Acquiring(n) : Cardinality(Acquiring(n) \ {c}) = a - 1 /\ a > 0
  <2>1. ASSUME NEW c PROVE /\ c \notin Acquiring(n) => Cardinality(Acquiring(n) \cup {c}) = a + 1
                           /\ c \in Acquiring(n) => Cardinality(Acquiring(n) \ {c}) = a - 1
    BY <1>1, FS_AddElement, FS_RemoveElement, ZenonT(60)
  <2>2. Acquiring(n) # {} => a # 0
    BY <1>1, FS_EmptySet, Zenon
  <2> QED
    BY <1>1, <2>1, <2>2
<1>5. \A k \in Futures(n) : Cardinality(Futures(n) \ {k}) = f - 1 /\ f > 0
  <2>1. ASSUME NEW k \in Futures(n) PROVE Cardinality(Futures(n) \ {k}) = f - 1
    BY <1>1, FS_RemoveElement, ZenonT(60)
  <2>2. Futures(n) # {} => f # 0
    BY <1>1, FS_EmptySet, Zenon
  <2> QED
    BY <1>1, <2>1, <2>2
<1>6. ASSUME NEW S \in SUBSET ({k \in Key : k[1] = n} \ Futures(n))
      PROVE  Cardinality(Futures(n) \cup S) = f + Cardinality(S) /\ Cardinality(S) \in Nat
  <2>1. IsFiniteSet(S) /\ Futures(n) \cap S = {}
    BY FiniteSizes, FS_Subset, ZenonT(60)
  <2>2. Cardinality(S) \in Nat /\ Cardinality({}) = 0
    BY <2>1, FS_CardinalityType, FS_EmptySet, Zenon
  <2>3. Cardinality(Futures(n) \cup S) = f + Cardinality(S) - Cardinality(Futures(n) \cap S)
    BY <1>1, <2>1, FS_Union, Zenon
  <2> QED
    BY <1>1, <2>1, <2>2, <2>3
<1>7. Cardinality({}) = 0
  BY FS_EmptySet, Zenon
<1> DEFINE aa == Cardinality(Acquiring(n)')
           ff == Cardinality(Futures(n)')
           off == tick[n].pc = "off"
           off_ == tick'[n].pc = "off"
<1>8. \/ inflight'[n] = inflight[n] /\ (off_ <=> off) /\ aa = a /\ ff = f
      \/ off /\ ~off_ /\ inflight'[n] = inflight[n] + 1 /\ aa = a /\ ff = f
      \/ ~off /\ off_ /\ inflight'[n] = e /\ aa = a /\ ff = f
      \/ (off_ <=> off) /\ ff = f /\ inflight'[n] = inflight[n] + 1 /\ aa = a + 1
      \/ (off_ <=> off) /\ ff = f /\ inflight'[n] = e /\ aa = a - 1 /\ a > 0
      \/ /\ ~off /\ ~off_ /\ aa = a
         /\ \E d \in Nat : ff = f + d /\ inflight'[n] = inflight[n] + d
      \/ (off_ <=> off) /\ aa = a /\ inflight'[n] = e /\ ff = f - 1 /\ f > 0
      \/ inflight'[n] = 0 /\ off_ /\ aa = 0 /\ ff = 0
  <2>1. SameOperations(n) => aa = a /\ ff = f
    BY Zenon DEF SameOperations
  <2>2. Futures(n)' = Futures(n) => ff = f
    BY Zenon
  <2>3. Acquiring(n)' = Acquiring(n) => aa = a
    BY Zenon
  <2>4. SameTick(n) => (off_ <=> off)
    BY Zenon DEF SameTick
  <2>5. (\E c \in Caller \ Acquiring(n) : Acquiring(n)' = Acquiring(n) \cup {c}) => aa = a + 1
    BY <1>4, Zenon
  <2>6. (\E c \in Acquiring(n) : Acquiring(n)' = Acquiring(n) \ {c}) => aa = a - 1 /\ a > 0
    BY <1>4, Zenon
  <2>7. (\E k \in Futures(n) : Futures(n)' = Futures(n) \ {k}) => ff = f - 1 /\ f > 0
    BY <1>5, Zenon
  <2>8. ASSUME NEW S \in SUBSET ({k \in Key : k[1] = n} \ Futures(n)),
               Futures(n)' = Futures(n) \cup S, inflight'[n] = inflight[n] + Cardinality(S)
        PROVE  \E d \in Nat : ff = f + d /\ inflight'[n] = inflight[n] + d
    <3>1. Cardinality(S) \in Nat /\ ff = f + Cardinality(S)
      BY <1>6, <2>8, Zenon
    <3> QED
      BY <2>8, <3>1, Zenon
  <2>9. (Acquiring(n)' = {} => aa = 0) /\ (Futures(n)' = {} => ff = 0)
    BY <1>7, Zenon
  <2> HIDE DEF a, f, aa, ff
  <2> QED
    BY <2>1, <2>2, <2>3, <2>4, <2>5, <2>6, <2>7, <2>8, <2>9, Zenon DEF Counted
<1>9. t = (IF off THEN 0 ELSE 1)
  OBVIOUS
<1> HIDE DEF a, f, t, e, aa, ff, off, off_
<1>10. inflight'[n] = (IF off_ THEN 0 ELSE 1) + aa + ff
  BY <1>1, <1>2, <1>3, <1>8, <1>9, SMTT(60)
<1> QED
  BY <1>10 DEF off_, aa, ff

\* A drain that found nothing in flight left nothing behind.
LEMMA DrainStep ==
    ASSUME TypeOK, CountInv, Next
    PROVE  DrainedQuiet'
<1> SUFFICES ASSUME NEW n \in Node, stopper'[n].drained, stopper'[n].gen = gen'[n]
             PROVE  Quiet(n)'
  BY Zenon DEF DrainedQuiet, Quiet
<1>0. /\ gen[n] \in Nat /\ stopper[n].gen \in Nat
      /\ stopper[n].gen <= gen[n]
      /\ stopper[n].drained => stopper[n].pc # "none"
      /\ stopper[n].pc # "none" /\ stopper[n].gen = gen[n] => life[n] # "RUNNING"
      /\ stopper[n].drained /\ stopper[n].gen = gen[n] => Quiet(n)
  BY Zenon DEF TypeOK, StopRec, CountInv, StopInv, DrainedQuiet, Quiet
<1>1. stopper[n].gen # gen[n] + 1
  BY <1>0
<1>2. \/ stopper[n].drained /\ stopper[n].gen = gen[n]
      \/ inflight[n] = 0 /\ UNCHANGED <<acq, tick, task>>
  BY <1>1, StopMoves, Constants, Zenon DEF StopMove
<1>3. CASE stopper[n].drained /\ stopper[n].gen = gen[n]
  BY <1>0, <1>3, QuietStep, Zenon
<1>4. CASE inflight[n] = 0 /\ UNCHANGED <<acq, tick, task>>
  <2>1. /\ inflight[n] = (IF tick[n].pc = "off" THEN 0 ELSE 1) + Cardinality(Acquiring(n))
                           + Cardinality(Futures(n))
        /\ Cardinality(Acquiring(n)) \in Nat /\ Cardinality(Futures(n)) \in Nat
        /\ IsFiniteSet(Acquiring(n)) /\ IsFiniteSet(Futures(n))
    BY FiniteOperations, Zenon DEF CountInv, InFlightExact, Warming
  <2>2. tick[n].pc = "off" /\ Cardinality(Acquiring(n)) = 0 /\ Cardinality(Futures(n)) = 0
    BY <1>4, <2>1
  <2>3. Acquiring(n) = {} /\ Futures(n) = {}
    BY <2>1, <2>2, FS_EmptySet, Zenon
  <2>4. Quiet(n)
    BY <2>2, <2>3, Zenon DEF Quiet, Acquiring
  <2> QED
    BY <1>4, <2>4, TokensKept, Zenon DEF Quiet
<1> QED
  BY <1>2, <1>3, <1>4, Zenon

\* Entries and warmups are finitely many.
LEMMA FiniteLoad ==
    /\ IsFiniteSet(Key)
    /\ IsFiniteSet(Unputs) /\ Cardinality(Unputs) \in Nat
    /\ IsFiniteSet(Idle) /\ Cardinality(Idle) \in Nat
<1>1. IsFiniteSet(Key)
  BY PoolAssumption, FS_Product, Zenon DEF Key
<1>2. Unputs \subseteq Key /\ Idle \subseteq Sandbox
  BY Zenon DEF Unputs, Idle
<1>3. IsFiniteSet(Unputs) /\ IsFiniteSet(Idle)
  BY <1>1, <1>2, PoolAssumption, FS_Subset, ZenonT(60)
<1> QED
  BY <1>1, <1>3, FS_CardinalityType, Zenon

\* What a step does to the sizes.
LEMMA LoadMove ==
    ASSUME TypeOK, Next
    PROVE  /\ Cardinality(Idle') \in Nat /\ Cardinality(Unputs') \in Nat
           /\ \/ /\ Cardinality(Idle') + Cardinality(Unputs') <= Cardinality(Idle) + Cardinality(Unputs)
                 /\ Cardinality(Unputs') <= Cardinality(Unputs)
              \/ \E n \in Node, S \in SUBSET Key :
                    /\ Admits(n, S)
                    /\ Cardinality(Idle') + Cardinality(Unputs')
                          <= Cardinality(Idle) + Cardinality(Unputs) + tick[n].todo
<1>0. /\ IsFiniteSet(Unputs) /\ Cardinality(Unputs) \in Nat
      /\ IsFiniteSet(Idle) /\ Cardinality(Idle) \in Nat
  BY FiniteLoad, Zenon
<1>1. Cardinality(Idle') \in Nat /\ Cardinality(Unputs') \in Nat
  <2>1. Idle' \subseteq Sandbox /\ Unputs' \subseteq Key
    BY Zenon DEF Idle, Unputs
  <2>2. IsFiniteSet(Idle') /\ IsFiniteSet(Unputs')
    BY <2>1, FiniteLoad, PoolAssumption, FS_Subset, ZenonT(60)
  <2> QED
    BY <2>2, FS_CardinalityType, Zenon
<1>2. CASE Idle' \subseteq Idle /\ Unputs' \subseteq Unputs
  <2>1. Cardinality(Idle') <= Cardinality(Idle) /\ Cardinality(Unputs') <= Cardinality(Unputs)
    BY <1>0, <1>2, FS_Subset
  <2> QED
    BY <1>0, <1>1, <2>1
<1>3. ASSUME NEW k \in Unputs, Unputs' \subseteq Unputs \ {k},
             Idle' \subseteq Idle \cup {task[k].sb}
      PROVE  /\ Cardinality(Idle') + Cardinality(Unputs') <= Cardinality(Idle) + Cardinality(Unputs)
             /\ Cardinality(Unputs') <= Cardinality(Unputs)
  <2> DEFINE I == Idle \cup {task[k].sb}
             U == Unputs \ {k}
  <2>1. IsFiniteSet(I) /\ Cardinality(I) <= Cardinality(Idle) + 1
    <3>1. /\ IsFiniteSet(I)
          /\ Cardinality(I) = Cardinality(Idle) \/ Cardinality(I) = Cardinality(Idle) + 1
      BY <1>0, FS_AddElement, Zenon
    <3> HIDE DEF I
    <3> QED
      BY <1>0, <3>1
  <2>2. IsFiniteSet(U) /\ Cardinality(U) = Cardinality(Unputs) - 1
    BY <1>0, FS_RemoveElement, ZenonT(60)
  <2>3. Cardinality(Idle') <= Cardinality(I) /\ Cardinality(Unputs') <= Cardinality(U)
    BY <1>3, <2>1, <2>2, FS_Subset, SMTT(60)
  <2>4. Cardinality(I) \in Nat
    BY <2>1, FS_CardinalityType, Zenon
  <2> HIDE DEF I, U
  <2> QED
    BY <1>0, <1>1, <2>1, <2>2, <2>3, <2>4, SMTT(60)
<1>4. ASSUME NEW n \in Node, NEW S \in SUBSET Key, Admits(n, S)
      PROVE  Cardinality(Idle') + Cardinality(Unputs')
                <= Cardinality(Idle) + Cardinality(Unputs) + tick[n].todo
  <2>1. Idle' = Idle /\ Unputs' \subseteq Unputs \cup S /\ Cardinality(S) = tick[n].todo
    BY <1>4, Zenon DEF Admits
  <2>2. IsFiniteSet(S)
    BY FiniteLoad, FS_Subset
  <2>3. /\ IsFiniteSet(Unputs \cup S)
        /\ Cardinality(Unputs \cup S) = Cardinality(Unputs) + Cardinality(S) - Cardinality(Unputs \cap S)
    BY <1>0, <2>2, FS_Union, Zenon
  <2>4. Cardinality(Unputs \cap S) \in Nat /\ Cardinality(S) \in Nat
    <3>1. IsFiniteSet(Unputs \cap S)
      BY <1>0, FS_Intersection, Zenon
    <3> QED
      BY <2>2, <3>1, FS_CardinalityType, Zenon
  <2>5. Cardinality(Unputs') <= Cardinality(Unputs \cup S)
    BY <2>1, <2>3, FS_Subset
  <2>6. Cardinality(Idle') = Cardinality(Idle)
    BY <2>1, Zenon
  <2> DEFINE cup == Cardinality(Unputs \cup S)
             cap == Cardinality(Unputs \cap S)
  <2> HIDE DEF cup, cap
  <2>7. /\ cup = Cardinality(Unputs) + tick[n].todo - cap /\ cap \in Nat /\ tick[n].todo \in Nat
        /\ Cardinality(Unputs') <= cup
    BY <2>1, <2>3, <2>4, <2>5, Zenon DEF cup, cap
  <2> QED
    BY <1>0, <1>1, <2>6, <2>7, SMTT(60)
<1> QED
  BY <1>1, <1>2, <1>3, <1>4, UnputsMove, Zenon

LEMMA AdmissionStep ==
    ASSUME TypeOK, OneLeader, AdmissionInv, Next
    PROVE  AdmissionInv'
<1> DEFINE i == Cardinality(Idle)
           u == Cardinality(Unputs)
           ii == Cardinality(Idle')
           uu == Cardinality(Unputs')
<1>0. LeaderInv /\ LeaderInv'
  BY LeaderStep, Zenon DEF AdmissionInv
<1>1. i \in Nat /\ u \in Nat /\ ii \in Nat /\ uu \in Nat /\ MaxIdle \in Nat /\ i + u <= MaxIdle
  BY FiniteLoad, LoadMove, PoolAssumption, Zenon DEF AdmissionInv, AdmissionBound
<1>2. \A n \in Node : /\ tick[n] \in TickRec /\ tick[n].todo \in Nat /\ tick[n].warming \in Nat
                      /\ tick[n].max \in Nat
                      /\ tick[n].pc = "plan" => u <= tick[n].warming /\ tick[n].max <= MaxIdle
                      /\ tick[n].pc = "submit" => i + u + tick[n].todo <= MaxIdle
  BY Zenon DEF TypeOK, TickRec, AdmissionInv
<1>3. \/ ii + uu <= i + u /\ uu <= u
      \/ \E n \in Node, S \in SUBSET Key : Admits(n, S) /\ ii + uu <= i + u + tick[n].todo
  BY LoadMove, Zenon
<1> HIDE DEF i, u, ii, uu
<1>4. ii + uu <= MaxIdle
  <2>1. ASSUME NEW n \in Node, NEW S \in SUBSET Key, Admits(n, S), ii + uu <= i + u + tick[n].todo
        PROVE  ii + uu <= MaxIdle
    <3>1. tick[n].pc = "submit"
      BY <2>1, Zenon DEF Admits
    <3> QED
      BY <1>1, <1>2, <2>1, <3>1
  <2> QED
    BY <1>1, <1>3, <2>1
<1>5. ASSUME NEW m \in Node, tick'[m] = tick[m], tick[m].pc \in {"plan", "submit"}
      PROVE  ii + uu <= i + u /\ uu <= u
  <2>1. ASSUME NEW n \in Node, NEW S \in SUBSET Key, Admits(n, S)
        PROVE  FALSE
    <3>1. n = m
      BY <1>0, <1>5, <2>1, Zenon DEF Admits, LeaderInv
    <3>2. tick'[n].pc = "end" /\ tick[n].pc = "submit"
      BY <2>1, Constants, Zenon DEF Admits, TypeOK
    <3> QED
      BY <1>5, <3>1, <3>2, Zenon
  <2> QED
    BY <1>3, <2>1, Zenon
<1>6. ASSUME NEW m \in Node, tick'[m].pc = "plan"
      PROVE  uu <= tick'[m].warming /\ tick'[m].max <= MaxIdle
  <2>1. CASE tick'[m] = tick[m]
    BY <1>1, <1>2, <1>5, <1>6, <2>1, SMTT(60)
  <2>2. CASE /\ tick'[m].warming = Warming(m) /\ tick'[m].max = maxIdle
             /\ Unputs' = Unputs
    <3>1. maxIdle <= MaxIdle
      BY PoolAssumption DEF TypeOK
    <3>2. \A k \in Unputs : k[1] = m
      BY <1>0, <1>6, <2>2, Zenon DEF LeaderInv
    <3>3. Unputs \subseteq Futures(m)
      BY <3>2 DEF Unputs, Futures
    <3>4. Cardinality(Unputs) <= Warming(m)
      BY <3>3, FiniteOperations, FS_Subset DEF Warming
    <3> QED
      BY <2>2, <3>1, <3>4, ZenonT(60) DEF uu
  <2> QED
    BY <1>6, <2>1, <2>2, TickMoves, Zenon DEF TickMove
<1>7. ASSUME NEW m \in Node, tick'[m].pc = "submit"
      PROVE  ii + uu + tick'[m].todo <= MaxIdle
  <2>1. CASE tick'[m] = tick[m]
    BY <1>1, <1>2, <1>5, <1>7, <2>1, SMTT(60)
  <2>2. CASE /\ tick[m].pc = "plan" /\ Idle' = Eligible({"fresh"}) /\ Unputs' = Unputs
             /\ tick'[m].todo = AtMost(tick[m].max - Cardinality(Eligible({"fresh"}))
                                          - tick[m].warming, CreateQps)
    <3>1. /\ tick'[m].todo = AtMost(tick[m].max - ii - tick[m].warming, CreateQps)
          /\ uu = u
      BY <2>2, Zenon DEF ii, uu, u
    <3>2. u <= tick[m].warming /\ tick[m].max <= MaxIdle
      BY <1>2, <2>2, Zenon
    <3> QED
      BY <1>1, <1>2, <3>1, <3>2, PoolAssumption DEF AtMost
  <2> QED
    BY <1>7, <2>1, <2>2, TickMoves, Zenon DEF TickMove
<1> QED
  BY <1>0, <1>4, <1>6, <1>7, Zenon DEF AdmissionInv, AdmissionBound, ii, uu

\* CustodyInv holds at all times, in every environment: the types, the warmups that
\* have a sandbox to themselves (_run_warmup_async until put_idle), and ExclusiveCustody.
THEOREM CustodyInvariant == Spec => []CustodyInv
<1>1. Init => CustodyInv
  BY CustodyInit, Zenon
<1>2. CustodyInv /\ [Next]_vars => CustodyInv'
  <2> SUFFICES ASSUME CustodyInv, [Next]_vars PROVE CustodyInv'
    OBVIOUS
  <2>1. CASE Next
    BY <2>1, CustodyStep, FiniteSizes, Zenon
  <2>2. CASE UNCHANGED vars
    <3>1. TypeOK' /\ AloneInv' /\ \A n \in Node : tick'[n].pc = "shrink" => tick'[n].todo > 0
      BY <2>2, Zenon DEF vars, store, run, CustodyInv, TypeOK, AloneInv, Warms, Holds
    <3>2. /\ Warm' = Warm /\ Idle' = Idle /\ Doomed' = Doomed /\ borrowed' = borrowed
          /\ \A c \in Caller : Taken(c)' = Taken(c)
      BY <2>2, Zenon DEF vars, store, run, Warm, Idle, Doomed, Taken
    <3>3. ExclusiveCustody'
      BY <3>2, Unfolded, Zenon DEF CustodyInv
    <3> QED
      BY <3>1, <3>3, Zenon DEF CustodyInv
  <2> QED
    BY <2>1, <2>2, Zenon
<1> QED
  BY <1>1, <1>2, PTL DEF Spec

\* The fields keep their types; the in-flight count of an instance (_begin_operation,
\* _end_operation) is never negative.
THEOREM ClientTypes == Spec => []TypeOK
<1>1. CustodyInv => TypeOK
  BY Zenon DEF CustodyInv
<1> QED
  BY <1>1, CustodyInvariant, PTL

\* A sandbox is in one hand at a time, whatever fails.
THEOREM OneHand == Spec => []ExclusiveCustody
<1>1. CustodyInv => ExclusiveCustody
  BY Zenon DEF CustodyInv
<1> QED
  BY <1>1, CustodyInvariant, PTL

\* The pool implements SandboxCustody: the sandboxes move only as that specification
\* allows, in every environment and for any number of instances and callers.
THEOREM Refinement == Spec => CustodySpec
<1>1. Init => Custody!Init
  BY CustodyInit, Zenon
<1>2. CustodyInv /\ [Next]_vars => [Custody!Next]_Custody!vars
  <2> SUFFICES ASSUME CustodyInv, [Next]_vars PROVE [Custody!Next]_Custody!vars
    OBVIOUS
  <2>1. CASE Next
    BY <2>1, CustodyStep, FiniteSizes, Zenon
  <2>2. CASE UNCHANGED vars
    <3>1. /\ Warm' = Warm /\ Idle' = Idle /\ Doomed' = Doomed /\ borrowed' = borrowed
          /\ [c \in Caller |-> Taken(c)]' = [c \in Caller |-> Taken(c)]
      BY <2>2, Zenon DEF vars, store, run, Warm, Idle, Doomed, Taken
    <3> QED
      BY <3>1, Zenon DEF Custody!vars
  <2> QED
    BY <2>1, <2>2, Zenon
<1> QED
  BY <1>1, <1>2, CustodyInvariant, PTL DEF Spec, CustodySpec, Custody!Spec

\* What is counted and what a drain or a destroy() leaves behind: DestroyInv and
\* CountInv hold at all times, in every environment.
THEOREM CountInvariant == Spec => [](DestroyInv /\ CountInv)
<1>1. Init => DestroyInv /\ CountInv
  <2> SUFFICES ASSUME Init PROVE DestroyInv /\ CountInv
    OBVIOUS
  <2>1. DestroyInv
    BY Zenon DEF Init, DestroyInv, DestroyedEmpty, Active
  <2>2. ASSUME NEW n \in Node
        PROVE  Futures(n) = {} /\ Acquiring(n) = {} /\ tick[n].pc = "off" /\ inflight[n] = 0
    BY Constants, Zenon DEF Init, Futures, Acquiring
  <2>3. InFlightExact
    BY <2>2, FS_EmptySet DEF InFlightExact, Warming
  <2>4. StopInv /\ DrainedQuiet
    BY DEF Init, StopInv, DrainedQuiet, NoStop
  <2> QED
    BY <2>1, <2>3, <2>4, Zenon DEF CountInv
<1>2. CustodyInv /\ CustodyInv' /\ DestroyInv /\ CountInv /\ [Next]_vars => (DestroyInv /\ CountInv)'
  <2> SUFFICES ASSUME CustodyInv, CustodyInv', DestroyInv, CountInv, [Next]_vars
               PROVE  DestroyInv' /\ CountInv'
    OBVIOUS
  <2>0. TypeOK /\ TypeOK'
    BY Zenon DEF CustodyInv
  <2>1. CASE Next
    <3>1. DestroyInv'
      BY <2>0, <2>1, DestroyStep, Zenon
    <3>2. InFlightExact'
      BY <2>0, <2>1, CountStep, CountKept, Zenon DEF CountInv, InFlightExact, Warming
    <3>3. StopInv' /\ DrainedQuiet'
      BY <2>0, <2>1, StopStep, DrainStep, Zenon DEF CountInv
    <3> QED
      BY <3>1, <3>2, <3>3, Zenon DEF CountInv
  <2>2. CASE UNCHANGED vars
    <3>1. DestroyInv'
      BY <2>2, Zenon DEF vars, store, DestroyInv, DestroyedEmpty, Active, Idle
    <3>2. \A n \in Node : Futures(n)' = Futures(n) /\ Acquiring(n)' = Acquiring(n)
      BY <2>2, Zenon DEF vars, Futures, Acquiring
    <3>3. InFlightExact'
      BY <2>2, <3>2, Zenon DEF vars, CountInv, InFlightExact, Warming
    <3>4. StopInv' /\ DrainedQuiet'
      BY <2>2, <3>2, Zenon DEF vars, run, CountInv, StopInv, DrainedQuiet
    <3> QED
      BY <3>1, <3>3, <3>4, Zenon DEF CountInv
  <2> QED
    BY <2>1, <2>2, Zenon
<1> QED
  BY <1>1, <1>2, CustodyInvariant, PTL DEF Spec

\* A drained namespace stays empty and leaderless until the tombstone expires, whatever
\* instances, callers and managers do meanwhile.
THEOREM DestroyFences == Spec => []DestroyedEmpty
<1>1. DestroyInv /\ CountInv => DestroyedEmpty
  BY Zenon DEF DestroyInv
<1> QED
  BY <1>1, CountInvariant, PTL

\* _in_flight is the number of ticks, acquires and warmups that run.
THEOREM ExactCount == Spec => []InFlightExact
<1>1. DestroyInv /\ CountInv => InFlightExact
  BY Zenon DEF CountInv
<1> QED
  BY <1>1, CountInvariant, PTL

\* A graceful shutdown() that was not cut short leaves no operation of its run.
THEOREM DrainComplete == Spec => []DrainedQuiet
<1>1. DestroyInv /\ CountInv => DrainedQuiet
  BY Zenon DEF CountInv
<1> QED
  BY <1>1, CountInvariant, PTL

\* What a tick has counted when it admits warmups: AdmissionInv holds at all times for one
\* instance in every environment, and for several where the primary keeps its lock.
THEOREM AdmissionInvariant == OneLeader => (Spec => []AdmissionInv)
<1> SUFFICES ASSUME OneLeader PROVE Spec => []AdmissionInv
  OBVIOUS
<1>1. Init => AdmissionInv
  <2> SUFFICES ASSUME Init PROVE AdmissionInv
    OBVIOUS
  <2>1. Unputs = {} /\ Idle = {} /\ \A n \in Node : tick[n].pc = "off"
    BY Constants, Zenon DEF Init, Unputs, Idle
  <2>2. AdmissionBound
    <3>1. Cardinality(Idle) = 0 /\ Cardinality(Unputs) = 0 /\ MaxIdle \in Nat
      BY <2>1, FS_EmptySet, PoolAssumption, Zenon
    <3> QED
      BY <3>1 DEF AdmissionBound
  <2>3. SteadyInv
    BY <2>1, PoolAssumption, Constants, ZenonT(60) DEF Init, SteadyInv
  <2> QED
    BY <2>1, <2>2, <2>3, Zenon DEF AdmissionInv, LeaderInv
<1>2. CustodyInv /\ AdmissionInv /\ [Next]_vars => AdmissionInv'
  <2> SUFFICES ASSUME CustodyInv, AdmissionInv, [Next]_vars PROVE AdmissionInv'
    OBVIOUS
  <2>1. CASE Next
    BY <2>1, AdmissionStep, Zenon DEF CustodyInv
  <2>2. CASE UNCHANGED vars
    <3>1. Unputs' = Unputs /\ Idle' = Idle
      BY <2>2, Zenon DEF vars, store, Unputs, Idle
    <3>2. UNCHANGED <<destroy, mgr, stopper, tick, lock, owned, life>>
      BY <2>2, Zenon DEF vars, store, run
    <3> QED
      BY <3>1, <3>2, Zenon DEF AdmissionInv, LeaderInv, AdmissionBound, SteadyInv
  <2> QED
    BY <2>1, <2>2, Zenon
<1> QED
  BY <1>1, <1>2, CustodyInvariant, PTL DEF Spec

\* The entries and the warmups that may still become entries never exceed max_idle
\* while the lock is not lost.
THEOREM AdmissionBounded == OneLeader => (Spec => []AdmissionBound)
<1> SUFFICES ASSUME OneLeader PROVE Spec => []AdmissionBound
  OBVIOUS
<1>1. AdmissionInv => AdmissionBound
  BY Zenon DEF AdmissionInv
<1> QED
  BY <1>1, AdmissionInvariant, PTL

\* Where no process dies and no kill fails, and there are no requests or the instances
\* stay up, somebody knows every sandbox that runs: OrphanInv holds at all times.
THEOREM OrphanInvariant == Calm => (Spec => []OrphanInv)
<1> SUFFICES ASSUME Calm PROVE Spec => []OrphanInv
  OBVIOUS
<1>1. Init => OrphanInv
  <2> SUFFICES ASSUME Init PROVE OrphanInv
    OBVIOUS
  <2>1. NoOrphan /\ Doomed = {}
    BY DEF Init, NoOrphan, Doomed
  <2>2. RequestInv
    BY Constants, Zenon DEF Init, RequestInv
  <2>3. \A k \in Key : task[k].sb = None /\ task[k].pc = "free"
    BY Constants, Zenon DEF Init
  <2>4. \A c \in Caller : acq[c].sb = None /\ acq[c].pending = {}
    BY Constants, Zenon DEF Init
  <2>5. \A s \in Sandbox : s \notin alive
    BY Zenon DEF Init
  <2> QED
    BY <2>1, <2>2, <2>3, <2>4, <2>5, ZenonT(60) DEF OrphanInv
<1>2. CustodyInv /\ DestroyInv /\ CustodyInv' /\ OrphanInv /\ [Next]_vars => OrphanInv'
  <2> SUFFICES ASSUME CustodyInv, DestroyInv, CustodyInv', OrphanInv, [Next]_vars PROVE OrphanInv'
    OBVIOUS
  <2>1. CASE Next
    BY <2>1, OrphanStep, Zenon DEF CustodyInv
  <2>2. CASE UNCHANGED vars
    <3>1. UNCHANGED <<idle, destroy, alive, life, gen, installed, doomed, tick, stopper, task, acq,
                      borrowed, mgr>>
      BY <2>2, Zenon DEF vars, store, run
    <3>2. Idle' = Idle /\ InWarmup' = InWarmup /\ InAcquire' = InAcquire /\ Doomed' = Doomed
          /\ Borrowed' = Borrowed
      BY <3>1, Zenon DEF Idle, InWarmup, InAcquire, Doomed, Borrowed
    <3>3. Tracked' = Tracked /\ Kept' = Kept
      BY <3>2, Zenon DEF Tracked, Kept
    <3>4. NoOrphan' = NoOrphan /\ RequestInv' = RequestInv
      BY <3>1, <3>3, Zenon DEF NoOrphan, RequestInv
    <3> QED
      BY <3>1, <3>2, <3>3, <3>4, Zenon DEF OrphanInv
  <2> QED
    BY <2>1, <2>2, Zenon
<1>3. Spec => []DestroyInv
  BY CountInvariant, PTL
<1> QED
  BY <1>1, <1>2, <1>3, CustodyInvariant, PTL DEF Spec

\* Every sandbox that runs is known to somebody who will hand it out or kill it, also
\* across takeovers, cancelled warmups, lost replies and destroy().
THEOREM NothingOrphaned == Calm => (Spec => []NoOrphan)
<1> SUFFICES ASSUME Calm PROVE Spec => []NoOrphan
  OBVIOUS
<1>1. OrphanInv => NoOrphan
  BY Zenon DEF OrphanInv
<1> QED
  BY <1>1, OrphanInvariant, PTL

\* All of the above together.
THEOREM ClientInvariant == Spec => []ClientInv
<1>1. CASE OneLeader /\ Calm
  BY <1>1, CustodyInvariant, CountInvariant, AdmissionInvariant, OrphanInvariant, PTL DEF ClientInv
<1>2. CASE OneLeader /\ ~Calm
  BY <1>2, CustodyInvariant, CountInvariant, AdmissionInvariant, PTL DEF ClientInv
<1>3. CASE ~OneLeader /\ Calm
  BY <1>3, CustodyInvariant, CountInvariant, OrphanInvariant, PTL DEF ClientInv
<1>4. CASE ~OneLeader /\ ~Calm
  BY <1>4, CustodyInvariant, CountInvariant, PTL DEF ClientInv
<1> QED
  BY <1>1, <1>2, <1>3, <1>4, ZenonT(60)
=============================================================================
