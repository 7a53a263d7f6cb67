----------------------------- MODULE ClientPool -----------------------------
(***************************************************************************)
(* The client-side sandbox pool of the Python SDK: pool instances in        *)
(* several processes (SandboxPoolSync) that share one pool namespace in a   *)
(* Redis store.  The holder of the primary lock keeps a buffer of idle      *)
(* sandboxes warm; callers of every instance take from it; a pool manager   *)
(* may retire the namespace.                                                *)
(*                                                                          *)
(* A step is what one thread does between two points where another thread   *)
(* or another process can see it: one store script, one critical section,   *)
(* one call of the lifecycle server.  Simplifications:                      *)
(*  - the store keeps a list and a hash of expiry times; the order of the   *)
(*    list is left out, and a time is one of three classes: fresh, near     *)
(*    (below acquire_min_remaining_ttl) and expired;                        *)
(*  - a leader epoch is only ever compared with the present one, so a       *)
(*    warmup carries `tenure`, TRUE until the epoch it was admitted in ends;*)
(*  - the lock has an owner and no clock: it may be lost at any time where  *)
(*    Environment contains "expire";                                        *)
(*  - a take or reap and the kill that the same thread does next are one    *)
(*    step, and so are the reap and the count of a tick;                    *)
(*  - the name of a sandbox that is gone and that nobody refers to may be   *)
(*    used for a new one.                                                   *)
(***************************************************************************)
EXTENDS Integers, FiniteSets

CONSTANTS
    Node,         \* pool instances, one per process; the owner ids
    Slot,         \* warmups an instance may have outstanding
    Caller,       \* application threads that acquire
    Home,         \* the instance each caller uses
    Manager,      \* SandboxPoolManager processes
    Sandbox,
    None,
    MaxIdle,      \* config.max_idle
    CreateQps,    \* config.warmup_create_qps
    Concurrency,  \* config.warmup_concurrency
    Retries,      \* config.max_acquire_retries
    Policies,     \* acquire policies the callers use
    MaxRuns,      \* bound on start() per instance
    Environment   \* what may go wrong or be asked for

ASSUME PoolAssumption ==
    /\ Home \in [Caller -> Node]
    /\ IsFiniteSet(Node) /\ IsFiniteSet(Slot) /\ IsFiniteSet(Caller) /\ IsFiniteSet(Sandbox)
    /\ None \notin Sandbox /\ None \notin Node
    /\ MaxIdle \in Nat /\ CreateQps \in Nat \ {0} /\ Concurrency \in Nat \ {0}
    /\ Retries \in Nat /\ MaxRuns \in Nat
    /\ Policies \subseteq {"FAIL_FAST", "DIRECT_CREATE", "RETRY_NEXT_IDLE",
                           "RETRY_NEXT_IDLE_THEN_CREATE"}

VARIABLES
    \* the store
    idle,      \* expiry class of each idle entry, "none" where there is none
    lock,      \* holder of the primary lock
    destroy,   \* destroy state of the namespace
    maxIdle,   \* shared idle target
    \* the lifecycle server
    alive,     \* sandboxes that run
    \* each instance
    life,      \* _lifecycle_state
    gen,       \* _run_generation
    owned,     \* _primary_owned
    accept,    \* _accept_warmup_commits
    installed, \* the warmup loop and the executors exist
    inflight,  \* _in_flight
    doomed,    \* kills queued on the warmup executor
    tick,      \* the reconcile tick
    stopper,   \* the thread in shutdown()
    task,      \* the warmups
    \* callers and managers
    acq,       \* acquire() of each caller
    borrowed,  \* sandboxes handed to each caller
    mgr        \* destroy() of each manager

store == <<idle, lock, destroy, maxIdle>>
run == <<life, gen, owned, accept, installed>>
vars == <<store, alive, run, inflight, doomed, tick, stopper, task, acq, borrowed, mgr>>

Key == Node \X Slot

FreeTask == [pc |-> "free", gen |-> 0, tenure |-> FALSE, sb |-> None, cancelled |-> FALSE]
NoAcquire == [pc |-> "out", gen |-> 0, sb |-> None, pending |-> {}, attempts |-> 0,
              policy |-> "FAIL_FAST"]
NoTick == [pc |-> "off", warming |-> 0, max |-> 0, todo |-> 0, gen |-> 0]
NoStop == [pc |-> "none", gen |-> 0, drained |-> FALSE]

Init ==
    /\ idle = [s \in Sandbox |-> "none"]
    /\ lock = None
    /\ destroy = "ACTIVE"
    /\ maxIdle = MaxIdle
    /\ alive = {}
    /\ life = [n \in Node |-> "NOT_STARTED"]
    /\ gen = [n \in Node |-> 0]
    /\ owned = [n \in Node |-> FALSE]
    /\ accept = [n \in Node |-> FALSE]
    /\ installed = [n \in Node |-> FALSE]
    /\ inflight = [n \in Node |-> 0]
    /\ doomed = [n \in Node |-> {}]
    /\ tick = [n \in Node |-> NoTick]
    /\ stopper = [n \in Node |-> NoStop]
    /\ task = [k \in Key |-> FreeTask]
    /\ acq = [c \in Caller |-> NoAcquire]
    /\ borrowed = [c \in Caller |-> {}]
    /\ mgr = [m \in Manager |-> "off"]

May(event) == event \in Environment

-----------------------------------------------------------------------------
(* Who refers to a sandbox.                                                 *)

Idle == {s \in Sandbox : idle[s] # "none"}
InWarmup == {s \in Sandbox : \E k \in Key : task[k].sb = s}
InAcquire == {s \in Sandbox : \E c \in Caller : acq[c].sb = s \/ s \in acq[c].pending}
Doomed == UNION {doomed[n] : n \in Node}
Borrowed == UNION {borrowed[c] : c \in Caller}
Tracked == Idle \cup InWarmup \cup InAcquire \cup Doomed \cup Borrowed

\* A name the lifecycle server may give to a new sandbox, and when it may refuse.
Unused == Sandbox \ (alive \cup Tracked)
Refused == Unused = {} \/ May("createError")

-----------------------------------------------------------------------------
(* The store: one operator per Lua script.                                  *)

Active == destroy = "ACTIVE"

\* Mutant: the holder does not get the lock again.
LockGrantedM(n) == Active /\ lock = None

\* _ACQUIRE_LOCK_SCRIPT grants the lock to its holder again.
LockGranted(n) == Active /\ lock \in {None, n}

\* _RENEW_LOCK_SCRIPT
LockRenewed(n) == Active /\ lock = n

\* _RELEASE_LOCK_SCRIPT
LockReleased(n) == IF lock = n THEN None ELSE lock

\* _TAKE_IDLE_SCRIPT pops entries until one is eligible.  D are the ineligible
\* entries in front of it: all of them when there is no eligible entry.
Eligible(classes) == {s \in Idle : idle[s] \in classes}
\* Mutant: the entry is read and left in the list.
TakeIdleM(classes, s, D) ==
    /\ s \in Eligible(classes) \cup {None}
    /\ D \subseteq Idle \ Eligible(classes)
    /\ s = None => Eligible(classes) = {} /\ D = Idle
    /\ idle' = [x \in Sandbox |-> IF x \in D THEN "none" ELSE idle[x]]
TakeIdle(classes, s, D) ==
    /\ s \in Eligible(classes) \cup {None}
    /\ D \subseteq Idle \ Eligible(classes)
    /\ s = None => Eligible(classes) = {} /\ D = Idle
    /\ idle' = [x \in Sandbox |-> IF x \in D \cup {s} THEN "none" ELSE idle[x]]

\* The entries among D that the server has not reaped yet.
DiscardedAlive(D) == {s \in D : idle[s] = "near"}

-----------------------------------------------------------------------------
(* Effects shared by several handlers.                                      *)

\* A kill is best effort: it may fail where Environment allows it.
Kill(S) ==
    \/ alive' = alive \ S
    \/ May("killError") /\ \E F \in SUBSET S : alive' = (alive \ S) \cup (alive \cap F)

\* Kill the sandboxes of `now` and hand those of `later` to
\* _schedule_kill_discarded_alive: queued on the warmup executor, or done in the
\* calling thread, as far as its manager is still open, when there is none.
Dispose(n, now, later) ==
    IF installed[n]
    THEN Kill(now) /\ doomed' = [doomed EXCEPT ![n] = @ \cup later]
    ELSE (\E K \in SUBSET later : Kill(now \cup K)) /\ UNCHANGED doomed

\* Warmups with a token: a cancelled create that is still on its way has none.
Futures(n) == {k \in Key : k[1] = n /\ task[k].pc \notin {"free", "late", "lateKill"}}
Warming(n) == Cardinality(Futures(n))

\* The epoch ends and the futures are cancelled, which no longer matters to a
\* warmup that takes its sandbox back.
EndTenure(n) ==
    [k \in Key |-> IF k \in Futures(n) /\ task[k].pc \notin {"remove", "cleanup"}
                   THEN [task[k] EXCEPT !.tenure = FALSE, !.cancelled = TRUE]
                   ELSE task[k]]

\* _mark_primary_lost
MarkPrimaryLost(n) ==
    /\ owned' = [owned EXCEPT ![n] = FALSE]
    /\ task' = IF owned[n] THEN EndTenure(n) ELSE task

\* _stop_reconcile: cancel what runs, drop the queued kills (those that run
\* finish), give up the lock.  Its waits are bounded, so a warmup may outlive
\* it.  The caller says whether a new run is installed.
StopReconcile(n) ==
    /\ lock' = LockReleased(n) \/ (May("outage") /\ lock' = lock)
    /\ owned' = [owned EXCEPT ![n] = FALSE]
    /\ task' = EndTenure(n)
    /\ \E K \in SUBSET doomed[n] : alive' = alive \ K
    /\ doomed' = [doomed EXCEPT ![n] = {}]

\* _end_operation
Ended(n) == [inflight EXCEPT ![n] = IF @ > 0 THEN @ - 1 ELSE 0]

-----------------------------------------------------------------------------
(* start() and shutdown().                                                  *)

Start(n) ==
    /\ life[n] \notin {"RUNNING", "STARTING"}
    /\ gen[n] < MaxRuns
    /\ gen[n] = 0 \/ May("restart")
    /\ StopReconcile(n)
    /\ \/ /\ Active
          /\ maxIdle' = MaxIdle
          /\ gen' = [gen EXCEPT ![n] = @ + 1]
          /\ accept' = [accept EXCEPT ![n] = TRUE]
          /\ installed' = [installed EXCEPT ![n] = TRUE]
          /\ life' = [life EXCEPT ![n] = "RUNNING"]
       \/ /\ ~Active \/ May("outage")
          /\ installed' = [installed EXCEPT ![n] = FALSE]
          /\ life' = [life EXCEPT ![n] = "STOPPED"]
          /\ UNCHANGED <<maxIdle, gen, accept>>
    /\ UNCHANGED <<idle, destroy, inflight, tick, stopper, acq, borrowed, mgr>>

\* One thread at a time is in shutdown().
Shutdown(n, graceful) ==
    /\ May("shutdown")
    /\ stopper[n].pc = "none"
    /\ life[n] \notin {"NOT_STARTED", "STOPPED"}
    /\ life' = [life EXCEPT ![n] = "DRAINING"]
    /\ accept' = [accept EXCEPT ![n] = @ /\ graceful]
    /\ stopper' = [stopper EXCEPT ![n] = [pc |-> IF graceful THEN "drain" ELSE "stop",
                                          gen |-> gen[n], drained |-> FALSE]]
    /\ UNCHANGED <<store, alive, gen, owned, installed, inflight, doomed, tick, task, acq,
                   borrowed, mgr>>

\* _await_in_flight_drain, then no warmup of this run may commit.
ShutdownDrain(n) ==
    /\ stopper[n].pc = "drain"
    /\ inflight[n] = 0 \/ May("drainTimeout")
    /\ accept' = [accept EXCEPT ![n] = @ /\ gen[n] # stopper[n].gen]
    /\ stopper' = [stopper EXCEPT ![n].pc = "stop", ![n].drained = inflight[n] = 0]
    /\ UNCHANGED <<store, alive, life, gen, owned, installed, inflight, doomed, tick, task,
                   acq, borrowed, mgr>>

\* A newer run is left alone.
ShutdownStop(n) ==
    /\ stopper[n].pc = "stop"
    /\ stopper' = [stopper EXCEPT ![n].pc = "finish"]
    /\ IF gen[n] = stopper[n].gen
       THEN /\ StopReconcile(n)
            /\ installed' = [installed EXCEPT ![n] = FALSE]
       ELSE UNCHANGED <<lock, owned, task, alive, doomed, installed>>
    /\ UNCHANGED <<idle, destroy, maxIdle, life, gen, accept, inflight, tick, acq, borrowed,
                   mgr>>

ShutdownFinish(n) ==
    /\ stopper[n].pc = "finish"
    /\ life' = [life EXCEPT ![n] = IF gen[n] = stopper[n].gen THEN "STOPPED" ELSE @]
    /\ stopper' = [stopper EXCEPT ![n] = NoStop]
    /\ UNCHANGED <<store, alive, gen, owned, accept, installed, inflight, doomed, tick, task,
                   acq, borrowed, mgr>>

-----------------------------------------------------------------------------
(* The reconcile tick (scheduler thread) and the heartbeat.                 *)

Closing == [NoTick EXCEPT !.pc = "end"]

\* Mutant: the tick does not look at the destroy state.
TickBeginM(n) ==
    /\ tick[n].pc = "off"
    /\ life[n] = "RUNNING"
    /\ inflight' = [inflight EXCEPT ![n] = @ + 1]
    /\ tick' = [tick EXCEPT ![n].pc = "lock"]
    /\ UNCHANGED <<store, run, alive, doomed, stopper, task, acq, borrowed, mgr>>

\* _run_reconcile_tick_locked up to the check of the namespace.
TickBegin(n) ==
    /\ tick[n].pc = "off"
    /\ life[n] = "RUNNING"
    /\ inflight' = [inflight EXCEPT ![n] = @ + 1]
    /\ \/ /\ Active
          /\ tick' = [tick EXCEPT ![n].pc = "lock"]
          /\ UNCHANGED <<life, owned, accept, task>>
       \/ /\ May("outage")
          /\ MarkPrimaryLost(n)
          /\ tick' = [tick EXCEPT ![n] = Closing]
          /\ UNCHANGED <<life, accept>>
       \/ /\ ~Active
          /\ life' = [life EXCEPT ![n] = "STOPPED"]
          /\ accept' = [accept EXCEPT ![n] = FALSE]
          /\ tick' = [tick EXCEPT ![n] = [NoTick EXCEPT !.pc = "retire", !.gen = gen[n]]]
          /\ UNCHANGED <<owned, task>>
    /\ UNCHANGED <<store, alive, gen, installed, doomed, stopper, acq, borrowed, mgr>>

\* run_reconcile_tick takes the lock.  The warmups are counted before the store
\* is asked how many entries are idle.
TickLock(n) ==
    /\ tick[n].pc = "lock"
    /\ \/ /\ LockGranted(n)
          /\ lock' = n
          /\ owned' = [owned EXCEPT ![n] = TRUE]
          /\ tick' = [tick EXCEPT ![n].pc = "plan", ![n].warming = Warming(n),
                                  ![n].max = maxIdle]
          /\ UNCHANGED task
       \/ /\ ~LockGranted(n) \/ May("outage")
          /\ MarkPrimaryLost(n)
          /\ tick' = [tick EXCEPT ![n] = Closing]
          /\ UNCHANGED lock
    /\ UNCHANGED <<idle, destroy, maxIdle, alive, life, gen, accept, installed, inflight, doomed,
                   stopper, acq, borrowed, mgr>>

\* _stop_after_pool_namespace_destroyed, after it left the lifecycle lock.
TickRetire(n) ==
    /\ tick[n].pc = "retire"
    /\ tick' = [tick EXCEPT ![n] = Closing]
    /\ IF gen[n] = tick[n].gen
       THEN /\ StopReconcile(n)
            /\ installed' = [installed EXCEPT ![n] = FALSE]
       ELSE UNCHANGED <<lock, owned, task, alive, doomed, installed>>
    /\ UNCHANGED <<idle, destroy, maxIdle, life, gen, accept, inflight, stopper, acq, borrowed,
                   mgr>>

AtMost(a, b) == IF a < b THEN a ELSE b

\* Mutant: the warmups that run are not taken off the deficit.
TickPlanM(n) ==
    LET left == Eligible({"fresh"}) IN
    /\ tick[n].pc = "plan"
    /\ idle' = [s \in Sandbox |-> IF s \in left THEN idle[s] ELSE "none"]
    /\ Kill(DiscardedAlive(Idle))
    /\ tick' = [tick EXCEPT ![n] =
                   IF tick[n].max > Cardinality(left)
                   THEN [NoTick EXCEPT !.pc = "submit",
                                       !.todo = AtMost(tick[n].max - Cardinality(left), CreateQps)]
                   ELSE Closing]
    /\ UNCHANGED <<lock, destroy, maxIdle, run, inflight, doomed, stopper, task, acq, borrowed,
                   mgr>>

\* _run_primary_replenish_once: reap, kill what was reaped alive, count, decide.
TickPlan(n) ==
    LET left == Eligible({"fresh"})
        excess == Cardinality(left) - tick[n].max
        deficit == tick[n].max - Cardinality(left) - tick[n].warming
    IN
    /\ tick[n].pc = "plan"
    /\ idle' = [s \in Sandbox |-> IF s \in left THEN idle[s] ELSE "none"]
    /\ Kill(DiscardedAlive(Idle))
    /\ tick' = [tick EXCEPT ![n] =
                   IF excess > 0
                   THEN [NoTick EXCEPT !.pc = "shrink", !.todo = AtMost(excess, Concurrency)]
                   ELSE IF deficit > 0
                   THEN [NoTick EXCEPT !.pc = "submit", !.todo = AtMost(deficit, CreateQps)]
                   ELSE Closing]
    /\ UNCHANGED <<lock, destroy, maxIdle, run, inflight, doomed, stopper, task, acq, borrowed,
                   mgr>>

\* One round of _shrink_excess_idle.
TickShrink(n) ==
    /\ tick[n].pc = "shrink"
    /\ \/ /\ LockRenewed(n)
          /\ \E s \in Sandbox \cup {None}, D \in SUBSET Idle :
                /\ TakeIdle({"fresh", "near"}, s, D)
                /\ Kill({s})
                /\ tick' = [tick EXCEPT ![n] = IF s = None \/ tick[n].todo = 1
                                               THEN Closing ELSE [tick[n] EXCEPT !.todo = @ - 1]]
       \/ /\ ~LockRenewed(n)
          /\ tick' = [tick EXCEPT ![n] = Closing]
          /\ UNCHANGED <<idle, alive>>
    /\ UNCHANGED <<lock, destroy, maxIdle, run, inflight, doomed, stopper, task, acq, borrowed,
                   mgr>>

\* The lock is renewed and _submit_warmups admits the warmups.
TickSubmit(n) ==
    /\ tick[n].pc = "submit"
    /\ tick' = [tick EXCEPT ![n] = Closing]
    /\ IF LockRenewed(n) /\ installed[n]
       THEN \E S \in SUBSET {k \in Key : k[1] = n /\ task[k].pc = "free"} :
              /\ Cardinality(S) = tick[n].todo
              /\ inflight' = [inflight EXCEPT ![n] = @ + tick[n].todo]
              /\ task' = [k \in Key |-> IF k \in S
                             THEN [FreeTask EXCEPT !.pc = "create", !.gen = gen[n],
                                                   !.tenure = owned[n]]
                             ELSE task[k]]
       ELSE UNCHANGED <<inflight, task>>
    /\ UNCHANGED <<store, alive, run, doomed, stopper, acq, borrowed, mgr>>

\* A store call of the tick raises.
TickFails(n) ==
    /\ May("outage")
    /\ tick[n].pc \in {"plan", "shrink", "submit"}
    /\ tick' = [tick EXCEPT ![n] = Closing]
    /\ MarkPrimaryLost(n)
    /\ UNCHANGED <<store, alive, life, gen, accept, installed, inflight, doomed, stopper, acq,
                   borrowed, mgr>>

TickEnd(n) ==
    /\ tick[n].pc = "end"
    /\ tick' = [tick EXCEPT ![n] = NoTick]
    /\ inflight' = Ended(n)
    /\ UNCHANGED <<store, alive, run, doomed, stopper, task, acq, borrowed, mgr>>

\* _run_heartbeat finds the lock gone.
HeartbeatLost(n) ==
    /\ owned[n] /\ life[n] \in {"RUNNING", "DRAINING"}
    /\ ~LockRenewed(n)
    /\ MarkPrimaryLost(n)
    /\ UNCHANGED <<store, alive, life, gen, accept, installed, inflight, doomed, tick, stopper,
                   acq, borrowed, mgr>>

-----------------------------------------------------------------------------
(* Warmups: _run_warmup_async of task k.                                    *)

Goto(k, pc) == task' = [task EXCEPT ![k].pc = pc]

\* The warmup ends by taking its sandbox back.
TakingBack(k, pc) == [FreeTask EXCEPT !.pc = pc, !.sb = task[k].sb]
Retreat(k, pc) == task' = [task EXCEPT ![k] = TakingBack(k, pc)]

\* _complete_warmup gives the token and the in-flight operation back.
Complete(k) ==
    /\ task' = [task EXCEPT ![k] = FreeTask]
    /\ inflight' = Ended(k[1])

\* _can_commit_locally
CanCommitLocally(k) ==
    /\ task[k].gen = gen[k[1]]
    /\ task[k].tenure
    /\ owned[k[1]] /\ accept[k[1]]
    /\ life[k[1]] \in {"RUNNING", "DRAINING"}

\* The create returns, fails, or is abandoned because the future was cancelled:
\* then the token is given back and a callback waits for its result.
WarmupCreate(k) ==
    /\ task[k].pc = "create"
    /\ \/ \E s \in Unused :
            /\ ~task[k].cancelled
            /\ alive' = alive \cup {s}
            /\ task' = [task EXCEPT ![k].pc = "stage", ![k].sb = s]
            /\ UNCHANGED inflight
       \/ /\ Refused
          /\ Complete(k)
          /\ UNCHANGED alive
       \/ /\ task[k].cancelled
          /\ task' = [task EXCEPT ![k] = [FreeTask EXCEPT !.pc = "late"]]
          /\ inflight' = Ended(k[1])
          /\ UNCHANGED alive
    /\ UNCHANGED <<store, run, doomed, tick, stopper, acq, borrowed, mgr>>

\* Mutant: the callback that waits for a late create is missing.
LateCreateM(k) ==
    /\ task[k].pc = "late"
    /\ task' = [task EXCEPT ![k] = FreeTask]
    /\ \E s \in Unused : alive' = alive \cup {s}
    /\ UNCHANGED <<store, run, inflight, doomed, tick, stopper, acq, borrowed, mgr>>

\* Mutant: the callback gives the operation back once more.
LateCreateTwiceM(k) ==
    /\ task[k].pc = "late"
    /\ task' = [task EXCEPT ![k] = FreeTask]
    /\ inflight' = Ended(k[1])
    /\ UNCHANGED <<store, alive, run, doomed, tick, stopper, acq, borrowed, mgr>>

\* _cleanup_cancelled_warmup_create
LateCreate(k) ==
    /\ \/ /\ task[k].pc = "late"
          /\ \/ \E s \in Unused : /\ alive' = alive \cup {s}
                                   /\ task' = [task EXCEPT ![k].pc = "lateKill", ![k].sb = s]
             \/ Refused /\ task' = [task EXCEPT ![k] = FreeTask] /\ UNCHANGED alive
       \/ /\ task[k].pc = "lateKill"
          /\ Kill({task[k].sb})
          /\ task' = [task EXCEPT ![k] = FreeTask]
    /\ UNCHANGED <<store, run, inflight, doomed, tick, stopper, acq, borrowed, mgr>>

\* Readiness, preparation, renewal and the checks of the namespace.
WarmupStage(k) ==
    /\ task[k].pc = "stage"
    /\ \/ /\ Active /\ task[k].sb \in alive /\ ~task[k].cancelled
          /\ Goto(k, "commit")
       \/ /\ ~Active \/ task[k].sb \notin alive \/ task[k].cancelled \/ May("stageError")
          /\ Retreat(k, "cleanup")
    /\ UNCHANGED <<store, alive, run, inflight, doomed, tick, stopper, acq, borrowed, mgr>>

\* _can_commit_warmup
CanCommitWarmup(k) ==
    LET n == k[1] IN
    /\ task[k].pc = "commit"
    /\ \/ /\ CanCommitLocally(k) /\ LockRenewed(n) /\ ~task[k].cancelled
          /\ Goto(k, "put")
          /\ UNCHANGED owned
       \/ /\ CanCommitLocally(k) /\ ~LockRenewed(n)
          /\ owned' = [owned EXCEPT ![n] = FALSE]
          /\ task' = [EndTenure(n) EXCEPT ![k] = TakingBack(k, "cleanup")]
       \/ /\ ~CanCommitLocally(k) \/ task[k].cancelled \/ May("outage")
          /\ Retreat(k, "cleanup")
          /\ UNCHANGED owned
    /\ UNCHANGED <<store, alive, life, gen, accept, installed, inflight, doomed, tick, stopper,
                   acq, borrowed, mgr>>

\* Mutant: put_idle is not fenced.
WarmupPutIdleM(k) ==
    /\ task[k].pc = "put"
    /\ idle' = [idle EXCEPT ![task[k].sb] = "fresh"]
    /\ Goto(k, "recheck")
    /\ UNCHANGED <<lock, destroy, maxIdle, alive, run, inflight, doomed, tick, stopper, acq,
                   borrowed, mgr>>

\* put_idle.  A cancelled future may stop before it, and its reply may be lost.
WarmupPutIdle(k) ==
    /\ task[k].pc = "put"
    /\ \/ /\ Active
          /\ idle' = [idle EXCEPT ![task[k].sb] = "fresh"]
          /\ Goto(k, "recheck") \/ (May("lostReply") /\ Retreat(k, "cleanup"))
       \/ /\ ~Active \/ task[k].cancelled \/ May("outage")
          /\ Retreat(k, "cleanup")
          /\ UNCHANGED idle
    /\ UNCHANGED <<lock, destroy, maxIdle, alive, run, inflight, doomed, tick, stopper, acq,
                   borrowed, mgr>>

\* After put_idle: committed, to be taken back, or cancelled in the meantime.
WarmupRecheck(k) ==
    /\ task[k].pc = "recheck"
    /\ \/ CanCommitLocally(k) /\ Complete(k)
       \/ ~CanCommitLocally(k) /\ Retreat(k, "remove") /\ UNCHANGED inflight
       \/ task[k].cancelled /\ Retreat(k, "cleanup") /\ UNCHANGED inflight
    /\ UNCHANGED <<store, alive, run, doomed, tick, stopper, acq, borrowed, mgr>>

\* Mutant: a run that was retired puts the entry once more.
WarmupRemoveIdleM(k) ==
    /\ task[k].pc = "remove"
    /\ idle' = [idle EXCEPT ![task[k].sb] = "fresh"]
    /\ Retreat(k, "cleanup")
    /\ UNCHANGED <<lock, destroy, maxIdle, alive, run, inflight, doomed, tick, stopper, acq,
                   borrowed, mgr>>

WarmupRemoveIdle(k) ==
    /\ task[k].pc = "remove"
    /\ \/ idle' = [idle EXCEPT ![task[k].sb] = "none"]
       \/ May("outage") /\ UNCHANGED idle
    /\ Retreat(k, "cleanup")
    /\ UNCHANGED <<lock, destroy, maxIdle, alive, run, inflight, doomed, tick, stopper, acq,
                   borrowed, mgr>>

\* _cleanup_uncommitted_warmup
WarmupCleanup(k) ==
    /\ task[k].pc = "cleanup"
    /\ Kill({task[k].sb})
    /\ Complete(k)
    /\ UNCHANGED <<store, run, doomed, tick, stopper, acq, borrowed, mgr>>

\* A kill queued on the warmup executor.
KillDoomed(n) ==
    /\ \E s \in doomed[n] : /\ Kill({s})
                            /\ doomed' = [doomed EXCEPT ![n] = @ \ {s}]
    /\ UNCHANGED <<store, run, inflight, tick, stopper, task, acq, borrowed, mgr>>

-----------------------------------------------------------------------------
(* acquire() of caller c.                                                   *)

FallsThrough(policy) == policy \in {"DIRECT_CREATE", "RETRY_NEXT_IDLE_THEN_CREATE"}

\* effective_max_idle_attempts
MaxAttempts(policy) ==
    IF policy \in {"RETRY_NEXT_IDLE", "RETRY_NEXT_IDLE_THEN_CREATE"} /\ Retries > 1
    THEN Retries ELSE 1

\* _ensure_acquire_run_active returns.
RunActive(c) == acq[c].gen = gen[Home[c]] /\ life[Home[c]] = "RUNNING"

\* It raises: PoolDestroyedException when the store says so, else
\* PoolNotRunningException.
RunRetired(c) == ~RunActive(c) /\ (Active \/ May("outage"))
RunDestroyed(c) == ~RunActive(c) /\ ~Active

\* After the last idle candidate: direct create, or an error.
Raised == [NoAcquire EXCEPT !.pc = "end"]
Exhausted(c) ==
    IF FallsThrough(acq[c].policy)
    THEN [NoAcquire EXCEPT !.pc = "create", !.gen = acq[c].gen, !.policy = acq[c].policy]
    ELSE Raised

AcquireCall(c) ==
    /\ acq[c].pc = "out"
    /\ life[Home[c]] = "RUNNING"
    /\ \E p \in Policies :
          acq' = [acq EXCEPT ![c] = [NoAcquire EXCEPT !.pc = "begin", !.gen = gen[Home[c]],
                                                      !.policy = p]]
    /\ UNCHANGED <<store, alive, run, inflight, doomed, tick, stopper, task, borrowed, mgr>>

AcquireBegin(c) ==
    /\ acq[c].pc = "begin"
    /\ acq' = [acq EXCEPT ![c].pc = "enter"]
    /\ inflight' = [inflight EXCEPT ![Home[c]] = @ + 1]
    /\ UNCHANGED <<store, alive, run, doomed, tick, stopper, task, borrowed, mgr>>

\* Mutant: the run is not checked again after the operation was counted.
AcquireEnterM(c) ==
    /\ acq[c].pc = "enter"
    /\ acq' = [acq EXCEPT ![c].pc = IF Active THEN "take" ELSE "end"]
    /\ UNCHANGED <<store, alive, run, inflight, doomed, tick, stopper, task, borrowed, mgr>>

\* The run and the namespace are checked before the first candidate.
AcquireEnter(c) ==
    /\ acq[c].pc = "enter"
    /\ \/ /\ RunActive(c)
          /\ Active \/ (May("outage") /\ FallsThrough(acq[c].policy))
          /\ acq' = [acq EXCEPT ![c].pc = "take"]
       \/ /\ ~RunActive(c) \/ ~Active \/ (May("outage") /\ ~FallsThrough(acq[c].policy))
          /\ acq' = [acq EXCEPT ![c] = Raised]
    /\ UNCHANGED <<store, alive, run, inflight, doomed, tick, stopper, task, borrowed, mgr>>

\* The top of the loop.  The check of the run leaves it without the kills that
\* were put off.
AcquireTake(c) ==
    /\ acq[c].pc = "take"
    /\ \/ /\ ~RunActive(c)
          /\ acq' = [acq EXCEPT ![c] = Raised]
          /\ UNCHANGED <<idle, alive, doomed>>
       \/ /\ RunActive(c)
          /\ \E s \in Sandbox \cup {None}, D \in SUBSET Idle :
               LET put_off == acq[c].pending \cup DiscardedAlive(D) IN
               /\ TakeIdle({"fresh"}, s, D)
               /\ IF s # None
                  THEN /\ acq' = [acq EXCEPT ![c].pc = "connect", ![c].sb = s,
                                             ![c].pending = put_off, ![c].attempts = @ + 1]
                       /\ UNCHANGED <<alive, doomed>>
                  ELSE acq' = [acq EXCEPT ![c] = Exhausted(c)] /\ Dispose(Home[c], {}, put_off)
       \/ /\ RunActive(c) /\ May("outage")
          /\ acq' = [acq EXCEPT ![c] = Exhausted(c)]
          /\ Dispose(Home[c], {}, acq[c].pending)
          /\ UNCHANGED idle
    /\ UNCHANGED <<lock, destroy, maxIdle, run, inflight, tick, stopper, task, borrowed, mgr>>

\* Connect: it works, the verdict is final (401, 403), or the candidate is stale:
\* then it is removed, its kill is queued, the run and the namespace are checked
\* and the next candidate is tried.
AcquireConnect(c) ==
    LET a == acq[c]
        n == Home[c]
    IN
    /\ a.pc = "connect"
    /\ \/ /\ a.sb \in alive
          /\ acq' = [acq EXCEPT ![c].pc = "fence"]
          /\ UNCHANGED <<idle, alive, doomed>>
       \/ /\ May("authError")
          /\ acq' = [acq EXCEPT ![c] = Raised]
          /\ Dispose(n, {}, a.pending \cup {a.sb})
          /\ UNCHANGED idle
       \/ /\ a.sb \notin alive \/ May("connectError")
          /\ idle' = [idle EXCEPT ![a.sb] = "none"]
          /\ \/ /\ RunActive(c) /\ Active /\ a.attempts < MaxAttempts(a.policy)
                /\ acq' = [acq EXCEPT ![c].pc = "take", ![c].sb = None]
                /\ Dispose(n, {}, {a.sb})
             \/ /\ RunActive(c) /\ Active /\ a.attempts >= MaxAttempts(a.policy)
                /\ acq' = [acq EXCEPT ![c] = Exhausted(c)]
                /\ Dispose(n, {}, a.pending \cup {a.sb})
             \/ /\ RunRetired(c)
                /\ acq' = [acq EXCEPT ![c] = Raised]
                /\ Dispose(n, {}, a.pending \cup {a.sb})
             \/ /\ ~Active \/ (RunActive(c) /\ May("outage"))
                /\ acq' = [acq EXCEPT ![c] = Raised]
                /\ Dispose(n, {}, {a.sb})
       \/ /\ a.sb \notin alive \/ May("connectError")
          /\ May("outage")
          /\ acq' = [acq EXCEPT ![c] = Raised]
          /\ UNCHANGED <<idle, alive, doomed>>
    /\ UNCHANGED <<lock, destroy, maxIdle, run, inflight, tick, stopper, task, borrowed, mgr>>

\* The renewal and _ensure_pool_namespace_active_after_create.  A sandbox that
\* was created here is kept when the store cannot be reached.
AcquireFence(c) ==
    LET a == acq[c] IN
    /\ a.pc \in {"fence", "created"}
    /\ \/ /\ Active \/ (May("outage") /\ a.pc = "created")
          /\ acq' = [acq EXCEPT ![c].pc = "final"]
          /\ UNCHANGED <<alive, doomed>>
       \/ /\ ~Active \/ May("renewError") \/ (May("outage") /\ a.pc = "fence")
          /\ acq' = [acq EXCEPT ![c] = Raised]
          /\ Dispose(Home[c], {a.sb}, a.pending)
    /\ UNCHANGED <<store, run, inflight, tick, stopper, task, borrowed, mgr>>

\* The last check of the run.  PoolDestroyedException leaves the sandbox alone.
AcquireFinal(c) ==
    LET a == acq[c] IN
    /\ a.pc = "final"
    /\ acq' = [acq EXCEPT ![c] = Raised]
    /\ \/ /\ RunActive(c)
          /\ borrowed' = [borrowed EXCEPT ![c] = @ \cup {a.sb}]
          /\ Dispose(Home[c], {}, a.pending)
       \/ /\ RunRetired(c)
          /\ Dispose(Home[c], {a.sb}, a.pending)
          /\ UNCHANGED borrowed
       \/ /\ RunDestroyed(c)
          /\ Dispose(Home[c], {}, a.pending)
          /\ UNCHANGED borrowed
    /\ UNCHANGED <<store, run, inflight, tick, stopper, task, mgr>>

\* _direct_create
AcquireCreate(c) ==
    /\ acq[c].pc = "create"
    /\ \/ /\ RunActive(c) /\ (Active \/ May("outage"))
          /\ \E s \in Unused :
                /\ alive' = alive \cup {s}
                /\ acq' = [acq EXCEPT ![c].pc = "created", ![c].sb = s]
       \/ /\ ~RunActive(c) \/ ~Active \/ Refused
          /\ acq' = [acq EXCEPT ![c] = Raised]
          /\ UNCHANGED alive
    /\ UNCHANGED <<store, run, inflight, doomed, tick, stopper, task, borrowed, mgr>>

AcquireEnd(c) ==
    /\ acq[c].pc = "end"
    /\ acq' = [acq EXCEPT ![c] = NoAcquire]
    /\ inflight' = Ended(Home[c])
    /\ UNCHANGED <<store, alive, run, doomed, tick, stopper, task, borrowed, mgr>>

\* The application is done with a sandbox it was handed.
CallerDone(c) ==
    /\ \E s \in borrowed[c] :
          /\ borrowed' = [borrowed EXCEPT ![c] = @ \ {s}]
          /\ alive' = alive \ {s}
    /\ UNCHANGED <<store, run, inflight, doomed, tick, stopper, task, acq, mgr>>

-----------------------------------------------------------------------------
(* resize(), release_all_idle() and SandboxPoolManager.destroy().           *)

\* Mutant: the value is not validated.
ResizeM(n) ==
    /\ May("resize")
    /\ Active
    /\ maxIdle' \in -1..MaxIdle
    /\ UNCHANGED <<idle, lock, destroy, alive, run, inflight, doomed, tick, stopper, task, acq,
                   borrowed, mgr>>

Resize(n) ==
    /\ May("resize")
    /\ Active
    /\ maxIdle' \in 0..MaxIdle
    /\ UNCHANGED <<idle, lock, destroy, alive, run, inflight, doomed, tick, stopper, task, acq,
                   borrowed, mgr>>

\* One round of its loop.
ReleaseIdle(n) ==
    /\ May("release")
    /\ \E s \in Sandbox, D \in SUBSET Idle : TakeIdle({"fresh", "near"}, s, D) /\ Kill({s})
    /\ UNCHANGED <<lock, destroy, maxIdle, run, inflight, doomed, tick, stopper, task, acq,
                   borrowed, mgr>>

DestroyBegin(m) ==
    /\ May("destroy")
    /\ mgr[m] = "off"
    /\ destroy # "DESTROYED"
    /\ destroy' = "DESTROYING"
    /\ mgr' = [mgr EXCEPT ![m] = "drain"]
    /\ UNCHANGED <<idle, lock, maxIdle, alive, run, inflight, doomed, tick, stopper, task, acq,
                   borrowed>>

\* One round of the drain.  When its time is up the namespace stays DESTROYING.
DestroyDrain(m) ==
    /\ mgr[m] = "drain"
    /\ \E s \in Sandbox \cup {None}, D \in SUBSET Idle :
          /\ TakeIdle({"fresh", "near"}, s, D)
          /\ Kill({s})
          /\ mgr' = [mgr EXCEPT ![m] = IF s = None THEN "clear" ELSE @]
             \/ (s # None /\ May("drainTimeout") /\ mgr' = [mgr EXCEPT ![m] = "off"])
    /\ UNCHANGED <<lock, destroy, maxIdle, run, inflight, doomed, tick, stopper, task, acq,
                   borrowed>>

\* clear_pool_state, then mark_destroyed.
DestroyClear(m) ==
    /\ mgr[m] = "clear"
    /\ idle' = [s \in Sandbox |-> "none"]
    /\ lock' = None
    /\ maxIdle' = MaxIdle
    /\ mgr' = [mgr EXCEPT ![m] = "mark"]
    /\ UNCHANGED <<destroy, alive, run, inflight, doomed, tick, stopper, task, acq, borrowed>>

DestroyMark(m) ==
    /\ mgr[m] = "mark"
    /\ destroy' = "DESTROYED"
    /\ mgr' = [mgr EXCEPT ![m] = "off"]
    /\ UNCHANGED <<idle, lock, maxIdle, alive, run, inflight, doomed, tick, stopper, task, acq,
                   borrowed>>

\* A store call of destroy() raises.
DestroyFails(m) ==
    /\ May("outage")
    /\ mgr[m] # "off"
    /\ mgr' = [mgr EXCEPT ![m] = "off"]
    /\ UNCHANGED <<store, alive, run, inflight, doomed, tick, stopper, task, acq, borrowed>>

-----------------------------------------------------------------------------
(* What time and failures do.                                               *)

\* The tombstone outlives every destroy().
TombstoneExpires ==
    /\ May("tombstone")
    /\ destroy = "DESTROYED" /\ \A m \in Manager : mgr[m] = "off"
    /\ destroy' = "ACTIVE"
    /\ UNCHANGED <<idle, lock, maxIdle, alive, run, inflight, doomed, tick, stopper, task, acq,
                   borrowed, mgr>>

\* A holder whose heartbeat renews the lock keeps it unless Environment says
\* otherwise.
LockExpires ==
    /\ lock # None
    /\ May("expire") \/ ~(owned[lock] /\ life[lock] \in {"RUNNING", "DRAINING"})
    /\ lock' = None
    /\ UNCHANGED <<idle, destroy, maxIdle, alive, run, inflight, doomed, tick, stopper, task,
                   acq, borrowed, mgr>>

\* The server reaps a sandbox no later than its entry expires.
Age(s) ==
    /\ May("age")
    /\ \/ idle[s] = "fresh" /\ idle' = [idle EXCEPT ![s] = "near"] /\ UNCHANGED alive
       \/ idle[s] = "near" /\ idle' = [idle EXCEPT ![s] = "expired"] /\ alive' = alive \ {s}
    /\ UNCHANGED <<lock, destroy, maxIdle, run, inflight, doomed, tick, stopper, task, acq,
                   borrowed, mgr>>

\* A sandbox dies; one that nobody renews reaches its timeout.
Die(s) ==
    /\ s \in alive
    /\ May("die") \/ s \notin Tracked
    /\ alive' = alive \ {s}
    /\ UNCHANGED <<store, run, inflight, doomed, tick, stopper, task, acq, borrowed, mgr>>

\* A process dies with everything in it.
Crash(n) ==
    /\ May("crash")
    /\ life[n] # "NOT_STARTED"
    /\ life' = [life EXCEPT ![n] = "NOT_STARTED"]
    /\ owned' = [owned EXCEPT ![n] = FALSE]
    /\ accept' = [accept EXCEPT ![n] = FALSE]
    /\ installed' = [installed EXCEPT ![n] = FALSE]
    /\ inflight' = [inflight EXCEPT ![n] = 0]
    /\ doomed' = [doomed EXCEPT ![n] = {}]
    /\ tick' = [tick EXCEPT ![n] = NoTick]
    /\ stopper' = [stopper EXCEPT ![n] = NoStop]
    /\ task' = [k \in Key |-> IF k[1] = n THEN FreeTask ELSE task[k]]
    /\ acq' = [c \in Caller |-> IF Home[c] = n THEN NoAcquire ELSE acq[c]]
    /\ borrowed' = [c \in Caller |-> IF Home[c] = n THEN {} ELSE borrowed[c]]
    /\ UNCHANGED <<store, alive, gen, mgr>>

-----------------------------------------------------------------------------
Lifecycle(n) == \/ Start(n)
                \/ \E graceful \in BOOLEAN : Shutdown(n, graceful)
                \/ ShutdownDrain(n) \/ ShutdownStop(n) \/ ShutdownFinish(n)
                \/ Crash(n)

Reconcile(n) == \/ TickBegin(n) \/ TickLock(n) \/ TickPlan(n) \/ TickShrink(n)
                \/ TickSubmit(n) \/ TickFails(n) \/ TickRetire(n) \/ TickEnd(n)
                \/ HeartbeatLost(n) \/ KillDoomed(n)

Warmup(k) == \/ WarmupCreate(k) \/ LateCreate(k) \/ WarmupStage(k) \/ CanCommitWarmup(k)
             \/ WarmupPutIdle(k) \/ WarmupRecheck(k) \/ WarmupRemoveIdle(k)
             \/ WarmupCleanup(k)

Acquire(c) == \/ AcquireBegin(c) \/ AcquireEnter(c) \/ AcquireTake(c) \/ AcquireConnect(c)
              \/ AcquireFence(c) \/ AcquireFinal(c) \/ AcquireCreate(c) \/ AcquireEnd(c)

Destroy(m) == \/ DestroyDrain(m) \/ DestroyClear(m) \/ DestroyMark(m) \/ DestroyFails(m)

Next ==
    \/ \E n \in Node : Lifecycle(n) \/ Reconcile(n) \/ Resize(n) \/ ReleaseIdle(n)
    \/ \E k \in Key : Warmup(k)
    \/ \E c \in Caller : AcquireCall(c) \/ Acquire(c) \/ CallerDone(c)
    \/ \E m \in Manager : DestroyBegin(m) \/ Destroy(m)
    \/ TombstoneExpires \/ LockExpires
    \/ \E s \in Sandbox : Age(s) \/ Die(s)

Spec == Init /\ [][Next]_vars

\* Every thread that can go on does: the scheduler and the heartbeat of an
\* instance, shutdown(), the warmups and the queued kills, acquire(), destroy().
\* Their calls have timeouts.  A lock or a sandbox that nobody renews expires.
Fairness ==
    /\ \A n \in Node :
          /\ WF_vars(TickBegin(n) \/ TickLock(n) \/ TickPlan(n) \/ TickShrink(n)
                     \/ TickSubmit(n) \/ TickRetire(n) \/ TickEnd(n))
          /\ WF_vars(HeartbeatLost(n))
          /\ WF_vars(KillDoomed(n))
          /\ WF_vars(ShutdownDrain(n) \/ ShutdownStop(n) \/ ShutdownFinish(n))
    /\ \A k \in Key : WF_vars(Warmup(k))
    /\ \A c \in Caller : WF_vars(Acquire(c))
    /\ \A m \in Manager : WF_vars(DestroyDrain(m) \/ DestroyClear(m) \/ DestroyMark(m))
    /\ WF_vars(LockExpires)
    /\ \A s \in Sandbox : WF_vars(s \notin Tracked /\ Die(s))

FairSpec == Spec /\ Fairness
-----------------------------------------------------------------------------
TickPc == {"off", "lock", "plan", "shrink", "submit", "retire", "end"}
TaskPc == {"free", "create", "late", "lateKill", "stage", "commit", "put", "recheck", "remove",
           "cleanup"}
AcquirePc == {"out", "begin", "enter", "take", "connect", "fence", "final", "create", "created",
              "end"}

TickRec == [pc : TickPc, warming : Nat, max : Nat, todo : Nat, gen : Nat]
StopRec == [pc : {"none", "drain", "stop", "finish"}, gen : Nat, drained : BOOLEAN]
TaskRec == [pc : TaskPc, gen : Nat, tenure : BOOLEAN, sb : Sandbox \cup {None},
            cancelled : BOOLEAN]
AcquireRec == [pc : AcquirePc, gen : Nat, sb : Sandbox \cup {None}, pending : SUBSET Sandbox,
               attempts : Nat, policy : Policies \cup {"FAIL_FAST"}]

\* Every variable has the shape the code's fields have; in-flight operations are
\* never negative.
TypeOK ==
    /\ idle \in [Sandbox -> {"none", "fresh", "near", "expired"}]
    /\ lock \in Node \cup {None}
    /\ destroy \in {"ACTIVE", "DESTROYING", "DESTROYED"}
    /\ maxIdle \in 0..MaxIdle
    /\ alive \subseteq Sandbox
    /\ life \in [Node -> {"NOT_STARTED", "RUNNING", "DRAINING", "STOPPED"}]
    /\ gen \in [Node -> Nat]
    /\ owned \in [Node -> BOOLEAN]
    /\ accept \in [Node -> BOOLEAN]
    /\ installed \in [Node -> BOOLEAN]
    /\ inflight \in [Node -> Nat]
    /\ doomed \in [Node -> SUBSET Sandbox]
    /\ tick \in [Node -> TickRec]
    /\ stopper \in [Node -> StopRec]
    /\ task \in [Key -> TaskRec]
    /\ acq \in [Caller -> AcquireRec]
    /\ borrowed \in [Caller -> SUBSET Sandbox]
    /\ mgr \in [Manager -> {"off", "drain", "clear", "mark"}]

\* The place of each sandbox.  A warmup has a sandbox to itself until put_idle.
Warm == {s \in Sandbox : \E k \in Key : task[k].pc \in {"stage", "commit", "put"} /\ task[k].sb = s}
Taken(c) == {s \in Sandbox : s = acq[c].sb \/ s \in acq[c].pending}

Custody == INSTANCE SandboxCustody
    WITH warm <- Warm, idle <- Idle, taken <- [c \in Caller |-> Taken(c)], lent <- borrowed,
         doomed <- Doomed

\* A sandbox is in one hand at a time: warming, idle, held by one acquire, lent to
\* one caller or queued for a kill (_TAKE_IDLE_SCRIPT pops atomically, and acquire
\* hands out only what it popped or created itself).
ExclusiveCustody == Custody!Exclusive

\* The pool implements SandboxCustody: a sandbox that a caller was given never
\* returns to the buffer or to another caller, and a condemned one is never
\* handed out, across ticks, takeovers, shutdowns and retries.
CustodySpec == Custody!Spec

\* Callers whose acquire was counted.
Acquiring(n) == {c \in Caller : Home[c] = n /\ acq[c].pc \notin {"out", "begin"}}

\* _in_flight counts exactly the ticks, acquires and warmups that run, so it
\* reaches zero when and only when a graceful shutdown may go on.
InFlightExact ==
    \A n \in Node :
       inflight[n] = (IF tick[n].pc = "off" THEN 0 ELSE 1) + Cardinality(Acquiring(n)) + Warming(n)

\* A drain that was not cut short leaves nothing of its run behind: no warmup, no
\* tick, and no acquire that could still take or create a sandbox, not even one
\* that had passed the first check of shutdown()'s state.
DrainedQuiet ==
    \A n \in Node :
       stopper[n].drained /\ stopper[n].gen = gen[n] =>
          /\ Futures(n) = {}
          /\ tick[n].pc = "off"
          /\ \A c \in Caller : Home[c] = n => acq[c].pc \in {"out", "begin", "enter", "end"}

\* Once a manager has drained the buffer nothing enters it again and nobody leads
\* the namespace, until the tombstone expires: put_idle, the lock scripts and
\* set_max_idle are fenced by the destroy state inside Redis.
DestroyedEmpty ==
    /\ destroy = "DESTROYED" \/ (\E m \in Manager : mgr[m] \in {"clear", "mark"})
          => Idle = {} /\ ~Active
    /\ destroy = "DESTROYED" \/ (\E m \in Manager : mgr[m] = "mark") => lock = None

Unputs == {k \in Key : task[k].pc \in {"create", "stage", "commit", "put"}}

\* While the lock is not lost, the entries and the warmups that may still become
\* entries never exceed max_idle: a tick reads warming_count before it counts the
\* idle entries, so a commit in between is counted twice and never missed.
AdmissionBound ==
    Cardinality(Idle) + Cardinality(Unputs) <= MaxIdle

\* Every sandbox that runs is known to somebody who will hand it out or kill it.
NoOrphan == alive \subseteq Tracked

\* An instance that stays up fills the buffer to its target and keeps it full,
\* also when it has to take over from a primary that stopped or died.
BufferRefilled ==
    (<>[]Active /\ \E n \in Node : <>[](life[n] = "RUNNING"))
       => <>[](Cardinality(Idle) = maxIdle)

\* destroy() comes to its end and reaches everybody: all instances stop and no
\* warmup, entry or request has a sandbox of the namespace any more.
DestroyReachesAll ==
    destroy = "DESTROYING" ~>
       destroy = "DESTROYED" /\ Tracked = Borrowed /\ \A n \in Node : life[n] # "RUNNING"

=============================================================================
