------------------------------ MODULE IdlePause ------------------------------
(***************************************************************************)
(* Auto-pause of idle fast sandboxes: the sweepers of several lifecycle    *)
(* servers (server/opensandbox_server/integrations/idle_pause) judge one   *)
(* sandbox by the activity key that ingress replicas and the servers write *)
(* to a shared Redis, and ask FastPath to pause it.                        *)
(*                                                                         *)
(* Time is a counter of coarse units: X, TTL and the tombstone's extra     *)
(* Interval are given in them.  Every Redis command and every remote call  *)
(* of a sweep is a step of its own, so traffic, expiry, loss, a peer's     *)
(* sweep and a pause, resume or renewal of the sandbox fall between any    *)
(* two of them.  The lock's TTL (seconds) is far below a unit and races    *)
(* the calls its holder makes, so it may run out at any moment.            *)
(***************************************************************************)
EXTENDS Integers

CONSTANTS
    Replicas,     \* servers running the sweeper
    X,            \* idle_timeout_seconds of the sandbox's policy
    TTL,          \* activity_ttl_seconds
    Interval,     \* sweep_interval_seconds, added to a tombstone's TTL
    WriteDelay,   \* longest time between an observation and its write
    Policies,     \* what the sandbox's annotation may say
    HasProber,    \* gateway routing exists, so probes can be sent
    Expiries,     \* expiry times that create and renew may set
    Env,          \* "outage", "drop", "flush", "crash", "lag"
    MaxNow,       \* bound: the last moment of the clock
    MaxEvents,    \* bound: requests, user calls and faults of Env together
    None          \* no owner

\* policy.py refuses a threshold above the TTL of the observations.
ASSUME IdleAssumption ==
    /\ X \in Nat \ {0} /\ TTL \in Nat /\ X <= TTL
    /\ Interval \in Nat /\ WriteDelay \in Nat
    /\ MaxNow \in Nat /\ MaxEvents \in Nat
    /\ Expiries \subseteq Nat
    /\ Policies \subseteq {"none", "plain", "probe"}
    /\ HasProber \in BOOLEAN
    /\ None \notin Replicas

VARIABLES
    now,        \* the wall clock, shared by all
    policy,     \* the idle-policy annotation
    cr,         \* the Sandbox CR: phase, generation, expiry
    past,       \* the CR before its spec last changed, as a late informer has it
    key,        \* Redis: the activity key
    tomb,       \* Redis: the unknown-state tombstone
    lock,       \* Redis: owner of the pause lock
    sent,       \* observations on their way to Redis
    owed,       \* the record of the last create or resume: "due", "done", "lost"
    rep,        \* each sweeper's position and locals
    events,     \* requests, user calls and faults so far
    newest,     \* history: the newest observation written so far
    resumedAt   \* history: when the last create or resume happened

vars == <<now, policy, cr, past, key, tomb, lock, sent, owed, rep, events,
          newest, resumedAt>>
redis == <<key, tomb, lock>>
history == <<newest, resumedAt>>

Absent == -1
NoKey == [at |-> Absent, until |-> 0]

\* known: the newest observation written before the sweeper last looked.
\* blind: Redis lost data, or a resume's record was missing, at that look.
Resting == [pc |-> "rest", gen |-> 0, last |-> Absent, tomb |-> Absent,
            known |-> 0, blind |-> FALSE]

Init ==
    /\ now = 0
    /\ policy \in Policies
    /\ \E e \in Expiries : cr = [phase |-> "Running", gen |-> 1, expires |-> e]
    /\ past = cr
    /\ key = NoKey /\ tomb = NoKey /\ lock = None
    /\ sent = {} /\ owed = "due"
    /\ rep = [r \in Replicas |-> Resting]
    /\ events = 0 /\ newest = 0 /\ resumedAt = 0

Event == events < MaxEvents /\ events' = events + 1
Fault(kind) == kind \in Env /\ Event

\* A call that answers, or (in an outage) raises.
Reply(ok) ==
    \/ ok /\ UNCHANGED events
    \/ ~ok /\ Fault("outage")

-----------------------------------------------------------------------------
(* Redis *)

\* Mutant: a later write always replaces an earlier one, and keeps its expiry.
RecordM(t) ==
    /\ key' = [at |-> t, until |-> IF key.at = Absent THEN now + TTL ELSE key.until]
    /\ newest' = IF newest < t THEN t ELSE newest

\* The monotonic-max script: the stored time only moves forward.
Record(t) ==
    /\ key' = IF key.at < t THEN [at |-> t, until |-> now + TTL] ELSE key
    /\ newest' = IF newest < t THEN t ELSE newest
Expired(entry, time) == IF entry.until <= time THEN NoKey ELSE entry

\* The clock moves.  An observation has been written, or given up, by the
\* time WriteDelay has passed; keys whose TTL is over are gone.
Tick ==
    /\ now < MaxNow
    /\ \A t \in sent : now + 1 <= t + WriteDelay
    /\ now' = now + 1
    /\ key' = Expired(key, now') /\ tomb' = Expired(tomb, now')
    /\ UNCHANGED <<policy, cr, past, lock, sent, owed, rep, events, history>>

\* Mutant: the lock is set without a TTL.
LockExpiresM ==
    /\ FALSE
    /\ UNCHANGED vars

\* The lock's TTL runs out.
LockExpires ==
    /\ lock # None /\ lock' = None
    /\ UNCHANGED <<now, policy, cr, past, key, tomb, sent, owed, rep, events,
                   history>>

\* Redis restarts without its data: all keys go together.
Flush ==
    /\ Fault("flush")
    /\ key' = NoKey /\ tomb' = NoKey /\ lock' = None
    /\ rep' = [r \in Replicas |->
                 [rep[r] EXCEPT !.blind = rep[r].pc \notin {"rest", "release"}]]
    /\ UNCHANGED <<now, policy, cr, past, sent, owed, history>>

-----------------------------------------------------------------------------
(* Writers of observations *)

\* An ingress replica forwards a request and queues the observation.
Observe ==
    /\ cr.phase = "Running"
    /\ sent' = sent \cup {now}
    /\ Event
    /\ UNCHANGED <<now, policy, cr, past, redis, owed, rep, history>>

\* A queued observation reaches Redis, in any order ...
Write(t) ==
    /\ t \in sent /\ sent' = sent \ {t}
    /\ Record(t)
    /\ UNCHANGED <<now, policy, cr, past, tomb, lock, owed, rep, events,
                   resumedAt>>

\* ... or is dropped: full channel, shutdown, failed pipeline.
Drop(t) ==
    /\ "drop" \in Env
    /\ t \in sent /\ sent' = sent \ {t}
    /\ UNCHANGED <<now, policy, cr, past, redis, owed, rep, events, history>>

\* The loop runs the record a create or resume scheduled; the coroutine
\* reads the clock when it runs.
RecordTransition ==
    /\ owed = "due" /\ owed' = "done"
    /\ Record(now)
    /\ UNCHANGED <<now, policy, cr, past, tomb, lock, sent, rep, events,
                   resumedAt>>

\* The scheduled record fails; the error is swallowed.
LoseTransition ==
    /\ "drop" \in Env
    /\ owed = "due" /\ owed' = "lost"
    /\ UNCHANGED <<now, policy, cr, past, redis, sent, rep, events, history>>

-----------------------------------------------------------------------------
(* The sandbox: FastPath and its reconciler, and the lifecycle API *)

\* FastPath persists a pause intent and bumps the generation.
Pausing == [cr EXCEPT !.phase = "Pausing", !.gen = cr.gen + 1]

\* A user pauses the sandbox: no generation fence.
UserPause ==
    /\ cr.phase = "Running"
    /\ cr' = Pausing
    /\ past' = cr
    /\ Event
    /\ UNCHANGED <<now, policy, redis, sent, owed, rep, history>>

\* A user resumes it; the accepted call schedules an activity record.
Resume ==
    /\ cr.phase \in {"Pausing", "Paused"}
    /\ cr' = [cr EXCEPT !.phase = "Resuming", !.gen = cr.gen + 1]
    /\ owed' = "due" /\ resumedAt' = now
    /\ past' = cr
    /\ Event
    /\ UNCHANGED <<now, policy, redis, sent, rep, newest>>

\* A user renews the expiry, which also changes the CR's spec.
Renew(e) ==
    /\ cr.phase = "Running" /\ e > now
    /\ cr' = [cr EXCEPT !.expires = e, !.gen = cr.gen + 1]
    /\ past' = cr
    /\ Event
    /\ UNCHANGED <<now, policy, redis, sent, owed, rep, history>>

\* The reconciler finishes a transition, or stops an expired sandbox.
Reconcile ==
    /\ \/ cr.phase = "Pausing" /\ cr' = [cr EXCEPT !.phase = "Paused"]
       \/ cr.phase = "Resuming" /\ cr' = [cr EXCEPT !.phase = "Running"]
       \/ /\ cr.expires <= now /\ cr.phase # "Terminated"
          /\ cr' = [cr EXCEPT !.phase = "Terminated"]
    /\ UNCHANGED <<now, policy, past, redis, sent, owed, rep, events, history>>

-----------------------------------------------------------------------------
(* One sweep of a replica over the sandbox *)

Rest(r) == rep' = [rep EXCEPT ![r] = Resting]
\* The finally block: only the lock is left to do.
Leave(r) == rep' = [rep EXCEPT ![r] = [Resting EXCEPT !.pc = "release"]]

PassesStaticGates(c) ==
    /\ policy # "none"
    /\ c.phase = "Running"
    /\ c.expires > now

\* Ping Redis, list the CRs from the informer, apply the gates, and read the
\* activity key and the tombstone in one MGET.  What happens between the list
\* and the read is what the informer's copy may be behind by.
Sweep(r) ==
    /\ rep[r].pc = "rest"
    /\ \/ Reply(FALSE) /\ UNCHANGED rep
       \/ \E c \in {cr, past} :
             /\ IF c = cr THEN UNCHANGED events ELSE Fault("lag")
             /\ IF PassesStaticGates(c)
                THEN rep' = [rep EXCEPT ![r] =
                       [pc |-> "decide", gen |-> c.gen, last |-> key.at,
                        tomb |-> tomb.at, known |-> newest, blind |-> FALSE]]
                ELSE UNCHANGED rep
    /\ UNCHANGED <<now, policy, cr, past, redis, sent, owed, history>>

\* evaluate_idle: by the key's value; without a key, by the tombstone's age.
Idle(last, tombstone) ==
    LET evidence == IF last # Absent THEN last ELSE tombstone
    IN  evidence # Absent /\ now - evidence >= X

\* A leftover tombstone is cleared when the key is back; the first sight of a
\* missing key writes one (NX).  A failed clear is only logged, a failed write
\* ends the candidate; a first sight is never idle.
Decide(r) ==
    /\ rep[r].pc = "decide"
    /\ \E ok \in BOOLEAN :
          /\ Reply(ok)
          /\ ~ok => (rep[r].last = Absent <=> rep[r].tomb = Absent)
          /\ tomb' = IF ~ok THEN tomb
                     ELSE IF rep[r].last # Absent /\ rep[r].tomb # Absent
                     THEN NoKey
                     ELSE IF /\ rep[r].last = Absent /\ rep[r].tomb = Absent
                             /\ tomb.at = Absent
                     THEN [at |-> now, until |-> now + TTL + Interval]
                     ELSE tomb
    /\ IF /\ Idle(rep[r].last, rep[r].tomb)
          /\ policy = "probe" => HasProber
       THEN rep' = [rep EXCEPT ![r].pc = "lock", ![r].tomb = Absent]
       ELSE Rest(r)
    /\ UNCHANGED <<now, policy, cr, past, key, lock, sent, owed, history>>

\* SET NX of the lock.  A reply that is lost may leave the lock behind.
TryAcquire(r) ==
    /\ rep[r].pc = "lock"
    /\ \E ok \in BOOLEAN, applied \in BOOLEAN :
          /\ Reply(ok)
          /\ ok => applied
          /\ lock' = IF applied /\ lock = None THEN r ELSE lock
          /\ IF ok /\ lock = None THEN rep' = [rep EXCEPT ![r].pc = "verify"]
             ELSE Rest(r)
    /\ UNCHANGED <<now, policy, cr, past, key, tomb, sent, owed, history>>

\* The key is as it was: on to the probe, if one is declared, or to the pause.
Verified(r) ==
    [rep[r] EXCEPT
        !.pc = IF policy = "probe" /\ rep[r].pc = "verify" THEN "probe" ELSE "pause",
        !.known = IF rep[r].blind THEN rep[r].known ELSE newest,
        !.blind = rep[r].blind \/ owed # "done"]

\* Mutant: the second look accepts whatever it reads.
VerifyM(r) ==
    /\ rep[r].pc \in {"verify", "reverify"}
    /\ rep' = [rep EXCEPT ![r] = Verified(r)]
    /\ UNCHANGED <<now, policy, cr, past, redis, sent, owed, events, history>>

\* Read the key again: any difference, or an error, drops the candidate.
Verify(r) ==
    /\ rep[r].pc \in {"verify", "reverify"}
    /\ \E ok \in BOOLEAN :
          /\ Reply(ok)
          /\ IF ok /\ key.at = rep[r].last
             THEN rep' = [rep EXCEPT ![r] = Verified(r)]
             ELSE Leave(r)
    /\ UNCHANGED <<now, policy, cr, past, redis, sent, owed, history>>

\* Only "not active" goes on; "active" is an observation of its own, whose
\* write may fail; every failure of the probe drops the candidate.
Probe(r) ==
    /\ rep[r].pc = "probe"
    /\ \/ /\ rep' = [rep EXCEPT ![r].pc = "reverify"]
          /\ UNCHANGED <<key, newest, events>>
       \/ /\ Leave(r)
          /\ \/ Record(now) /\ UNCHANGED events
             \/ Fault("outage") /\ UNCHANGED <<key, newest>>
             \/ UNCHANGED <<key, newest, events>>
    /\ UNCHANGED <<now, policy, cr, past, tomb, lock, sent, owed, resumedAt>>

\* Mutant: the pause carries no generation.
IssuePauseM(r) ==
    /\ rep[r].pc = "pause"
    /\ IF cr.phase = "Running"
       THEN cr' = Pausing /\ past' = cr
       ELSE UNCHANGED <<cr, past>>
    /\ Leave(r)
    /\ UNCHANGED <<now, policy, redis, sent, owed, events, history>>

\* PauseSandbox with the candidate's generation as its fence.  A call that
\* raises may have been carried out.
IssuePause(r) ==
    /\ rep[r].pc = "pause"
    /\ \E ok \in BOOLEAN, applied \in BOOLEAN :
          /\ Reply(ok)
          /\ ok => applied
          /\ IF applied /\ cr.phase = "Running" /\ cr.gen = rep[r].gen
             THEN cr' = Pausing /\ past' = cr
             ELSE UNCHANGED <<cr, past>>
    /\ Leave(r)
    /\ UNCHANGED <<now, policy, redis, sent, owed, history>>

\* Delete the lock if it is still ours; an error leaves it to its TTL.
Release(r) ==
    /\ rep[r].pc = "release"
    /\ \E ok \in BOOLEAN :
          /\ Reply(ok)
          /\ lock' = IF ok /\ lock = r THEN None ELSE lock
    /\ Rest(r)
    /\ UNCHANGED <<now, policy, cr, past, key, tomb, sent, owed, history>>

\* The server dies; the next one starts with its first sweep.
Crash(r) ==
    /\ rep[r].pc # "rest"
    /\ Fault("crash")
    /\ Rest(r)
    /\ UNCHANGED <<now, policy, cr, past, redis, sent, owed, history>>

SweepStep(r) ==
    \/ Sweep(r) \/ Decide(r) \/ TryAcquire(r) \/ Verify(r)
    \/ Probe(r) \/ IssuePause(r) \/ Release(r)

Next ==
    \/ Tick \/ LockExpires \/ Flush \/ Observe \/ RecordTransition
    \/ LoseTransition \/ UserPause \/ Resume \/ Reconcile
    \/ \E t \in sent : Write(t) \/ Drop(t)
    \/ \E e \in Expiries : Renew(e)
    \/ \E r \in Replicas : SweepStep(r) \/ Crash(r)

Spec == Init /\ [][Next]_vars

\* The run loop sweeps again and again, informers catch up, a lock's TTL ends.
FairSpec ==
    /\ Spec
    /\ WF_vars(LockExpires)
    /\ \A r \in Replicas : WF_vars(SweepStep(r))

-----------------------------------------------------------------------------
(* Properties *)

Phases == {"Running", "Pausing", "Paused", "Resuming", "Terminated"}
CRs == [phase : Phases, gen : Nat, expires : Nat]
Times == Nat \cup {Absent}
Entries == [at : Times, until : Nat]
Sweeps == [pc : {"rest", "decide", "lock", "verify", "probe",
                 "reverify", "pause", "release"},
           gen : Nat, last : Times, tomb : Times, known : Nat, blind : BOOLEAN]

\* Every variable has its type: stored times are moments of the clock or
\* absent, as _parse_ms returns them (activity.py).
TypeOK ==
    /\ now \in Nat /\ policy \in Policies
    /\ cr \in CRs /\ past \in CRs
    /\ key \in Entries /\ tomb \in Entries /\ lock \in Replicas \cup {None}
    /\ sent \subseteq Nat /\ owed \in {"due", "done", "lost"}
    /\ rep \in [Replicas -> Sweeps]
    /\ events \in Nat /\ newest \in Nat /\ resumedAt \in Nat

\* What Redis holds: the key is the newest observation, up to the delay of the
\* writes, and outlives it by the TTL; a tombstone next to no key is no older
\* than the newest observation, unless that one is X old anyway.
RedisInv ==
    /\ newest <= now /\ resumedAt <= now
    /\ \A t \in sent : t <= now /\ now <= t + WriteDelay
    /\ key.at # Absent => /\ key.at <= newest /\ newest <= key.at + WriteDelay
                          /\ newest + TTL <= key.until
    /\ tomb.at # Absent => \/ newest <= tomb.at
                           \/ key.at # Absent
                           \/ newest + X <= now
    /\ owed = "done" => resumedAt <= newest

\* What a sweeper that read the keys may conclude from them.
ReadInv(r) ==
    rep[r].pc = "decide" =>
        /\ rep[r].last # Absent => rep[r].known <= rep[r].last + WriteDelay
        /\ rep[r].last = Absent /\ rep[r].tomb # Absent =>
              rep[r].known <= rep[r].tomb \/ rep[r].known + X <= now
        /\ rep[r].last = Absent /\ key.at = Absent /\ ~rep[r].blind =>
              newest = rep[r].known \/ newest + X <= now

\* What a sweeper that judged the sandbox idle knows until it reads again.
JudgedInv(r) ==
    rep[r].pc \in {"lock", "verify", "probe", "reverify"} =>
        /\ rep[r].known + X <= now + WriteDelay
        /\ rep[r].last # Absent => rep[r].last + X <= now
        /\ rep[r].last = Absent /\ key.at = Absent /\ ~rep[r].blind =>
              newest + X <= now + WriteDelay

\* What a sweeper about to pause knows of the last resume.
PauseInv(r) ==
    rep[r].pc = "pause" =>
        /\ rep[r].known + X <= now + WriteDelay
        /\ rep[r].gen = cr.gen /\ ~rep[r].blind => resumedAt <= rep[r].known

\* The inductive invariant: types, Redis, and every sweep in progress, whose
\* candidate is never newer than the CR.
IdleInv ==
    /\ TypeOK
    /\ RedisInv
    /\ past.gen <= cr.gen
    /\ \A r \in Replicas :
          rep[r].gen <= cr.gen /\ ReadInv(r) /\ JudgedInv(r) /\ PauseInv(r)

\* A sweeper about to call PauseSandbox has seen the sandbox idle for X: no
\* observation that was in Redis when it last read the key, and that Redis did
\* not lose during the sweep, is younger than X.  The expiry of the key, the
\* loss of all keys together, outages, peers and crashes only delay a pause
\* (decision.py: "it may delay a pause (tombstone window), never accelerate
\* one").  An observation that is written WriteDelay after it was made counts
\* as that much older once the newer ones are lost.
NeverEarly ==
    \A r \in Replicas :
        rep[r].pc = "pause" => now - rep[r].known >= X - WriteDelay

\* A create or resume restarts the idle clock (fast_sandbox/service.py, resume:
\* "a stale key or aged tombstone must not cause an immediate pause"): the
\* sweeper's pause is not accepted until X later, whatever it had judged before
\* the resume, provided the record of the resume was there when the sweeper
\* last read the key and Redis lost nothing during the sweep.
ResumeRestartsClock ==
    [][\A r \in Replicas :
          IssuePause(r) /\ cr' # cr /\ ~rep[r].blind =>
             now - resumedAt >= X - WriteDelay]_vars

\* The sweep has evidence that the sandbox is idle, or has none at all.
Overdue ==
    /\ policy = "plain" /\ cr.phase = "Running" /\ cr.expires > now
    /\ \/ key.at # Absent /\ now - key.at >= X
       \/ key.at = Absent /\ (tomb.at = Absent \/ now - tomb.at >= X)

\* An idle sandbox does not stay up: stale evidence ends in a pause and missing
\* evidence in a tombstone, even when a sweeper dies or loses its reply while
\* it holds the lock, when informers lag and when peers sweep too.
IdleIsPaused == Overdue ~> ~Overdue

=============================================================================
