---------------------------- MODULE IdlePauseProofs ----------------------------
(***************************************************************************)
(* IdleInv is inductive, and NeverEarly and ResumeRestartsClock follow     *)
(* from it, for every set of sweepers and every X, TTL, delay and bound.   *)
(***************************************************************************)
EXTENDS IdlePause, TLAPS

USE DEF Absent

\* Absent is the only stored time that is no moment of the clock.
LEMMA TimeTypes ==
    /\ \A t \in Times : t # -1 => t \in Nat
    /\ NoKey \in Entries /\ NoKey.at = -1
    /\ Resting \in Sweeps
    /\ Resting.pc = "rest" /\ Resting.gen = 0
BY DEF Times, NoKey, Entries, Resting, Sweeps

\* What the invariant says of one sweep.
SweepInv(r) == rep[r].gen <= cr.gen /\ ReadInv(r) /\ JudgedInv(r) /\ PauseInv(r)

\* A sandbox's CR, a Redis entry and a sweep are records of these fields.
LEMMA Fields ==
    /\ \A c \in CRs : c.gen \in Nat /\ c.phase \in Phases /\ c.expires \in Nat
    /\ \A e \in Entries : e.at \in Times /\ e.until \in Nat
    /\ \A s \in Sweeps : /\ s.gen \in Nat /\ s.last \in Times /\ s.tomb \in Times
                         /\ s.known \in Nat /\ s.blind \in BOOLEAN
BY DEF CRs, Entries, Sweeps

\* A created sandbox with an empty Redis satisfies the invariant.
LEMMA InitInv == Init => IdleInv
<1> SUFFICES ASSUME Init PROVE IdleInv
    OBVIOUS
<1>1. TypeOK
    BY IdleAssumption, TimeTypes DEF Init, TypeOK, CRs, Phases
<1>2. RedisInv
    BY IdleAssumption, TimeTypes DEF Init, RedisInv
<1>3. \A r \in Replicas : rep[r].pc = "rest" /\ rep[r].gen = 0
    BY TimeTypes DEF Init
<1>4. cr.gen = 1 /\ past.gen = 1
    BY DEF Init
<1>5. ASSUME NEW r \in Replicas PROVE SweepInv(r)
    <2>1. rep[r].pc = "rest" /\ rep[r].gen <= cr.gen
        BY <1>3, <1>4
    <2>2. ReadInv(r) /\ JudgedInv(r) /\ PauseInv(r)
        BY <2>1 DEF ReadInv, JudgedInv, PauseInv
    <2> QED
        BY <2>1, <2>2 DEF SweepInv
<1> QED
    BY <1>1, <1>2, <1>4, <1>5 DEF IdleInv, SweepInv

--------------------------------------------------------------------------------
(* What a step leaves alone *)

\* A sweep that does not move keeps its facts: the clock and the generation only
\* grow, a resume brings a new generation, and a key that goes, goes X after the
\* newest observation.
LEMMA SweepKept ==
    ASSUME IdleInv, TypeOK', NEW q \in Replicas, rep'[q] = rep[q],
           now <= now', cr.gen <= cr'.gen,
           resumedAt' = resumedAt \/ cr.gen < cr'.gen,
           \/ key'.at # Absent
           \/ key.at = Absent /\ newest' = newest
           \/ newest' + X <= now'
    PROVE  SweepInv(q)'
<1>1. /\ now \in Nat /\ now' \in Nat /\ newest \in Nat /\ newest' \in Nat
      /\ X \in Nat /\ WriteDelay \in Nat /\ resumedAt \in Nat
      /\ cr.gen \in Nat /\ cr'.gen \in Nat
      /\ rep[q].gen \in Nat /\ rep[q].known \in Nat
      /\ rep[q].last \in Times /\ rep[q].tomb \in Times
      /\ rep[q].blind \in BOOLEAN /\ key.at \in Times
    BY IdleAssumption, Fields DEF IdleInv, TypeOK
<1>2. rep[q].gen <= cr.gen /\ ReadInv(q) /\ JudgedInv(q) /\ PauseInv(q)
    BY DEF IdleInv
<1>3. rep'[q].gen <= cr'.gen
    BY <1>1, <1>2
<1>4. ReadInv(q)'
    BY <1>1, <1>2 DEF ReadInv, Times
<1>5. JudgedInv(q)'
    BY <1>1, <1>2 DEF JudgedInv, Times
<1>6. PauseInv(q)'
    BY <1>1, <1>2 DEF PauseInv
<1> QED
    BY <1>3, <1>4, <1>5, <1>6 DEF SweepInv

\* The parts of the invariant after a step.
LEMMA Parts ==
    ASSUME TypeOK', RedisInv', (past.gen <= cr.gen)',
           \A q \in Replicas : SweepInv(q)'
    PROVE  IdleInv'
BY DEF IdleInv, SweepInv

\* A write of an observation no older than the delay keeps what Redis promises.
LEMMA RecordKeeps ==
    ASSUME IdleInv, NEW t \in Nat, t <= now, now <= t + WriteDelay, Record(t),
           now' = now
    PROVE  /\ key' \in Entries /\ newest' \in Nat
           /\ key'.at # Absent /\ key'.at <= newest'
           /\ newest' <= key'.at + WriteDelay
           /\ newest' + TTL <= key'.until
           /\ newest <= newest' /\ t <= newest' /\ newest' <= now
<1>1. /\ now \in Nat /\ newest \in Nat /\ key \in Entries /\ key.at \in Times
      /\ key.until \in Nat /\ WriteDelay \in Nat /\ TTL \in Nat
      /\ newest <= now
    BY IdleAssumption, Fields DEF IdleInv, TypeOK, RedisInv
<1>2. CASE key.at < t
    <2>1. key' = [at |-> t, until |-> now + TTL]
        BY <1>2 DEF Record
    <2>2. key' \in Entries /\ key'.at = t /\ key'.until = now + TTL
        BY <2>1, <1>1 DEF Entries, Times
    <2> QED
        BY <2>2, <1>1 DEF Record
<1>3. CASE ~(key.at < t)
    <2>1. key' = key /\ key.at # Absent /\ t <= key.at
        BY <1>3, <1>1 DEF Record, Times
    <2>2. /\ key.at <= newest /\ newest <= key.at + WriteDelay
          /\ newest + TTL <= key.until
        BY <2>1 DEF IdleInv, RedisInv
    <2> QED
        BY <2>1, <2>2, <1>1 DEF Record, Times
<1> QED
    BY <1>2, <1>3

--------------------------------------------------------------------------------
(* Steps of the environment *)

\* The facts about the current state that most steps start from.
LEMMA Facts ==
    ASSUME IdleInv
    PROVE  /\ now \in Nat /\ newest \in Nat /\ resumedAt \in Nat /\ sent \subseteq Nat
           /\ cr \in CRs /\ past \in CRs /\ cr.gen \in Nat /\ past.gen \in Nat
           /\ key \in Entries /\ key.at \in Times /\ key.until \in Nat
           /\ tomb \in Entries /\ tomb.at \in Times /\ tomb.until \in Nat
           /\ X \in Nat /\ X > 0 /\ TTL \in Nat /\ X <= TTL /\ Interval \in Nat
           /\ WriteDelay \in Nat /\ events \in Nat
           /\ rep \in [Replicas -> Sweeps]
           /\ past.gen <= cr.gen /\ RedisInv /\ TypeOK
BY IdleAssumption, Fields DEF IdleInv, TypeOK

\* What Redis promises survives a step that touches neither its keys, nor the
\* clock, nor the histories, and queues at most an observation of now.
LEMMA RedisKept ==
    ASSUME IdleInv, now' = now, newest' = newest, resumedAt' = resumedAt,
           key' = key, tomb' = tomb, sent' \subseteq sent \cup {now},
           owed' = "done" => owed = "done"
    PROVE  RedisInv'
BY Facts DEF RedisInv

\* The clock moves and keys run out: a key that goes leaves the newest
\* observation X behind.
LEMMA TickKeeps == ASSUME IdleInv, Tick PROVE IdleInv'
<1>1. /\ now' = now + 1 /\ key' = Expired(key, now + 1) /\ tomb' = Expired(tomb, now + 1)
      /\ cr' = cr /\ past' = past /\ rep' = rep /\ newest' = newest
      /\ resumedAt' = resumedAt /\ sent' = sent /\ owed' = owed
      /\ policy' = policy /\ lock' = lock /\ events' = events
    BY DEF Tick, history
<1>2. TypeOK'
    BY <1>1, Facts, TimeTypes DEF TypeOK, Expired
<1>3. key'.at = Absent => key.at = Absent \/ newest + X <= now'
    BY <1>1, Facts DEF Expired, RedisInv
<1>4. key'.at # Absent => key' = key
    BY <1>1, TimeTypes DEF Expired
<1>5. tomb'.at # Absent => tomb' = tomb
    BY <1>1, TimeTypes DEF Expired
<1>6. \A t \in sent : now' <= t + WriteDelay
    BY <1>1 DEF Tick
<1>7. RedisInv'
    BY <1>1, <1>3, <1>4, <1>5, <1>6, Facts DEF RedisInv
<1>8. \A q \in Replicas : SweepInv(q)'
    BY <1>1, <1>2, <1>3, SweepKept, Facts
<1> QED
    BY <1>1, <1>2, <1>7, <1>8, Parts, Facts

\* The end of a lock's TTL changes nothing the invariant is about.
LEMMA LockExpiresKeeps == ASSUME IdleInv, LockExpires PROVE IdleInv'
<1>1. /\ now' = now /\ key' = key /\ tomb' = tomb /\ cr' = cr /\ past' = past
      /\ rep' = rep /\ newest' = newest /\ resumedAt' = resumedAt /\ sent' = sent
      /\ owed' = owed /\ policy' = policy /\ lock' = None /\ events' = events
    BY DEF LockExpires, history
<1>2. TypeOK'
    BY <1>1, Facts DEF TypeOK
<1>3. \A q \in Replicas : SweepInv(q)'
    BY <1>1, <1>2, SweepKept, Facts
<1> QED
    BY <1>1, <1>2, <1>3, RedisKept, Parts, Facts

\* A flush leaves no tombstone to fake idleness, and blinds the sweeps that run.
LEMMA FlushKeeps == ASSUME IdleInv, Flush PROVE IdleInv'
<1>1. /\ now' = now /\ key' = NoKey /\ tomb' = NoKey /\ cr' = cr /\ past' = past
      /\ newest' = newest /\ resumedAt' = resumedAt /\ sent' = sent
      /\ owed' = owed /\ policy' = policy /\ lock' = None /\ events' \in Nat
    BY Facts DEF Flush, history, Fault, Event
<1>2. rep' = [r \in Replicas |->
                [rep[r] EXCEPT !.blind = rep[r].pc \notin {"rest", "release"}]]
    BY DEF Flush
<1>3. rep' \in [Replicas -> Sweeps]
    BY <1>2, Facts, ZenonT(60) DEF Sweeps
<1>4. TypeOK'
    BY <1>1, <1>3, Facts, TimeTypes DEF TypeOK
<1>5. RedisInv'
    BY <1>1, Facts, TimeTypes DEF RedisInv
<1>6. ASSUME NEW q \in Replicas PROVE SweepInv(q)'
    <2>1. /\ rep'[q].pc = rep[q].pc /\ rep'[q].gen = rep[q].gen
          /\ rep'[q].last = rep[q].last /\ rep'[q].tomb = rep[q].tomb
          /\ rep'[q].known = rep[q].known
          /\ rep'[q].pc \notin {"rest", "release"} => rep'[q].blind = TRUE
        BY <1>2, Facts, ZenonT(60) DEF Sweeps
    <2>2. rep[q].gen <= cr.gen /\ ReadInv(q) /\ JudgedInv(q) /\ PauseInv(q)
        BY DEF IdleInv
    <2> QED
        BY <1>1, <2>1, <2>2 DEF SweepInv, ReadInv, JudgedInv, PauseInv
<1> QED
    BY <1>1, <1>4, <1>5, <1>6, Parts, Facts

\* A queued observation is as old as the clock.
LEMMA ObserveKeeps == ASSUME IdleInv, Observe PROVE IdleInv'
<1>1. /\ now' = now /\ key' = key /\ tomb' = tomb /\ cr' = cr /\ past' = past
      /\ rep' = rep /\ newest' = newest /\ resumedAt' = resumedAt
      /\ sent' = sent \cup {now}
      /\ owed' = owed /\ policy' = policy /\ lock' = lock /\ events' \in Nat
    BY Facts DEF Observe, history, redis, Event
<1>2. TypeOK'
    BY <1>1, Facts DEF TypeOK
<1>3. \A q \in Replicas : SweepInv(q)'
    BY <1>1, <1>2, SweepKept, Facts
<1> QED
    BY <1>1, <1>2, <1>3, RedisKept, Parts, Facts

\* A dropped observation was never written.
LEMMA DropKeeps == ASSUME IdleInv, NEW t \in sent, Drop(t) PROVE IdleInv'
<1>1. /\ now' = now /\ key' = key /\ tomb' = tomb /\ cr' = cr /\ past' = past
      /\ rep' = rep /\ newest' = newest /\ resumedAt' = resumedAt
      /\ sent' = sent \ {t}
      /\ owed' = owed /\ policy' = policy /\ lock' = lock /\ events' = events
    BY DEF Drop, history, redis
<1>2. TypeOK'
    BY <1>1, Facts DEF TypeOK
<1>3. \A q \in Replicas : SweepInv(q)'
    BY <1>1, <1>2, SweepKept, Facts
<1> QED
    BY <1>1, <1>2, <1>3, RedisKept, Parts, Facts

\* A lost record leaves the resume without one.
LEMMA LoseTransitionKeeps == ASSUME IdleInv, LoseTransition PROVE IdleInv'
<1>1. /\ now' = now /\ key' = key /\ tomb' = tomb /\ cr' = cr /\ past' = past
      /\ rep' = rep /\ newest' = newest /\ resumedAt' = resumedAt /\ sent' = sent
      /\ owed' = "lost" /\ policy' = policy /\ lock' = lock /\ events' = events
    BY DEF LoseTransition, history, redis
<1>2. TypeOK'
    BY <1>1, Facts DEF TypeOK
<1>3. \A q \in Replicas : SweepInv(q)'
    BY <1>1, <1>2, SweepKept, Facts
<1> QED
    BY <1>1, <1>2, <1>3, RedisKept, Parts, Facts

\* A late observation reaches Redis.
LEMMA WriteKeeps == ASSUME IdleInv, NEW t \in sent, Write(t) PROVE IdleInv'
<1>1. /\ now' = now /\ tomb' = tomb /\ cr' = cr /\ past' = past /\ rep' = rep
      /\ resumedAt' = resumedAt /\ sent' = sent \ {t} /\ Record(t)
      /\ owed' = owed /\ policy' = policy /\ lock' = lock /\ events' = events
    BY DEF Write
<1>2. t \in Nat /\ t <= now /\ now <= t + WriteDelay
    BY Facts DEF RedisInv
<1>3. /\ key' \in Entries /\ newest' \in Nat
      /\ key'.at # Absent /\ key'.at <= newest'
      /\ newest' <= key'.at + WriteDelay /\ newest' + TTL <= key'.until
      /\ newest <= newest' /\ newest' <= now
    BY <1>1, <1>2, RecordKeeps
<1>4. TypeOK'
    BY <1>1, <1>3, Facts DEF TypeOK
<1>5. RedisInv'
    BY <1>1, <1>3, Facts DEF RedisInv
<1>6. \A q \in Replicas : SweepInv(q)'
    BY <1>1, <1>3, <1>4, SweepKept, Facts
<1> QED
    BY <1>1, <1>4, <1>5, <1>6, Parts, Facts

\* The record of a create or resume is written.
LEMMA RecordTransitionKeeps == ASSUME IdleInv, RecordTransition PROVE IdleInv'
<1>1. /\ now' = now /\ tomb' = tomb /\ cr' = cr /\ past' = past /\ rep' = rep
      /\ resumedAt' = resumedAt /\ sent' = sent /\ Record(now)
      /\ owed' = "done" /\ policy' = policy /\ lock' = lock /\ events' = events
    BY DEF RecordTransition
<1>2. /\ key' \in Entries /\ newest' \in Nat
      /\ key'.at # Absent /\ key'.at <= newest'
      /\ newest' <= key'.at + WriteDelay /\ newest' + TTL <= key'.until
      /\ newest <= newest' /\ now <= newest' /\ newest' <= now
    BY <1>1, RecordKeeps, Facts
<1>3. TypeOK'
    BY <1>1, <1>2, Facts DEF TypeOK
<1>4. RedisInv'
    BY <1>1, <1>2, Facts DEF RedisInv
<1>5. \A q \in Replicas : SweepInv(q)'
    BY <1>1, <1>2, <1>3, SweepKept, Facts
<1> QED
    BY <1>1, <1>3, <1>4, <1>5, Parts, Facts

\* A change of the CR that leaves Redis and the sweeps alone.
LEMMA ChangeKeeps ==
    ASSUME IdleInv, cr' \in CRs, past' \in CRs, past'.gen <= cr'.gen,
           cr.gen <= cr'.gen, resumedAt' = resumedAt \/ cr.gen < cr'.gen,
           resumedAt' \in {resumedAt, now}, owed' \in {"due", "done", "lost"},
           owed' = "done" => owed = "done" /\ resumedAt' = resumedAt,
           UNCHANGED <<now, policy, key, tomb, lock, sent, rep, newest>>,
           events' \in Nat
    PROVE  IdleInv'
<1>1. /\ now' = now /\ key' = key /\ tomb' = tomb /\ rep' = rep /\ sent' = sent
      /\ newest' = newest /\ policy' = policy /\ lock' = lock
    OBVIOUS
<1>2. TypeOK'
    BY <1>1, Facts DEF TypeOK
<1>3. RedisInv'
    BY <1>1, Facts DEF RedisInv
<1>4. \A q \in Replicas : SweepInv(q)'
    BY <1>1, <1>2, SweepKept, Facts
<1> QED
    BY <1>2, <1>3, <1>4, Parts

\* A pause intent is a CR of the next generation.
LEMMA PausingType ==
    ASSUME IdleInv
    PROVE  Pausing \in CRs /\ Pausing.gen = cr.gen + 1
<1> DEFINE g == cr.gen + 1
<1>1. g \in Nat
    BY Facts
<1>2. Pausing = [cr EXCEPT !.phase = "Pausing", !.gen = g]
    BY DEF Pausing
<1> HIDE DEF g
<1>3. Pausing \in CRs /\ Pausing.gen = g
    BY <1>1, <1>2, Facts, ZenonT(60) DEF CRs, Phases
<1> QED
    BY <1>3 DEF g

\* A user's pause brings a new generation.
LEMMA UserPauseKeeps == ASSUME IdleInv, UserPause PROVE IdleInv'
<1>1. /\ cr' = Pausing /\ past' = cr /\ events' \in Nat
      /\ resumedAt' = resumedAt /\ owed' = owed
      /\ UNCHANGED <<now, policy, key, tomb, lock, sent, rep, newest>>
    BY Facts DEF UserPause, Event, redis, history
<1> QED
    BY <1>1, PausingType, ChangeKeeps, Facts DEF TypeOK

\* A resume brings a new generation, so no sweep in progress can pause.
LEMMA ResumeKeeps == ASSUME IdleInv, Resume PROVE IdleInv'
<1>1. /\ past' = cr /\ events' \in Nat /\ resumedAt' = now /\ owed' = "due"
      /\ UNCHANGED <<now, policy, key, tomb, lock, sent, rep, newest>>
    BY Facts DEF Resume, Event, redis
<1> DEFINE g == cr.gen + 1
<1>2. g \in Nat /\ g > cr.gen
    BY Facts
<1>3. cr' = [cr EXCEPT !.phase = "Resuming", !.gen = g]
    BY DEF Resume
<1> HIDE DEF g
<1>4. cr' \in CRs /\ cr'.gen = g
    BY <1>2, <1>3, Facts, ZenonT(60) DEF CRs, Phases
<1> QED
    BY <1>1, <1>2, <1>4, ChangeKeeps, Facts

\* A renewal brings a new generation.
LEMMA RenewKeeps == ASSUME IdleInv, NEW e \in Expiries, Renew(e) PROVE IdleInv'
<1>1. /\ past' = cr /\ events' \in Nat /\ resumedAt' = resumedAt /\ owed' = owed
      /\ UNCHANGED <<now, policy, key, tomb, lock, sent, rep, newest>>
    BY Facts DEF Renew, Event, redis, history
<1> DEFINE g == cr.gen + 1
<1>2. g \in Nat /\ g > cr.gen /\ e \in Nat
    BY Facts, IdleAssumption
<1>3. cr' = [cr EXCEPT !.expires = e, !.gen = g]
    BY DEF Renew
<1> HIDE DEF g
<1>4. cr' \in CRs /\ cr'.gen = g
    BY <1>2, <1>3, Facts, ZenonT(60) DEF CRs, Phases
<1> QED
    BY <1>1, <1>2, <1>4, ChangeKeeps, Facts DEF TypeOK

\* The reconciler changes the phase only.
LEMMA ReconcileKeeps == ASSUME IdleInv, Reconcile PROVE IdleInv'
<1>1. /\ past' = past /\ events' = events /\ resumedAt' = resumedAt /\ owed' = owed
      /\ UNCHANGED <<now, policy, key, tomb, lock, sent, rep, newest>>
    BY DEF Reconcile, redis, history
<1>2. cr' \in CRs /\ cr'.gen = cr.gen
    BY Facts DEF Reconcile, CRs, Phases
<1> QED
    BY <1>1, <1>2, ChangeKeeps, Facts DEF TypeOK

--------------------------------------------------------------------------------
(* Steps of a sweeper *)

\* One sweep moves, the others stay.
LEMMA Moved ==
    ASSUME IdleInv, NEW r \in Replicas, NEW s \in Sweeps, rep' = [rep EXCEPT ![r] = s]
    PROVE  /\ rep' \in [Replicas -> Sweeps] /\ rep'[r] = s
           /\ \A q \in Replicas \ {r} : rep'[q] = rep[q]
BY Facts

\* A call that answers or raises counts at most one event.
LEMMA ReplyEvents ==
    ASSUME IdleInv, NEW ok \in BOOLEAN, Reply(ok) PROVE events' \in Nat
BY Facts DEF Reply, Fault, Event

\* A sweep that is over has nothing left to keep.
LEMMA Ended ==
    ASSUME IdleInv, TypeOK', NEW r \in Replicas,
           rep'[r] \in {Resting, [Resting EXCEPT !.pc = "release"]}
    PROVE  SweepInv(r)'
<1>1. rep'[r].pc \in {"rest", "release"} /\ rep'[r].gen = 0
    BY DEF Resting
<1>2. cr'.gen \in Nat
    BY Fields DEF TypeOK
<1>3. (rep[r].gen <= cr.gen)'
    BY <1>1, <1>2
<1>4. ReadInv(r)' /\ JudgedInv(r)' /\ PauseInv(r)'
    BY <1>1 DEF ReadInv, JudgedInv, PauseInv
<1> QED
    BY <1>3, <1>4 DEF SweepInv

\* The end of a sweep is a move of its own.
LEMMA EndMoves ==
    ASSUME IdleInv, NEW r \in Replicas, Rest(r) \/ Leave(r)
    PROVE  /\ rep' \in [Replicas -> Sweeps]
           /\ rep'[r] \in {Resting, [Resting EXCEPT !.pc = "release"]}
           /\ \A q \in Replicas \ {r} : rep'[q] = rep[q]
<1>1. Resting \in Sweeps /\ [Resting EXCEPT !.pc = "release"] \in Sweeps
    BY ZenonT(60) DEF Resting, Sweeps, Times
<1> QED
    BY <1>1, Moved DEF Rest, Leave

\* A step of one sweeper that leaves the clock, the key and the CR alone.
LEMMA StepKeeps ==
    ASSUME IdleInv, NEW r \in Replicas, rep' \in [Replicas -> Sweeps],
           \A q \in Replicas \ {r} : rep'[q] = rep[q],
           TypeOK' => SweepInv(r)',
           UNCHANGED <<now, policy, cr, past, key, sent, owed, newest, resumedAt>>,
           tomb' \in Entries, lock' \in Replicas \cup {None}, events' \in Nat,
           tomb'.at # Absent => tomb' = tomb \/ tomb'.at = now
    PROVE  IdleInv'
<1>1. /\ now' = now /\ policy' = policy /\ cr' = cr /\ past' = past /\ key' = key
      /\ sent' = sent /\ owed' = owed /\ newest' = newest /\ resumedAt' = resumedAt
    OBVIOUS
<1>2. TypeOK'
    BY <1>1, Facts DEF TypeOK
<1>3. RedisInv'
    BY <1>1, Facts DEF RedisInv
<1>4. ASSUME NEW q \in Replicas, q # r PROVE SweepInv(q)'
    <2>1. rep'[q] = rep[q]
        BY <1>4
    <2> QED
        BY <1>1, <1>2, <2>1, SweepKept, Facts
<1>5. \A q \in Replicas : SweepInv(q)'
    BY <1>2, <1>4
<1> QED
    BY <1>1, <1>2, <1>3, <1>5, Parts, Facts

\* A sweep starts from what Redis holds.
LEMMA SweepKeeps == ASSUME IdleInv, NEW r \in Replicas, Sweep(r) PROVE IdleInv'
<1>1. UNCHANGED <<now, policy, cr, past, key, tomb, lock, sent, owed, newest, resumedAt>>
    BY DEF Sweep, redis, history
<1>2. CASE UNCHANGED rep /\ events' \in Nat
    <2>1. TypeOK' => SweepInv(r)'
        BY <1>1, <1>2, SweepKept, Facts
    <2> QED
        BY <1>1, <1>2, <2>1, StepKeeps, Facts DEF TypeOK
<1>3. ASSUME NEW c \in {cr, past}, events' \in Nat,
             rep' = [rep EXCEPT ![r] =
                [pc |-> "decide", gen |-> c.gen, last |-> key.at,
                 tomb |-> tomb.at, known |-> newest, blind |-> FALSE]]
      PROVE  IdleInv'
    <2> DEFINE s == [pc |-> "decide", gen |-> c.gen, last |-> key.at,
                     tomb |-> tomb.at, known |-> newest, blind |-> FALSE]
    <2>1. s \in Sweeps /\ c.gen <= cr.gen /\ c.gen \in Nat
        BY Facts DEF Sweeps
    <2>2. /\ rep' \in [Replicas -> Sweeps] /\ rep'[r] = s
          /\ \A q \in Replicas \ {r} : rep'[q] = rep[q]
        BY <1>3, <2>1, Moved, ZenonT(60)
    <2>3. /\ rep'[r].pc = "decide" /\ rep'[r].gen = c.gen /\ rep'[r].last = key.at
          /\ rep'[r].tomb = tomb.at /\ rep'[r].known = newest
        BY <2>2
    <2>4. ReadInv(r)'
        BY <1>1, <2>3, Facts DEF ReadInv, RedisInv
    <2>5. JudgedInv(r)' /\ PauseInv(r)'
        BY <2>3 DEF JudgedInv, PauseInv
    <2>6. SweepInv(r)'
        BY <1>1, <2>1, <2>3, <2>4, <2>5 DEF SweepInv
    <2> QED
        BY <1>1, <1>3, <2>2, <2>6, StepKeeps, Facts, ZenonT(60) DEF TypeOK
<1>4. CASE Reply(FALSE) /\ UNCHANGED rep
    BY <1>2, <1>4, ReplyEvents, ZenonT(60)
<1>5. ASSUME NEW c \in {cr, past},
             IF c = cr THEN UNCHANGED events ELSE Fault("lag"),
             IF PassesStaticGates(c)
             THEN rep' = [rep EXCEPT ![r] =
                [pc |-> "decide", gen |-> c.gen, last |-> key.at,
                 tomb |-> tomb.at, known |-> newest, blind |-> FALSE]]
             ELSE UNCHANGED rep
      PROVE  IdleInv'
    <2>1. events' \in Nat
        BY <1>5, Facts DEF Fault, Event
    <2> QED
        BY <1>2, <1>3, <1>5, <2>1
<1> QED
    BY <1>4, <1>5, ZenonT(60) DEF Sweep

\* A sandbox judged idle has been silent for X, by the key or by the tombstone.
LEMMA DecideKeeps == ASSUME IdleInv, NEW r \in Replicas, Decide(r) PROVE IdleInv'
<1>1. /\ UNCHANGED <<now, policy, cr, past, key, sent, owed, newest, resumedAt>>
      /\ lock' \in Replicas \cup {None} /\ rep[r].pc = "decide"
    BY Facts DEF Decide, history, TypeOK
<1>2. events' \in Nat
    BY ReplyEvents DEF Decide
<1>3. tomb' \in {tomb, NoKey, [at |-> now, until |-> now + TTL + Interval]}
    BY DEF Decide
<1>4. tomb' \in Entries /\ (tomb'.at # Absent => tomb' = tomb \/ tomb'.at = now)
    BY <1>3, TimeTypes, Facts DEF Entries, Times
<1>5. CASE Rest(r)
    BY <1>1, <1>2, <1>4, <1>5, EndMoves, Ended, StepKeeps
<1>6. CASE /\ Idle(rep[r].last, rep[r].tomb)
           /\ rep' = [rep EXCEPT ![r].pc = "lock", ![r].tomb = Absent]
    <2> DEFINE s == [rep[r] EXCEPT !.pc = "lock", !.tomb = Absent]
    <2>1. s \in Sweeps
        BY Facts, ZenonT(60) DEF Sweeps, Times
    <2>2. rep' = [rep EXCEPT ![r] = s]
        BY <1>6, ZenonT(60)
    <2>3. /\ rep' \in [Replicas -> Sweeps] /\ rep'[r] = s
          /\ \A q \in Replicas \ {r} : rep'[q] = rep[q]
        BY <2>1, <2>2, Moved, ZenonT(60)
    <2>4. /\ rep'[r].pc = "lock" /\ rep'[r].gen = rep[r].gen
          /\ rep'[r].last = rep[r].last /\ rep'[r].known = rep[r].known
          /\ rep'[r].blind = rep[r].blind
        BY <2>3, Facts DEF Sweeps
    <2>5. /\ rep[r].last \in Times /\ rep[r].tomb \in Times /\ rep[r].known \in Nat
          /\ rep[r].gen <= cr.gen /\ ReadInv(r)
        BY Facts, Fields DEF IdleInv
    <2>6. JudgedInv(r)'
        <3>1. CASE rep[r].last # Absent
            BY <3>1, <1>1, <1>6, <2>4, <2>5, Facts DEF ReadInv, JudgedInv, Idle, Times
        <3>2. CASE rep[r].last = Absent
            <4>1. /\ rep[r].tomb \in Nat /\ rep[r].tomb + X <= now
                  /\ rep[r].known <= rep[r].tomb \/ rep[r].known + X <= now
                BY <3>2, <1>1, <1>6, <2>5, Facts DEF ReadInv, Idle, Times
            <4> QED
                BY <3>2, <4>1, <1>1, <2>4, <2>5, Facts DEF ReadInv, JudgedInv
        <3> QED
            BY <3>1, <3>2
    <2>7. ReadInv(r)' /\ PauseInv(r)'
        BY <2>4 DEF ReadInv, PauseInv
    <2>8. SweepInv(r)'
        BY <1>1, <2>4, <2>5, <2>6, <2>7 DEF SweepInv
    <2> QED
        BY <1>1, <1>2, <1>4, <2>3, <2>8, StepKeeps
<1> QED
    BY <1>5, <1>6 DEF Decide

\* The lock adds no knowledge.
LEMMA TryAcquireKeeps ==
    ASSUME IdleInv, NEW r \in Replicas, TryAcquire(r) PROVE IdleInv'
<1>1. /\ UNCHANGED <<now, policy, cr, past, key, tomb, sent, owed, newest, resumedAt>>
      /\ lock' \in Replicas \cup {None} /\ rep[r].pc = "lock"
    BY Facts DEF TryAcquire, history, TypeOK
<1>2. events' \in Nat
    BY ReplyEvents DEF TryAcquire
<1>3. CASE Rest(r)
    BY <1>1, <1>2, <1>3, EndMoves, Ended, StepKeeps, Facts
<1>4. CASE rep' = [rep EXCEPT ![r].pc = "verify"]
    <2> DEFINE s == [rep[r] EXCEPT !.pc = "verify"]
    <2>1. s \in Sweeps
        BY Facts DEF Sweeps
    <2>2. /\ rep' \in [Replicas -> Sweeps] /\ rep'[r] = s
          /\ \A q \in Replicas \ {r} : rep'[q] = rep[q]
        BY <1>4, <2>1, Moved, ZenonT(60)
    <2>3. /\ rep'[r].pc = "verify" /\ rep'[r].gen = rep[r].gen
          /\ rep'[r].last = rep[r].last /\ rep'[r].known = rep[r].known
          /\ rep'[r].blind = rep[r].blind
        BY <2>2, Facts DEF Sweeps
    <2>4. rep[r].gen <= cr.gen /\ JudgedInv(r)
        BY DEF IdleInv
    <2>5. JudgedInv(r)' /\ ReadInv(r)' /\ PauseInv(r)'
        BY <1>1, <2>3, <2>4, ZenonT(60) DEF JudgedInv, ReadInv, PauseInv
    <2>6. SweepInv(r)'
        BY <1>1, <2>3, <2>4, <2>5 DEF SweepInv
    <2> QED
        BY <1>1, <1>2, <2>2, <2>6, StepKeeps, Facts
<1> QED
    BY <1>3, <1>4 DEF TryAcquire

\* A second look that finds the same value extends the knowledge to now.
LEMMA VerifyKeeps == ASSUME IdleInv, NEW r \in Replicas, Verify(r) PROVE IdleInv'
<1>1. /\ UNCHANGED <<now, policy, cr, past, key, tomb, lock, sent, owed, newest, resumedAt>>
      /\ lock' \in Replicas \cup {None} /\ rep[r].pc \in {"verify", "reverify"}
    BY Facts DEF Verify, redis, history, TypeOK
<1>2. events' \in Nat
    BY ReplyEvents DEF Verify
<1>3. CASE Leave(r)
    BY <1>1, <1>2, <1>3, EndMoves, Ended, StepKeeps, Facts
<1> DEFINE s == Verified(r)
<1>4. CASE key.at = rep[r].last /\ rep' = [rep EXCEPT ![r] = s]
    <2>1. /\ rep[r].last \in Times /\ rep[r].known \in Nat /\ rep[r].blind \in BOOLEAN
          /\ rep[r].gen <= cr.gen /\ JudgedInv(r)
        BY Facts, Fields DEF IdleInv
    <2>2. s \in Sweeps
        BY Facts, <2>1, ZenonT(60) DEF Sweeps, Verified
    <2>3. /\ rep' \in [Replicas -> Sweeps] /\ rep'[r] = s
          /\ \A q \in Replicas \ {r} : rep'[q] = rep[q]
        BY <1>4, <2>2, Moved, ZenonT(60)
    <2>4. /\ s.pc \in {"probe", "pause"} /\ s.gen = rep[r].gen /\ s.last = rep[r].last
          /\ rep[r].blind => s.known = rep[r].known /\ s.blind
          /\ ~rep[r].blind => s.known = newest /\ (~s.blind => owed = "done")
        BY Facts, <2>1, ZenonT(60) DEF Sweeps, Verified
    <2> HIDE DEF s
    <2>5. rep[r].known + X <= now + WriteDelay
        BY <1>1, <2>1 DEF JudgedInv
    <2>6. ~rep[r].blind => newest + X <= now + WriteDelay
        <3>1. CASE rep[r].last = Absent
            BY <3>1, <1>1, <1>4, <2>1 DEF JudgedInv
        <3>2. CASE rep[r].last # Absent
            BY <3>2, <1>1, <1>4, <2>1, Facts DEF JudgedInv, RedisInv, Times
        <3> QED
            BY <3>1, <3>2
    <2>7. s.known + X <= now + WriteDelay
        BY <2>4, <2>5, <2>6
    <2>8. ~s.blind => resumedAt <= s.known
        BY <2>4, Facts DEF RedisInv
    <2>9. s.last # Absent => s.last + X <= now
        BY <1>1, <2>1, <2>4 DEF JudgedInv
    <2>10. s.last = Absent /\ key.at = Absent /\ ~s.blind => newest + X <= now + WriteDelay
        BY <2>4, <2>6
    <2>11. JudgedInv(r)' /\ PauseInv(r)' /\ ReadInv(r)'
        BY <1>1, <2>3, <2>4, <2>7, <2>8, <2>9, <2>10, SMTT(60) DEF JudgedInv, PauseInv, ReadInv
    <2>12. SweepInv(r)'
        BY <1>1, <2>1, <2>3, <2>4, <2>11 DEF SweepInv
    <2> QED
        BY <1>1, <1>2, <2>3, <2>12, StepKeeps, Facts
<1>5. Leave(r) \/ (key.at = rep[r].last /\ rep' = [rep EXCEPT ![r] = s])
    BY Zenon DEF Verify
<1> QED
    BY <1>3, <1>4, <1>5

\* The release ends the sweep.
LEMMA ReleaseKeeps == ASSUME IdleInv, NEW r \in Replicas, Release(r) PROVE IdleInv'
<1>1. /\ UNCHANGED <<now, policy, cr, past, key, tomb, sent, owed, newest, resumedAt>>
      /\ lock' \in Replicas \cup {None} /\ Rest(r)
    BY Facts, ZenonT(60) DEF Release, history, TypeOK
<1>2. events' \in Nat
    BY ReplyEvents, ZenonT(60) DEF Release
<1> QED
    BY <1>1, <1>2, EndMoves, Ended, StepKeeps, Facts

\* A crash ends the sweep.
LEMMA CrashKeeps == ASSUME IdleInv, NEW r \in Replicas, Crash(r) PROVE IdleInv'
<1>1. /\ UNCHANGED <<now, policy, cr, past, key, tomb, lock, sent, owed, newest, resumedAt>>
      /\ lock' \in Replicas \cup {None} /\ Rest(r) /\ events' \in Nat
    BY Facts DEF Crash, redis, history, TypeOK, Fault, Event
<1> QED
    BY <1>1, EndMoves, Ended, StepKeeps, Facts

\* An accepted pause brings a new generation, a refused one changes nothing.
LEMMA IssuePauseKeeps ==
    ASSUME IdleInv, NEW r \in Replicas, IssuePause(r) PROVE IdleInv'
<1>1. /\ now' = now /\ policy' = policy /\ key' = key /\ tomb' = tomb /\ lock' = lock
      /\ sent' = sent /\ owed' = owed /\ newest' = newest /\ resumedAt' = resumedAt
    BY DEF IssuePause, redis, history
<1>2. events' \in Nat
    BY ReplyEvents DEF IssuePause
<1>3. /\ rep' \in [Replicas -> Sweeps]
      /\ rep'[r] \in {Resting, [Resting EXCEPT !.pc = "release"]}
      /\ \A q \in Replicas \ {r} : rep'[q] = rep[q]
    BY EndMoves DEF IssuePause
<1>4. (cr' = cr /\ past' = past) \/ (cr' = Pausing /\ past' = cr)
    <2>1. (cr' = Pausing /\ past' = cr) \/ UNCHANGED <<cr, past>>
        <3>1. PICK ok \in BOOLEAN, applied \in BOOLEAN :
                 /\ Reply(ok)
                 /\ ok => applied
                 /\ IF applied /\ cr.phase = "Running" /\ cr.gen = rep[r].gen
                    THEN cr' = Pausing /\ past' = cr
                    ELSE UNCHANGED <<cr, past>>
            BY Zenon DEF IssuePause
        <3>2. CASE applied /\ cr.phase = "Running" /\ cr.gen = rep[r].gen
            BY <3>1, <3>2, Zenon
        <3>3. CASE ~(applied /\ cr.phase = "Running" /\ cr.gen = rep[r].gen)
            BY <3>1, <3>3, Zenon
        <3> QED
            BY <3>2, <3>3, Zenon
    <2> QED
        BY <2>1
<1>5. /\ cr' \in CRs /\ past' \in CRs /\ cr'.gen \in Nat /\ cr.gen <= cr'.gen
      /\ past'.gen <= cr'.gen
    BY <1>4, PausingType, Facts
<1>6. TypeOK'
    BY <1>1, <1>2, <1>3, <1>5, Facts DEF TypeOK
<1>7. SweepInv(r)'
    BY <1>3, <1>6, Ended
<1>8. ASSUME NEW q \in Replicas \ {r} PROVE SweepInv(q)'
    <2>1. rep'[q] = rep[q] /\ q \in Replicas
        BY <1>3
    <2> QED
        BY <1>1, <1>5, <1>6, <2>1, SweepKept, Facts
<1>9. RedisInv'
    BY <1>1, RedisKept
<1> QED
    BY <1>5, <1>6, <1>7, <1>8, <1>9, Parts

\* The probe leaves the judgement as it is, or writes an observation.
LEMMA ProbeKeeps == ASSUME IdleInv, NEW r \in Replicas, Probe(r) PROVE IdleInv'
<1>1. /\ now' = now /\ policy' = policy /\ tomb' = tomb /\ lock' = lock /\ cr' = cr
      /\ past' = past /\ sent' = sent /\ owed' = owed /\ resumedAt' = resumedAt
      /\ rep[r].pc = "probe"
    BY DEF Probe
<1>2. CASE /\ rep' = [rep EXCEPT ![r].pc = "reverify"]
           /\ UNCHANGED <<key, newest, events>>
    <2> DEFINE s == [rep[r] EXCEPT !.pc = "reverify"]
    <2>1. s \in Sweeps
        BY Facts DEF Sweeps
    <2>2. /\ rep' \in [Replicas -> Sweeps] /\ rep'[r] = s
          /\ \A q \in Replicas \ {r} : rep'[q] = rep[q]
        BY <1>2, <2>1, Moved, ZenonT(60)
    <2>3. /\ rep'[r].pc = "reverify" /\ rep'[r].gen = rep[r].gen
          /\ rep'[r].last = rep[r].last /\ rep'[r].known = rep[r].known
          /\ rep'[r].blind = rep[r].blind
        BY <2>2, Facts DEF Sweeps
    <2>4. rep[r].gen <= cr.gen /\ JudgedInv(r)
        BY DEF IdleInv
    <2>5. key' = key /\ newest' = newest /\ events' \in Nat
        BY <1>2, Facts
    <2>6. JudgedInv(r)' /\ ReadInv(r)' /\ PauseInv(r)'
        BY <1>1, <2>3, <2>4, <2>5 DEF JudgedInv, ReadInv, PauseInv
    <2>7. SweepInv(r)'
        BY <1>1, <2>3, <2>4, <2>6 DEF SweepInv
    <2> QED
        BY <1>1, <2>2, <2>5, <2>7, StepKeeps, Facts DEF TypeOK
<1>3. CASE Leave(r) /\ UNCHANGED <<key, newest>> /\ events' \in Nat
    BY <1>1, <1>3, EndMoves, Ended, StepKeeps, Facts DEF TypeOK
<1>4. CASE Leave(r) /\ Record(now) /\ events' = events
    <2>1. /\ key' \in Entries /\ newest' \in Nat
          /\ key'.at # Absent /\ key'.at <= newest'
          /\ newest' <= key'.at + WriteDelay /\ newest' + TTL <= key'.until
          /\ newest <= newest' /\ newest' <= now
        BY <1>1, <1>4, RecordKeeps, Facts
    <2>2. /\ rep' \in [Replicas -> Sweeps]
          /\ rep'[r] \in {Resting, [Resting EXCEPT !.pc = "release"]}
          /\ \A q \in Replicas \ {r} : rep'[q] = rep[q]
        BY <1>4, EndMoves
    <2>3. TypeOK'
        BY <1>1, <1>4, <2>1, <2>2, Facts DEF TypeOK
    <2>4. RedisInv'
        BY <1>1, <2>1, Facts DEF RedisInv
    <2>5. SweepInv(r)'
        BY <2>2, <2>3, Ended
    <2>6. ASSUME NEW q \in Replicas \ {r} PROVE SweepInv(q)'
        <3>1. rep'[q] = rep[q] /\ q \in Replicas
            BY <2>2
        <3> QED
            BY <1>1, <2>1, <2>3, <3>1, SweepKept, Facts
    <2> QED
        BY <1>1, <2>3, <2>4, <2>5, <2>6, Parts, Facts
<1> QED
    BY <1>2, <1>3, <1>4, Facts DEF Probe, Fault, Event

--------------------------------------------------------------------------------
(* The theorems *)

\* Nothing happens.
LEMMA StutterKeeps == ASSUME IdleInv, UNCHANGED vars PROVE IdleInv'
<1>1. /\ events' = events /\ resumedAt' = resumedAt /\ owed' = owed
      /\ cr' = cr /\ past' = past
      /\ UNCHANGED <<now, policy, key, tomb, lock, sent, rep, newest>>
    BY DEF vars
<1> QED
    BY <1>1, ChangeKeeps, Facts DEF TypeOK

\* Every step keeps the invariant.
LEMMA NextKeeps == ASSUME IdleInv, [Next]_vars PROVE IdleInv'
<1>1. ASSUME NEW r \in Replicas, SweepStep(r) \/ Crash(r) PROVE IdleInv'
    BY <1>1, SweepKeeps, DecideKeeps, TryAcquireKeeps, VerifyKeeps, ProbeKeeps,
       IssuePauseKeeps, ReleaseKeeps, CrashKeeps, Zenon DEF SweepStep
<1>2. ASSUME NEW t \in sent, Write(t) \/ Drop(t) PROVE IdleInv'
    BY <1>2, WriteKeeps, DropKeeps
<1>3. ASSUME NEW e \in Expiries, Renew(e) PROVE IdleInv'
    BY <1>3, RenewKeeps
<1> QED
    BY <1>1, <1>2, <1>3, TickKeeps, LockExpiresKeeps, FlushKeeps, ObserveKeeps,
       RecordTransitionKeeps, LoseTransitionKeeps, UserPauseKeeps, ResumeKeeps,
       ReconcileKeeps, StutterKeeps, Zenon DEF Next

\* The inductive invariant holds in every reachable state: whatever ingress
\* replicas, users, Redis and any number of sweepers do (activity.py, sweeper.py).
THEOREM IdleInvariant == Spec => []IdleInv
<1>1. Init => IdleInv
    BY InitInv
<1>2. IdleInv /\ [Next]_vars => IdleInv'
    BY NextKeeps
<1> QED
    BY <1>1, <1>2, PTL DEF Spec

\* No sweeper calls PauseSandbox before X of silence (sweeper.py, decision.py):
\* key expiry, flushes, outages, peers and crashes only delay a pause.
THEOREM PauseNeverEarly == Spec => []NeverEarly
<1>1. IdleInv => NeverEarly
    BY Facts, Fields DEF IdleInv, PauseInv, NeverEarly
<1> QED
    BY <1>1, IdleInvariant, PTL

\* A pause judged before a resume, or on evidence older than it, is never
\* accepted: the generation fence (executor.py) and the record that
\* resume_sandbox schedules restart the clock together.
THEOREM ResumeProtected == Spec => ResumeRestartsClock
<1>1. ASSUME IdleInv, NEW r \in Replicas, IssuePause(r), cr' # cr, ~rep[r].blind
      PROVE  now - resumedAt >= X - WriteDelay
    <2>1. rep[r].pc = "pause" /\ cr.gen = rep[r].gen
        BY <1>1 DEF IssuePause
    <2>2. resumedAt <= rep[r].known /\ rep[r].known + X <= now + WriteDelay
        BY <1>1, <2>1 DEF IdleInv, PauseInv
    <2> QED
        BY <1>1, <2>2, Facts, Fields
<1>2. IdleInv /\ [Next]_vars =>
        [\A r \in Replicas :
            IssuePause(r) /\ cr' # cr /\ ~rep[r].blind =>
               now - resumedAt >= X - WriteDelay]_vars
    BY <1>1
<1> QED
    BY <1>2, IdleInvariant, PTL DEF Spec, ResumeRestartsClock

================================================================================
