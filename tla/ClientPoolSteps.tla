--------------------------- MODULE ClientPoolSteps ---------------------------
(* Proofs about ClientPool: every step keeps OrphanInv (who will end a sandbox  *)
(* that runs, where kills work and no instance stops or crashes), DestroyInv    *)
(* (the fence of destroy()) and LeaderInv (who admits warmups).                 *)
EXTENDS ClientPoolCustody
-----------------------------------------------------------------------------
(* Who will end a sandbox that runs.                                        *)

\* A kill works.
LEMMA CalmKill ==
    ASSUME Calm, NEW S, Kill(S)
    PROVE  alive' = alive \ S
<1>1. ~May("killError")
  BY DEF Calm, May
<1> QED
  BY <1>1, Zenon DEF Kill

\* The kills a request puts off are queued.
LEMMA CalmDispose ==
    ASSUME TypeOK, Calm, NEW n \in Node, installed[n], NEW now, NEW later, Dispose(n, now, later)
    PROVE  /\ alive' = alive \ now
           /\ Doomed' = Doomed \cup later
           /\ \A m \in Node \ {n} : doomed'[m] = doomed[m]
<1>1. doomed' = [doomed EXCEPT ![n] = @ \cup later] /\ alive' = alive \ now
  BY CalmKill, Zenon DEF Dispose
<1>2. doomed'[n] = doomed[n] \cup later /\ \A m \in Node \ {n} : doomed'[m] = doomed[m]
  BY <1>1, Zenon DEF TypeOK
<1> QED
  BY <1>1, <1>2 DEF Doomed

\* A request of an instance that stays up.
LEMMA CalmRequest ==
    ASSUME CustodyInv, Calm, OrphanInv, NEW c \in Caller
    PROVE  /\ RequestInv /\ Active
           /\ ~May("shutdown") /\ ~May("destroy") /\ ~May("outage") /\ ~May("crash")
           /\ acq[c].pc # "out" => life[Home[c]] = "RUNNING" /\ installed[Home[c]]
           /\ acq[c].pc \notin {"out", "end"} => RunActive(c)
           /\ acq[c].pc \in {"out", "begin", "enter", "create", "end"} => Taken(c) = {}
           /\ acq[c].pc = "take" => Taken(c) = acq[c].pending /\ acq[c].sb = None
<1>1. RequestInv
  BY Zenon DEF OrphanInv
<1>2. ~May("shutdown") /\ ~May("destroy") /\ ~May("outage") /\ ~May("crash")
  BY DEF Calm, May
<1>3. /\ acq[c].pc \in {"out", "begin", "enter", "create", "end"} => acq[c].pending = {} /\ acq[c].sb = None
      /\ acq[c].pc = "take" => acq[c].sb = None
  BY Zenon DEF OrphanInv
<1>4. acq[c].pending \subseteq Sandbox
  BY RequestType, Zenon
<1> QED
  BY <1>1, <1>2, <1>3, <1>4, RequestType, PoolAssumption DEF RequestInv, Active, RunActive, Taken

\* A request passes on what it had and what it took out of the buffer.
Passes(c) ==
    /\ alive' \ alive \subseteq Unused \cap Taken(c)'
    /\ Taken(c) \cap alive' \subseteq Taken(c)' \cup Doomed' \cup borrowed'[c]
    /\ (Idle \ Idle') \cap alive' \subseteq Taken(c)' \cup Doomed'
    /\ Doomed \subseteq Doomed' /\ borrowed[c] \subseteq borrowed'[c]
    /\ \A s \in Sandbox : idle'[s] = "expired" => idle[s] = "expired"
    /\ \A n \in Node \ {Home[c]} : doomed'[n] = doomed[n]
    /\ acq'[c].pc # "out" => life[Home[c]] = "RUNNING"
    /\ acq[c].pc = "out" => doomed' = doomed
    /\ acq'[c].pc \notin {"out", "end"} => acq'[c].gen = gen[Home[c]]
    /\ acq'[c].pc \in {"out", "begin", "enter", "create", "end"} => acq'[c].pending = {}
    /\ acq'[c].pc \in {"out", "begin", "enter", "take", "create", "end"} => acq'[c].sb = None

LEMMA PassesStep ==
    ASSUME CustodyInv, Calm, OrphanInv, NEW c \in Caller, AcquireCall(c) \/ Acquire(c)
    PROVE  Passes(c)
<1> DEFINE a == acq[c]
           n == Home[c]
           Same == UNCHANGED <<idle, alive, doomed, borrowed>>
           Record == /\ acq'[c].pc # "out" => life[n] = "RUNNING"
                     /\ acq[c].pc = "out" => doomed' = doomed
                     /\ acq'[c].pc \notin {"out", "end"} => acq'[c].gen = gen[n]
                     /\ acq'[c].pc \in {"out", "begin", "enter", "create", "end"} => acq'[c].pending = {}
                     /\ acq'[c].pc \in {"out", "begin", "enter", "take", "create", "end"} => acq'[c].sb = None
           Sets == /\ alive' \ alive \subseteq Unused \cap Taken(c)'
                   /\ Taken(c) \cap alive' \subseteq Taken(c)' \cup Doomed' \cup borrowed'[c]
                   /\ (Idle \ Idle') \cap alive' \subseteq Taken(c)' \cup Doomed'
                   /\ Doomed \subseteq Doomed' /\ borrowed[c] \subseteq borrowed'[c]
                   /\ \A s \in Sandbox : idle'[s] = "expired" => idle[s] = "expired"
                   /\ \A m \in Node \ {n} : doomed'[m] = doomed[m]
<1>0. /\ TypeOK /\ n \in Node /\ acq \in [Caller -> AcquireRec] /\ acq[c] \in AcquireRec
      /\ a.pending \subseteq Sandbox /\ idle \in [Sandbox -> {"none", "fresh", "near", "expired"}]
      /\ borrowed \in [Caller -> SUBSET Sandbox] /\ None \notin Sandbox
      /\ a.sb \notin a.pending /\ (Holds(c) => a.sb \in Sandbox)
  BY RequestType, PoolAssumption, Zenon DEF CustodyInv, TypeOK
<1>1. /\ Active /\ ~May("outage")
      /\ a.pc # "out" => life[n] = "RUNNING" /\ installed[n]
      /\ a.pc \notin {"out", "end"} => RunActive(c) /\ a.gen = gen[n]
      /\ a.pc \in {"out", "begin", "enter", "create", "end"} => Taken(c) = {} /\ a.pending = {} /\ a.sb = None
      /\ a.pc = "take" => Taken(c) = a.pending /\ a.sb = None
  BY CalmRequest, Zenon DEF RunActive, OrphanInv
<1>2. Taken(c) \subseteq a.pending \cup {a.sb} /\ Taken(c)' = {s \in Sandbox : s = acq'[c].sb \/ s \in acq'[c].pending}
  BY Zenon DEF Taken
<1>3. ASSUME acq' = [acq EXCEPT ![c] = Raised]
      PROVE  acq'[c].pc = "end" /\ acq'[c].sb = None /\ acq'[c].pending = {} /\ Taken(c)' = {}
  BY <1>0, <1>2, <1>3, Constants, Zenon
<1>4. ASSUME acq' = [acq EXCEPT ![c] = Exhausted(c)]
      PROVE  /\ acq'[c].pc \in {"create", "end"} /\ acq'[c].sb = None /\ acq'[c].pending = {}
             /\ Taken(c)' = {} /\ (acq'[c].pc = "create" => acq'[c].gen = a.gen)
  <2>1. acq'[c] = Exhausted(c)
    BY <1>0, <1>4, Zenon
  <2>2. Exhausted(c).sb = None /\ Exhausted(c).pending = {} /\ Exhausted(c).pc \in {"create", "end"}
        /\ (Exhausted(c).pc = "create" => Exhausted(c).gen = a.gen)
    BY Constants, Zenon DEF Exhausted, NoAcquire
  <2> QED
    BY <1>0, <1>2, <2>1, <2>2, Zenon
<1>5. ASSUME NEW pc, acq' = [acq EXCEPT ![c].pc = pc]
      PROVE  /\ acq'[c].pc = pc /\ acq'[c].sb = a.sb /\ acq'[c].pending = a.pending
             /\ acq'[c].gen = a.gen /\ Taken(c)' = Taken(c)
  <2>1. /\ acq'[c].pc = pc /\ acq'[c].sb = a.sb /\ acq'[c].pending = a.pending /\ acq'[c].gen = a.gen
    BY <1>0, <1>5 DEF AcquireRec
  <2> QED
    BY <2>1, Zenon DEF Taken
<1>6. ASSUME Same, Taken(c) \subseteq Taken(c)'
      PROVE  Sets
  BY <1>0, <1>6 DEF Idle, Doomed
<1>7. ASSUME NEW now, NEW later, Dispose(n, now, later), a.pc # "out",
             Taken(c) \subseteq now \cup later \cup Taken(c)' \cup borrowed'[c],
             (Idle \ Idle') \cap alive \subseteq Taken(c)' \cup later,
             borrowed[c] \subseteq borrowed'[c],
             \A s \in Sandbox : idle'[s] = "expired" => idle[s] = "expired"
      PROVE  Sets
  <2>1. /\ alive' = alive \ now /\ Doomed' = Doomed \cup later
        /\ \A m \in Node \ {n} : doomed'[m] = doomed[m]
    BY <1>0, <1>1, <1>7, CalmDispose, Zenon
  <2> QED
    BY <1>7, <2>1
<1>8. CASE AcquireCall(c)
  <2>1. Same /\ a.pc = "out" /\ life[n] = "RUNNING"
    BY <1>8, Zenon DEF AcquireCall, store
  <2>2. \E p : acq' = [acq EXCEPT ![c] = [NoAcquire EXCEPT !.pc = "begin", !.gen = gen[n], !.policy = p]]
    BY <1>8, Zenon DEF AcquireCall
  <2>3. \A p : LET v == [NoAcquire EXCEPT !.pc = "begin", !.gen = gen[n], !.policy = p] IN
           v.pc = "begin" /\ v.gen = gen[n] /\ v.sb = None /\ v.pending = {}
    BY Zenon DEF NoAcquire
  <2>4. acq'[c].pc = "begin" /\ acq'[c].gen = gen[n] /\ acq'[c].sb = None /\ acq'[c].pending = {}
    BY <1>0, <2>2, <2>3
  <2>5. Sets
    BY <1>1, <1>6, <2>1, Zenon
  <2>6. Record
    BY <2>1, <2>4, Zenon
  <2> QED
    BY <2>5, <2>6, Zenon DEF Passes
<1>9. CASE AcquireBegin(c) \/ AcquireEnter(c) \/ AcquireEnd(c)
  <2>1. Same /\ a.pc \in {"begin", "enter", "end"}
    BY <1>9, Zenon DEF AcquireBegin, AcquireEnter, AcquireEnd, store
  <2>2. \/ a.pc # "end" /\ \E pc \in {"enter", "take"} : acq' = [acq EXCEPT ![c].pc = pc]
        \/ acq' = [acq EXCEPT ![c] = Raised]
        \/ acq' = [acq EXCEPT ![c] = NoAcquire]
    BY <1>9, Zenon DEF AcquireBegin, AcquireEnter, AcquireEnd
  <2>3. acq' = [acq EXCEPT ![c] = NoAcquire] => acq'[c].pc = "out" /\ acq'[c].sb = None /\ acq'[c].pending = {}
    BY <1>0, Constants, Zenon
  <2>4. Sets
    BY <1>1, <1>6, <2>1, Zenon
  <2>5. Record
    BY <1>1, <1>3, <1>5, <2>1, <2>2, <2>3, Zenon
  <2> QED
    BY <2>4, <2>5, Zenon DEF Passes
<1>10. CASE AcquireTake(c)
  <2>0. a.pc = "take" /\ RunActive(c) /\ UNCHANGED borrowed /\ life[n] = "RUNNING" /\ a.gen = gen[n]
    BY <1>1, <1>10, Zenon DEF AcquireTake
  <2>1. PICK s \in Sandbox \cup {None}, D \in SUBSET Idle :
           /\ TakeIdle({"fresh"}, s, D)
           /\ IF s # None
              THEN /\ acq' = [acq EXCEPT ![c].pc = "connect", ![c].sb = s,
                                         ![c].pending = a.pending \cup DiscardedAlive(D), ![c].attempts = @ + 1]
                   /\ UNCHANGED <<alive, doomed>>
              ELSE /\ acq' = [acq EXCEPT ![c] = Exhausted(c)]
                   /\ Dispose(n, {}, a.pending \cup DiscardedAlive(D))
    BY <1>1, <1>10, <2>0, Zenon DEF AcquireTake
  <2>2. Idle' = Idle \ (D \cup {s}) /\ (s = None => Idle' = {})
    BY <1>0, <2>1, Took
  <2>3. D \cap alive \subseteq DiscardedAlive(D)
    <3>1. \A x \in D : x \in Sandbox /\ idle[x] \notin {"none", "fresh"} /\ x \in Idle
      BY <2>1, Zenon DEF TakeIdle, Eligible, Idle
    <3>2. \A x \in Sandbox : idle[x] = "expired" => x \notin alive
      BY Zenon DEF OrphanInv
    <3> QED
      BY <1>0, <3>1, <3>2 DEF DiscardedAlive
  <2>4. \A x \in Sandbox : idle'[x] = "expired" => idle[x] = "expired"
    BY <2>1, Zenon DEF TakeIdle
  <2>5. CASE s # None
    <3> DEFINE later == a.pending \cup DiscardedAlive(D)
    <3>1. acq'[c].pc = "connect" /\ acq'[c].sb = s /\ acq'[c].pending = later /\ acq'[c].gen = a.gen
      <4> HIDE DEF later
      <4>1. acq' = [acq EXCEPT ![c].pc = "connect", ![c].sb = s, ![c].pending = later,
                               ![c].attempts = @ + 1]
        BY <2>1, <2>5, Zenon DEF later
      <4> QED
        BY <1>0, <4>1 DEF AcquireRec
    <3>2. Taken(c) \subseteq Taken(c)' /\ (Idle \ Idle') \cap alive \subseteq Taken(c)'
      BY <1>0, <1>1, <1>2, <2>0, <2>2, <2>3, <3>1 DEF Idle, DiscardedAlive
    <3>3. alive' = alive /\ doomed' = doomed /\ borrowed' = borrowed
      BY <2>0, <2>1, <2>5, Zenon
    <3>4. Sets
      <4>1. Doomed' = Doomed
        BY <3>3, Zenon DEF Doomed
      <4> QED
        BY <2>4, <3>2, <3>3, <4>1, Zenon
    <3>5. Record
      BY <2>0, <3>1, Zenon
    <3> QED
      BY <3>4, <3>5, Zenon DEF Passes
  <2>6. CASE s = None
    <3>1. Taken(c)' = {}
      BY <1>4, <2>1, <2>6, Zenon
    <3>2. /\ Taken(c) \subseteq a.pending \cup DiscardedAlive(D)
          /\ (Idle \ Idle') \cap alive \subseteq a.pending \cup DiscardedAlive(D)
      <4>1. D = Idle
        BY <2>1, <2>6, Zenon DEF TakeIdle
      <4> QED
        BY <1>1, <2>0, <2>3, <4>1, Zenon
    <3>3. Sets
      <4>1. Dispose(n, {}, a.pending \cup DiscardedAlive(D)) /\ a.pc # "out" /\ borrowed[c] \subseteq borrowed'[c]
        BY <2>0, <2>1, <2>6, Zenon
      <4> HIDE DEF Sets
      <4> QED
        BY <1>7, <2>4, <3>2, <4>1, Zenon
    <3>4. Record
      BY <1>4, <2>0, <2>1, <2>6, Zenon
    <3> QED
      BY <3>3, <3>4, Zenon DEF Passes
  <2> QED
    BY <2>5, <2>6, Zenon
<1>11. CASE AcquireConnect(c)
  <2>0. /\ a.pc = "connect" /\ RunActive(c) /\ UNCHANGED borrowed /\ life[n] = "RUNNING"
        /\ a.gen = gen[n] /\ a.sb \in Sandbox
    BY <1>0, <1>1, <1>11, Zenon DEF AcquireConnect, Holds
  <2>1. idle' \in {idle, [idle EXCEPT ![a.sb] = "none"]}
    BY <1>11, Zenon DEF AcquireConnect
  <2>2. Idle \ Idle' \subseteq {a.sb} /\ \A x \in Sandbox : idle'[x] = "expired" => idle[x] = "expired"
    BY <1>0, <2>0, <2>1 DEF Idle
  <2>3. \/ acq' = [acq EXCEPT ![c].pc = "fence"] /\ UNCHANGED <<idle, alive, doomed>>
        \/ acq' = [acq EXCEPT ![c] = Raised] /\ Dispose(n, {}, a.pending \cup {a.sb})
        \/ acq' = [acq EXCEPT ![c] = Exhausted(c)] /\ Dispose(n, {}, a.pending \cup {a.sb})
        \/ acq' = [acq EXCEPT ![c].pc = "take", ![c].sb = None] /\ Dispose(n, {}, {a.sb})
    BY <1>1, <1>11, <2>0, Zenon DEF AcquireConnect, RunRetired
  <2>4. CASE acq' = [acq EXCEPT ![c].pc = "fence"] /\ UNCHANGED <<idle, alive, doomed>>
    <3>1. Sets
      <4> HIDE DEF Sets
      <4> QED
        BY <1>5, <1>6, <2>0, <2>4, Zenon
    <3>2. Record
      BY <1>5, <2>0, <2>4, Zenon
    <3> QED
      BY <3>1, <3>2, Zenon DEF Passes
  <2>5. CASE /\ acq' = [acq EXCEPT ![c] = Raised] \/ acq' = [acq EXCEPT ![c] = Exhausted(c)]
             /\ Dispose(n, {}, a.pending \cup {a.sb})
    <3>1. Sets
      <4>1. /\ a.pc # "out" /\ borrowed[c] \subseteq borrowed'[c]
            /\ (Idle \ Idle') \cap alive \subseteq Taken(c)' \cup (a.pending \cup {a.sb})
            /\ Taken(c) \subseteq {} \cup (a.pending \cup {a.sb}) \cup Taken(c)' \cup borrowed'[c]
        BY <1>2, <2>0, <2>2, Zenon
      <4> HIDE DEF Sets
      <4> QED
        BY <1>7, <2>2, <2>5, <4>1, Zenon
    <3>2. Record
      BY <1>3, <1>4, <2>0, <2>5, Zenon
    <3> QED
      BY <3>1, <3>2, Zenon DEF Passes
  <2>6. CASE acq' = [acq EXCEPT ![c].pc = "take", ![c].sb = None] /\ Dispose(n, {}, {a.sb})
    <3>1. acq'[c].pc = "take" /\ acq'[c].sb = None /\ acq'[c].pending = a.pending /\ acq'[c].gen = a.gen
      BY <1>0, <2>6 DEF AcquireRec
    <3>2. Sets
      <4>1. /\ a.pc # "out" /\ borrowed[c] \subseteq borrowed'[c]
            /\ (Idle \ Idle') \cap alive \subseteq Taken(c)' \cup {a.sb}
            /\ Taken(c) \subseteq {} \cup {a.sb} \cup Taken(c)' \cup borrowed'[c]
        BY <1>0, <1>2, <2>0, <2>2, <3>1, Zenon
      <4> HIDE DEF Sets
      <4> QED
        BY <1>7, <2>2, <2>6, <4>1, Zenon
    <3>3. Record
      BY <2>0, <3>1, Zenon
    <3> QED
      BY <3>2, <3>3, Zenon DEF Passes
  <2> QED
    BY <2>3, <2>4, <2>5, <2>6, Zenon
<1>12. CASE AcquireFence(c) \/ AcquireFinal(c)
  <2>0. /\ a.pc \in {"fence", "created", "final"} /\ RunActive(c) /\ life[n] = "RUNNING"
        /\ a.gen = gen[n] /\ UNCHANGED idle /\ a.sb \in Sandbox
    BY <1>0, <1>1, <1>12, Zenon DEF AcquireFence, AcquireFinal, Holds, store
  <2>1. \/ acq' = [acq EXCEPT ![c].pc = "final"] /\ UNCHANGED <<alive, doomed, borrowed>>
        \/ acq' = [acq EXCEPT ![c] = Raised] /\ Dispose(n, {a.sb}, a.pending) /\ UNCHANGED borrowed
        \/ /\ acq' = [acq EXCEPT ![c] = Raised] /\ Dispose(n, {}, a.pending)
           /\ borrowed' = [borrowed EXCEPT ![c] = @ \cup {a.sb}]
    BY <1>1, <1>12, <2>0, Zenon DEF AcquireFence, AcquireFinal, RunRetired, RunDestroyed
  <2>2. Idle' = Idle /\ \A x \in Sandbox : idle'[x] = "expired" => idle[x] = "expired"
    BY <2>0, Zenon DEF Idle
  <2>3. CASE acq' = [acq EXCEPT ![c].pc = "final"] /\ UNCHANGED <<alive, doomed, borrowed>>
    <3>1. Sets
      <4> HIDE DEF Sets
      <4> QED
        BY <1>5, <1>6, <2>0, <2>3, Zenon
    <3>2. Record
      BY <1>5, <2>0, <2>3, Zenon
    <3> QED
      BY <3>1, <3>2, Zenon DEF Passes
  <2>4. ASSUME NEW now, Dispose(n, now, a.pending), acq' = [acq EXCEPT ![c] = Raised],
               borrowed[c] \subseteq borrowed'[c], a.sb \in now \cup borrowed'[c]
        PROVE  Passes(c)
    <3>1. Sets
      <4>1. /\ a.pc # "out"
            /\ (Idle \ Idle') \cap alive \subseteq Taken(c)' \cup a.pending
            /\ Taken(c) \subseteq now \cup a.pending \cup Taken(c)' \cup borrowed'[c]
        BY <1>2, <2>0, <2>2, <2>4, Zenon
      <4> HIDE DEF Sets
      <4> QED
        BY <1>7, <2>2, <2>4, <4>1, Zenon
    <3>2. Record
      BY <1>3, <2>0, <2>4, Zenon
    <3> QED
      BY <3>1, <3>2, Zenon DEF Passes
  <2>5. CASE /\ Dispose(n, {}, a.pending) /\ borrowed' = [borrowed EXCEPT ![c] = @ \cup {a.sb}]
             /\ acq' = [acq EXCEPT ![c] = Raised]
    <3>1. borrowed'[c] = borrowed[c] \cup {a.sb}
      BY <1>0, <2>5, Zenon
    <3> QED
      BY <2>4, <2>5, <3>1, Zenon
  <2>6. CASE /\ Dispose(n, {a.sb}, a.pending) /\ UNCHANGED borrowed
             /\ acq' = [acq EXCEPT ![c] = Raised]
    BY <2>4, <2>6, Zenon
  <2> QED
    BY <2>1, <2>3, <2>5, <2>6, Zenon
<1>13. CASE AcquireCreate(c)
  <2>0. /\ a.pc = "create" /\ UNCHANGED <<idle, doomed, borrowed>> /\ life[n] = "RUNNING"
        /\ a.gen = gen[n] /\ Taken(c) = {} /\ a.pending = {}
    BY <1>1, <1>13, Zenon DEF AcquireCreate, store
  <2>1. Idle' = Idle /\ Doomed' = Doomed
    BY <2>0, Zenon DEF Idle, Doomed
  <2>2. CASE acq' = [acq EXCEPT ![c] = Raised] /\ UNCHANGED alive
    <3>1. Sets
      BY <2>0, <2>1, <2>2, Zenon
    <3>2. Record
      BY <1>3, <2>0, <2>2, Zenon
    <3> QED
      BY <3>1, <3>2, Zenon DEF Passes
  <2>3. ASSUME NEW s \in Unused, alive' = alive \cup {s},
               acq' = [acq EXCEPT ![c].pc = "created", ![c].sb = s]
        PROVE  Passes(c)
    <3>1. acq'[c].pc = "created" /\ acq'[c].sb = s /\ acq'[c].gen = a.gen
      BY <1>0, <2>3 DEF AcquireRec
    <3>2. s \in Taken(c)'
      BY <1>2, <3>1, Zenon DEF Unused
    <3>3. Sets
      BY <2>0, <2>1, <2>3, <3>2, Zenon
    <3>4. Record
      BY <2>0, <3>1, Zenon
    <3> QED
      BY <3>3, <3>4, Zenon DEF Passes
  <2> QED
    BY <1>13, <2>2, <2>3, Zenon DEF AcquireCreate
<1> QED
  BY <1>8, <1>9, <1>10, <1>11, <1>12, <1>13, Zenon DEF Acquire

\* What the other steps leave: they create nothing, and what leaves the buffer, the
\* queued kills or the application is dead.
Rests ==
    /\ alive' \subseteq alive /\ UNCHANGED acq
    /\ (Idle \ Idle') \cap alive' = {}
    /\ (Doomed \ Doomed') \cap alive' = {}
    /\ (Borrowed \ Borrowed') \cap alive' = {}
    /\ Doomed' \subseteq Doomed
    /\ \A k \in Key : /\ task'[k].sb = task[k].sb
                      /\ task'[k].pc = task[k].pc \/ (task[k].pc = "free" /\ task'[k].pc = "create")
    /\ \A s \in Sandbox : idle'[s] = "expired" => s \notin alive'

\* An entry is taken out and killed; those in front of it were dead.
LEMMA TakeKills ==
    ASSUME TypeOK, Calm, OrphanInv, NEW s \in Sandbox \cup {None}, NEW D \in SUBSET Idle,
           TakeIdle({"fresh", "near"}, s, D), Kill({s})
    PROVE  /\ alive' \subseteq alive /\ (Idle \ Idle') \cap alive' = {}
           /\ \A x \in Sandbox : idle'[x] = "expired" => x \notin alive'
<1>1. alive' = alive \ {s}
  BY CalmKill, Zenon
<1>2. Idle' = Idle \ (D \cup {s})
  BY Took
<1>3. \A x \in Sandbox : idle[x] = "expired" => x \notin alive
  BY Zenon DEF OrphanInv
<1>4. D \cap alive = {}
  <2>1. \A x \in D : x \in Sandbox /\ idle[x] \notin {"none", "fresh", "near"}
    BY Zenon DEF TakeIdle, Eligible, Idle
  <2> QED
    BY <1>3, <2>1 DEF TypeOK
<1>5. \A x \in Sandbox : idle'[x] = "expired" => idle[x] = "expired"
  BY Zenon DEF TakeIdle
<1> QED
  BY <1>1, <1>2, <1>3, <1>4, <1>5, Zenon

\* Steps that leave the sandboxes alone.
LEMMA LeftAlone ==
    ASSUME OrphanInv, UNCHANGED <<alive, acq, doomed, borrowed, idle>>,
           \A k \in Key : task'[k].sb = task[k].sb /\ task'[k].pc = task[k].pc
    PROVE  Rests
<1>1. Idle' = Idle /\ Doomed' = Doomed /\ Borrowed' = Borrowed
  BY Zenon DEF Idle, Doomed, Borrowed
<1>2. \A s \in Sandbox : idle[s] = "expired" => s \notin alive
  BY Zenon DEF OrphanInv
<1> QED
  BY <1>1, <1>2 DEF Rests

\* Steps that take from the buffer.
LEMMA TakesOnly ==
    ASSUME alive' \subseteq alive, (Idle \ Idle') \cap alive' = {},
           \A s \in Sandbox : idle'[s] = "expired" => s \notin alive',
           UNCHANGED <<acq, doomed, borrowed, task>>
    PROVE  Rests
<1>1. Doomed' = Doomed /\ Borrowed' = Borrowed
  BY Zenon DEF Doomed, Borrowed
<1> QED
  BY <1>1 DEF Rests

\* No kill is queued where a run is stopped.
LEMMA StopsEmpty ==
    ASSUME TypeOK, Calm, OrphanInv, NEW n \in Node, StopReconcile(n), doomed[n] = {},
           UNCHANGED <<idle, acq, borrowed>>
    PROVE  Rests
<1>1. doomed' = doomed
  BY Zenon DEF StopReconcile, TypeOK
<1>2. alive' = alive
  BY Zenon DEF StopReconcile
<1> QED
  BY <1>1, <1>2, Stopped, LeftAlone, Zenon

LEMMA RestsLifecycle ==
    ASSUME TypeOK, Calm, OrphanInv, NEW n \in Node, Lifecycle(n)
    PROVE  Rests
<1>0. ~May("crash") /\ (Caller # {} => ~May("shutdown"))
  BY DEF Calm, May
<1>1. Caller = {} => doomed[n] = {}
  BY Zenon DEF OrphanInv, Doomed
<1>2. CASE Start(n)
  <2>1. Caller # {} => doomed[n] = {}
    BY <1>2, Zenon DEF Start, OrphanInv, RequestInv
  <2>2. StopReconcile(n) /\ UNCHANGED <<idle, acq, borrowed>>
    BY <1>2, Zenon DEF Start
  <2> QED
    BY <1>1, <2>1, <2>2, StopsEmpty, Zenon
<1>3. CASE (\E graceful \in BOOLEAN : Shutdown(n, graceful)) \/ ShutdownDrain(n) \/ ShutdownFinish(n)
  <2>1. UNCHANGED <<alive, acq, doomed, borrowed, idle, task>>
    BY <1>3, Zenon DEF Shutdown, ShutdownDrain, ShutdownFinish, store
  <2> QED
    BY <2>1, LeftAlone, Zenon
<1>4. CASE ShutdownStop(n)
  <2>1. doomed[n] = {}
    BY <1>1, <1>4, Zenon DEF ShutdownStop, OrphanInv, RequestInv
  <2>2. /\ UNCHANGED <<idle, acq, borrowed>>
        /\ StopReconcile(n) \/ UNCHANGED <<task, alive, doomed>>
    BY <1>4, Zenon DEF ShutdownStop
  <2> QED
    BY <2>1, <2>2, StopsEmpty, LeftAlone, Zenon
<1> QED
  BY <1>0, <1>2, <1>3, <1>4, Zenon DEF Lifecycle, Crash

LEMMA RestsReconcile ==
    ASSUME TypeOK, Calm, OrphanInv, NEW n \in Node, Reconcile(n)
    PROVE  Rests
<1>1. CASE TickBegin(n) \/ TickLock(n) \/ TickFails(n) \/ HeartbeatLost(n)
  <2>1. /\ UNCHANGED <<alive, acq, borrowed, doomed, idle>>
        /\ MarkPrimaryLost(n) \/ UNCHANGED task
    BY <1>1, Zenon DEF TickBegin, TickLock, TickFails, HeartbeatLost, store
  <2> QED
    BY <2>1, PrimaryLost, LeftAlone, Zenon
<1>2. CASE TickRetire(n)
  <2>1. doomed[n] = {}
    BY <1>2, Zenon DEF TickRetire, OrphanInv, RequestInv, Doomed
  <2>2. /\ UNCHANGED <<idle, acq, borrowed>>
        /\ StopReconcile(n) \/ UNCHANGED <<task, alive, doomed>>
    BY <1>2, Zenon DEF TickRetire
  <2> QED
    BY <2>1, <2>2, StopsEmpty, LeftAlone, Zenon
<1>3. CASE TickPlan(n)
  <2>1. UNCHANGED <<acq, borrowed, task, doomed>>
    BY <1>3, Zenon DEF TickPlan
  <2>2. /\ alive' = alive \ DiscardedAlive(Idle)
        /\ idle' = [s \in Sandbox |-> IF s \in Eligible({"fresh"}) THEN idle[s] ELSE "none"]
    BY <1>3, CalmKill, Zenon DEF TickPlan
  <2>3. \A s \in Sandbox : idle[s] = "expired" => s \notin alive
    BY Zenon DEF OrphanInv
  <2>4. (Idle \ Idle') \cap alive' = {}
    BY <2>2, <2>3 DEF Idle, Eligible, DiscardedAlive, TypeOK
  <2>5. alive' \subseteq alive /\ \A s \in Sandbox : idle'[s] = "expired" => s \notin alive'
    BY <2>2, <2>3, Zenon
  <2> QED
    BY <2>1, <2>4, <2>5, TakesOnly, Zenon
<1>4. CASE TickShrink(n)
  <2>1. UNCHANGED <<acq, borrowed, task, doomed>>
    BY <1>4, Zenon DEF TickShrink
  <2>2. \/ UNCHANGED <<idle, alive>>
        \/ \E s \in Sandbox \cup {None}, D \in SUBSET Idle :
              TakeIdle({"fresh", "near"}, s, D) /\ Kill({s})
    BY <1>4, Zenon DEF TickShrink
  <2> QED
    BY <2>1, <2>2, LeftAlone, TakeKills, TakesOnly, Zenon
<1>5. CASE TickSubmit(n)
  <2>1. UNCHANGED <<alive, acq, borrowed, doomed, idle>>
    BY <1>5, Zenon DEF TickSubmit, store
  <2>2. \A k \in Key : \/ task'[k] = task[k]
                       \/ task[k].pc = "free" /\ task'[k].sb = None /\ task'[k].pc = "create"
    <3>1. [FreeTask EXCEPT !.pc = "create", !.gen = gen[n], !.tenure = owned[n]].sb = None
          /\ [FreeTask EXCEPT !.pc = "create", !.gen = gen[n], !.tenure = owned[n]].pc = "create"
      BY Zenon DEF FreeTask
    <3> QED
      BY <1>5, <3>1, Zenon DEF TickSubmit
  <2>3. \A k \in Key : task[k].pc = "free" => task[k].sb = None
    BY Zenon DEF OrphanInv
  <2>4. Idle' = Idle /\ Doomed' = Doomed /\ Borrowed' = Borrowed
    BY <2>1, Zenon DEF Idle, Doomed, Borrowed
  <2>5. \A s \in Sandbox : idle[s] = "expired" => s \notin alive
    BY Zenon DEF OrphanInv
  <2> QED
    BY <2>1, <2>2, <2>3, <2>4, <2>5 DEF Rests
<1>6. CASE TickEnd(n)
  <2>1. UNCHANGED <<alive, acq, borrowed, task, doomed, idle>>
    BY <1>6, Zenon DEF TickEnd, store
  <2> QED
    BY <2>1, LeftAlone, Zenon
<1>7. CASE KillDoomed(n)
  <2>1. UNCHANGED <<acq, borrowed, task, idle>>
    BY <1>7, Zenon DEF KillDoomed, store
  <2>2. PICK s \in doomed[n] : alive' = alive \ {s} /\ doomed' = [doomed EXCEPT ![n] = @ \ {s}]
    BY <1>7, CalmKill, Zenon DEF KillDoomed
  <2>3. doomed'[n] = doomed[n] \ {s} /\ \A m \in Node : m # n => doomed'[m] = doomed[m]
    BY <2>2, Zenon DEF TypeOK
  <2>4. Doomed \ Doomed' \subseteq {s} /\ Doomed' \subseteq Doomed
    BY <2>3, Zenon DEF Doomed
  <2>5. Idle' = Idle /\ Borrowed' = Borrowed
    BY <2>1, Zenon DEF Idle, Borrowed
  <2>6. \A x \in Sandbox : idle[x] = "expired" => x \notin alive
    BY Zenon DEF OrphanInv
  <2> QED
    BY <2>1, <2>2, <2>4, <2>5, <2>6 DEF Rests
<1> QED
  BY <1>1, <1>2, <1>3, <1>4, <1>5, <1>6, <1>7, Zenon DEF Reconcile

LEMMA RestsOther ==
    ASSUME TypeOK, DestroyInv, Calm, OrphanInv,
           \/ \E n \in Node : Resize(n) \/ ReleaseIdle(n)
           \/ \E c \in Caller : CallerDone(c)
           \/ \E m \in Manager : DestroyBegin(m) \/ Destroy(m)
           \/ TombstoneExpires \/ LockExpires
           \/ \E s \in Sandbox : Age(s) \/ Die(s)
    PROVE  Rests
<1>0. /\ idle \in [Sandbox -> {"none", "fresh", "near", "expired"}]
      /\ \A s \in Sandbox : idle[s] = "expired" => s \notin alive
  BY Zenon DEF OrphanInv, TypeOK
<1>1. ASSUME NEW n \in Node, Resize(n) PROVE Rests
  BY <1>1, LeftAlone, Zenon DEF Resize
<1>2. ASSUME NEW n \in Node, ReleaseIdle(n) PROVE Rests
  <2>1. UNCHANGED <<acq, borrowed, task, doomed>>
        /\ \E s \in Sandbox \cup {None}, D \in SUBSET Idle :
              TakeIdle({"fresh", "near"}, s, D) /\ Kill({s})
    BY <1>2, Zenon DEF ReleaseIdle
  <2> QED
    BY <2>1, TakeKills, TakesOnly, Zenon
<1>3. ASSUME NEW c \in Caller, CallerDone(c) PROVE Rests
  <2>1. UNCHANGED <<acq, doomed, task, idle>>
    BY <1>3, Zenon DEF CallerDone, store
  <2>2. PICK s \in borrowed[c] : alive' = alive \ {s} /\ borrowed' = [borrowed EXCEPT ![c] = @ \ {s}]
    BY <1>3, Zenon DEF CallerDone
  <2>3. borrowed'[c] = borrowed[c] \ {s} /\ \A d \in Caller : d # c => borrowed'[d] = borrowed[d]
    BY <2>2, Zenon DEF TypeOK
  <2>4. Borrowed \ Borrowed' \subseteq {s}
    BY <2>3, Zenon DEF Borrowed
  <2>5. Idle' = Idle /\ Doomed' = Doomed
    BY <2>1, Zenon DEF Idle, Doomed
  <2> QED
    BY <1>0, <2>1, <2>2, <2>4, <2>5 DEF Rests
<1>4. ASSUME NEW m \in Manager, DestroyBegin(m) \/ DestroyMark(m) \/ DestroyFails(m) PROVE Rests
  <2>1. UNCHANGED <<alive, acq, borrowed, task, doomed, idle>>
    BY <1>4, Zenon DEF DestroyBegin, DestroyMark, DestroyFails, store
  <2> QED
    BY <2>1, LeftAlone, Zenon
<1>5. ASSUME NEW m \in Manager, DestroyDrain(m) PROVE Rests
  <2>1. UNCHANGED <<acq, borrowed, task, doomed>>
        /\ \E s \in Sandbox \cup {None}, D \in SUBSET Idle :
              TakeIdle({"fresh", "near"}, s, D) /\ Kill({s})
    BY <1>5, Zenon DEF DestroyDrain
  <2> QED
    BY <2>1, TakeKills, TakesOnly, Zenon
<1>6. ASSUME NEW m \in Manager, DestroyClear(m) PROVE Rests
  <2>1. Idle = {}
    BY <1>6, Zenon DEF DestroyClear, DestroyInv, DestroyedEmpty
  <2>2. UNCHANGED <<alive, acq, borrowed, task, doomed>> /\ idle' = [s \in Sandbox |-> "none"]
    BY <1>6, Zenon DEF DestroyClear
  <2>3. \A s \in Sandbox : idle'[s] = "none"
    BY <2>2, Zenon
  <2> QED
    BY <2>1, <2>2, <2>3, TakesOnly, Zenon
<1>7. ASSUME TombstoneExpires \/ LockExpires PROVE Rests
  <2>1. UNCHANGED <<alive, acq, borrowed, task, doomed, idle>>
    BY <1>7, Zenon DEF TombstoneExpires, LockExpires
  <2> QED
    BY <2>1, LeftAlone, Zenon
<1>8. ASSUME NEW s \in Sandbox, Age(s) PROVE Rests
  <2>1. UNCHANGED <<acq, borrowed, task, doomed>>
    BY <1>8, Zenon DEF Age
  <2>2. \/ idle' = [idle EXCEPT ![s] = "near"] /\ alive' = alive
        \/ idle' = [idle EXCEPT ![s] = "expired"] /\ alive' = alive \ {s}
    BY <1>8, Zenon DEF Age
  <2>3. Idle \subseteq Idle' /\ \A x \in Sandbox : idle'[x] = "expired" => x \notin alive'
    BY <1>0, <2>2 DEF Idle
  <2>4. alive' \subseteq alive
    BY <2>2, Zenon
  <2> QED
    BY <2>1, <2>3, <2>4, TakesOnly, Zenon
<1>9. ASSUME NEW s \in Sandbox, Die(s) PROVE Rests
  <2>1. UNCHANGED <<acq, borrowed, task, doomed, idle>> /\ alive' \subseteq alive
    BY <1>9, Zenon DEF Die, store
  <2>2. Idle' = Idle
    BY <2>1, Zenon DEF Idle
  <2> QED
    BY <1>0, <2>1, <2>2, TakesOnly, Zenon
<1> QED
  BY <1>1, <1>2, <1>3, <1>4, <1>5, <1>6, <1>7, <1>8, <1>9, Zenon DEF Destroy

\* A warmup keeps its sandbox, or leaves it in the buffer or dead.
Works(k) ==
    /\ alive' \ alive \subseteq Unused \cap {task'[k].sb}
    /\ task[k].sb \in alive' => task'[k].sb = task[k].sb \/ task[k].sb \in Kept
    /\ task'[k].pc \in {"free", "create", "late"} => task'[k].sb = None
    /\ task'[k].pc = "recheck" => task'[k].sb \in Idle'
    /\ Idle \subseteq Idle' \/ (task[k].pc = "remove" /\ Idle \ Idle' \subseteq {task'[k].sb})
    /\ Idle \ Idle' \subseteq {task[k].sb}
    /\ \A s \in Sandbox : idle'[s] = "expired" => s \notin alive'

LEMMA WorksStep ==
    ASSUME CustodyInv, Calm, OrphanInv, NEW k \in Key, Warmup(k)
    PROVE  Works(k)
<1> DEFINE t == task[k]
<1>0. /\ TypeOK /\ task \in [Key -> TaskRec] /\ EndTenure(k[1]) \in [Key -> TaskRec] /\ t \in TaskRec
      /\ idle \in [Sandbox -> {"none", "fresh", "near", "expired"}] /\ alive \subseteq Sandbox
  BY KeyType, EndTenureType, Zenon DEF CustodyInv, TypeOK
<1>1. \A s \in Sandbox : idle[s] = "expired" => s \notin alive
  BY Zenon DEF OrphanInv
<1>2. \A s \in Unused : s \in Sandbox /\ s \notin alive /\ s \notin Idle
  BY Zenon DEF Unused, Tracked
<1>3. ASSUME NEW pc, Goto(k, pc)
      PROVE  task'[k].pc = pc /\ task'[k].sb = t.sb
  BY <1>0, <1>3 DEF Goto, TaskRec
<1>4. ASSUME NEW pc, Retreat(k, pc)
      PROVE  task'[k].pc = pc /\ task'[k].sb = t.sb
  BY <1>0, <1>4 DEF Retreat, TakingBack, FreeTask
<1>5. ASSUME task' = [task EXCEPT ![k] = FreeTask]
      PROVE  task'[k].pc = "free" /\ task'[k].sb = None
  BY <1>0, <1>5, Constants, Zenon
<1>6. ASSUME NEW pc, NEW s, task' = [task EXCEPT ![k].pc = pc, ![k].sb = s]
      PROVE  task'[k].pc = pc /\ task'[k].sb = s
  BY <1>0, <1>6 DEF TaskRec
<1>7. ASSUME UNCHANGED <<idle, alive>>, task'[k].sb = t.sb,
             task'[k].pc \in {"commit", "put", "remove", "cleanup"}
      PROVE  Works(k)
  <2>1. Idle' = Idle
    BY <1>7, Zenon DEF Idle
  <2> QED
    BY <1>1, <1>7, <2>1 DEF Works
<1>8. ASSUME UNCHANGED idle, alive' = alive \ {t.sb}, task'[k].sb = None, task'[k].pc = "free"
      PROVE  Works(k)
  <2>1. Idle' = Idle
    BY <1>8, Zenon DEF Idle
  <2> QED
    BY <1>1, <1>8, <2>1 DEF Works
<1>9. ASSUME UNCHANGED <<idle, alive>>, t.sb \in alive => t.sb \in Kept, task'[k].sb = None,
             task'[k].pc # "recheck"
      PROVE  Works(k)
  <2>1. Idle' = Idle
    BY <1>9, Zenon DEF Idle
  <2> QED
    BY <1>1, <1>9, <2>1 DEF Works
<1>10. ASSUME NEW s \in Unused, UNCHANGED idle, alive' = alive \cup {s}, t.sb = None,
              task'[k].sb = s, task'[k].pc \in {"stage", "lateKill"}
       PROVE  Works(k)
  <2>1. Idle' = Idle
    BY <1>10, Zenon DEF Idle
  <2>2. None \notin alive'
    BY <1>0, <1>2, <1>10, PoolAssumption, Zenon
  <2>3. \A x \in Sandbox : idle'[x] = "expired" => x \notin alive'
    BY <1>1, <1>2, <1>10 DEF Idle
  <2> QED
    BY <1>10, <2>1, <2>2, <2>3 DEF Works
<1>11. /\ t.pc \in {"free", "create", "late"} => t.sb = None
       /\ t.pc = "recheck" => t.sb \in Kept \cup (Sandbox \ alive)
       /\ Warms(k) => t.sb \in Sandbox
  BY Zenon DEF OrphanInv, CustodyInv, AloneInv
<1>12. None \notin alive
  BY <1>0, PoolAssumption, Zenon
<1>13. CASE WarmupCreate(k)
  <2>1. task' = [task EXCEPT ![k] = [FreeTask EXCEPT !.pc = "late"]] =>
           task'[k].pc = "late" /\ task'[k].sb = None
    BY <1>0, Zenon DEF FreeTask
  <2>2. UNCHANGED idle /\ t.sb = None
    BY <1>11, <1>13, Zenon DEF WarmupCreate, store
  <2>3. \/ /\ \/ task' = [task EXCEPT ![k] = FreeTask]
              \/ task' = [task EXCEPT ![k] = [FreeTask EXCEPT !.pc = "late"]]
           /\ UNCHANGED alive
        \/ \E s \in Unused : /\ alive' = alive \cup {s}
                             /\ task' = [task EXCEPT ![k].pc = "stage", ![k].sb = s]
    BY <1>13, Zenon DEF WarmupCreate, Complete
  <2>4. ASSUME NEW s \in Unused, alive' = alive \cup {s},
               task' = [task EXCEPT ![k].pc = "stage", ![k].sb = s]
        PROVE  Works(k)
    BY <1>6, <1>10, <2>2, <2>4, Zenon
  <2>5. ASSUME UNCHANGED alive, task'[k].sb = None, task'[k].pc # "recheck"
        PROVE  Works(k)
    BY <1>9, <1>12, <2>2, <2>5, Zenon
  <2> QED
    BY <1>5, <2>1, <2>3, <2>4, <2>5, Zenon
<1>14. CASE LateCreate(k)
  <2>1. UNCHANGED idle
    BY <1>14, Zenon DEF LateCreate, store
  <2>2. ASSUME NEW s \in Unused, alive' = alive \cup {s}, t.pc = "late",
               task' = [task EXCEPT ![k].pc = "lateKill", ![k].sb = s]
        PROVE  Works(k)
    BY <1>6, <1>10, <1>11, <2>1, <2>2, Zenon
  <2>3. ASSUME t.pc = "late", task' = [task EXCEPT ![k] = FreeTask], UNCHANGED alive
        PROVE  Works(k)
    BY <1>5, <1>9, <1>11, <1>12, <2>1, <2>3, Zenon
  <2>4. ASSUME task' = [task EXCEPT ![k] = FreeTask], Kill({t.sb})
        PROVE  Works(k)
    BY <1>5, <1>8, <2>1, <2>4, CalmKill, Zenon
  <2> QED
    BY <1>14, <2>2, <2>3, <2>4, Zenon DEF LateCreate
<1>15. CASE WarmupStage(k)
  <2>1. UNCHANGED <<idle, alive>> /\ (Goto(k, "commit") \/ Retreat(k, "cleanup"))
    BY <1>15, Zenon DEF WarmupStage, store
  <2> QED
    BY <1>3, <1>4, <1>7, <2>1, Zenon
<1>16. CASE CanCommitWarmup(k)
  <2>1. task' = [EndTenure(k[1]) EXCEPT ![k] = TakingBack(k, "cleanup")] =>
           task'[k].pc = "cleanup" /\ task'[k].sb = t.sb
    BY <1>0 DEF TakingBack, FreeTask
  <2>2. /\ UNCHANGED <<idle, alive>>
        /\ \/ Goto(k, "put") \/ Retreat(k, "cleanup")
           \/ task' = [EndTenure(k[1]) EXCEPT ![k] = TakingBack(k, "cleanup")]
    BY <1>16, Zenon DEF CanCommitWarmup, store
  <2> QED
    BY <1>3, <1>4, <1>7, <2>1, <2>2, Zenon
<1>17. CASE WarmupPutIdle(k)
  <2>1. CASE UNCHANGED idle /\ Retreat(k, "cleanup")
    <3>1. UNCHANGED <<idle, alive>>
      BY <1>17, <2>1, Zenon DEF WarmupPutIdle
    <3> QED
      BY <1>4, <1>7, <2>1, <3>1, Zenon
  <2>2. CASE /\ idle' = [idle EXCEPT ![t.sb] = "fresh"]
             /\ Goto(k, "recheck") \/ Retreat(k, "cleanup")
    <3>1. t.sb \in Sandbox /\ UNCHANGED alive
      BY <1>11, <1>17, Zenon DEF WarmupPutIdle, Warms
    <3>2. Idle' = Idle \cup {t.sb} /\ \A s \in Sandbox : idle'[s] = "expired" => idle[s] = "expired"
      BY <1>0, <2>2, <3>1 DEF Idle
    <3>3. task'[k].sb = t.sb /\ task'[k].pc \in {"recheck", "cleanup"}
      BY <1>3, <1>4, <2>2, Zenon
    <3> QED
      BY <1>1, <3>1, <3>2, <3>3 DEF Works
  <2> QED
    BY <1>17, <2>1, <2>2, Zenon DEF WarmupPutIdle
<1>18. CASE WarmupRecheck(k)
  <2>1. UNCHANGED <<idle, alive>> /\ t.pc = "recheck"
    BY <1>18, Zenon DEF WarmupRecheck, store
  <2>2. \/ task' = [task EXCEPT ![k] = FreeTask]
        \/ Retreat(k, "remove") \/ Retreat(k, "cleanup")
    BY <1>18, Zenon DEF WarmupRecheck, Complete
  <2>3. t.sb \in alive => t.sb \in Kept
    BY <1>11, <2>1, Zenon
  <2> QED
    BY <1>4, <1>5, <1>7, <1>9, <2>1, <2>2, <2>3, Zenon
<1>19. CASE WarmupRemoveIdle(k)
  <2>1. /\ UNCHANGED alive /\ t.pc = "remove"
        /\ idle' \in {idle, [idle EXCEPT ![t.sb] = "none"]} /\ Retreat(k, "cleanup")
    BY <1>19, Zenon DEF WarmupRemoveIdle
  <2>2. Idle \ Idle' \subseteq {t.sb} /\ \A s \in Sandbox : idle'[s] = "expired" => idle[s] = "expired"
    BY <1>0, <2>1 DEF Idle
  <2> QED
    BY <1>1, <1>4, <2>1, <2>2 DEF Works
<1>20. CASE WarmupCleanup(k)
  <2>1. UNCHANGED idle /\ alive' = alive \ {t.sb} /\ task' = [task EXCEPT ![k] = FreeTask]
    BY <1>20, CalmKill, Zenon DEF WarmupCleanup, Complete, store
  <2> QED
    BY <1>5, <1>8, <2>1, Zenon
<1> QED
  BY <1>13, <1>14, <1>15, <1>16, <1>17, <1>18, <1>19, <1>20, Zenon DEF Warmup

\* What the steps have in common: a sandbox that runs stays with somebody.
Follow ==
    /\ alive' \ alive \subseteq Unused \cap Tracked'
    /\ \A s \in Kept \cap alive' :
          s \in Kept' \/ \E k \in Key : /\ task[k].pc = "remove" /\ task[k].sb = s /\ task'[k].sb = s
    /\ \E i \in Key \cup {None} :
          /\ i \in Key => task'[i].sb \in {None, task[i].sb} \cup Unused
          /\ \A k \in Key \ {i} : task'[k].sb = task[k].sb
    /\ \A k \in Key :
          /\ task[k].sb \in alive' => task'[k].sb = task[k].sb \/ task[k].sb \in Kept'
          /\ task'[k].pc \in {"free", "create", "late"} => task'[k].sb = None
          /\ task'[k].pc = "recheck" =>
                task'[k].sb \in Kept' \/ (task[k].pc = "recheck" /\ task'[k].sb = task[k].sb)
    /\ \A s \in Sandbox : idle'[s] = "expired" => s \notin alive'

\* Then nothing that runs is orphaned, and warmups know where their sandbox is.
LEMMA FollowKeeps ==
    ASSUME TypeOK, TypeOK', OrphanInv, Follow
    PROVE  /\ NoOrphan'
           /\ \A s \in Sandbox : idle'[s] = "expired" => s \notin alive'
           /\ \A k \in Key :
                 /\ task'[k].pc \in {"free", "create", "late"} => task'[k].sb = None
                 /\ task'[k].pc = "recheck" => task'[k].sb \in Kept' \cup (Sandbox \ alive')
                 /\ \A j \in Key \ {k} : task'[k].sb = None \/ task'[j].sb # task'[k].sb
<1>0. /\ alive' \subseteq Sandbox /\ None \notin Sandbox
      /\ \A k \in Key : task[k].sb \in Sandbox \cup {None}
      /\ \A k \in Key : task'[k].sb \in Sandbox \cup {None}
  BY PoolAssumption DEF TypeOK, TaskRec
<1>1. \A k \in Key : \A j \in Key \ {k} : task[k].sb = None \/ task[j].sb # task[k].sb
  BY Zenon DEF OrphanInv
<1>2. \A s \in Unused : s \notin alive /\ s # None /\ \A k \in Key : task[k].sb # s
  BY PoolAssumption DEF Unused, Tracked, InWarmup
<1>3. \A k \in Key : \A j \in Key \ {k} : task'[k].sb = None \/ task'[j].sb # task'[k].sb
  <2>1. PICK i \in Key \cup {None} : /\ i \in Key => task'[i].sb \in {None, task[i].sb} \cup Unused
                                     /\ \A k \in Key \ {i} : task'[k].sb = task[k].sb
    BY Zenon DEF Follow
  <2> SUFFICES ASSUME NEW k \in Key, NEW j \in Key \ {k}, task'[k].sb # None, task'[j].sb = task'[k].sb
               PROVE  FALSE
    OBVIOUS
  <2>2. CASE i # k /\ i # j
    BY <1>1, <2>1, <2>2, Zenon
  <2>3. CASE i = k
    <3>1. task'[j].sb = task[j].sb /\ task'[k].sb \in {task[k].sb} \cup Unused
      BY <2>1, <2>3, Zenon
    <3> QED
      BY <1>1, <1>2, <3>1, Zenon
  <2>4. CASE i = j
    <3>1. task'[k].sb = task[k].sb /\ task'[j].sb \in {task[j].sb} \cup Unused
      BY <2>1, <2>4, Zenon
    <3> QED
      BY <1>1, <1>2, <3>1, Zenon
  <2> QED
    BY <2>2, <2>3, <2>4, Zenon
<1>4. \A k \in Key : task'[k].sb \in Sandbox => task'[k].sb \in Tracked'
  BY Zenon DEF Tracked, InWarmup
<1>5. Kept' \subseteq Tracked'
  BY Zenon DEF Kept, Tracked
<1>6. NoOrphan'
  <2> SUFFICES ASSUME NEW s \in alive' PROVE s \in Tracked'
    BY Zenon DEF NoOrphan
  <2>1. CASE s \notin alive
    BY <2>1, Zenon DEF Follow
  <2>2. CASE s \in Kept
    <3>1. s \in Kept' \/ \E k \in Key : task'[k].sb = s
      BY <2>2, Zenon DEF Follow
    <3> QED
      BY <1>0, <1>4, <1>5, <3>1, Zenon
  <2>3. CASE s \in InWarmup
    <3>1. PICK k \in Key : task[k].sb = s
      BY <2>3, Zenon DEF InWarmup
    <3> QED
      BY <1>0, <1>4, <1>5, <3>1, Zenon DEF Follow
  <2>4. s \in alive => s \in Kept \/ s \in InWarmup
    BY Zenon DEF OrphanInv, NoOrphan, Tracked, Kept
  <2> QED
    BY <2>1, <2>2, <2>3, <2>4, Zenon
<1>7. ASSUME NEW k \in Key, task'[k].pc = "recheck"
      PROVE  task'[k].sb \in Kept' \cup (Sandbox \ alive')
  <2> SUFFICES ASSUME task'[k].sb \notin Kept'
               PROVE  task'[k].sb \in Sandbox \ alive'
    BY Zenon
  <2>1. task[k].pc = "recheck" /\ task'[k].sb = task[k].sb
    BY <1>7, Zenon DEF Follow
  <2>2. task[k].sb \in Kept \cup (Sandbox \ alive)
    BY <2>1, Zenon DEF OrphanInv
  <2>3. Kept \subseteq Sandbox
    BY DEF Kept, Idle, InAcquire, Doomed, Borrowed, TypeOK
  <2>4. CASE task[k].sb \in Kept /\ task[k].sb \in alive'
    <3>1. PICK j \in Key : task[j].pc = "remove" /\ task[j].sb = task[k].sb
      BY <2>1, <2>4, Zenon DEF Follow
    <3>2. j # k /\ task[k].sb # None
      BY <1>0, <2>1, <2>3, <2>4, <3>1, Zenon
    <3> QED
      BY <1>1, <3>1, <3>2, Zenon
  <2>5. task[k].sb \in alive' /\ task[k].sb \notin alive => FALSE
    BY <1>2, Zenon DEF Follow
  <2> QED
    BY <2>1, <2>2, <2>3, <2>4, <2>5, Zenon
<1> QED
  BY <1>3, <1>6, <1>7, Zenon DEF Follow

LEMMA FollowStep ==
    ASSUME CustodyInv, DestroyInv, Calm, OrphanInv, Next
    PROVE  Follow
<1>0. /\ \A k \in Key : /\ task[k].pc \in {"free", "create", "late"} => task[k].sb = None
                        /\ task[k].pc = "recheck" => task[k].sb \in Kept \cup (Sandbox \ alive)
      /\ \A s \in Sandbox : idle[s] = "expired" => s \notin alive
  BY Zenon DEF OrphanInv
<1>1. ASSUME Rests PROVE Follow
  <2>1. InAcquire' = InAcquire
    BY <1>1, Zenon DEF Rests, InAcquire
  <2>2. Kept \cap alive' \subseteq Kept'
    BY <1>1, <2>1, Zenon DEF Rests, Kept
  <2> QED
    BY <1>0, <1>1, <2>2, Zenon DEF Rests, Follow
<1>2. ASSUME NEW k \in Key, Warmup(k) PROVE Follow
  <2>1. Works(k) /\ WarmupMoves(k)
    BY <1>2, WorksStep, WarmupStepMoves, Zenon
  <2>2. InAcquire' = InAcquire /\ Doomed' = Doomed /\ Borrowed' = Borrowed
    BY <2>1, Zenon DEF WarmupMoves, InAcquire, Doomed, Borrowed
  <2>3. \A s \in Kept : s \in Kept' \/ (task[k].pc = "remove" /\ task[k].sb = s /\ task'[k].sb = s)
    BY <2>1, <2>2, Zenon DEF Works, Kept
  <2>4. \A j \in Key \ {k} : task'[j].pc = task[j].pc /\ task'[j].sb = task[j].sb
    BY <2>1, Zenon DEF WarmupMoves
  <2>5. task'[k].sb \in {None, task[k].sb} \cup Unused
    BY <2>1, Zenon DEF WarmupMoves
  <2>6. alive' \ alive \subseteq Unused \cap Tracked'
    BY <2>1, Zenon DEF Works, Tracked, InWarmup, Unused
  <2>7. Idle' \subseteq Kept'
    BY Zenon DEF Kept
  <2>8. ASSUME NEW j \in Key
        PROVE  /\ task[j].sb \in alive' => task'[j].sb = task[j].sb \/ task[j].sb \in Kept'
               /\ task'[j].pc \in {"free", "create", "late"} => task'[j].sb = None
               /\ task'[j].pc = "recheck" =>
                     task'[j].sb \in Kept' \/ (task[j].pc = "recheck" /\ task'[j].sb = task[j].sb)
    <3>1. CASE j # k
      BY <1>0, <2>4, <3>1, Zenon
    <3>2. CASE j = k
      BY <2>1, <2>3, <2>7, <3>2, Zenon DEF Works
    <3> QED
      BY <3>1, <3>2, Zenon
  <2>9. \A s \in Sandbox : idle'[s] = "expired" => s \notin alive'
    BY <2>1, Zenon DEF Works
  <2> QED
    BY <2>3, <2>4, <2>5, <2>6, <2>8, <2>9, Zenon DEF Follow
<1>3. ASSUME NEW c \in Caller, AcquireCall(c) \/ Acquire(c) PROVE Follow
  <2>1. Passes(c) /\ UNCHANGED task
    BY <1>3, PassesStep, Zenon DEF AcquireCall, Acquire, AcquireBegin, AcquireEnter, AcquireTake,
            AcquireConnect, AcquireFence, AcquireFinal, AcquireCreate, AcquireEnd
  <2>2. \A d \in Caller \ {c} : acq'[d] = acq[d] /\ borrowed'[d] = borrowed[d]
    <3>1. \/ UNCHANGED borrowed
          \/ borrowed' = [borrowed EXCEPT ![c] = @ \cup {acq[c].sb}]
      BY <1>3, Zenon DEF AcquireCall, Acquire, AcquireBegin, AcquireEnter, AcquireTake,
            AcquireConnect, AcquireFence, AcquireFinal, AcquireCreate, AcquireEnd
    <3>2. borrowed \in [Caller -> SUBSET Sandbox] /\ TypeOK
      BY Zenon DEF CustodyInv, TypeOK
    <3>3. \A d \in Caller \ {c} : borrowed'[d] = borrowed[d]
      BY <3>1, <3>2, Zenon
    <3>4. \A d \in Caller \ {c} : acq'[d] = acq[d]
      BY <1>3, <3>2, RequestPc, Zenon
    <3> QED
      BY <3>3, <3>4, Zenon
  <2>3. Borrowed \subseteq Borrowed' /\ borrowed'[c] \subseteq Borrowed'
    <3>1. \A d \in Caller : borrowed[d] \subseteq borrowed'[d]
      BY <2>1, <2>2 DEF Passes
    <3> QED
      BY <3>1, Zenon DEF Borrowed
  <2>4. InAcquire = UNION {Taken(d) : d \in Caller} /\ InAcquire' = UNION {Taken(d)' : d \in Caller}
    BY DEF InAcquire, Taken
  <2>5. \A d \in Caller \ {c} : Taken(d)' = Taken(d)
    BY <2>2, Zenon DEF Taken
  <2>6. Taken(c)' \subseteq InAcquire' /\ InAcquire \subseteq InAcquire' \cup Taken(c)
    BY <2>4, <2>5, Zenon
  <2>7. Kept \cap alive' \subseteq Kept'
    BY <2>1, <2>3, <2>6, Zenon DEF Passes, Kept
  <2>8. alive' \ alive \subseteq Unused \cap Tracked'
    BY <2>1, <2>6, Zenon DEF Passes, Tracked
  <2>9. \A s \in Sandbox : idle'[s] = "expired" => s \notin alive'
    <3>1. \A s \in Sandbox : idle[s] = "expired" => s \notin Unused
      BY DEF Unused, Tracked, Idle
    <3> QED
      BY <1>0, <2>1, <3>1, Zenon DEF Passes
  <2>10. \A k \in Key : task'[k] = task[k]
    BY <2>1, Zenon
  <2> QED
    BY <1>0, <2>7, <2>8, <2>9, <2>10, Zenon DEF Follow
<1> QED
  BY <1>1, <1>2, <1>3, RestsLifecycle, RestsReconcile, RestsOther, Zenon DEF Next, CustodyInv

\* Instances that stay up finish their requests.
LEMMA RequestStep ==
    ASSUME CustodyInv, Calm, OrphanInv, Caller # {}, Next
    PROVE  RequestInv'
<1> DEFINE Up(n) == /\ stopper[n].pc = "none" /\ tick[n].pc # "retire"
                    /\ life[n] \in {"NOT_STARTED", "RUNNING"}
                    /\ life[n] = "NOT_STARTED" => doomed[n] = {}
                    /\ life[n] = "RUNNING" => installed[n]
           Serves(c) == acq[c].pc # "out" => /\ life[Home[c]] = "RUNNING"
                                             /\ acq[c].pc # "end" => acq[c].gen = gen[Home[c]]
<1>0. /\ TypeOK /\ RequestInv /\ Active
      /\ ~May("shutdown") /\ ~May("destroy") /\ ~May("outage") /\ ~May("crash")
  BY CalmRequest, Zenon DEF CustodyInv
<1>1. /\ \A n \in Node : Up(n)
      /\ \A c \in Caller : Serves(c) /\ Home[c] \in Node
      /\ \A m \in Manager : mgr[m] = "off"
  BY <1>0, PoolAssumption, Zenon DEF RequestInv
<1>2. UNCHANGED <<destroy, mgr>>
  BY <1>0, <1>1, DestroyFrame, Zenon DEF DestroyBegin, Destroy, DestroyDrain, DestroyClear, DestroyMark,
                                  DestroyFails, TombstoneExpires, Active
<1>3. ASSUME UNCHANGED <<life, gen, installed, stopper>>, \A n \in Node : tick'[n].pc # "retire",
             \A n \in Node : doomed'[n] \subseteq doomed[n], UNCHANGED acq
      PROVE  (\A n \in Node : Up(n)') /\ (\A c \in Caller : Serves(c)')
  BY <1>1, <1>3, Zenon
<1>4. ASSUME NEW m \in Node, Lifecycle(m)
      PROVE  (\A n \in Node : Up(n)') /\ (\A c \in Caller : Serves(c)')
  <2>1. Start(m)
    BY <1>0, <1>1, <1>4, Zenon DEF Lifecycle, Shutdown, ShutdownDrain, ShutdownStop, ShutdownFinish, Crash
  <2>2. /\ life[m] # "RUNNING" /\ UNCHANGED <<tick, stopper, acq>> /\ StopReconcile(m)
        /\ gen' = [gen EXCEPT ![m] = @ + 1]
        /\ installed' = [installed EXCEPT ![m] = TRUE] /\ life' = [life EXCEPT ![m] = "RUNNING"]
    BY <1>0, <2>1, Zenon DEF Start
  <2>3. /\ life'[m] = "RUNNING" /\ installed'[m]
        /\ \A n \in Node : n # m => life'[n] = life[n] /\ gen'[n] = gen[n] /\ (installed'[n] <=> installed[n])
    BY <1>0, <2>2, Zenon DEF TypeOK
  <2>4. \A n \in Node : doomed'[n] \subseteq doomed[n]
    BY <1>0, <2>2, Stopped, Zenon
  <2>5. \A c \in Caller : acq[c].pc # "out" => Home[c] # m
    BY <1>1, <2>2, Zenon
  <2>6. ASSUME NEW n \in Node PROVE Up(n)'
    <3>1. CASE n = m
      BY <1>1, <2>2, <2>3, <3>1
    <3>2. CASE n # m
      BY <1>1, <2>2, <2>3, <2>4, <3>2, Zenon
    <3> QED
      BY <3>1, <3>2, Zenon
  <2>7. ASSUME NEW c \in Caller PROVE Serves(c)'
    <3>1. acq[c].pc # "out" => life'[Home[c]] = life[Home[c]] /\ gen'[Home[c]] = gen[Home[c]]
      BY <1>1, <2>3, <2>5, Zenon
    <3>2. acq'[c] = acq[c]
      BY <2>2, Zenon
    <3> QED
      BY <1>1, <3>1, <3>2
  <2> QED
    BY <2>6, <2>7, Zenon
<1>5. ASSUME NEW m \in Node, Reconcile(m)
      PROVE  (\A n \in Node : Up(n)') /\ (\A c \in Caller : Serves(c)')
  <2>0. ~TickRetire(m) /\ ~TickFails(m)
    BY <1>0, <1>1, Zenon DEF TickRetire, TickFails
  <2>1. UNCHANGED <<life, gen, installed, stopper, acq>>
    <3>1. CASE TickBegin(m)
      BY <1>0, <3>1, Zenon DEF TickBegin
    <3>2. CASE ~TickBegin(m)
      BY <1>5, <2>0, <3>2, Zenon DEF Reconcile, TickLock, TickPlan, TickShrink, TickSubmit,
                    TickEnd, HeartbeatLost, KillDoomed, run
    <3> QED
      BY <3>1, <3>2, Zenon
  <2>2. \A n \in Node : doomed'[n] \subseteq doomed[n]
    <3>1. CASE KillDoomed(m)
      BY <1>0, <3>1 DEF KillDoomed, TypeOK
    <3>2. CASE ~KillDoomed(m)
      BY <1>5, <2>0, <3>2, Zenon DEF Reconcile, TickBegin, TickLock, TickPlan, TickShrink, TickSubmit,
                    TickEnd, HeartbeatLost
    <3> QED
      BY <3>1, <3>2, Zenon
  <2>3. \A n \in Node : tick'[n].pc # "retire"
    <3>0. tick \in [Node -> TickRec] /\ tick[m] \in TickRec
      BY <1>0, Zenon DEF TypeOK
    <3>1. \A n \in Node : n # m => tick'[n] = tick[n]
      BY <1>5, <3>0, Zenon DEF Reconcile, TickBegin, TickLock, TickPlan, TickShrink, TickSubmit,
                    TickFails, TickRetire, TickEnd, HeartbeatLost, KillDoomed
    <3>2. CASE TickPlan(m) \/ TickShrink(m) \/ TickSubmit(m)
      <4>1. tick'[m].pc \in {"shrink", "submit", "end"}
        BY <1>0, <3>2, TickGoesOn, Zenon
      <4> QED
        BY <1>1, <3>1, <4>1
    <3>3. CASE TickBegin(m)
      <4>1. tick' = [tick EXCEPT ![m].pc = "lock"]
        BY <1>0, <3>3, Zenon DEF TickBegin
      <4> QED
        BY <1>1, <3>0, <4>1 DEF TickRec
    <3>4. CASE TickLock(m)
      <4>1. \/ tick' = [tick EXCEPT ![m] = Closing]
            \/ tick' = [tick EXCEPT ![m].pc = "plan", ![m].warming = Warming(m), ![m].max = maxIdle]
        BY <3>4, Zenon DEF TickLock
      <4> QED
        BY <1>1, <3>0, <4>1, Constants DEF TickRec
    <3>5. CASE TickEnd(m) \/ HeartbeatLost(m) \/ KillDoomed(m)
      <4>1. tick' = tick \/ tick' = [tick EXCEPT ![m] = NoTick]
        BY <3>5, Zenon DEF TickEnd, HeartbeatLost, KillDoomed
      <4> QED
        BY <1>1, <3>0, <4>1, Constants, ZenonT(60)
    <3> QED
      BY <1>5, <2>0, <3>2, <3>3, <3>4, <3>5, Zenon DEF Reconcile
  <2> QED
    BY <1>3, <2>1, <2>2, <2>3, Zenon
<1>6. ASSUME NEW k \in Key, Warmup(k)
      PROVE  (\A n \in Node : Up(n)') /\ (\A c \in Caller : Serves(c)')
  <2>1. UNCHANGED <<life, gen, installed, stopper, acq, tick, doomed>>
    BY <1>6, Zenon DEF Warmup, WarmupCreate, LateCreate, WarmupStage, CanCommitWarmup, WarmupPutIdle,
              WarmupRecheck, WarmupRemoveIdle, WarmupCleanup, run
  <2> QED
    BY <1>1, <1>3, <2>1, Zenon
<1>7. ASSUME NEW c \in Caller, AcquireCall(c) \/ Acquire(c)
      PROVE  (\A n \in Node : Up(n)') /\ (\A d \in Caller : Serves(d)')
  <2>1. UNCHANGED <<life, gen, installed, stopper, tick>>
    BY <1>7, Zenon DEF AcquireCall, Acquire, AcquireBegin, AcquireEnter, AcquireTake, AcquireConnect,
                     AcquireFence, AcquireFinal, AcquireCreate, AcquireEnd, run
  <2>2. Passes(c) /\ \A d \in Caller \ {c} : acq'[d] = acq[d]
    BY <1>0, <1>7, PassesStep, RequestPc, Zenon
  <2>3. \A n \in Node : life[n] = "NOT_STARTED" => doomed'[n] = doomed[n]
    BY <1>1, <2>2 DEF Passes
  <2>4. \A n \in Node : Up(n)'
    BY <1>1, <2>1, <2>3, Zenon
  <2>5. \A d \in Caller \ {c} : Serves(d)'
    BY <1>1, <2>1, <2>2
  <2>6. Serves(c)'
    <3>1. /\ acq'[c].pc # "out" => life[Home[c]] = "RUNNING"
          /\ acq'[c].pc \notin {"out", "end"} => acq'[c].gen = gen[Home[c]]
      BY <2>2, Zenon DEF Passes
    <3> QED
      BY <2>1, <3>1, Zenon
  <2> QED
    BY <2>4, <2>5, <2>6, Zenon
<1>8. ASSUME \/ \E c \in Caller : CallerDone(c)
             \/ \E m \in Node : Resize(m) \/ ReleaseIdle(m)
             \/ \E m \in Manager : DestroyBegin(m) \/ Destroy(m)
             \/ TombstoneExpires \/ LockExpires
             \/ \E s \in Sandbox : Age(s) \/ Die(s)
      PROVE  (\A n \in Node : Up(n)') /\ (\A c \in Caller : Serves(c)')
  <2>1. UNCHANGED <<life, gen, installed, stopper, acq, tick, doomed>>
    BY <1>8, Zenon DEF CallerDone, Resize, ReleaseIdle, DestroyBegin, Destroy, DestroyDrain,
       DestroyClear, DestroyMark, DestroyFails, TombstoneExpires, LockExpires, Age, Die, run
  <2> QED
    BY <1>1, <1>3, <2>1, Zenon
<1>9. (\A n \in Node : Up(n)') /\ (\A c \in Caller : Serves(c)')
  BY <1>4, <1>5, <1>6, <1>7, <1>8, Zenon DEF Next
<1> QED
  BY <1>0, <1>1, <1>2, <1>9, Zenon DEF RequestInv, Active

\* All of it is kept.
LEMMA OrphanStep ==
    ASSUME CustodyInv, TypeOK', DestroyInv, Calm, OrphanInv, Next
    PROVE  OrphanInv'
<1>0. TypeOK
  BY Zenon DEF CustodyInv
<1>1. /\ NoOrphan'
      /\ \A s \in Sandbox : idle'[s] = "expired" => s \notin alive'
      /\ \A k \in Key :
            /\ task'[k].pc \in {"free", "create", "late"} => task'[k].sb = None
            /\ task'[k].pc = "recheck" => task'[k].sb \in Kept' \cup (Sandbox \ alive')
            /\ \A j \in Key \ {k} : task'[k].sb = None \/ task'[j].sb # task'[k].sb
  BY <1>0, FollowStep, FollowKeeps, Zenon
<1>2. Caller # {} => RequestInv'
  BY RequestStep, Zenon
<1>3. Caller = {} => Doomed' = {}
  <2> SUFFICES ASSUME Caller = {} PROVE Doomed' = {}
    OBVIOUS
  <2>1. Doomed = {}
    BY Zenon DEF OrphanInv
  <2>2. ASSUME NEW k \in Key, Warmup(k) PROVE Doomed' = Doomed
    <3>1. UNCHANGED doomed
      BY <2>2, WarmupStepMoves, Zenon DEF WarmupMoves
    <3> QED
      BY <3>1, Zenon DEF Doomed
  <2>3. Rests => Doomed' \subseteq Doomed
    BY Zenon DEF Rests
  <2>4. Doomed' \subseteq Doomed
    BY <1>0, <2>2, <2>3, RestsLifecycle, RestsReconcile, RestsOther, Zenon DEF Next
  <2> QED
    BY <2>1, <2>4, Zenon
<1>4. ASSUME NEW c \in Caller
      PROVE  /\ acq'[c].pc \in {"out", "begin", "enter", "create", "end"} => acq'[c].pending = {}
             /\ acq'[c].pc \in {"out", "begin", "enter", "take", "create", "end"} => acq'[c].sb = None
  <2>1. CASE acq'[c] = acq[c]
    BY <2>1, Zenon DEF OrphanInv
  <2>2. ASSUME NEW d \in Caller, AcquireCall(d) \/ Acquire(d)
        PROVE  acq'[c] = acq[c] \/ Passes(c)
    BY <1>0, <2>2, PassesStep, RequestPc, Zenon
  <2>3. ASSUME NEW k \in Key, Warmup(k) PROVE acq' = acq
    BY <2>3, WarmupStepMoves, Zenon DEF WarmupMoves
  <2>4. Rests => acq' = acq
    BY Zenon DEF Rests
  <2>5. acq'[c] = acq[c] \/ Passes(c)
    BY <1>0, <2>2, <2>3, <2>4, RestsLifecycle, RestsReconcile, RestsOther, Zenon DEF Next
  <2> QED
    BY <2>1, <2>5, Zenon DEF Passes
<1> QED
  BY <1>1, <1>2, <1>3, <1>4, Zenon DEF OrphanInv

-----------------------------------------------------------------------------
(* The fence of destroy().                                                  *)

\* A warmup puts its entry, once.
Put(k) ==
    /\ Warmup(k) /\ Active /\ task[k].pc = "put" /\ task'[k].pc \in {"recheck", "cleanup"}
    /\ Idle' \subseteq Idle \cup {task[k].sb}

Granted(n) == Active /\ TickLock(n) /\ lock' = n

\* The scripts of the store are fenced: an entry is added, and the lock is granted, only
\* while the namespace is active.
LEMMA Fenced ==
    ASSUME TypeOK, Next
    PROVE  /\ Idle' \subseteq Idle \/ \E k \in Key : Put(k)
           /\ lock' \in {lock, None} \/ \E n \in Node : Granted(n)
<1>0. idle \in [Sandbox -> {"none", "fresh", "near", "expired"}]
  BY Zenon DEF TypeOK
<1>1. UNCHANGED idle => Idle' = Idle
  BY Zenon DEF Idle
<1>2. ASSUME NEW s \in Sandbox \cup {None}, NEW D \in SUBSET Idle, NEW classes,
             TakeIdle(classes, s, D)
      PROVE  Idle' \subseteq Idle
  BY <1>2, Took
<1>3. ASSUME NEW s, idle' = [idle EXCEPT ![s] = "none"]
      PROVE  Idle' \subseteq Idle
  BY <1>0, <1>3, Zenon DEF Idle
<1>4. ASSUME NEW n \in Node, Lifecycle(n)
      PROVE  Idle' \subseteq Idle /\ lock' \in {lock, None}
  <2>1. UNCHANGED idle
    BY <1>4, Zenon DEF Lifecycle, Start, Shutdown, ShutdownDrain, ShutdownStop, ShutdownFinish,
                       Crash, store
  <2>2. lock' \in {lock, None}
    BY <1>4, Zenon DEF Lifecycle, Start, Shutdown, ShutdownDrain, ShutdownStop, ShutdownFinish,
                       Crash, store, StopReconcile, LockReleased
  <2> QED
    BY <1>1, <2>1, <2>2, Zenon
<1>5. ASSUME NEW n \in Node, Reconcile(n)
      PROVE  Idle' \subseteq Idle /\ (lock' \in {lock, None} \/ Granted(n))
  <2>1. lock' \in {lock, None} \/ Granted(n)
    BY <1>5, Zenon DEF Reconcile, TickBegin, TickLock, TickPlan, TickShrink, TickSubmit, TickFails,
              TickRetire, TickEnd, HeartbeatLost, KillDoomed, store, StopReconcile, LockReleased,
              LockGranted, Granted
  <2>2. CASE TickPlan(n)
    BY <2>1, <2>2, <1>0, Zenon DEF TickPlan, Idle
  <2>3. CASE TickShrink(n)
    BY <1>1, <1>2, <2>1, <2>3, Zenon DEF TickShrink
  <2>4. CASE ~TickPlan(n) /\ ~TickShrink(n)
    <3>1. UNCHANGED idle
      BY <1>5, <2>4, Zenon DEF Reconcile, TickBegin, TickLock, TickSubmit, TickFails, TickRetire,
                TickEnd, HeartbeatLost, KillDoomed, store
    <3> QED
      BY <1>1, <2>1, <3>1, Zenon
  <2> QED
    BY <2>2, <2>3, <2>4, Zenon
<1>6. ASSUME NEW k \in Key, Warmup(k)
      PROVE  (Idle' \subseteq Idle \/ Put(k)) /\ lock' \in {lock, None}
  <2>1. UNCHANGED lock
    BY <1>6, Zenon DEF Warmup, WarmupCreate, LateCreate, WarmupStage, CanCommitWarmup,
                       WarmupPutIdle, WarmupRecheck, WarmupRemoveIdle, WarmupCleanup, store
  <2>2. \/ UNCHANGED idle \/ idle' = [idle EXCEPT ![task[k].sb] = "none"]
        \/ /\ Active /\ task[k].pc = "put" /\ idle' = [idle EXCEPT ![task[k].sb] = "fresh"]
           /\ Goto(k, "recheck") \/ Retreat(k, "cleanup")
    BY <1>6, Zenon DEF Warmup, WarmupCreate, LateCreate, WarmupStage, CanCommitWarmup,
                       WarmupPutIdle, WarmupRecheck, WarmupRemoveIdle, WarmupCleanup, store
  <2>3. ASSUME /\ Active /\ task[k].pc = "put" /\ idle' = [idle EXCEPT ![task[k].sb] = "fresh"]
               /\ Goto(k, "recheck") \/ Retreat(k, "cleanup")
        PROVE  Put(k)
    <3>1. task \in [Key -> TaskRec]
      BY Zenon DEF TypeOK
    <3>2. task'[k].pc \in {"recheck", "cleanup"}
      <4>1. task[k] \in TaskRec
        BY <3>1, Zenon
      <4>2. Goto(k, "recheck") => task'[k].pc = "recheck"
        BY <3>1, <4>1, Zenon DEF Goto, TaskRec
      <4>3. Retreat(k, "cleanup") => task'[k].pc = "cleanup"
        BY <3>1, Zenon DEF Retreat, TakingBack, FreeTask
      <4> QED
        BY <2>3, <4>2, <4>3, Zenon
    <3>3. Idle' \subseteq Idle \cup {task[k].sb}
      BY <1>0, <2>3, Zenon DEF Idle
    <3> QED
      BY <1>6, <2>3, <3>2, <3>3, Zenon DEF Put
  <2> QED
    BY <1>1, <1>3, <2>1, <2>2, <2>3, Zenon
<1>7. ASSUME NEW c \in Caller, AcquireCall(c) \/ Acquire(c) \/ CallerDone(c)
      PROVE  Idle' \subseteq Idle /\ lock' \in {lock, None}
  <2>1. UNCHANGED lock
    BY <1>7, Zenon DEF AcquireCall, Acquire, AcquireBegin, AcquireEnter, AcquireTake, AcquireConnect,
                       AcquireFence, AcquireFinal, AcquireCreate, AcquireEnd, CallerDone, store
  <2>2. \/ UNCHANGED idle \/ idle' = [idle EXCEPT ![acq[c].sb] = "none"]
        \/ \E s \in Sandbox \cup {None}, D \in SUBSET Idle : TakeIdle({"fresh"}, s, D)
    BY <1>7, Zenon DEF AcquireCall, Acquire, AcquireBegin, AcquireEnter, AcquireTake, AcquireConnect,
                       AcquireFence, AcquireFinal, AcquireCreate, AcquireEnd, CallerDone, store
  <2> QED
    BY <1>1, <1>2, <1>3, <2>1, <2>2, Zenon
<1>8. ASSUME \/ \E n \in Node : Resize(n) \/ ReleaseIdle(n)
             \/ \E m \in Manager : DestroyBegin(m) \/ Destroy(m)
             \/ TombstoneExpires \/ LockExpires
             \/ \E s \in Sandbox : Age(s) \/ Die(s)
      PROVE  Idle' \subseteq Idle /\ lock' \in {lock, None}
  <2>1. lock' \in {lock, None}
    BY <1>8, Zenon DEF Resize, ReleaseIdle, DestroyBegin, Destroy, DestroyDrain, DestroyClear,
                DestroyMark, DestroyFails, TombstoneExpires, LockExpires, Age, Die, store
  <2>2. \/ UNCHANGED idle \/ idle' = [s \in Sandbox |-> "none"]
        \/ \E s \in Sandbox \cup {None}, D \in SUBSET Idle : TakeIdle({"fresh", "near"}, s, D)
        \/ \E s \in Sandbox : Age(s)
    BY <1>8, Zenon DEF Resize, ReleaseIdle, DestroyBegin, Destroy, DestroyDrain, DestroyClear,
                DestroyMark, DestroyFails, TombstoneExpires, LockExpires, Die, store
  <2>3. idle' = [s \in Sandbox |-> "none"] => Idle' \subseteq Idle
    BY Zenon DEF Idle
  <2>4. ASSUME NEW s \in Sandbox, Age(s) PROVE Idle' \subseteq Idle
    BY <1>0, <2>4, Zenon DEF Age, Idle
  <2> QED
    BY <1>1, <1>2, <2>1, <2>2, <2>3, <2>4, Zenon
<1> QED
  BY <1>4, <1>5, <1>6, <1>7, <1>8, Zenon DEF Next

\* A manager that has drained the namespace leaves it empty.
LEMMA DestroyStep ==
    ASSUME TypeOK, TypeOK', DestroyInv, Next
    PROVE  DestroyInv'
<1>0. mgr \in [Manager -> {"off", "drain", "clear", "mark"}]
  BY Zenon DEF TypeOK
<1>1. CASE UNCHANGED <<destroy, mgr>>
  <2>1. ~Active => Idle' \subseteq Idle /\ lock' \in {lock, None}
    BY Fenced, Zenon DEF Put, Granted
  <2> QED
    BY <1>1, <2>1, Zenon DEF DestroyInv, DestroyedEmpty, Active
<1>2. CASE TombstoneExpires
  BY <1>2, Zenon DEF TombstoneExpires, DestroyInv, DestroyedEmpty, Active
<1>3. ASSUME NEW m \in Manager, DestroyBegin(m)
      PROVE  DestroyInv'
  BY <1>0, <1>3, Zenon DEF DestroyBegin, DestroyInv, DestroyedEmpty, Active, Idle
<1>4. ASSUME NEW m \in Manager, Destroy(m)
      PROVE  DestroyInv'
  <2>0. ~Active /\ (UNCHANGED lock \/ lock' = None)
    BY <1>4, Zenon DEF Destroy, DestroyDrain, DestroyClear, DestroyMark, DestroyFails, DestroyInv,
                       store
  <2>1. CASE DestroyDrain(m)
    <3>1. PICK s \in Sandbox \cup {None}, D \in SUBSET Idle :
             /\ TakeIdle({"fresh", "near"}, s, D)
             /\ mgr' = [mgr EXCEPT ![m] = IF s = None THEN "clear" ELSE @]
                  \/ mgr' = [mgr EXCEPT ![m] = "off"]
      BY <2>1, Zenon DEF DestroyDrain
    <3>2. Idle' \subseteq Idle /\ (s = None => Idle' = {})
      BY <3>1, Took
    <3>3. /\ \A o \in Manager : o # m => mgr'[o] = mgr[o]
          /\ mgr'[m] \in {"drain", "off"} \/ (s = None /\ mgr'[m] = "clear")
      BY <1>0, <2>1, <3>1, Zenon DEF DestroyDrain
    <3>4. UNCHANGED <<destroy, lock>>
      BY <2>1, Zenon DEF DestroyDrain
    <3> QED
      BY <2>0, <3>2, <3>3, <3>4, Zenon DEF DestroyInv, DestroyedEmpty, Active
  <2>2. CASE DestroyClear(m)
    <3>1. Idle' = {} /\ lock' = None /\ UNCHANGED destroy
      BY <2>2, Zenon DEF DestroyClear, Idle
    <3> QED
      BY <2>0, <3>1, Zenon DEF DestroyInv, DestroyedEmpty, Active
  <2>3. CASE DestroyMark(m)
    BY <1>0, <2>0, <2>3, Zenon DEF DestroyMark, DestroyInv, DestroyedEmpty, Active, Idle
  <2>4. CASE DestroyFails(m)
    BY <1>0, <2>0, <2>4, Zenon DEF DestroyFails, store, DestroyInv, DestroyedEmpty, Active, Idle
  <2> QED
    BY <1>4, <2>1, <2>2, <2>3, <2>4, Zenon DEF Destroy
<1> QED
  BY <1>1, <1>2, <1>3, <1>4, DestroyFrame, Zenon

-----------------------------------------------------------------------------
(* Where a warmup is after a step.                                          *)

\* Where a warmup is after a step: the pairs of places.
WarmupArrow ==
    {<<"create", "stage">>, <<"create", "free">>, <<"create", "late">>, <<"late", "lateKill">>,
     <<"late", "free">>, <<"lateKill", "free">>, <<"stage", "commit">>, <<"stage", "cleanup">>,
     <<"commit", "put">>, <<"commit", "cleanup">>, <<"put", "recheck">>, <<"put", "cleanup">>,
     <<"recheck", "free">>, <<"recheck", "remove">>, <<"recheck", "cleanup">>,
     <<"remove", "cleanup">>, <<"cleanup", "free">>}

\* The places of a warmup without a token.
Free == {"free", "late", "lateKill"}

LEMMA WarmupPc ==
    ASSUME TypeOK, NEW k \in Key, Warmup(k)
    PROVE  /\ \A j \in Key \ {k} : task'[j].pc = task[j].pc
           /\ <<task[k].pc, task'[k].pc>> \in WarmupArrow
           /\ \/ inflight' = inflight /\ (task'[k].pc \in Free <=> task[k].pc \in Free)
              \/ inflight' = Ended(k[1]) /\ task'[k].pc \in Free /\ task[k].pc \notin Free
<1>0. /\ task \in [Key -> TaskRec] /\ EndTenure(k[1]) \in [Key -> TaskRec] /\ k[1] \in Node
      /\ task[k] \in TaskRec
  BY KeyType, EndTenureType, Zenon DEF TypeOK
<1>1. \A j \in Key \ {k} : task'[j].pc = task[j].pc
  <2>1. PICK v : \/ task' = [task EXCEPT ![k] = v]
                 \/ task' = [EndTenure(k[1]) EXCEPT ![k] = v]
    BY WarmupRecord, Zenon
  <2>2. \A j \in Key : EndTenure(k[1])[j].pc = task[j].pc
    BY <1>0, EndTenureType, Zenon
  <2> QED
    BY <1>0, <2>1, <2>2, Zenon
<1>2. /\ \A pc : TakingBack(k, pc).pc = pc
      /\ [FreeTask EXCEPT !.pc = "late"].pc = "late"
  BY Zenon DEF TakingBack, FreeTask
<1>3. \A pc : Goto(k, pc) => task'[k].pc = pc
  BY <1>0, Zenon DEF Goto, TaskRec
<1>4. \A pc : Retreat(k, pc) => task'[k].pc = pc
  BY <1>0, <1>2, Zenon DEF Retreat
<1>5. task' = [task EXCEPT ![k] = FreeTask] => task'[k].pc = "free"
  BY <1>0, Constants, Zenon
<1>6. ASSUME NEW pc, NEW s, task' = [task EXCEPT ![k].pc = pc, ![k].sb = s]
      PROVE  task'[k].pc = pc
  BY <1>0, <1>6 DEF TaskRec
<1>7. CASE WarmupCreate(k)
  <2>1. task' = [task EXCEPT ![k] = [FreeTask EXCEPT !.pc = "late"]] => task'[k].pc = "late"
    BY <1>0, <1>2, Zenon
  <2>2. \/ inflight' = inflight /\ \E s : task' = [task EXCEPT ![k].pc = "stage", ![k].sb = s]
        \/ inflight' = Ended(k[1]) /\ task' = [task EXCEPT ![k] = FreeTask]
        \/ inflight' = Ended(k[1]) /\ task' = [task EXCEPT ![k] = [FreeTask EXCEPT !.pc = "late"]]
    BY <1>7, Zenon DEF WarmupCreate, Complete
  <2>3. task[k].pc = "create"
    BY <1>7, Zenon DEF WarmupCreate
  <2>4. \/ inflight' = inflight /\ task'[k].pc = "stage"
        \/ inflight' = Ended(k[1]) /\ task'[k].pc \in {"free", "late"}
    BY <1>5, <1>6, <2>1, <2>2, Zenon
  <2> QED
    BY <1>1, <2>3, <2>4 DEF Free, WarmupArrow
<1>8. CASE LateCreate(k)
  <2>1. \/ task[k].pc = "late" /\ task'[k].pc \in {"lateKill", "free"}
        \/ task[k].pc = "lateKill" /\ task'[k].pc = "free"
    BY <1>5, <1>6, <1>8, Zenon DEF LateCreate
  <2>2. inflight' = inflight
    BY <1>8, Zenon DEF LateCreate
  <2> QED
    BY <1>1, <2>1, <2>2 DEF Free, WarmupArrow
<1>9. CASE WarmupStage(k) \/ WarmupPutIdle(k) \/ WarmupRemoveIdle(k)
  <2>1. /\ inflight' = inflight
        /\ \/ task[k].pc = "stage" /\ task'[k].pc \in {"commit", "cleanup"}
           \/ task[k].pc = "put" /\ task'[k].pc \in {"recheck", "cleanup"}
           \/ task[k].pc = "remove" /\ task'[k].pc = "cleanup"
    BY <1>3, <1>4, <1>9, Zenon DEF WarmupStage, WarmupPutIdle, WarmupRemoveIdle
  <2> QED
    BY <1>1, <2>1 DEF Free, WarmupArrow
<1>10. CASE CanCommitWarmup(k)
  <2>1. task' = [EndTenure(k[1]) EXCEPT ![k] = TakingBack(k, "cleanup")] => task'[k].pc = "cleanup"
    BY <1>0, <1>2, Zenon
  <2>2. inflight' = inflight /\ task[k].pc = "commit" /\ task'[k].pc \in {"put", "cleanup"}
    BY <1>3, <1>4, <1>10, <2>1, Zenon DEF CanCommitWarmup
  <2> QED
    BY <1>1, <2>2 DEF Free, WarmupArrow
<1>11. CASE WarmupRecheck(k) \/ WarmupCleanup(k)
  <2>1. \/ /\ task[k].pc \in {"recheck", "cleanup"} /\ task'[k].pc = "free"
           /\ inflight' = Ended(k[1])
        \/ /\ task[k].pc = "recheck" /\ task'[k].pc \in {"remove", "cleanup"}
           /\ inflight' = inflight
    BY <1>4, <1>5, <1>11, Zenon DEF WarmupRecheck, WarmupCleanup, Complete
  <2> QED
    BY <1>1, <2>1 DEF Free, WarmupArrow
<1> QED
  BY <1>7, <1>8, <1>9, <1>10, <1>11, Zenon DEF Warmup

-----------------------------------------------------------------------------
(* Admission.                                                               *)

\* Instance n admits the warmups of S.
Admits(n, S) ==
    /\ tick[n].pc = "submit" /\ lock = n /\ Cardinality(S) = tick[n].todo
    /\ S \subseteq {k \in Key : k[1] = n}
    /\ Unputs' \subseteq Unputs \cup S
    /\ Idle' = Idle /\ tick' = [tick EXCEPT ![n] = Closing]

\* Warmups are admitted by a tick, and one that put its entry is not counted any more.
LEMMA UnputsMove ==
    ASSUME TypeOK, Next
    PROVE  \/ Idle' \subseteq Idle /\ Unputs' \subseteq Unputs
           \/ \E k \in Unputs : /\ Unputs' \subseteq Unputs \ {k}
                                /\ Idle' \subseteq Idle \cup {task[k].sb}
           \/ \E n \in Node : \E S \in SUBSET Key : Admits(n, S)
<1>0. task \in [Key -> TaskRec] /\ tick \in [Node -> TickRec]
  BY Zenon DEF TypeOK
<1>1. (\A k \in Key : task'[k].pc \in {task[k].pc, "free"}) => Unputs' \subseteq Unputs
  BY Zenon DEF Unputs
<1>2. ASSUME NEW k \in Key, Warmup(k)
      PROVE  Unputs' \subseteq Unputs /\ (Put(k) => k \in Unputs /\ Unputs' \subseteq Unputs \ {k})
  <2>1. \A j \in Key \ {k} : task'[j].pc = task[j].pc
    BY <1>2, WarmupPc, Zenon
  <2>2. task'[k].pc \in {"create", "stage", "commit", "put"} =>
           task[k].pc \in {"create", "stage", "commit", "put"}
    BY <1>2, WarmupPc DEF WarmupArrow
  <2> QED
    BY <2>1, <2>2 DEF Unputs, Put
<1>3. CASE Idle' \subseteq Idle
  <2>1. ASSUME NEW m \in Node, Lifecycle(m)
        PROVE  Unputs' \subseteq Unputs
    <3>1. task' \in {task, EndTenure(m), [k \in Key |-> IF k[1] = m THEN FreeTask ELSE task[k]]}
      BY <2>1, Zenon DEF Lifecycle, Start, Shutdown, ShutdownDrain, ShutdownStop, ShutdownFinish,
                         Crash, StopReconcile
    <3> QED
      BY <1>1, <2>1, <3>1, EndTenureType, Constants, Zenon
  <2>2. ASSUME NEW m \in Node, Reconcile(m)
        PROVE  Unputs' \subseteq Unputs \/ \E S \in SUBSET Key : Admits(m, S)
    <3>1. CASE TickSubmit(m)
      <4>1. CASE UNCHANGED task
        BY <1>1, <4>1, Zenon
      <4>2. ASSUME NEW S \in SUBSET {k \in Key : k[1] = m /\ task[k].pc = "free"},
                   Cardinality(S) = tick[m].todo, LockRenewed(m),
                   task' = [k \in Key |-> IF k \in S
                                 THEN [FreeTask EXCEPT !.pc = "create", !.gen = gen[m],
                                                       !.tenure = owned[m]]
                                 ELSE task[k]]
            PROVE  Admits(m, S)
        <5>1. Unputs' \subseteq Unputs \cup S
          BY <4>2, Zenon DEF Unputs
        <5>2. /\ tick[m].pc = "submit" /\ lock = m /\ UNCHANGED idle
              /\ tick' = [tick EXCEPT ![m] = Closing]
          BY <3>1, <4>2, Zenon DEF TickSubmit, LockRenewed, store
        <5>3. Idle' = Idle
          BY <5>2, Zenon DEF Idle
        <5> QED
          BY <4>2, <5>1, <5>2, <5>3, Zenon DEF Admits
      <4> QED
        BY <3>1, <4>1, <4>2, Zenon DEF TickSubmit
    <3>2. CASE ~TickSubmit(m)
      <4>1. task' \in {task, EndTenure(m)}
        BY <2>2, <3>2, Zenon DEF Reconcile, TickBegin, TickLock, TickPlan, TickShrink, TickFails,
                  TickRetire, TickEnd, HeartbeatLost, KillDoomed, MarkPrimaryLost, StopReconcile
      <4> QED
        BY <1>1, <4>1, EndTenureType, Zenon
    <3> QED
      BY <3>1, <3>2, Zenon
  <2>3. ASSUME NEW c \in Caller, AcquireCall(c) \/ Acquire(c) \/ CallerDone(c)
        PROVE  UNCHANGED task
    BY <2>3, Zenon DEF AcquireCall, Acquire, AcquireBegin, AcquireEnter, AcquireTake,
                 AcquireConnect, AcquireFence, AcquireFinal, AcquireCreate, AcquireEnd, CallerDone
  <2>4. ASSUME \/ \E m \in Node : Resize(m) \/ ReleaseIdle(m)
               \/ \E m \in Manager : DestroyBegin(m) \/ Destroy(m)
               \/ TombstoneExpires \/ LockExpires
               \/ \E s \in Sandbox : Age(s) \/ Die(s)
        PROVE  UNCHANGED task
    BY <2>4, Zenon DEF Resize, ReleaseIdle, DestroyBegin, Destroy, DestroyDrain, DestroyClear,
                DestroyMark, DestroyFails, TombstoneExpires, LockExpires, Age, Die
  <2>5. Unputs' \subseteq Unputs \/ \E n \in Node : \E S \in SUBSET Key : Admits(n, S)
    BY <1>1, <1>2, <2>1, <2>2, <2>3, <2>4, Zenon DEF Next
  <2> QED
    BY <1>3, <2>5, Zenon
<1>4. ASSUME NEW k \in Key, Put(k)
      PROVE  \E j \in Unputs : /\ Unputs' \subseteq Unputs \ {j}
                               /\ Idle' \subseteq Idle \cup {task[j].sb}
  BY <1>2, <1>4, Zenon DEF Put
<1> QED
  BY <1>3, <1>4, Fenced, Zenon

\* What a step may do to a tick that admits warmups.
TickMove(n) ==
    \/ tick'[n] = tick[n]
    \/ tick'[n].pc \notin {"plan", "submit"}
    \/ /\ tick'[n].pc = "plan" /\ lock' = n /\ tick[n].pc = "lock"
       /\ tick'[n].warming = Warming(n) /\ tick'[n].max = maxIdle
       /\ Idle' = Idle /\ Unputs' = Unputs
    \/ /\ tick'[n].pc = "submit" /\ tick[n].pc = "plan" /\ lock' = lock
       /\ Idle' = Eligible({"fresh"}) /\ Unputs' = Unputs
       /\ LET deficit == tick[n].max - Cardinality(Eligible({"fresh"})) - tick[n].warming
          IN  tick'[n].todo = AtMost(deficit, CreateQps)

\* A tick counts the warmups when it takes the lock, and the entries when it plans.
LEMMA TickMoves ==
    ASSUME TypeOK, Next, NEW n \in Node
    PROVE  TickMove(n)
<1>0. tick \in [Node -> TickRec] /\ tick[n] \in TickRec
  BY Zenon DEF TypeOK
<1>1. ASSUME NEW m \in Node, Lifecycle(m) PROVE TickMove(n)
  <2>1. tick' = tick \/ tick' = [tick EXCEPT ![m] = NoTick]
    BY <1>1, Zenon DEF Lifecycle, Start, Shutdown, ShutdownDrain, ShutdownStop, ShutdownFinish, Crash
  <2> QED
    BY <1>0, <2>1, Constants, Zenon DEF TickMove
<1>2. ASSUME NEW m \in Node, Reconcile(m) PROVE TickMove(n)
  <2>1. CASE n # m
    <3>1. tick'[n] = tick[n]
      BY <1>0, <1>2, <2>1, Zenon DEF Reconcile, TickBegin, TickLock, TickPlan, TickShrink, TickSubmit,
               TickFails, TickRetire, TickEnd, HeartbeatLost, KillDoomed
    <3> QED
      BY <3>1, Zenon DEF TickMove
  <2>2. CASE TickLock(n)
    <3>1. CASE tick' = [tick EXCEPT ![n] = Closing]
      BY <1>0, <3>1, Constants, Zenon DEF TickMove
    <3>2. CASE /\ lock' = n /\ UNCHANGED <<task, idle>>
               /\ tick' = [tick EXCEPT ![n].pc = "plan", ![n].warming = Warming(n),
                                       ![n].max = maxIdle]
      <4>1. /\ tick'[n].pc = "plan" /\ tick'[n].warming = Warming(n)
            /\ tick'[n].max = maxIdle
        BY <1>0, <3>2 DEF TickRec
      <4>2. Idle' = Idle /\ Unputs' = Unputs /\ tick[n].pc = "lock"
        BY <2>2, <3>2, Zenon DEF Idle, Unputs, TickLock
      <4> QED
        BY <3>2, <4>1, <4>2, Zenon DEF TickMove
    <3> QED
      BY <2>2, <3>1, <3>2, Zenon DEF TickLock
  <2>3. CASE TickPlan(n)
    <3> DEFINE size == Cardinality(Eligible({"fresh"}))
               deficit == tick[n].max - size - tick[n].warming
               excess == size - tick[n].max
    <3>1. Idle' = Eligible({"fresh"}) /\ Unputs' = Unputs /\ lock' = lock /\ tick[n].pc = "plan"
      <4>1. /\ idle' = [s \in Sandbox |-> IF s \in Eligible({"fresh"}) THEN idle[s] ELSE "none"]
            /\ UNCHANGED <<lock, task>> /\ tick[n].pc = "plan"
        BY <2>3, Zenon DEF TickPlan
      <4> QED
        BY <4>1, Zenon DEF Idle, Eligible, Unputs
    <3> DEFINE shrink == [NoTick EXCEPT !.pc = "shrink", !.todo = AtMost(excess, Concurrency)]
               submit == [NoTick EXCEPT !.pc = "submit", !.todo = AtMost(deficit, CreateQps)]
    <3>2. \/ tick' = [tick EXCEPT ![n] = shrink] \/ tick' = [tick EXCEPT ![n] = submit]
          \/ tick' = [tick EXCEPT ![n] = Closing]
      BY <2>3, Zenon DEF TickPlan
    <3>3. /\ shrink.pc = "shrink" /\ submit.pc = "submit"
          /\ submit.todo = AtMost(deficit, CreateQps)
      BY Zenon DEF NoTick
    <3>4. \/ tick'[n].pc \notin {"plan", "submit"}
          \/ tick'[n].pc = "submit" /\ tick'[n].todo = AtMost(deficit, CreateQps)
      <4> HIDE DEF deficit, shrink, submit
      <4> QED
        BY <1>0, <3>2, <3>3, Constants, Zenon
    <3> QED
      BY <3>1, <3>4, Zenon DEF TickMove
  <2>4. CASE TickShrink(n)
    <3>1. [tick[n] EXCEPT !.todo = @ - 1].pc = tick[n].pc
      BY <1>0, Zenon DEF TickRec
    <3>2. \/ tick' = [tick EXCEPT ![n] = [tick[n] EXCEPT !.todo = @ - 1]]
          \/ tick' = [tick EXCEPT ![n] = Closing]
      BY <2>4, Zenon DEF TickShrink
    <3>3. tick'[n].pc \in {"shrink", "end"}
      BY <1>0, <2>4, <3>1, <3>2, Constants, Zenon DEF TickShrink
    <3> QED
      BY <3>3, Zenon DEF TickMove
  <2>5. CASE Reconcile(n) /\ ~TickLock(n) /\ ~TickPlan(n) /\ ~TickShrink(n)
    <3>1. tick' \in {tick, [tick EXCEPT ![n] = NoTick], [tick EXCEPT ![n] = Closing],
                     [tick EXCEPT ![n].pc = "lock"],
                     [tick EXCEPT ![n] = [NoTick EXCEPT !.pc = "retire", !.gen = gen[n]]]}
      BY <2>5, Zenon DEF Reconcile, TickBegin, TickSubmit, TickFails, TickRetire, TickEnd,
                  HeartbeatLost, KillDoomed
    <3>2. /\ [NoTick EXCEPT !.pc = "retire", !.gen = gen[n]].pc = "retire"
          /\ [tick[n] EXCEPT !.pc = "lock"].pc = "lock"
      BY <1>0, Zenon DEF TickRec, NoTick
    <3> QED
      BY <1>0, <3>1, <3>2, Constants, Zenon DEF TickMove
  <2> QED
    BY <1>2, <2>1, <2>2, <2>3, <2>4, <2>5, Zenon
<1>3. ASSUME NEW k \in Key, Warmup(k) PROVE UNCHANGED tick
  BY <1>3, Zenon DEF Warmup, WarmupCreate, LateCreate, WarmupStage, CanCommitWarmup,
            WarmupPutIdle, WarmupRecheck, WarmupRemoveIdle, WarmupCleanup
<1>4. ASSUME \/ \E c \in Caller : AcquireCall(c) \/ Acquire(c) \/ CallerDone(c)
             \/ \E m \in Node : Resize(m) \/ ReleaseIdle(m)
             \/ \E m \in Manager : DestroyBegin(m) \/ Destroy(m)
             \/ TombstoneExpires \/ LockExpires
             \/ \E s \in Sandbox : Age(s) \/ Die(s)
      PROVE  UNCHANGED tick
  BY <1>4, ZenonT(60) DEF AcquireCall, Acquire, AcquireBegin, AcquireEnter, AcquireTake,
       AcquireConnect, AcquireFence, AcquireFinal, AcquireCreate, AcquireEnd, CallerDone,
       Resize, ReleaseIdle, DestroyBegin, Destroy, DestroyDrain, DestroyClear,
       DestroyMark, DestroyFails, TombstoneExpires, LockExpires, Age, Die
<1>5. UNCHANGED tick => TickMove(n)
  BY Zenon DEF TickMove
<1> QED
  BY <1>1, <1>2, <1>3, <1>4, <1>5, Zenon DEF Next

\* Where nothing makes it lose the lock, the first primary keeps it.
LEMMA SteadyStep ==
    ASSUME TypeOK, Steady, SteadyInv, Next
    PROVE  SteadyInv'
<1> DEFINE Leads(n) == /\ stopper[n].pc = "none" /\ tick[n].pc # "retire"
                       /\ tick[n].pc # "off" \/ lock = n => life[n] = "RUNNING"
                       /\ owned[n] <=> lock = n
<1>0. /\ ~May("expire") /\ ~May("shutdown") /\ ~May("outage") /\ ~May("crash") /\ ~May("destroy")
      /\ Active /\ \A m \in Manager : mgr[m] = "off"
  BY Zenon DEF Steady, May, SteadyInv, Active
<1>1. /\ tick \in [Node -> TickRec] /\ owned \in [Node -> BOOLEAN]
      /\ life \in [Node -> {"NOT_STARTED", "RUNNING", "DRAINING", "STOPPED"}]
      /\ \A n \in Node : tick[n] \in TickRec
  BY Zenon DEF TypeOK
<1>2. UNCHANGED <<destroy, mgr>>
  BY <1>0, DestroyFrame, Zenon DEF DestroyBegin, Destroy, DestroyDrain, DestroyClear, DestroyMark,
                                  DestroyFails, TombstoneExpires, Active
<1>3. \A n \in Node : Leads(n)
  BY Zenon DEF SteadyInv
<1>4. UNCHANGED <<lock, owned, life, tick, stopper>> =>
         lock' = lock /\ \A n \in Node : Leads(n)'
  BY <1>3, Zenon
<1>5. ASSUME NEW m \in Node, Lifecycle(m)
      PROVE  lock' = lock /\ \A n \in Node : Leads(n)'
  <2>1. Start(m)
    BY <1>0, <1>3, <1>5, Zenon DEF Lifecycle, Shutdown, ShutdownDrain, ShutdownStop, ShutdownFinish, Crash
  <2>2. life[m] # "RUNNING" /\ lock # m /\ ~owned[m]
    BY <1>3, <2>1, Zenon DEF Start
  <2>3. lock' = lock /\ UNCHANGED <<tick, stopper>>
    BY <1>0, <2>1, <2>2, Zenon DEF Start, StopReconcile, LockReleased
  <2>4. owned' = [owned EXCEPT ![m] = FALSE] /\ life' = [life EXCEPT ![m] = "RUNNING"]
    BY <1>0, <2>1, Zenon DEF Start, StopReconcile
  <2>5. \A n \in Node : (owned'[n] <=> owned[n]) /\ (life[n] = "RUNNING" => life'[n] = "RUNNING")
    BY <1>1, <2>2, <2>4, Zenon
  <2> QED
    BY <1>3, <2>3, <2>5, Zenon
<1>6. ASSUME NEW m \in Node, Reconcile(m)
      PROVE  lock' \in {lock, m} /\ lock \in {None, lock'} /\ \A n \in Node : Leads(n)'
  <2>1. CASE TickBegin(m)
    <3>1. /\ UNCHANGED <<lock, owned, life, stopper>> /\ life[m] = "RUNNING"
          /\ tick' = [tick EXCEPT ![m].pc = "lock"]
      BY <1>0, <2>1, Zenon DEF TickBegin, store
    <3>2. tick'[m].pc = "lock" /\ \A n \in Node : n # m => tick'[n] = tick[n]
      BY <1>1, <3>1, Zenon DEF TickRec
    <3> QED
      BY <1>3, <3>1, <3>2, ZenonT(60)
  <2>2. CASE TickLock(m)
    <3>1. tick[m].pc = "lock" /\ UNCHANGED <<life, stopper>> /\ life[m] = "RUNNING"
      BY <1>3, <2>2, Zenon DEF TickLock
    <3>2. tick'[m].pc \in {"plan", "end"} /\ \A n \in Node : n # m => tick'[n] = tick[n]
      <4>1. tick' = [tick EXCEPT ![m] = Closing]
            \/ tick' = [tick EXCEPT ![m].pc = "plan", ![m].warming = Warming(m), ![m].max = maxIdle]
        BY <2>2, Zenon DEF TickLock
      <4> QED
        BY <1>1, <4>1, Constants DEF TickRec
    <3>3. \/ lock \in {None, m} /\ lock' = m /\ owned' = [owned EXCEPT ![m] = TRUE]
          \/ lock # m /\ lock' = lock /\ owned' = [owned EXCEPT ![m] = FALSE]
      BY <1>0, <2>2, Zenon DEF TickLock, LockGranted, MarkPrimaryLost
    <3>4. \A n \in Node : owned'[n] <=> lock' = n
      <4>1. \A n \in Node : lock \in {None, m} /\ n # m => lock # n
        BY PoolAssumption
      <4>2. \A n \in Node : n # m => (owned'[n] <=> owned[n])
        BY <1>1, <3>3, Zenon
      <4>3. (lock' = m /\ owned'[m]) \/ (lock' # m /\ ~owned'[m])
        BY <1>1, <3>3, Zenon
      <4> QED
        BY <1>3, <3>3, <4>1, <4>2, <4>3, Zenon
    <3>5. \A n \in Node : lock' = n => life'[n] = "RUNNING"
      BY <1>3, <3>1, <3>3, Zenon
    <3> QED
      BY <1>3, <3>1, <3>2, <3>3, <3>4, <3>5, ZenonT(60)
  <2>3. CASE TickPlan(m) \/ TickShrink(m) \/ TickSubmit(m)
    <3>1. UNCHANGED <<lock, owned, life, stopper>> /\ tick[m].pc # "off"
      BY <2>3, Zenon DEF TickPlan, TickShrink, TickSubmit, store, run
    <3>2. \A n \in Node : n # m => tick'[n] = tick[n]
      BY <1>1, <2>3, Zenon DEF TickPlan, TickShrink, TickSubmit
    <3>3. tick'[m].pc # "retire"
      <4>1. tick'[m].pc \in {"shrink", "submit", "end"}
        BY <2>3, TickGoesOn, Zenon
      <4> QED
        BY <4>1
    <3> QED
      BY <1>3, <3>1, <3>2, <3>3, Zenon
  <2>4. CASE TickEnd(m)
    <3>1. /\ UNCHANGED <<lock, owned, life, stopper>>
          /\ tick' = [tick EXCEPT ![m] = NoTick]
      BY <2>4, Zenon DEF TickEnd, store, run
    <3>2. \A n \in Node : tick'[n] \in {tick[n], NoTick}
      BY <1>1, <3>1, Zenon
    <3> QED
      BY <1>3, <3>1, <3>2, Constants, Zenon
  <2>5. CASE KillDoomed(m)
    <3>1. UNCHANGED <<lock, owned, life, tick, stopper>>
      BY <2>5, Zenon DEF KillDoomed, store, run
    <3> QED
      BY <1>4, <3>1, Zenon
  <2>6. ~TickFails(m) /\ ~TickRetire(m) /\ ~HeartbeatLost(m)
    BY <1>0, <1>3, Zenon DEF TickFails, TickRetire, HeartbeatLost, LockRenewed
  <2> QED
    BY <1>6, <2>1, <2>2, <2>3, <2>4, <2>5, <2>6, Zenon DEF Reconcile
<1>7. ASSUME NEW k \in Key, Warmup(k) PROVE UNCHANGED <<lock, owned, life, tick, stopper>>
  <2>1. CASE CanCommitWarmup(k)
    <3>1. CanCommitLocally(k) => LockRenewed(k[1])
      BY <1>0, <1>3, KeyType, Zenon DEF CanCommitLocally, LockRenewed
    <3> QED
      BY <2>1, <3>1, Zenon DEF CanCommitWarmup, store
  <2>2. CASE ~CanCommitWarmup(k)
    BY <1>7, <2>2, Zenon DEF Warmup, WarmupCreate, LateCreate, WarmupStage, WarmupPutIdle,
              WarmupRecheck, WarmupRemoveIdle, WarmupCleanup, store, run
  <2> QED
    BY <2>1, <2>2, Zenon
<1>8. ASSUME \/ \E c \in Caller : AcquireCall(c) \/ Acquire(c) \/ CallerDone(c)
             \/ \E m \in Node : Resize(m) \/ ReleaseIdle(m)
             \/ \E m \in Manager : DestroyBegin(m) \/ Destroy(m)
             \/ TombstoneExpires \/ LockExpires
             \/ \E s \in Sandbox : Age(s) \/ Die(s)
      PROVE  UNCHANGED <<lock, owned, life, tick, stopper>>
  <2>1. ~LockExpires
    BY <1>0, <1>3 DEF LockExpires, TypeOK
  <2>2. \A m \in Manager : ~DestroyBegin(m) /\ ~Destroy(m)
    BY <1>0, Zenon DEF DestroyBegin, Destroy, DestroyDrain, DestroyClear, DestroyMark, DestroyFails
  <2> QED
    BY <1>8, <2>1, <2>2, ZenonT(60) DEF AcquireCall, Acquire, AcquireBegin, AcquireEnter, AcquireTake,
       AcquireConnect, AcquireFence, AcquireFinal, AcquireCreate, AcquireEnd, CallerDone,
       Resize, ReleaseIdle, TombstoneExpires, Age, Die, store, run
<1>9. lock \in {None, lock'} /\ \A n \in Node : Leads(n)'
  BY <1>4, <1>5, <1>6, <1>7, <1>8, Zenon DEF Next
<1>10. \A n \in Node : tick'[n].pc \in {"plan", "submit"} => lock' = n
  <2>1. \A n \in Node : lock = n => lock' = n
    BY <1>9, PoolAssumption
  <2> QED
    BY <2>1, TickMoves, Zenon DEF TickMove, SteadyInv
<1>11. \A k \in Unputs' : lock' = k[1]
  <2>1. \A k \in Unputs : lock' = k[1]
    <3>1. \A n \in Node : lock = n => lock' = n
      BY <1>9, PoolAssumption
    <3> QED
      BY <3>1, KeyType, Zenon DEF SteadyInv, Unputs
  <2>2. ASSUME NEW n \in Node, NEW S \in SUBSET Key, Admits(n, S), NEW k \in S
        PROVE  lock' = k[1]
    BY <1>9, <2>2, PoolAssumption, Zenon DEF Admits
  <2> QED
    BY <2>1, <2>2, UnputsMove, Zenon DEF Admits
<1> QED
  BY <1>0, <1>2, <1>9, <1>10, <1>11, Zenon DEF SteadyInv, Active

\* One instance admits warmups.
LEMMA LeaderStep ==
    ASSUME TypeOK, OneLeader, LeaderInv, Next
    PROVE  LeaderInv'
<1>1. CASE Steady
  <2>1. SteadyInv'
    BY <1>1, SteadyStep, Zenon DEF LeaderInv
  <2>2. /\ \A n \in Node : tick'[n].pc \in {"plan", "submit"} => lock' = n
        /\ \A k \in Unputs' : lock' = k[1]
    BY <2>1, Zenon DEF SteadyInv
  <2>3. \A n \in Node : tick'[n].pc \in {"plan", "submit"} => \A k \in Unputs' : k[1] = n
    BY <2>2, Zenon
  <2>4. \A m, n \in Node : tick'[m].pc \in {"plan", "submit"} /\ tick'[n].pc \in {"plan", "submit"}
                              => m = n
    BY <2>2, Zenon
  <2> QED
    BY <2>1, <2>3, <2>4, Zenon DEF LeaderInv
<1>2. CASE ~Steady
  <2>1. \A k \in Unputs' : k[1] \in Node
    BY KeyType, Zenon DEF Unputs
  <2> QED
    BY <1>2, <2>1, Zenon DEF OneLeader, LeaderInv
<1> QED
  BY <1>1, <1>2, Zenon
=============================================================================
