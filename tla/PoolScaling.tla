----------------------------- MODULE PoolScaling -----------------------------
(***************************************************************************)
(* The size of one Pool: how many pods a reconcile creates and deletes     *)
(* (scalePool, updatePool and pickPodsToDelete of pool_controller.go and   *)
(* pool_update.go), and the expectations that keep it from acting twice on *)
(* one change (utils/expectations/scale_expectations.go).                  *)
(*                                                                         *)
(* The reconcile counts pods in the informer's list, which trails the API  *)
(* server, and acts on the API server.  Within one attempt it reads only   *)
(* that list and its own memory, so an attempt is one action; a crash in   *)
(* the middle of it is an attempt of which some calls failed, followed by  *)
(* Restart.                                                                *)
(*                                                                         *)
(* Abstractions.  Which sandbox has which pod is the business of           *)
(* PoolAllocation: here a pod is held or not, sandboxes ask for a number   *)
(* of pods, and only the list of pods lags, not the sandboxes, the Pool or *)
(* the eviction labels.  The Pool recycles by deleting.  A slot stands for a generated pod name and is used again     *)
(* only when nothing remembers the pod that had it.  Pods of equal rank in *)
(* the order of deletion are taken in any order.                           *)
(***************************************************************************)
EXTENDS Integers, FiniteSets

CONSTANTS
    Slots,                 \* pod names
    Revisions,             \* hashes of the template
    BufferMin, BufferMax,  \* spec.capacitySpec
    PoolMin, PoolMax,
    ScaleUnavailable,      \* spec.scaleStrategy.maxUnavailable
    UpdateUnavailable,     \* spec.updateStrategy.maxUnavailable
    MaxRequests,           \* bound on the requests of users and failures of pods
    Environment            \* the hazards this instance allows, see Hazards

Hazards ==
    { "restart",    \* the controller process may restart
      "error",      \* an API call may fail
      "lostReply",  \* an API call may take effect and its reply be lost
      "conflict",   \* the status update may meet a newer object
      "timeout",    \* expectations may stay open for ExpectationTimeout
      "podLoss",    \* a pod fails its readiness, or somebody else deletes it
      "evict" }     \* pods get the eviction label

\* An absolute number of pods, or a percentage.
IntOrPercent == [percent : BOOLEAN, value : Nat]

ASSUME ScalingAssumption ==
    /\ IsFiniteSet(Slots)
    /\ {BufferMin, BufferMax, PoolMin, PoolMax, MaxRequests} \subseteq Nat
    /\ {ScaleUnavailable, UpdateUnavailable} \subseteq IntOrPercent
    /\ Environment \subseteq Hazards

VARIABLES
    \* the API server
    pod,        \* life of the pod of each slot
    rev,        \* its revision label
    evict,      \* pods with the eviction label
    template,   \* the revision of the Pool's template
    requests,   \* requests of users and failures of pods so far
    \* the informer and the work queue
    known,      \* the pods as the informer last saw them
    queued,     \* a reconcile of the Pool is due
    \* the controller's memory
    expCreate, expDelete,  \* poolScaleExpectations of this Pool
    held,       \* pods that sandboxes have, as the allocation store knows
    recovered,  \* once it is recovered
    \* the sandboxes
    want,       \* pods they still wait for
    returned,   \* held pods they have handed back
    \* the reconcile in progress
    pc,         \* idle, or in the closure of reconcilePool
    listed,     \* the pods it has listed
    marked,     \* those with the eviction label
    asked, back \* want and returned as it has listed them

apiVars == <<pod, rev, evict, template, requests>>
memVars == <<expCreate, expDelete, held, recovered, want, returned>>
recVars == <<pc, listed, marked, asked, back>>
vars == <<apiVars, known, queued, memVars, recVars>>

-----------------------------------------------------------------------------

Lives == {"absent", "pending", "ready", "terminating"}

Alive(life) == life \in {"pending", "ready"}

Existing == {p \in Slots : pod[p] # "absent"}

Greater(a, b) == IF a >= b THEN a ELSE b
Lesser(a, b) == IF a <= b THEN a ELSE b

Init ==
    /\ pod = [p \in Slots |-> "absent"]
    /\ template \in Revisions
    /\ rev = [p \in Slots |-> template]
    /\ evict = {}
    /\ requests = 0
    /\ known = pod
    /\ queued = TRUE
    /\ expCreate = {} /\ expDelete = {} /\ held = {} /\ want = 0 /\ returned = {}
    /\ recovered = FALSE
    /\ pc = "idle"
    /\ listed = pod
    /\ marked = {} /\ asked = 0 /\ back = {}

-----------------------------------------------------------------------------
(* What one attempt computes from its list *)

LivePods == {p \in Slots : Alive(listed[p])}

Listed == {p \in Slots : listed[p] # "absent"}

Ready(S) == {p \in S : listed[p] = "ready"}

\* handleEviction leaves out the idle pods it evicts.  A store that is not recovered yet
\* takes all pods for idle.
Evicted == {p \in marked : ~recovered \/ p \notin held}

SchedulePods == LivePods \ Evicted

\* GetScaledValueFromIntOrPercent rounding up, and at least 1.
Scaled(v, total) ==
    Greater(1, IF v.percent THEN (v.value * total + 99) \div 100 ELSE v.value)

\* Mutant: without the lower bound.
ScaleLimitZero(total) ==
    IF ScaleUnavailable.percent THEN (ScaleUnavailable.value * total + 99) \div 100
    ELSE ScaleUnavailable.value

ScaleLimit(total) == Scaled(ScaleUnavailable, total)

UpdateLimit(total) == Scaled(UpdateUnavailable, total)

NotReady == SchedulePods \ Ready(SchedulePods)

DesiredBuffer(n) ==
    IF n < BufferMin THEN BufferMin ELSE IF n > BufferMax THEN BufferMax ELSE n

\* recreateUpdateStrategy.Compute: idle pods of another revision go, the ready ones only
\* within the budget.
Outdated(idle) ==
    LET old == {p \in idle : rev[p] # template}
        budget == Greater(UpdateLimit(Cardinality(SchedulePods)) - Cardinality(NotReady), 0)
    IN { (old \ Ready(old)) \cup some :
           some \in {S \in SUBSET Ready(old) :
                       Cardinality(S) = Lesser(budget, Cardinality(Ready(old)))} }

\* The n first of the candidates, in an order that respects the rank.
First(n, candidates, rank) ==
    { S \in SUBSET candidates :
        /\ Cardinality(S) = Lesser(n, Cardinality(candidates))
        /\ \A p \in S, q \in candidates \ S : rank[p] <= rank[q] }

\* pickPodsToDelete: the update's pods, then the recycler's, then idle ones that are not
\* ready, then ready ones.
DeletionRank(outdated, recycle) ==
    [p \in Slots |->
        IF p \in outdated THEN IF listed[p] = "ready" THEN 1 ELSE 0
        ELSE IF p \in recycle THEN 2
        ELSE IF listed[p] = "ready" THEN 4 ELSE 3]

PodsToDelete(idle, outdated, recycle, scaleIn, limit) ==
    LET rank == DeletionRank(outdated, recycle)
    IN UNION { First(limit, outdated \cup recycle \cup excess, rank) :
                 excess \in First(scaleIn, idle \ (outdated \cup recycle), rank) }

DesiredSchedulable(stored, supply, idle) ==
    Greater(Cardinality(stored) + supply + DesiredBuffer(Cardinality(Ready(idle))), PoolMin)

\* Mutant: terminating pods do not count against poolMax.
MaxNewPodsLive == Greater(PoolMax - Cardinality(LivePods), 0)

MaxNewPods == Greater(PoolMax - Cardinality(Listed), 0)

\* Mutant: pods that are still starting do not slow the creation of others.
CreateCountUnpaced(desired) ==
    Greater(0, Lesser(Lesser(desired - Cardinality(SchedulePods), MaxNewPods),
                      ScaleLimit(desired)))

CreateCount(desired) ==
    Greater(0, Lesser(Lesser(desired - Cardinality(SchedulePods), MaxNewPods),
                      ScaleLimit(desired) - Cardinality(NotReady)))

\* A generated name is new to everybody.
Fresh == {p \in Slots : /\ pod[p] = "absent" /\ known[p] = "absent" /\ listed[p] = "absent"
                        /\ p \notin expCreate \cup expDelete \cup held}

-----------------------------------------------------------------------------
(* The Pool reconcile *)

\* Reconcile: list the pods and the sandboxes, and observe (ObserveScale and
\* observeDeletedPods) the creations and deletions that the list shows.
Begin ==
    /\ pc = "idle" /\ queued
    /\ queued' = FALSE
    /\ pc' = "listed"
    /\ listed' = known
    /\ marked' = {p \in evict : Alive(known[p])}
    /\ asked' = want
    /\ back' = returned
    /\ expCreate' = {p \in expCreate : known[p] = "absent"}
    /\ expDelete' = {p \in expDelete : known[p] # "absent"}
    /\ UNCHANGED <<apiVars, known, held, recovered, want, returned>>

Idle ==
    /\ pc' = "idle"
    /\ listed' = [p \in Slots |-> "absent"]
    /\ marked' = {} /\ asked' = 0 /\ back' = {}

\* A conflict runs the closure again on the lists it has; the sandboxes' copies remember
\* what they were given and what was recycled.
Rerun(give, done) ==
    /\ "conflict" \in Environment
    /\ asked' = asked - Cardinality(give)
    /\ back' = back \ done
    /\ UNCHANGED <<pc, listed, marked>>

\* scheduleSandbox: the ready idle pods that the sandboxes get, ...
Available == Ready(SchedulePods) \ held

\* ... the returned pods that are gone, which leave the store, and the ones to delete.
Gone == {p \in back : p \notin SchedulePods /\ pod[p] = "absent"}
Recycle == back \cap SchedulePods

\* What scheduling, which recovers the store first, writes.  A pod cannot be given to a sandbox that is gone by now.
Store(give, done) ==
    /\ Cardinality(give) <= want
    /\ held' = (held \cup give) \ done
    /\ recovered' = TRUE
    /\ want' = want - Cardinality(give)
    /\ returned' = returned \ done

\* Pods of S that the API server still runs are told to end.
Delete(S) == [p \in Slots |-> IF p \in S /\ Alive(pod[p]) THEN "terminating" ELSE pod[p]]

Failures == Environment \cap {"error", "lostReply"}

\* The calls S may fail, or be carried out and seem to fail.
Lost(S) == IF "lostReply" \in Environment THEN SUBSET S ELSE {{}}

\* A subset of the calls S succeeds.
Succeeded(S) == IF Failures = {} THEN {S} ELSE SUBSET S

\* An API call of scheduling fails after some of it was done: nothing is scaled.
ScheduleFails ==
    /\ pc = "listed"
    /\ Failures # {} \/ "conflict" \in Environment \/ asked > want
    /\ \E evicted \in Succeeded(Evicted), give \in SUBSET Available, done \in SUBSET Gone :
         /\ Cardinality(give) <= asked
         /\ Store(give, done)
         /\ pod' = Delete(evicted)
         /\ Idle \/ Rerun(give, done)
    /\ queued' = TRUE
    /\ UNCHANGED <<rev, evict, template, requests, known, expCreate, expDelete>>

\* SatisfiedExpectations, or the expectations have timed out and are dropped.  The
\* informer trails by less than ExpectationTimeout: after that time a pod whose creation
\* was not observed is gone again, and one whose end was not is known to be ending.
Satisfied ==
    \/ expCreate \cup expDelete = {}
    \/ /\ "timeout" \in Environment
       /\ expCreate \cap Existing = {}
       /\ \A p \in expDelete : listed[p] = "terminating"

\* scalePool finds open expectations: it changes nothing and asks to be called again.
ScalePending ==
    /\ pc = "listed" /\ expCreate \cup expDelete # {}
    /\ \E evicted \in Succeeded(Evicted), give \in SUBSET Available :
         /\ Cardinality(give) = Lesser(asked, Cardinality(Available))
         /\ Store(give, Gone)
         /\ pod' = Delete(evicted)
         /\ Idle \/ Rerun(give, Gone)
    /\ queued' = TRUE
    /\ UNCHANGED <<rev, evict, template, requests, known, expCreate, expDelete>>

\* Mutant: nobody waits for a creation to be seen.
ExpectCreateNone(create, unheard) == {}

\* createPoolPod expects a pod once it has its name.
ExpectCreate(create, unheard) == create \ unheard

\* Mutant: nobody waits for a deletion to be seen.
ExpectDeleteNone(S) == {}

\* The deletions that are expected: those the API server accepted.
ExpectDelete(S) == S \cap Existing

\* A call of handleEviction failed, or found no pod.
EvictionErr(evicted) == evicted # Evicted \/ \E p \in evicted : pod[p] = "absent"

\* The allocation store and the idle pods after scheduling.
Stored(give) == (held \cup give) \ Gone
IdlePods(give) == SchedulePods \ Stored(give)

\* What the calls of an attempt change: creations, each with its expectation, and deletions,
\* some of which seem to fail.
Calls(evicted, create, unheard, deleted, lost) ==
    /\ pod' = [p \in Slots |-> IF p \in create THEN "pending"
                               ELSE Delete(evicted \cup deleted \cup lost)[p]]
    /\ rev' = [p \in Slots |-> IF p \in create THEN template ELSE rev[p]]
    /\ evict' = evict \ create
    /\ expCreate' = ExpectCreate(create, unheard)
    /\ expDelete' = ExpectDelete(deleted)

\* The status update may conflict or fail, and is not reached after an error of scalePool.
Conclude(give, evicted, failed) ==
    /\ Idle \/ (~failed /\ Rerun(give, Gone))
    /\ \/ queued' = (queued \/ failed \/ Cardinality(give) < asked \/ EvictionErr(evicted))
       \/ (Failures # {} \/ "conflict" \in Environment) /\ queued' = TRUE

\* scalePool once it knows the desired number of schedulable pods.
Resize(give, evicted, outdated, desired) ==
    \E victims \in PodsToDelete(IdlePods(give), outdated, Recycle,
                                Greater(0, Cardinality(SchedulePods) - desired),
                                ScaleLimit(desired)) :
    \E create \in SUBSET Fresh, deleted \in Succeeded(victims) :
    \E unheard \in Lost(create), lost \in Lost(victims \ deleted) :
      LET failed == \/ deleted # victims \/ unheard # {}
                    \/ Cardinality(create) < CreateCount(desired)
      IN /\ Cardinality(create) <= CreateCount(desired)
         /\ failed => Failures # {}
         /\ Calls(evicted, create, unheard, deleted, lost)
         /\ Conclude(give, evicted, failed)

\* The whole closure: evict, schedule, update, create, delete, write the status.
Scale ==
    /\ pc = "listed" /\ Satisfied
    /\ \E give \in SUBSET Available, evicted \in Succeeded(Evicted) :
         /\ Cardinality(give) = Lesser(asked, Cardinality(Available))
         /\ Store(give, Gone)
         /\ \E outdated \in Outdated(IdlePods(give)) :
              Resize(give, evicted, outdated,
                     DesiredSchedulable(Stored(give),
                                        asked - Cardinality(give) + Cardinality(outdated),
                                        IdlePods(give) \ outdated))
    /\ UNCHANGED <<template, requests, known>>

\* A new process starts with no expectations, a fresh list of pods, and an allocation
\* store that is empty until it is rebuilt from the sandboxes.
Restart ==
    /\ "restart" \in Environment
    /\ expCreate' = {} /\ expDelete' = {} /\ recovered' = FALSE
    /\ known' = pod
    /\ queued' = TRUE
    /\ Idle
    /\ UNCHANGED <<apiVars, held, want, returned>>

-----------------------------------------------------------------------------
(* Users, pods and the informer *)

Counted == requests < MaxRequests /\ requests' = requests + 1

\* A request of a user wakes the Pool.
Request ==
    /\ Counted
    /\ queued' = TRUE
    /\ UNCHANGED <<pod, rev, known, expCreate, expDelete, held, recovered, recVars>>

AskPod ==
    /\ Request
    /\ want' = want + 1
    /\ UNCHANGED <<evict, template, returned>>

\* A sandbox that waits for a pod is deleted.
WithdrawPod ==
    /\ Request
    /\ want > 0
    /\ want' = want - 1
    /\ UNCHANGED <<evict, template, returned>>

ReturnPod(p) ==
    /\ Request
    /\ p \in held \ returned
    /\ returned' = returned \cup {p}
    /\ UNCHANGED <<evict, template, want>>

ChangeTemplate ==
    /\ Request
    /\ template' \in Revisions \ {template}
    /\ UNCHANGED <<evict, want, returned>>

MarkEvict(p) ==
    /\ "evict" \in Environment /\ Alive(pod[p]) /\ p \notin evict
    /\ Request
    /\ evict' = evict \cup {p}
    /\ UNCHANGED <<template, want, returned>>

\* The Pool is woken when the cache sees the change, and also by the events of a pod that
\* is gone before a reconcile could list it.
PodTo(p, life) ==
    /\ pod' = [pod EXCEPT ![p] = life]
    /\ queued' = (queued \/ (life = "absent" /\ known[p] = "absent"))
    /\ UNCHANGED <<rev, evict, template, known, memVars, recVars>>

PodReady(p) == pod[p] = "pending" /\ PodTo(p, "ready") /\ UNCHANGED requests

PodUnready(p) ==
    "podLoss" \in Environment /\ pod[p] = "ready" /\ PodTo(p, "pending") /\ Counted

LosePod(p) ==
    "podLoss" \in Environment /\ Alive(pod[p]) /\ PodTo(p, "terminating") /\ Counted

PodGone(p) == pod[p] = "terminating" /\ PodTo(p, "absent") /\ UNCHANGED requests

\* The watch event of a pod reaches the cache and wakes the Pool, its owner.
CacheSync(p) ==
    /\ known[p] # pod[p]
    /\ known' = [known EXCEPT ![p] = pod[p]]
    /\ queued' = TRUE
    /\ UNCHANGED <<apiVars, memVars, recVars>>

-----------------------------------------------------------------------------

Attempt == ScheduleFails \/ ScalePending \/ Scale

PodStep(p) ==
    \/ PodReady(p) \/ PodUnready(p) \/ LosePod(p) \/ PodGone(p) \/ CacheSync(p)
    \/ ReturnPod(p) \/ MarkEvict(p)

Next ==
    \/ Begin \/ Attempt \/ Restart \/ AskPod \/ WithdrawPod \/ ChangeTemplate
    \/ \E p \in Slots : PodStep(p)

Spec == Init /\ [][Next]_vars

\* A queued Pool is reconciled, and a reconcile that keeps finding expectations open is
\* repeated until they time out; pods start and end; watch events arrive.
Fairness ==
    /\ WF_vars(Begin) /\ WF_vars(Attempt) /\ SF_vars(Scale)
    /\ \A p \in Slots : WF_vars(PodReady(p)) /\ WF_vars(PodGone(p)) /\ WF_vars(CacheSync(p))

FairSpec == Spec /\ Fairness

-----------------------------------------------------------------------------
(* Properties *)

\* Every variable keeps its type.
TypeOK ==
    /\ pod \in [Slots -> Lives] /\ known \in [Slots -> Lives] /\ listed \in [Slots -> Lives]
    /\ rev \in [Slots -> Revisions] /\ template \in Revisions
    /\ evict \in SUBSET Slots /\ marked \in SUBSET Slots
    /\ expCreate \in SUBSET Slots /\ expDelete \in SUBSET Slots
    /\ held \in SUBSET Slots /\ returned \in SUBSET Slots /\ back \in SUBSET Slots
    /\ requests \in Nat /\ want \in Nat /\ asked \in Nat
    /\ pc \in {"idle", "listed"} /\ queued \in BOOLEAN /\ recovered \in BOOLEAN

\* The Pool never has more than poolMax pods, those that are ending included, although
\* the reconcile counts them in a list that misses the pods it has just created, runs
\* again on the same list after a conflict, and forgets what it did when it restarts.
PoolMaxKept == Cardinality(Existing) <= PoolMax

Starting == {p \in Slots : pod[p] = "pending" /\ p \notin evict}

\* The ramp of new pods: with an absolute maxUnavailable, no more than that many pods are
\* starting at a time, whatever the list showed.
RampKept ==
    ~ScaleUnavailable.percent => Cardinality(Starting) <= ScaleLimit(0)

\* Why poolMax is kept: a pod that the list of pods does not show is an expected one.
CountInv ==
    /\ TypeOK
    /\ Existing \subseteq {p \in Slots : known[p] # "absent"} \cup expCreate
    /\ pc = "listed" => Existing \subseteq Listed \cup expCreate
    /\ PoolMaxKept

\* Why the ramp is kept: a pod that is starting is not taken for ready, nor for one that
\* is being evicted.
RampInv ==
    /\ CountInv
    /\ \A p \in Slots : pod[p] = "pending" => known[p] \in {"absent", "pending"}
    /\ pc = "listed" => \A p \in Slots : pod[p] = "pending" => listed[p] \in {"absent", "pending"}
    /\ marked \subseteq evict /\ marked \subseteq LivePods
    /\ RampKept

ReadyIdle(life, stored) == {p \in Slots : life[p] = "ready" /\ p \notin stored}

\* Scaling in stops at the buffer: a ready idle pod of the current revision is deleted
\* only if bufferMin ready idle pods are left.  The counts are of an old list and the
\* deletions of an earlier pass may not show in it.
ScaleInKeepsBuffer ==
    [][Attempt =>
         \A p \in ReadyIdle(listed, held') \ marked :
             pod[p] = "ready" /\ pod'[p] = "terminating" /\ rev[p] = template =>
                 Cardinality(ReadyIdle(pod', held')) >= BufferMin]_vars

\* Why the buffer is kept: a pod that is taken for ready is ready, or its deletion is
\* expected or was asked for by the eviction label; and a pod that is to be recycled is held.
BufferInv ==
    /\ TypeOK
    /\ returned \subseteq held
    /\ \A p \in Slots :
          /\ known[p] = "ready" => pod[p] = "ready" \/ p \in evict \cup expDelete
          /\ known[p] = "terminating" => ~Alive(pod[p])
    /\ pc = "listed" =>
          /\ back \subseteq held /\ marked \subseteq evict \cap LivePods
          /\ \A p \in Slots :
                /\ listed[p] = "ready" => pod[p] = "ready" \/ p \in marked \cup expDelete
                /\ listed[p] = "terminating" => ~Alive(pod[p]) /\ ~Alive(known[p])

\* The Pool has settled within its capacity.  A sandbox that has not handed back a pod
\* that is gone counts as having it.
Settled ==
    LET total == Cardinality(Existing)
        idle == ReadyIdle(pod, held)
    IN /\ \A p \in Existing : pod[p] = "ready"
       /\ returned = {}
       /\ \A p \in idle : rev[p] = template
       /\ want = 0 \/ total >= PoolMax
       /\ Cardinality(idle) >= BufferMin \/ total >= PoolMax
       /\ Cardinality(idle) <= BufferMax + Cardinality(held \ Existing) \/ total <= PoolMin
       /\ total >= PoolMin \/ total >= PoolMax

\* When the users' requests end, the Pool settles: waiting sandboxes are served, the
\* buffer is back in its band, the update is complete, and no pod is created or deleted
\* any more.
PoolSettles == <>[]Settled

=============================================================================
