-------------------------- MODULE PoolScalingProofs --------------------------
(***************************************************************************)
(* Proofs about PoolScaling: types, the bound poolMax, the ramp, and the   *)
(* buffer that scaling in leaves.                                          *)
(***************************************************************************)
EXTENDS PoolScaling, FiniteSetTheorems, TLAPS

\* Sets of slots are finite, so their sizes are numbers.
LEMMA SizeOf ==
    ASSUME NEW S, S \subseteq Slots
    PROVE  IsFiniteSet(S) /\ Cardinality(S) \in Nat
<1>1. IsFiniteSet(S)
  BY ScalingAssumption, FS_Subset DEF ScalingAssumption
<1> QED
  BY <1>1, FS_CardinalityType

\* A set of slots is no larger than one that contains it.
LEMMA SizeMonotone ==
    ASSUME NEW S, NEW T, S \subseteq T, T \subseteq Slots
    PROVE  Cardinality(S) <= Cardinality(T)
BY SizeOf, FS_Subset

\* Two sets of slots together are no larger than their sizes.
LEMMA SizeUnion ==
    ASSUME NEW S, NEW T, S \subseteq Slots, T \subseteq Slots
    PROVE  Cardinality(S \cup T) <= Cardinality(S) + Cardinality(T)
<1>1. Cardinality(S \cup T) = Cardinality(S) + Cardinality(T) - Cardinality(S \cap T)
  BY SizeOf, FS_Union
<1>2. Cardinality(S \cap T) \in Nat /\ Cardinality(S) \in Nat /\ Cardinality(T) \in Nat
  <2>1. S \cap T \subseteq Slots
    OBVIOUS
  <2> QED
    BY <2>1, SizeOf
<1> QED
  BY <1>1, <1>2

\* What an attempt may do to the pods: end some, and create new ones, within poolMax and
\* the ramp, only when nothing is expected that still exists.
Attempted(create, gone) ==
    /\ create \subseteq Fresh
    /\ pod' = [p \in Slots |-> IF p \in create THEN "pending" ELSE Delete(gone)[p]]
    /\ evict' = evict \ create
    /\ known' = known
    /\ \/ create = {} /\ expCreate' = expCreate
       \/ /\ Satisfied
          /\ expCreate' = create
          /\ \E d \in Int : Cardinality(create) <= CreateCount(d)

\* The reconcile is over, or runs again on the same list.
Concluded == Idle \/ UNCHANGED <<pc, listed, marked>>

\* An attempt that gets all its replies is such a step.
LEMMA AttemptEffect ==
    ASSUME TypeOK, "lostReply" \notin Environment, Attempt
    PROVE  Concluded /\ pc = "listed" /\ \E create, gone : Attempted(create, gone)
<1>1. CASE ScheduleFails
  <2>1. PICK evicted \in Succeeded(Evicted) :
          pod' = Delete(evicted) /\ Concluded
    BY <1>1 DEF ScheduleFails, Concluded, Rerun
  <2>2. Attempted({}, evicted)
    BY <1>1, <2>1 DEF ScheduleFails, Attempted, Delete
  <2> QED
    BY <1>1, <2>1, <2>2 DEF ScheduleFails
<1>2. CASE ScalePending
  <2>1. PICK evicted \in Succeeded(Evicted) :
          pod' = Delete(evicted) /\ Concluded
    BY <1>2 DEF ScalePending, Concluded, Rerun
  <2>2. Attempted({}, evicted)
    BY <1>2, <2>1 DEF ScalePending, Attempted, Delete
  <2> QED
    BY <1>2, <2>1, <2>2 DEF ScalePending
<1>3. CASE Scale
  <2>1. PICK give \in SUBSET Available, evicted \in Succeeded(Evicted) :
          \E outdated \in Outdated(IdlePods(give)) :
              Resize(give, evicted, outdated,
                     DesiredSchedulable(Stored(give),
                                        asked - Cardinality(give) + Cardinality(outdated),
                                        IdlePods(give) \ outdated))
    BY <1>3, ZenonT(60) DEF Scale
  <2>2. PICK outdated \in Outdated(IdlePods(give)) :
          Resize(give, evicted, outdated,
                 DesiredSchedulable(Stored(give),
                                    asked - Cardinality(give) + Cardinality(outdated),
                                    IdlePods(give) \ outdated))
    BY <2>1, ZenonT(60)
  <2> DEFINE d == DesiredSchedulable(Stored(give),
                                     asked - Cardinality(give) + Cardinality(outdated),
                                     IdlePods(give) \ outdated)
  <2>3. d \in Int
    <3>1. Stored(give) \subseteq Slots /\ give \subseteq Slots
      BY DEF Stored, Available, Ready, SchedulePods, LivePods, TypeOK
    <3>2. outdated \subseteq Slots
      BY <2>2, ZenonT(60) DEF Outdated, Ready, IdlePods, SchedulePods, LivePods
    <3>3. Ready(IdlePods(give) \ outdated) \subseteq Slots
      BY DEF IdlePods, Ready, SchedulePods, LivePods
    <3>4. /\ Cardinality(Stored(give)) \in Nat /\ Cardinality(give) \in Nat
          /\ Cardinality(outdated) \in Nat
          /\ Cardinality(Ready(IdlePods(give) \ outdated)) \in Nat
      BY <3>1, <3>2, <3>3, SizeOf
    <3>5. DesiredBuffer(Cardinality(Ready(IdlePods(give) \ outdated))) \in Nat
      BY <3>4, ScalingAssumption DEF ScalingAssumption, DesiredBuffer
    <3> QED
      BY <3>4, <3>5, ScalingAssumption
      DEF TypeOK, DesiredSchedulable, Greater, ScalingAssumption
  <2> HIDE DEF d
  <2>4. Resize(give, evicted, outdated, d)
    BY <2>2 DEF d
  <2>5. PICK victims \in PodsToDelete(IdlePods(give), outdated, Recycle,
                                      Greater(0, Cardinality(SchedulePods) - d),
                                      ScaleLimit(d)) :
          \E create \in SUBSET Fresh, deleted \in Succeeded(victims) :
          \E unheard \in Lost(create), lost \in Lost(victims \ deleted) :
            /\ Cardinality(create) <= CreateCount(d)
            /\ Calls(evicted, create, unheard, deleted, lost)
            /\ \E failed : Conclude(give, evicted, failed)
    BY <2>4, ZenonT(60) DEF Resize
  <2>6. PICK create \in SUBSET Fresh, deleted \in Succeeded(victims) :
          \E unheard \in Lost(create), lost \in Lost(victims \ deleted) :
            /\ Cardinality(create) <= CreateCount(d)
            /\ Calls(evicted, create, unheard, deleted, lost)
            /\ \E failed : Conclude(give, evicted, failed)
    BY <2>5, ZenonT(60)
  <2>7. PICK unheard \in Lost(create), lost \in Lost(victims \ deleted) :
          /\ Cardinality(create) <= CreateCount(d)
          /\ Calls(evicted, create, unheard, deleted, lost)
          /\ \E failed : Conclude(give, evicted, failed)
    BY <2>6
  <2>8. unheard = {} /\ expCreate' = create
    BY <2>7 DEF Lost, ExpectCreate, Calls
  <2>9. Concluded
    BY <2>7 DEF Concluded, Conclude, Rerun
  <2>10. Attempted(create, evicted \cup deleted \cup lost)
    BY <1>3, <2>3, <2>7, <2>8 DEF Attempted, Calls, Scale
  <2> QED
    BY <1>3, <2>9, <2>10 DEF Scale
<1> QED
  BY <1>1, <1>2, <1>3 DEF Attempt

-----------------------------------------------------------------------------
(* Types *)

RecordType ==
    /\ listed \in [Slots -> Lives] /\ marked \in SUBSET Slots /\ asked \in Nat
    /\ back \in SUBSET Slots /\ pc \in {"idle", "listed"}

\* A reconcile that ends, or runs again, leaves well-typed local state.
LEMMA ConcludeType ==
    ASSUME TypeOK, NEW give, NEW done, give \subseteq Slots, Cardinality(give) <= asked,
           Idle \/ Rerun(give, done)
    PROVE  RecordType'
<1>1. CASE Idle
  BY <1>1 DEF Idle, RecordType, Lives
<1>2. CASE Rerun(give, done)
  <2>1. Cardinality(give) \in Nat
    BY SizeOf
  <2>2. asked' \in Nat
    BY <1>2, <2>1 DEF Rerun, TypeOK
  <2> QED
    BY <1>2, <2>2 DEF Rerun, RecordType, TypeOK
<1> QED
  BY <1>1, <1>2

\* Scheduling keeps the store, the waiting sandboxes and the returned pods well typed.
LEMMA StoreType ==
    ASSUME TypeOK, NEW give, NEW done, give \subseteq Slots, Store(give, done)
    PROVE  /\ held' \in SUBSET Slots /\ want' \in Nat
           /\ returned' \in SUBSET Slots /\ recovered' \in BOOLEAN
<1>1. Cardinality(give) \in Nat
  BY SizeOf
<1> QED
  BY <1>1 DEF Store, TypeOK

\* The number of pods to give is at most the number asked for.
LEMMA GiveBound ==
    ASSUME TypeOK, NEW give \in SUBSET Available
    PROVE  /\ give \subseteq Slots
           /\ Cardinality(give) = Lesser(asked, Cardinality(Available))
                 => Cardinality(give) <= asked
<1>1. give \subseteq Slots /\ Available \subseteq Slots
  BY DEF Available, Ready, SchedulePods, LivePods
<1>2. Cardinality(give) \in Nat /\ Cardinality(Available) \in Nat
  BY <1>1, SizeOf
<1> QED
  BY <1>1, <1>2 DEF Lesser, TypeOK

\* Ending pods keeps their type.
LEMMA DeleteType ==
    ASSUME TypeOK, NEW S
    PROVE  Delete(S) \in [Slots -> Lives]
BY DEF Delete, TypeOK, Lives

\* Every attempt keeps the types.
LEMMA AttemptType ==
    ASSUME TypeOK, Attempt
    PROVE  TypeOK'
<1>1. CASE ScheduleFails
  <2>1. PICK evicted \in Succeeded(Evicted), give \in SUBSET Available, done \in SUBSET Gone :
          /\ Cardinality(give) <= asked
          /\ Store(give, done)
          /\ pod' = Delete(evicted)
          /\ Idle \/ Rerun(give, done)
    BY <1>1 DEF ScheduleFails
  <2>2. give \subseteq Slots
    BY GiveBound
  <2>3. RecordType'
    BY <2>1, <2>2, ConcludeType
  <2>4. /\ held' \in SUBSET Slots /\ want' \in Nat /\ returned' \in SUBSET Slots
        /\ recovered' \in BOOLEAN
    BY <2>1, <2>2, StoreType
  <2>5. pod' \in [Slots -> Lives]
    BY <2>1, DeleteType
  <2> QED
    BY <1>1, <2>3, <2>4, <2>5 DEF ScheduleFails, TypeOK, RecordType
<1>2. CASE ScalePending
  <2>1. PICK evicted \in Succeeded(Evicted), give \in SUBSET Available :
          /\ Cardinality(give) = Lesser(asked, Cardinality(Available))
          /\ Store(give, Gone)
          /\ pod' = Delete(evicted)
          /\ Idle \/ Rerun(give, Gone)
    BY <1>2 DEF ScalePending
  <2>2. give \subseteq Slots /\ Cardinality(give) <= asked
    BY <2>1, GiveBound
  <2>3. RecordType'
    BY <2>1, <2>2, ConcludeType
  <2>4. /\ held' \in SUBSET Slots /\ want' \in Nat /\ returned' \in SUBSET Slots
        /\ recovered' \in BOOLEAN
    BY <2>1, <2>2, StoreType
  <2>5. pod' \in [Slots -> Lives]
    BY <2>1, DeleteType
  <2> QED
    BY <1>2, <2>3, <2>4, <2>5 DEF ScalePending, TypeOK, RecordType
<1>3. CASE Scale
  <2>1. PICK give \in SUBSET Available, evicted \in Succeeded(Evicted) :
          /\ Cardinality(give) = Lesser(asked, Cardinality(Available))
          /\ Store(give, Gone)
          /\ \E outdated, desired : Resize(give, evicted, outdated, desired)
    BY <1>3, Zenon DEF Scale
  <2>2. PICK outdated, desired : Resize(give, evicted, outdated, desired)
    BY <2>1
  <2>3. PICK victims \in PodsToDelete(IdlePods(give), outdated, Recycle,
                                      Greater(0, Cardinality(SchedulePods) - desired),
                                      ScaleLimit(desired)) :
          \E create \in SUBSET Fresh, deleted \in Succeeded(victims) :
          \E unheard \in Lost(create), lost \in Lost(victims \ deleted) :
            /\ Calls(evicted, create, unheard, deleted, lost)
            /\ \E failed : Conclude(give, evicted, failed)
    BY <2>2, Zenon DEF Resize
  <2>4. PICK create \in SUBSET Fresh, deleted \in Succeeded(victims) :
          \E unheard \in Lost(create), lost \in Lost(victims \ deleted) :
            /\ Calls(evicted, create, unheard, deleted, lost)
            /\ \E failed : Conclude(give, evicted, failed)
    BY <2>3, ZenonT(60)
  <2>5. PICK unheard \in Lost(create), lost \in Lost(victims \ deleted) :
          /\ Calls(evicted, create, unheard, deleted, lost)
          /\ \E failed : Conclude(give, evicted, failed)
    BY <2>4
  <2>6. give \subseteq Slots /\ Cardinality(give) <= asked
    BY <2>1, GiveBound
  <2>7. RecordType'
    BY <2>5, <2>6, ConcludeType DEF Conclude
  <2>8. /\ held' \in SUBSET Slots /\ want' \in Nat /\ returned' \in SUBSET Slots
        /\ recovered' \in BOOLEAN
    BY <2>1, <2>6, StoreType
  <2>9. pod' \in [Slots -> Lives]
    <3>1. Delete(evicted \cup deleted \cup lost) \in [Slots -> Lives]
      BY DeleteType
    <3> QED
      BY <2>5, <3>1, ZenonT(60) DEF Calls, Lives
  <2>10. rev' \in [Slots -> Revisions]
    BY <2>5 DEF Calls, TypeOK
  <2>11. evict' \in SUBSET Slots /\ expCreate' \in SUBSET Slots /\ expDelete' \in SUBSET Slots
    BY <2>4, <2>5 DEF Calls, TypeOK, ExpectCreate, ExpectDelete, Existing, Fresh
  <2>12. UNCHANGED <<template, requests, known>>
    BY <1>3 DEF Scale
  <2>13. queued' \in BOOLEAN
    BY <2>5, Zenon DEF Conclude
  <2> QED
    BY <2>7, <2>8, <2>9, <2>10, <2>11, <2>12, <2>13 DEF TypeOK, RecordType
<1> QED
  BY <1>1, <1>2, <1>3 DEF Attempt

\* The types hold initially.
LEMMA TypeInit ==
    ASSUME Init
    PROVE  TypeOK
BY ZenonT(60) DEF Init, TypeOK, Lives

\* Every step keeps the types.
LEMMA TypeStep ==
    ASSUME TypeOK, [Next]_vars
    PROVE  TypeOK'
<1>1. CASE Begin
  BY <1>1, ZenonT(60) DEF Begin, TypeOK, apiVars
<1>2. CASE Attempt
  BY <1>2, AttemptType
<1>3. CASE Restart
  BY <1>3, ZenonT(60) DEF Restart, Idle, TypeOK, Lives, apiVars
<1>4. CASE AskPod \/ WithdrawPod \/ ChangeTemplate
  <2>1. CASE AskPod
    BY <2>1 DEF AskPod, Request, Counted, TypeOK, recVars
  <2>2. CASE WithdrawPod
    BY <2>2 DEF WithdrawPod, Request, Counted, TypeOK, recVars
  <2>3. CASE ChangeTemplate
    BY <2>3 DEF ChangeTemplate, Request, Counted, TypeOK, recVars
  <2> QED
    BY <1>4, <2>1, <2>2, <2>3
<1>5. ASSUME NEW p \in Slots, PodStep(p)
      PROVE  TypeOK'
  <2>1. CASE PodReady(p) \/ PodUnready(p) \/ LosePod(p) \/ PodGone(p)
    <3>1. PICK life \in Lives : PodTo(p, life)
      BY <2>1 DEF PodReady, PodUnready, LosePod, PodGone, Lives
    <3>2. requests' \in Nat
      BY <2>1 DEF PodReady, PodUnready, LosePod, PodGone, Counted, TypeOK
    <3>3. pod' \in [Slots -> Lives]
      BY <3>1 DEF PodTo, TypeOK
    <3>4. queued' \in BOOLEAN
      BY <3>1, Zenon DEF PodTo
    <3> QED
      BY <3>1, <3>2, <3>3, <3>4 DEF PodTo, TypeOK, memVars, recVars
  <2>2. CASE CacheSync(p)
    BY <2>2 DEF CacheSync, TypeOK, apiVars, memVars, recVars
  <2>3. CASE ReturnPod(p)
    BY <2>3 DEF ReturnPod, Request, Counted, TypeOK, recVars
  <2>4. CASE MarkEvict(p)
    BY <2>4 DEF MarkEvict, Request, Counted, TypeOK, recVars
  <2> QED
    BY <1>5, <2>1, <2>2, <2>3, <2>4 DEF PodStep
<1>6. CASE UNCHANGED vars
  BY <1>6 DEF vars, apiVars, memVars, recVars, TypeOK
<1> QED
  BY <1>1, <1>2, <1>3, <1>4, <1>5, <1>6 DEF Next

\* Every variable keeps its type, in every environment.
THEOREM ScalingTypes == Spec => []TypeOK
<1>1. Init => TypeOK
  BY TypeInit
<1>2. TypeOK /\ [Next]_vars => TypeOK'
  BY TypeStep
<1> QED
  BY <1>1, <1>2, PTL DEF Spec

-----------------------------------------------------------------------------
(* poolMax *)

Known == {p \in Slots : known[p] # "absent"}

\* What an attempt does to the set of pods that exist.
LEMMA AttemptExisting ==
    ASSUME TypeOK, NEW create, NEW gone, Attempted(create, gone)
    PROVE  /\ create \subseteq Slots
           /\ Existing' = Existing \cup create
<1>1. create \subseteq Slots /\ \A p \in create : pod[p] = "absent"
  BY DEF Attempted, Fresh
<1>2. \A p \in Slots \ create : pod'[p] # "absent" <=> pod[p] # "absent"
  BY DEF Attempted, Delete, Alive, TypeOK
<1>3. \A p \in create : pod'[p] = "pending"
  BY <1>1 DEF Attempted
<1> QED
  BY <1>1, <1>2, <1>3 DEF Existing

\* The number of creations is at most the room below poolMax, and what the ramp allows.
LEMMA CreateBound ==
    ASSUME TypeOK, NEW d \in Int, NEW n \in Nat, n <= CreateCount(d), n > 0
    PROVE  /\ n <= PoolMax - Cardinality(Listed)
           /\ n <= ScaleLimit(d) - Cardinality(NotReady)
<1>1. /\ Cardinality(Listed) \in Nat /\ Cardinality(SchedulePods) \in Nat
      /\ Cardinality(NotReady) \in Nat
  <2>1. Listed \subseteq Slots /\ SchedulePods \subseteq Slots /\ NotReady \subseteq Slots
    BY DEF Listed, SchedulePods, NotReady, LivePods
  <2> QED
    BY <2>1, SizeOf
<1>2. PoolMax \in Nat
  BY ScalingAssumption DEF ScalingAssumption
<1>3. ScaleLimit(d) \in Int
  BY ScalingAssumption DEF ScalingAssumption, ScaleLimit, Scaled, Greater, IntOrPercent
<1> DEFINE a == d - Cardinality(SchedulePods)
           b == ScaleLimit(d) - Cardinality(NotReady)
<1>4. n <= Greater(0, Lesser(Lesser(a, MaxNewPods), b))
  BY DEF CreateCount
<1>5. a \in Int /\ b \in Int /\ MaxNewPods \in Int
  BY <1>1, <1>2, <1>3 DEF MaxNewPods, Greater
<1> HIDE DEF a, b
<1>6. n <= MaxNewPods /\ n <= b
  BY <1>4, <1>5 DEF Greater, Lesser
<1> QED
  BY <1>1, <1>2, <1>6 DEF MaxNewPods, Greater, b

\* Steps that change no pod leave the counts alone.
LEMMA CountFrame ==
    ASSUME CountInv, TypeOK', UNCHANGED <<pod, known, expCreate, pc, listed>>
    PROVE  CountInv'
<1>1. Existing' = Existing /\ Listed' = Listed
  BY DEF Existing, Listed
<1> QED
  BY <1>1 DEF CountInv, PoolMaxKept

\* An attempt keeps the bound: with no expectation open the list shows every pod, and
\* creates no more than what it leaves below poolMax.
LEMMA CountAttempt ==
    ASSUME CountInv, TypeOK', "lostReply" \notin Environment, Attempt
    PROVE  CountInv'
<1>0. TypeOK
  BY DEF CountInv
<1>1. PICK create, gone : Attempted(create, gone)
  BY <1>0, AttemptEffect
<1>2. Concluded /\ pc = "listed"
  BY <1>0, AttemptEffect
<1>3. create \subseteq Slots /\ Existing' = Existing \cup create
  BY <1>0, <1>1, AttemptExisting
<1>4. Known' = Known
  BY <1>1 DEF Attempted, Known
<1>5. (pc' = "listed") => Listed' = Listed
  BY <1>2 DEF Concluded, Idle, Listed
<1>6. CASE create = {} /\ expCreate' = expCreate
  <2>1. Existing' = Existing
    BY <1>3, <1>6
  <2> QED
    BY <1>2, <1>4, <1>5, <1>6, <2>1 DEF CountInv, PoolMaxKept, Known
<1>7. CASE Satisfied /\ expCreate' = create /\ \E d \in Int : Cardinality(create) <= CreateCount(d)
  <2>1. Existing \subseteq Listed /\ Existing \subseteq Known
    BY <1>2, <1>7 DEF CountInv, Satisfied, Known, Existing
  <2>2. Cardinality(Existing') <= PoolMax
    <3>1. /\ Cardinality(create) \in Nat /\ Cardinality(Existing) \in Nat
          /\ Cardinality(Listed) \in Nat
      BY <1>3, SizeOf DEF Existing, Listed
    <3>2. Cardinality(Existing) <= Cardinality(Listed)
      BY <2>1, SizeMonotone DEF Listed
    <3>3. Cardinality(Existing \cup create) <= Cardinality(Existing) + Cardinality(create)
      BY <1>3, SizeUnion DEF Existing
    <3>4. CASE Cardinality(create) = 0
      <4>1. create = {}
        BY <1>3, <3>4, SizeOf, FS_EmptySet
      <4> QED
        BY <1>3, <4>1 DEF CountInv, PoolMaxKept
    <3>5. CASE Cardinality(create) > 0
      <4>1. Cardinality(create) <= PoolMax - Cardinality(Listed)
        BY <1>0, <1>7, <3>1, <3>5, CreateBound
      <4>2. PoolMax \in Nat /\ Cardinality(Existing \cup create) \in Nat
        BY <1>3, SizeOf, ScalingAssumption DEF ScalingAssumption, Existing
      <4> QED
        BY <1>3, <3>1, <3>2, <3>3, <4>1, <4>2
    <3> QED
      BY <3>1, <3>4, <3>5
  <2> QED
    BY <1>2, <1>3, <1>4, <1>5, <1>7, <2>1, <2>2 DEF CountInv, PoolMaxKept, Known
<1> QED
  BY <1>1, <1>6, <1>7 DEF Attempted

\* A pod's own steps make no pod exist that did not.
LEMMA CountPod ==
    ASSUME CountInv, TypeOK', NEW p \in Slots,
           PodReady(p) \/ PodUnready(p) \/ LosePod(p) \/ PodGone(p)
    PROVE  CountInv'
<1>1. PICK life : PodTo(p, life)
  BY DEF PodReady, PodUnready, LosePod, PodGone
<1>2. pod[p] # "absent"
  BY DEF PodReady, PodUnready, LosePod, PodGone, Alive
<1>3. Existing' \subseteq Existing
  BY <1>1, <1>2 DEF PodTo, Existing, CountInv, TypeOK
<1>4. Cardinality(Existing') <= PoolMax
  <2>1. Cardinality(Existing') <= Cardinality(Existing)
    BY <1>3, SizeMonotone DEF Existing
  <2>2. Cardinality(Existing) <= PoolMax
    BY DEF CountInv, PoolMaxKept
  <2>3. Cardinality(Existing) \in Nat /\ Cardinality(Existing') \in Nat /\ PoolMax \in Nat
    <3>1. Existing \subseteq Slots /\ Existing' \subseteq Slots
      BY DEF Existing
    <3> QED
      BY <3>1, SizeOf, ScalingAssumption DEF ScalingAssumption
  <2> QED
    BY <2>1, <2>2, <2>3
<1>5. Listed' = Listed /\ UNCHANGED <<known, expCreate, pc>>
  BY <1>1 DEF PodTo, Listed, memVars, recVars
<1> QED
  BY <1>3, <1>4, <1>5 DEF CountInv, PoolMaxKept

\* Every step keeps the count.
LEMMA CountStep ==
    ASSUME CountInv, "lostReply" \notin Environment, [Next]_vars
    PROVE  CountInv'
<1>0. TypeOK /\ TypeOK'
  BY TypeStep DEF CountInv
<1>1. CASE Begin
  <2>1. Existing' = Existing /\ Listed' = Known /\ known' = known
    BY <1>1 DEF Begin, Existing, Listed, Known, apiVars
  <2>2. Known \cup expCreate \subseteq Known \cup expCreate'
    BY <1>0, <1>1 DEF Begin, Known, TypeOK
  <2> QED
    BY <1>0, <1>1, <2>1, <2>2 DEF CountInv, PoolMaxKept, Known
<1>2. CASE Attempt
  BY <1>0, <1>2, CountAttempt, ZenonT(60)
<1>3. CASE Restart
  <2>1. Existing' = Existing /\ Existing' = {p \in Slots : known'[p] # "absent"}
    BY <1>3 DEF Restart, Existing, apiVars
  <2> QED
    BY <1>0, <1>3, <2>1 DEF Restart, Idle, CountInv, PoolMaxKept
<1>4. CASE AskPod \/ WithdrawPod \/ ChangeTemplate
  BY <1>0, <1>4, CountFrame DEF AskPod, WithdrawPod, ChangeTemplate, Request, recVars
<1>5. ASSUME NEW p \in Slots, PodStep(p)
      PROVE  CountInv'
  <2>1. CASE PodReady(p) \/ PodUnready(p) \/ LosePod(p) \/ PodGone(p)
    BY <1>0, <2>1, CountPod
  <2>2. CASE CacheSync(p)
    <3>1. Existing' = Existing /\ Listed' = Listed /\ UNCHANGED <<expCreate, pc>>
      BY <2>2 DEF CacheSync, Existing, Listed, apiVars, memVars, recVars
    <3>2. Existing \subseteq {q \in Slots : known'[q] # "absent"} \cup expCreate
      BY <1>0, <2>2 DEF CacheSync, CountInv, Existing, TypeOK
    <3> QED
      BY <1>0, <3>1, <3>2, ZenonT(60) DEF CountInv, PoolMaxKept
  <2>3. CASE ReturnPod(p) \/ MarkEvict(p)
    BY <1>0, <2>3, CountFrame DEF ReturnPod, MarkEvict, Request, recVars
  <2> QED
    BY <1>5, <2>1, <2>2, <2>3 DEF PodStep
<1>6. CASE UNCHANGED vars
  BY <1>0, <1>6, CountFrame DEF vars, apiVars, memVars, recVars
<1> QED
  BY <1>1, <1>2, <1>3, <1>4, <1>5, <1>6 DEF Next

\* No pod exists at first.
LEMMA CountInit ==
    ASSUME Init
    PROVE  CountInv
<1>1. TypeOK
  BY TypeInit
<1>2. Existing = {}
  BY DEF Init, Existing
<1>3. Cardinality(Existing) = 0
  BY <1>2, FS_EmptySet
<1> QED
  BY <1>1, <1>2, <1>3, ScalingAssumption DEF CountInv, PoolMaxKept, ScalingAssumption

\* For every capacity, and whatever fails, restarts or conflicts, a Pool whose calls get
\* their replies never has more than poolMax pods.
THEOREM PoolMaxHeld ==
    ASSUME "lostReply" \notin Environment
    PROVE  Spec => []PoolMaxKept
<1>1. Init => CountInv
  BY CountInit
<1>2. CountInv /\ [Next]_vars => CountInv'
  BY CountStep
<1>3. CountInv => PoolMaxKept
  BY DEF CountInv
<1> QED
  BY <1>1, <1>2, <1>3, PTL DEF Spec

-----------------------------------------------------------------------------
(* The ramp *)

\* The part of RampInv about what is known of a pod that is starting.
SeenInv ==
    /\ \A p \in Slots : pod[p] = "pending" => known[p] \in {"absent", "pending"}
    /\ pc = "listed" => \A p \in Slots : pod[p] = "pending" => listed[p] \in {"absent", "pending"}
    /\ marked \subseteq evict /\ marked \subseteq LivePods

\* An absolute limit does not depend on the number of pods.
LEMMA LimitConstant ==
    ASSUME ~ScaleUnavailable.percent, NEW d
    PROVE  ScaleLimit(d) = ScaleLimit(0)
BY DEF ScaleLimit, Scaled

\* Fewer pods are starting, so the ramp is kept.
LEMMA RampShrinks ==
    ASSUME RampKept, Starting' \subseteq Starting
    PROVE  RampKept'
<1>1. Starting \subseteq Slots /\ Starting' \subseteq Slots
  BY DEF Starting
<1>2. Cardinality(Starting') <= Cardinality(Starting)
  BY <1>1, SizeMonotone
<1>3. Cardinality(Starting') \in Nat /\ Cardinality(Starting) \in Nat
  BY <1>1, SizeOf
<1>4. ScaleLimit(0) \in Int
  BY ScalingAssumption DEF ScalingAssumption, ScaleLimit, Scaled, Greater, IntOrPercent
<1>5. ScaleLimit(0)' = ScaleLimit(0)
  BY DEF ScaleLimit, Scaled, Greater
<1> QED
  BY <1>2, <1>3, <1>4, <1>5 DEF RampKept

\* An attempt keeps the ramp: with no expectation open the list shows the pods that are
\* starting, and as such.
LEMMA RampAttempt ==
    ASSUME RampInv, "lostReply" \notin Environment, Attempt
    PROVE  SeenInv' /\ RampKept'
<1>0. TypeOK /\ SeenInv
  BY DEF RampInv, CountInv, SeenInv
<1>1. PICK create, gone : Attempted(create, gone)
  BY <1>0, AttemptEffect
<1>2. Concluded /\ pc = "listed"
  BY <1>0, AttemptEffect
<1>3. /\ create \subseteq Slots
      /\ \A p \in create : known[p] = "absent" /\ listed[p] = "absent"
  BY <1>1 DEF Attempted, Fresh
<1>4. \A p \in Slots \ create : pod'[p] = "pending" => pod[p] = "pending"
  BY <1>1 DEF Attempted, Delete
<1>5. SeenInv'
  <2>1. \A p \in Slots : pod'[p] = "pending" => known'[p] \in {"absent", "pending"}
    BY <1>0, <1>1, <1>3, <1>4 DEF SeenInv, Attempted
  <2>2. CASE Idle
    BY <2>1, <2>2 DEF SeenInv, Idle
  <2>3. CASE UNCHANGED <<pc, listed, marked>>
    <3>1. \A p \in Slots : pod'[p] = "pending" => listed'[p] \in {"absent", "pending"}
      BY <1>0, <1>2, <1>3, <1>4, <2>3 DEF SeenInv
    <3>2. marked \cap create = {}
      BY <1>0, <1>3 DEF SeenInv, LivePods, Alive
    <3>3. evict' = evict \ create
      BY <1>1 DEF Attempted
    <3>4. LivePods' = LivePods
      BY <2>3 DEF LivePods
    <3> QED
      BY <1>0, <2>1, <2>3, <3>1, <3>2, <3>3, <3>4 DEF SeenInv
  <2> QED
    BY <1>2, <2>2, <2>3 DEF Concluded
<1>6. Starting' \subseteq Starting \cup create
  BY <1>1, <1>4 DEF Starting, Attempted
<1>7. CASE create = {}
  BY <1>5, <1>6, <1>7, RampShrinks DEF RampInv
<1>8. CASE create # {} /\ Satisfied /\ \E d \in Int : Cardinality(create) <= CreateCount(d)
  <2>1. Starting \subseteq NotReady
    <3>1. Existing \subseteq Listed
      BY <1>2, <1>8 DEF RampInv, CountInv, Satisfied, Existing
    <3>2. \A p \in Starting : listed[p] = "pending" /\ p \notin marked
      BY <1>0, <1>2, <3>1 DEF Starting, SeenInv, Existing, Listed
    <3> QED
      BY <3>2 DEF Starting, NotReady, SchedulePods, LivePods, Alive, Ready, Evicted
  <2>2. Starting \subseteq Slots /\ NotReady \subseteq Slots /\ Starting' \subseteq Slots
    BY DEF Starting, NotReady, SchedulePods, LivePods
  <2>3. /\ Cardinality(Starting) \in Nat /\ Cardinality(NotReady) \in Nat
        /\ Cardinality(create) \in Nat /\ Cardinality(Starting') \in Nat
        /\ Cardinality(Starting \cup create) \in Nat
    <3>1. Starting \cup create \subseteq Slots
      BY <1>3, <2>2
    <3> QED
      BY <1>3, <2>2, <3>1, SizeOf
  <2>4. Cardinality(create) > 0
    <3>1. Cardinality(create) # 0
      BY <1>3, <1>8, SizeOf, FS_EmptySet
    <3> QED
      BY <2>3, <3>1
  <2>5. PICK d \in Int : Cardinality(create) <= CreateCount(d)
    BY <1>8
  <2>6. Cardinality(create) <= ScaleLimit(d) - Cardinality(NotReady)
    BY <1>0, <2>3, <2>4, <2>5, CreateBound
  <2>7. Cardinality(Starting) <= Cardinality(NotReady)
    BY <2>1, <2>2, SizeMonotone
  <2>8. Cardinality(Starting \cup create) <= Cardinality(Starting) + Cardinality(create)
    BY <1>3, <2>2, SizeUnion
  <2>9. Cardinality(Starting') <= Cardinality(Starting \cup create)
    BY <1>3, <1>6, <2>2, SizeMonotone
  <2>10. ScaleLimit(d) \in Int /\ ScaleLimit(0)' = ScaleLimit(0)
    BY ScalingAssumption DEF ScalingAssumption, ScaleLimit, Scaled, Greater, IntOrPercent
  <2>11. Cardinality(Starting') <= ScaleLimit(d)
    BY <2>3, <2>6, <2>7, <2>8, <2>9, <2>10
  <2> QED
    BY <1>5, <2>10, <2>11, LimitConstant DEF RampKept
<1> QED
  BY <1>1, <1>5, <1>7, <1>8 DEF Attempted

\* Steps that leave the pods, the cache and the reconcile alone, and drop no label.
LEMMA RampFrame ==
    ASSUME RampInv, UNCHANGED <<pod, known, pc, listed, marked>>, evict \subseteq evict'
    PROVE  SeenInv' /\ RampKept'
<1>1. LivePods' = LivePods /\ Starting' \subseteq Starting
  BY DEF LivePods, Starting
<1>2. RampKept'
  BY <1>1, RampShrinks DEF RampInv
<1> QED
  BY <1>1, <1>2 DEF RampInv, SeenInv

\* A pod's own steps start none, as long as ready pods stay ready.
LEMMA RampPod ==
    ASSUME RampInv, NEW p \in Slots, PodReady(p) \/ LosePod(p) \/ PodGone(p)
    PROVE  SeenInv' /\ RampKept'
<1>1. PICK life \in Lives \ {"pending"} : PodTo(p, life)
  BY DEF PodReady, LosePod, PodGone, Lives
<1>2. \A q \in Slots : pod'[q] = "pending" => pod[q] = "pending"
  BY <1>1 DEF PodTo, RampInv, CountInv, TypeOK
<1>3. UNCHANGED <<evict, known, pc, listed, marked>>
  BY <1>1 DEF PodTo, recVars
<1>4. LivePods' = LivePods /\ Starting' \subseteq Starting
  BY <1>2, <1>3 DEF LivePods, Starting
<1>5. RampKept'
  BY <1>4, RampShrinks DEF RampInv
<1> QED
  BY <1>2, <1>3, <1>4, <1>5 DEF RampInv, SeenInv

\* Every step keeps the ramp.
LEMMA RampStep ==
    ASSUME RampInv, Environment \cap {"lostReply", "podLoss"} = {}, [Next]_vars
    PROVE  RampInv'
<1>0. CountInv' /\ TypeOK
  BY CountStep, ZenonT(60) DEF RampInv, CountInv
<1>1. SUFFICES SeenInv' /\ RampKept'
  BY <1>0 DEF RampInv, SeenInv
<1>2. CASE Begin
  <2>1. UNCHANGED <<pod, known, evict>> /\ listed' = known
    BY <1>2 DEF Begin, apiVars
  <2>2. marked' \subseteq evict' /\ marked' \subseteq LivePods'
    BY <1>0, <1>2 DEF Begin, apiVars, LivePods, TypeOK
  <2>3. SeenInv'
    BY <2>1, <2>2 DEF RampInv, SeenInv
  <2>4. Starting' \subseteq Starting
    BY <2>1 DEF Starting
  <2> QED
    BY <2>3, <2>4, RampShrinks DEF RampInv
<1>3. CASE Attempt
  BY <1>3, RampAttempt
<1>4. CASE Restart
  <2>1. UNCHANGED <<pod, evict>> /\ known' = pod /\ Idle
    BY <1>4 DEF Restart, apiVars
  <2>2. SeenInv'
    BY <2>1 DEF SeenInv, Idle
  <2>3. Starting' \subseteq Starting
    BY <2>1 DEF Starting
  <2> QED
    BY <2>2, <2>3, RampShrinks DEF RampInv
<1>5. CASE AskPod \/ WithdrawPod \/ ChangeTemplate
  BY <1>5, RampFrame DEF AskPod, WithdrawPod, ChangeTemplate, Request, recVars
<1>6. ASSUME NEW p \in Slots, PodStep(p)
      PROVE  SeenInv' /\ RampKept'
  <2>1. CASE PodReady(p) \/ LosePod(p) \/ PodGone(p)
    BY <2>1, RampPod
  <2>2. CASE PodUnready(p)
    BY <2>2 DEF PodUnready
  <2>3. CASE CacheSync(p)
    <3>1. UNCHANGED <<pod, evict, pc, listed, marked>>
      BY <2>3 DEF CacheSync, apiVars, recVars
    <3>2. \A q \in Slots : known'[q] \in {known[q], pod[q]}
      BY <1>0, <2>3 DEF CacheSync, TypeOK
    <3>3. SeenInv'
      BY <3>1, <3>2 DEF RampInv, SeenInv, LivePods
    <3>4. Starting' \subseteq Starting
      BY <3>1 DEF Starting
    <3> QED
      BY <3>3, <3>4, RampShrinks DEF RampInv
  <2>4. CASE ReturnPod(p) \/ MarkEvict(p)
    BY <2>4, RampFrame DEF ReturnPod, MarkEvict, Request, recVars
  <2> QED
    BY <1>6, <2>1, <2>2, <2>3, <2>4 DEF PodStep
<1>7. CASE UNCHANGED vars
  BY <1>7, RampFrame DEF vars, apiVars, memVars, recVars
<1> QED
  BY <1>2, <1>3, <1>4, <1>5, <1>6, <1>7 DEF Next

\* The inductive invariant behind the ramp holds for every capacity: a starting pod is
\* counted by countNotReadyPods of the next pass, or expected.
THEOREM RampInvariant ==
    ASSUME Environment \cap {"lostReply", "podLoss"} = {}
    PROVE  Spec => []RampInv
<1>1. Init => RampInv
  <2> SUFFICES ASSUME Init PROVE RampInv
    OBVIOUS
  <2>1. CountInv
    BY CountInit
  <2>2. Starting = {}
    BY DEF Init, Starting
  <2>3. Cardinality(Starting) = 0 /\ ScaleLimit(0) \in Nat
    BY <2>2, FS_EmptySet, ScalingAssumption
    DEF ScalingAssumption, ScaleLimit, Scaled, Greater, IntOrPercent
  <2>4. SeenInv
    BY DEF Init, SeenInv
  <2> QED
    BY <2>1, <2>3, <2>4 DEF RampInv, SeenInv, RampKept
<1>2. RampInv /\ [Next]_vars => RampInv'
  BY RampStep
<1> QED
  BY <1>1, <1>2, PTL DEF Spec

\* With an absolute maxUnavailable, for every capacity and any restarts, errors, conflicts
\* and evictions, no more pods are starting than it allows, as long as calls get their
\* replies and ready pods stay ready.
THEOREM RampHeld ==
    ASSUME Environment \cap {"lostReply", "podLoss"} = {}
    PROVE  Spec => []RampKept
<1>1. RampInv => RampKept
  BY DEF RampInv
<1> QED
  BY <1>1, RampInvariant, PTL

-----------------------------------------------------------------------------
(* Scaling in *)

Desired(give, outdated) ==
    DesiredSchedulable(Stored(give), asked - Cardinality(give) + Cardinality(outdated),
                       IdlePods(give) \ outdated)

ScaleIn(give, outdated) == Greater(0, Cardinality(SchedulePods) - Desired(give, outdated))

\* The parts of an attempt that scales and gets all its replies.
Parts(give, evicted, outdated, victims, create, deleted) ==
    /\ give \subseteq Available /\ Cardinality(give) = Lesser(asked, Cardinality(Available))
    /\ Store(give, Gone)
    /\ evicted \subseteq Evicted
    /\ outdated \in Outdated(IdlePods(give))
    /\ victims \in PodsToDelete(IdlePods(give), outdated, Recycle, ScaleIn(give, outdated),
                                ScaleLimit(Desired(give, outdated)))
    /\ create \subseteq Fresh /\ deleted \subseteq victims
    /\ pod' = [p \in Slots |-> IF p \in create THEN "pending" ELSE Delete(evicted \cup deleted)[p]]
    /\ evict' = evict \ create
    /\ expDelete' = deleted \cap Existing
    /\ Idle \/ Rerun(give, Gone)

\* An attempt that scales has such parts.
LEMMA ScaleParts ==
    ASSUME "lostReply" \notin Environment, Scale
    PROVE  \E give, evicted, outdated, victims, create, deleted :
              Parts(give, evicted, outdated, victims, create, deleted)
<1>1. PICK give \in SUBSET Available, evicted \in Succeeded(Evicted) :
        /\ Cardinality(give) = Lesser(asked, Cardinality(Available))
        /\ Store(give, Gone)
        /\ \E outdated \in Outdated(IdlePods(give)) :
             Resize(give, evicted, outdated, Desired(give, outdated))
  BY Zenon DEF Scale, Desired
<1>2. PICK outdated \in Outdated(IdlePods(give)) :
        Resize(give, evicted, outdated, Desired(give, outdated))
  BY <1>1
<1>3. PICK victims \in PodsToDelete(IdlePods(give), outdated, Recycle, ScaleIn(give, outdated),
                                    ScaleLimit(Desired(give, outdated))) :
        \E create \in SUBSET Fresh, deleted \in Succeeded(victims) :
        \E unheard \in Lost(create), lost \in Lost(victims \ deleted) :
          /\ Calls(evicted, create, unheard, deleted, lost)
          /\ \E failed : Conclude(give, evicted, failed)
  BY <1>2, Zenon DEF Resize, ScaleIn
<1>4. PICK create \in SUBSET Fresh, deleted \in Succeeded(victims) :
        \E unheard \in Lost(create), lost \in Lost(victims \ deleted) :
          /\ Calls(evicted, create, unheard, deleted, lost)
          /\ \E failed : Conclude(give, evicted, failed)
  BY <1>3, ZenonT(60)
<1>5. PICK unheard \in Lost(create), lost \in Lost(victims \ deleted) :
        /\ Calls(evicted, create, unheard, deleted, lost)
        /\ \E failed : Conclude(give, evicted, failed)
  BY <1>4
<1>6. lost = {} /\ evicted \cup deleted \cup lost = evicted \cup deleted
  BY <1>5 DEF Lost
<1>7. evicted \subseteq Evicted /\ deleted \subseteq victims
  BY DEF Succeeded
<1>8. /\ pod' = [p \in Slots |-> IF p \in create THEN "pending" ELSE Delete(evicted \cup deleted)[p]]
      /\ evict' = evict \ create
      /\ expDelete' = deleted \cap Existing
  BY <1>5, <1>6, Zenon DEF Calls, ExpectDelete
<1>9. Idle \/ Rerun(give, Gone)
  BY <1>5, Zenon DEF Conclude
<1>10. Parts(give, evicted, outdated, victims, create, deleted)
  BY <1>1, <1>2, <1>3, <1>4, <1>7, <1>8, <1>9, Zenon DEF Parts
<1> QED
  BY <1>10, Zenon

\* The other attempts evict and schedule only.
LEMMA OtherParts ==
    ASSUME ScheduleFails \/ ScalePending
    PROVE  /\ pc = "listed" /\ UNCHANGED <<evict, known, expDelete>>
           /\ \E evicted, give, done :
                /\ evicted \subseteq Evicted
                /\ Store(give, done)
                /\ pod' = Delete(evicted)
                /\ Idle \/ Rerun(give, done)
<1>1. CASE ScheduleFails
  <2>1. PICK evicted \in Succeeded(Evicted), give \in SUBSET Available, done \in SUBSET Gone :
          /\ Store(give, done)
          /\ pod' = Delete(evicted)
          /\ Idle \/ Rerun(give, done)
    BY <1>1, Zenon DEF ScheduleFails
  <2>2. evicted \subseteq Evicted
    BY DEF Succeeded
  <2> QED
    BY <1>1, <2>1, <2>2, Zenon DEF ScheduleFails
<1>2. CASE ScalePending
  <2>1. PICK evicted \in Succeeded(Evicted), give \in SUBSET Available :
          /\ Store(give, Gone)
          /\ pod' = Delete(evicted)
          /\ Idle \/ Rerun(give, Gone)
    BY <1>2, Zenon DEF ScalePending
  <2>2. evicted \subseteq Evicted
    BY DEF Succeeded
  <2> QED
    BY <1>2, <2>1, <2>2, Zenon DEF ScalePending
<1> QED
  BY <1>1, <1>2, Zenon

\* An attempt does not touch a pod that is ready unless it is evicted or deleted, and
\* creates only pods nobody knows.
LEMMA PodAfter ==
    ASSUME TypeOK, NEW create, NEW gone, create \subseteq Fresh,
           pod' = [p \in Slots |-> IF p \in create THEN "pending" ELSE Delete(gone)[p]]
    PROVE  \A p \in Slots :
              /\ p \in create => known[p] = "absent" /\ listed[p] = "absent"
              /\ p \notin create /\ ~Alive(pod[p]) => ~Alive(pod'[p])
              /\ p \notin create \cup gone => pod'[p] = pod[p]
              /\ p \notin create /\ p \in gone => ~Alive(pod'[p])
BY ZenonT(60) DEF Fresh, Delete, Alive, TypeOK

\* What is held after scheduling.
LEMMA HeldAfter ==
    ASSUME BufferInv, NEW give, NEW done, Store(give, done), pc = "listed",
           Idle \/ Rerun(give, done)
    PROVE  returned' \subseteq held' /\ back' \subseteq held'
BY DEF BufferInv, Store, Idle, Rerun

\* An attempt keeps what the next one relies on.
LEMMA BufferAttempt ==
    ASSUME BufferInv, TypeOK', "lostReply" \notin Environment, Attempt
    PROVE  BufferInv'
<1>0. TypeOK /\ Evicted \subseteq marked
  BY Zenon DEF BufferInv, Evicted
<1>1. CASE ScheduleFails \/ ScalePending
  <2>1. /\ pc = "listed" /\ UNCHANGED <<evict, known, expDelete>>
        /\ \E evicted, give, done :
             /\ evicted \subseteq Evicted
             /\ Store(give, done)
             /\ pod' = Delete(evicted)
             /\ Idle \/ Rerun(give, done)
    BY <1>1, OtherParts
  <2>2. PICK evicted, give, done :
          /\ evicted \subseteq Evicted
          /\ Store(give, done)
          /\ pod' = Delete(evicted)
          /\ Idle \/ Rerun(give, done)
    BY <2>1
  <2>3. returned' \subseteq held' /\ back' \subseteq held'
    BY <2>1, <2>2, HeldAfter, ZenonT(60)
  <2>4. \A p \in Slots : /\ ~Alive(pod[p]) => ~Alive(pod'[p])
                         /\ p \notin evicted => pod'[p] = pod[p]
    BY <1>0, <2>2, ZenonT(60) DEF Delete, Alive, TypeOK
  <2>5. evicted \subseteq marked /\ evicted \subseteq evict
    BY <1>0, <2>1, <2>2 DEF BufferInv
  <2>6. \A p \in Slots :
          /\ known'[p] = "ready" => pod'[p] = "ready" \/ p \in evict' \cup expDelete'
          /\ known'[p] = "terminating" => ~Alive(pod'[p])
    BY <2>1, <2>4, <2>5 DEF BufferInv
  <2>7. pc' = "listed" => listed' = listed /\ marked' = marked
    BY <2>2, SMTT(60) DEF Idle, Rerun
  <2>8. pc' = "listed" => \A p \in Slots :
          /\ listed'[p] = "ready" => pod'[p] = "ready" \/ p \in marked' \cup expDelete'
          /\ listed'[p] = "terminating" => ~Alive(pod'[p]) /\ ~Alive(known'[p])
    BY <2>1, <2>4, <2>5, <2>7, ZenonT(60) DEF BufferInv
  <2>9. pc' = "listed" => marked' \subseteq evict' \cap LivePods'
    BY <2>1, <2>7, ZenonT(60) DEF BufferInv, LivePods
  <2> QED
    BY <2>3, <2>6, <2>8, <2>9 DEF BufferInv
<1>2. CASE Scale
  <2>1. PICK give, evicted, outdated, victims, create, deleted :
          Parts(give, evicted, outdated, victims, create, deleted)
    BY <1>2, ScaleParts
  <2>2. pc = "listed" /\ Satisfied /\ known' = known
    BY <1>2 DEF Scale
  <2>3. returned' \subseteq held' /\ back' \subseteq held'
    BY <2>1, <2>2, HeldAfter, SMTT(60) DEF Parts
  <2>4. \A p \in Slots :
           /\ p \in create => known[p] = "absent" /\ listed[p] = "absent"
           /\ p \notin create /\ ~Alive(pod[p]) => ~Alive(pod'[p])
           /\ p \notin create \cup (evicted \cup deleted) => pod'[p] = pod[p]
           /\ p \notin create /\ p \in evicted \cup deleted => ~Alive(pod'[p])
    <3>1. /\ create \subseteq Fresh
          /\ pod' = [p \in Slots |->
                        IF p \in create THEN "pending" ELSE Delete(evicted \cup deleted)[p]]
      BY <2>1, Zenon DEF Parts
    <3> QED
      BY <1>0, <3>1, PodAfter, ZenonT(60)
  <2>5. evicted \subseteq marked /\ evicted \subseteq evict
    BY <1>0, <2>1, <2>2, ZenonT(60) DEF Parts, BufferInv
  <2>6. evict' = evict \ create /\ expDelete' = deleted \cap Existing
    BY <2>1, ZenonT(60) DEF Parts
  <2>7. \A p \in expDelete : listed[p] = "terminating" /\ ~Alive(known[p])
    BY <1>0, <2>2, SMTT(60) DEF Satisfied, BufferInv, TypeOK
  <2>8. \A p \in Slots :
          /\ known[p] = "ready" => pod'[p] = "ready" \/ p \in evict' \cup expDelete'
          /\ known[p] = "terminating" => ~Alive(pod'[p])
    <3> SUFFICES ASSUME NEW p \in Slots
                 PROVE  /\ known[p] = "ready" => pod'[p] = "ready" \/ p \in evict' \cup expDelete'
                        /\ known[p] = "terminating" => ~Alive(pod'[p])
      BY ZenonT(60)
    <3>1. known[p] = "ready" => pod[p] = "ready" \/ p \in evict
      BY <2>7 DEF BufferInv, Alive
    <3> QED
      BY <2>4, <2>5, <2>6, <3>1, ZenonT(60) DEF BufferInv, Existing
  <2>9. pc' = "listed" => listed' = listed /\ marked' = marked
    BY <2>1 DEF Parts, Idle, Rerun
  <2>10. pc' = "listed" => \A p \in Slots :
          /\ listed'[p] = "ready" => pod'[p] = "ready" \/ p \in marked' \cup expDelete'
          /\ listed'[p] = "terminating" => ~Alive(pod'[p]) /\ ~Alive(known'[p])
    <3> SUFFICES ASSUME NEW p \in Slots
                 PROVE  /\ listed[p] = "ready" => pod'[p] = "ready" \/ p \in marked \cup expDelete'
                        /\ listed[p] = "terminating" => ~Alive(pod'[p]) /\ ~Alive(known[p])
      BY <2>2, <2>9
    <3>1. listed[p] = "ready" => pod[p] = "ready" \/ p \in marked
      BY <2>2, <2>7, SMTT(60) DEF BufferInv
    <3> QED
      BY <2>2, <2>4, <2>5, <2>6, <3>1, ZenonT(60) DEF BufferInv, Existing
  <2>11. pc' = "listed" => marked' \subseteq evict' \cap LivePods'
    BY <2>2, <2>4, <2>6, <2>9, ZenonT(60) DEF BufferInv, LivePods, Alive
  <2> QED
    BY <2>2, <2>3, <2>8, <2>10, <2>11, ZenonT(60) DEF BufferInv
<1> QED
  BY <1>1, <1>2, ZenonT(60) DEF Attempt

\* Steps of users and pods.
LEMMA BufferFrame ==
    ASSUME BufferInv, TypeOK', UNCHANGED <<pod, known, expDelete, held, pc, listed, marked, back>>,
           evict \subseteq evict', returned' \subseteq held
    PROVE  BufferInv'
<1>1. LivePods' = LivePods
  BY DEF LivePods
<1> QED
  BY <1>1 DEF BufferInv

\* Every step keeps it, as long as ready pods stay ready.
LEMMA BufferStep ==
    ASSUME BufferInv, Environment \cap {"lostReply", "podLoss"} = {}, [Next]_vars
    PROVE  BufferInv'
<1>0. TypeOK /\ TypeOK'
  BY TypeStep, Zenon DEF BufferInv
<1>1. CASE Begin
  <2>1. UNCHANGED <<pod, known, held, returned, evict>> /\ listed' = known /\ back' = returned
    BY <1>1 DEF Begin, apiVars
  <2>2. /\ expDelete' = {p \in expDelete : known[p] # "absent"}
        /\ marked' = {p \in evict : Alive(known[p])}
    BY <1>1, ZenonT(60) DEF Begin
  <2>3. \A p \in Slots :
          /\ known[p] = "ready" => pod[p] = "ready" \/ p \in evict \cup expDelete'
          /\ known[p] = "ready" => pod[p] = "ready" \/ p \in marked' \cup expDelete'
          /\ known[p] = "terminating" => ~Alive(pod[p]) /\ ~Alive(known[p])
    BY <2>2 DEF BufferInv, Alive
  <2>4. marked' \subseteq evict' \cap LivePods'
    BY <1>0, <2>1, <2>2 DEF LivePods, TypeOK
  <2> QED
    BY <1>0, <2>1, <2>3, <2>4 DEF BufferInv
<1>2. CASE Attempt
  BY <1>0, <1>2, BufferAttempt, SMTT(60)
<1>3. CASE Restart
  BY <1>0, <1>3, ZenonT(60) DEF Restart, Idle, BufferInv, apiVars, Alive
<1>4. CASE AskPod \/ WithdrawPod \/ ChangeTemplate
  BY <1>0, <1>4, BufferFrame, ZenonT(60) DEF AskPod, WithdrawPod, ChangeTemplate, Request, recVars,
                                             BufferInv
<1>5. ASSUME NEW p \in Slots, PodStep(p)
      PROVE  BufferInv'
  <2>1. CASE PodReady(p) \/ PodGone(p)
    <3>1. PICK life \in {"ready", "absent"} : PodTo(p, life)
      BY <2>1, ZenonT(60) DEF PodReady, PodGone
    <3>2. /\ \A q \in Slots : pod[q] = "ready" => pod'[q] = "ready"
          /\ \A q \in Slots : ~Alive(pod[q]) => ~Alive(pod'[q])
      BY <1>0, <2>1 DEF PodReady, PodGone, PodTo, TypeOK, Alive
    <3>3. UNCHANGED <<known, expDelete, evict, held, returned, pc, listed, marked, back>>
      BY <3>1 DEF PodTo, memVars, recVars
    <3>4. LivePods' = LivePods
      BY <3>3 DEF LivePods
    <3> QED
      BY <1>0, <3>2, <3>3, <3>4, ZenonT(60) DEF BufferInv
  <2>2. CASE PodUnready(p) \/ LosePod(p)
    BY <2>2 DEF PodUnready, LosePod
  <2>3. CASE CacheSync(p)
    <3>1. UNCHANGED <<pod, expDelete, evict, held, returned, pc, listed, marked, back>>
      BY <2>3 DEF CacheSync, apiVars, memVars, recVars
    <3>2. \A q \in Slots : known'[q] \in {known[q], pod[q]}
      BY <1>0, <2>3 DEF CacheSync, TypeOK
    <3>3. LivePods' = LivePods
      BY <3>1, ZenonT(60) DEF LivePods
    <3> QED
      BY <1>0, <3>1, <3>2, <3>3, ZenonT(60) DEF BufferInv, Alive
  <2>4. CASE ReturnPod(p) \/ MarkEvict(p)
    BY <1>0, <2>4, BufferFrame, ZenonT(60) DEF ReturnPod, MarkEvict, Request, recVars, BufferInv
  <2> QED
    BY <1>5, <2>1, <2>2, <2>3, <2>4, SMTT(60) DEF PodStep
<1>6. CASE UNCHANGED vars
  BY <1>0, <1>6, BufferFrame, ZenonT(60) DEF vars, apiVars, memVars, recVars, BufferInv
<1> QED
  BY <1>1, <1>2, <1>3, <1>4, <1>5, <1>6 DEF Next

\* What every attempt relies on: a pod of the list that is not marked or expected to go is
\* as ready as the list says, for every capacity and whatever restarts, fails, conflicts,
\* is evicted or times out.
THEOREM BufferInvariant ==
    ASSUME Environment \cap {"lostReply", "podLoss"} = {}
    PROVE  Spec => []BufferInv
<1>1. Init => BufferInv
  <2> SUFFICES ASSUME Init PROVE BufferInv
    OBVIOUS
  <2>1. TypeOK
    BY TypeInit
  <2> QED
    BY <2>1 DEF Init, BufferInv
<1>2. BufferInv /\ [Next]_vars => BufferInv'
  BY BufferStep
<1> QED
  BY <1>1, <1>2, PTL DEF Spec

\* desiredBuffer is at least bufferMin when the band is not empty.
LEMMA BufferAtLeast ==
    ASSUME BufferMin <= BufferMax, NEW n \in Nat
    PROVE  DesiredBuffer(n) \in Nat /\ DesiredBuffer(n) >= BufferMin
BY ScalingAssumption DEF ScalingAssumption, DesiredBuffer

\* The set of n first candidates leaves all but n of them, and a pod that is not taken
\* ranks no lower than one that is.
LEMMA FirstLeaves ==
    ASSUME NEW C, C \subseteq Slots, NEW n \in Nat, NEW rank, NEW S \in First(n, C, rank)
    PROVE  /\ S \subseteq C
           /\ Cardinality(C \ S) >= Cardinality(C) - n
           /\ \A p \in S, q \in C \ S : rank[p] <= rank[q]
           /\ Cardinality(S) <= n
<1>1. /\ S \subseteq C /\ Cardinality(S) = Lesser(n, Cardinality(C))
      /\ \A p \in S, q \in C \ S : rank[p] <= rank[q]
  BY DEF First
<1>2. S \subseteq Slots /\ C \ S \subseteq Slots /\ S \cap (C \ S) = {} /\ S \cup (C \ S) = C
  BY <1>1
<1>3. /\ Cardinality(S) \in Nat /\ Cardinality(C) \in Nat /\ Cardinality(C \ S) \in Nat
  BY <1>2, SizeOf
<1>4. Cardinality(C) <= Cardinality(S) + Cardinality(C \ S)
  BY <1>2, SizeUnion
<1> QED
  BY <1>1, <1>3, <1>4 DEF Lesser

\* scalePool asks for no more deletions of idle pods than leaves bufferMin of those that
\* the update does not replace.
LEMMA ScaleInBound ==
    ASSUME TypeOK, BufferMin <= BufferMax, NEW give \in SUBSET Available,
           Cardinality(give) = Lesser(asked, Cardinality(Available)),
           NEW outdated, outdated \subseteq IdlePods(give), ScaleIn(give, outdated) > 0
    PROVE  /\ ScaleIn(give, outdated) \in Nat
           /\ Cardinality(IdlePods(give) \ outdated) - ScaleIn(give, outdated) >= BufferMin
<1> DEFINE idle == IdlePods(give)
           stored == Stored(give)
           C == idle \ outdated
<1>1. /\ idle \subseteq Slots /\ stored \subseteq Slots /\ C \subseteq Slots /\ outdated \subseteq Slots
      /\ SchedulePods \subseteq Slots /\ Ready(C) \subseteq Slots /\ give \subseteq Slots
      /\ stored \cup idle \subseteq Slots
  BY DEF IdlePods, Stored, SchedulePods, LivePods, Ready, Available, TypeOK
<1>2. /\ Cardinality(idle) \in Nat /\ Cardinality(stored) \in Nat /\ Cardinality(C) \in Nat
      /\ Cardinality(outdated) \in Nat /\ Cardinality(SchedulePods) \in Nat
      /\ Cardinality(Ready(C)) \in Nat /\ Cardinality(give) \in Nat
      /\ Cardinality(stored \cup idle) \in Nat
  BY <1>1, SizeOf
<1>3. Cardinality(SchedulePods) <= Cardinality(stored) + Cardinality(idle)
  <2>1. SchedulePods \subseteq stored \cup idle
    BY DEF IdlePods
  <2>2. Cardinality(SchedulePods) <= Cardinality(stored \cup idle)
    BY <1>1, <2>1, SizeMonotone
  <2>3. Cardinality(stored \cup idle) <= Cardinality(stored) + Cardinality(idle)
    BY <1>1, SizeUnion
  <2> QED
    BY <1>2, <2>2, <2>3
<1>4. Cardinality(idle) <= Cardinality(C) + Cardinality(outdated)
  <2>1. idle = C \cup outdated
    OBVIOUS
  <2> QED
    BY <1>1, <2>1, SizeUnion
<1>5. asked \in Nat /\ Cardinality(give) <= asked
  BY GiveBound DEF TypeOK
<1> DEFINE b == DesiredBuffer(Cardinality(Ready(C)))
<1>6. b \in Nat /\ b >= BufferMin /\ BufferMin \in Nat /\ PoolMin \in Nat
  BY <1>2, BufferAtLeast, ScalingAssumption DEF ScalingAssumption
<1>7. Desired(give, outdated) =
         Greater(Cardinality(stored) + (asked - Cardinality(give) + Cardinality(outdated)) + b, PoolMin)
  BY DEF Desired, DesiredSchedulable
<1> DEFINE d == Desired(give, outdated)
<1> HIDE DEF idle, stored, C, b, d
<1>8. /\ d \in Int
      /\ d >= Cardinality(stored) + (asked - Cardinality(give) + Cardinality(outdated)) + b
  BY <1>2, <1>5, <1>6, <1>7, SMTT(60) DEF Greater, d
<1>9. ScaleIn(give, outdated) = Cardinality(SchedulePods) - d /\ ScaleIn(give, outdated) \in Nat
  BY <1>2, <1>8 DEF ScaleIn, Greater, d
<1>10. Cardinality(C) - ScaleIn(give, outdated) >= BufferMin
  BY <1>2, <1>3, <1>4, <1>5, <1>6, <1>8, <1>9, SMTT(60)
<1> QED
  BY <1>9, <1>10, SMTT(60) DEF C, idle

\* A pod that the recycler is given is held, so no idle pod is among them.
LEMMA RecycleHeld ==
    ASSUME BufferInv, pc = "listed", NEW give
    PROVE  Recycle \cap IdlePods(give) = {}
BY DEF BufferInv, Recycle, IdlePods, Stored, Gone

\* An idle pod the list calls ready is ready when the attempt scales: it is not marked,
\* and nothing is expected to end that the list does not show ending.
LEMMA IdleReady ==
    ASSUME BufferInv, pc = "listed", Satisfied, NEW give, NEW q \in IdlePods(give),
           listed[q] = "ready"
    PROVE  q \in Slots /\ q \notin marked /\ pod[q] = "ready"
<1>1. q \in Slots /\ q \in SchedulePods /\ q \notin Stored(give)
  BY ZenonT(60) DEF IdlePods, SchedulePods, LivePods
<1>2. q \notin held
  BY <1>1 DEF Stored, Gone
<1>3. q \notin marked
  BY <1>1, <1>2 DEF SchedulePods, Evicted
<1>4. q \notin expDelete
  BY DEF Satisfied
<1> QED
  BY <1>1, <1>3, <1>4 DEF BufferInv

\* scaleIn is a number of pods.
LEMMA ScaleInNat ==
    ASSUME TypeOK, BufferMin <= BufferMax, NEW give \in SUBSET Available,
           NEW outdated, outdated \subseteq IdlePods(give)
    PROVE  ScaleIn(give, outdated) \in Nat
<1> DEFINE left == Ready(IdlePods(give) \ outdated)
<1>1. /\ SchedulePods \subseteq Slots /\ Stored(give) \subseteq Slots /\ give \subseteq Slots
      /\ outdated \subseteq Slots /\ left \subseteq Slots
  BY Zenon DEF IdlePods, Stored, SchedulePods, LivePods, Ready, Available, TypeOK
<1> HIDE DEF left
<1>2. /\ Cardinality(SchedulePods) \in Nat /\ Cardinality(Stored(give)) \in Nat
      /\ Cardinality(give) \in Nat /\ Cardinality(outdated) \in Nat /\ Cardinality(left) \in Nat
  BY <1>1, SizeOf, Zenon
<1>3. /\ DesiredBuffer(Cardinality(left)) \in Nat /\ asked \in Nat /\ PoolMin \in Nat
  BY <1>2, BufferAtLeast, ScalingAssumption DEF ScalingAssumption, TypeOK
<1>4. Desired(give, outdated) =
         Greater(Cardinality(Stored(give)) + (asked - Cardinality(give) + Cardinality(outdated))
                   + DesiredBuffer(Cardinality(left)), PoolMin)
  BY Zenon DEF Desired, DesiredSchedulable, left
<1>5. Desired(give, outdated) \in Int
  BY <1>2, <1>3, <1>4 DEF Greater
<1> QED
  BY <1>2, <1>5 DEF ScaleIn, Greater

\* Of the idle pods that the update does not replace, bufferMin are no victims, and rank
\* no lower than p.
LeavesBuffer(give, outdated, victims, p) ==
    \E left \in SUBSET (IdlePods(give) \ outdated) :
        /\ Cardinality(left) >= BufferMin
        /\ left \cap victims = {}
        /\ \A q \in left :
              DeletionRank(outdated, Recycle)[p] <= DeletionRank(outdated, Recycle)[q]

\* When pickPodsToDelete takes an idle pod that the update does not replace, it leaves
\* bufferMin of those, and none that ranks lower.
LEMMA PickLeaves ==
    ASSUME TypeOK, BufferMin <= BufferMax, NEW give \in SUBSET Available,
           Cardinality(give) = Lesser(asked, Cardinality(Available)),
           NEW outdated, outdated \subseteq IdlePods(give), Recycle \cap IdlePods(give) = {},
           NEW limit,
           NEW victims \in PodsToDelete(IdlePods(give), outdated, Recycle,
                                        ScaleIn(give, outdated), limit),
           NEW p \in IdlePods(give), p \notin outdated, p \in victims
    PROVE  LeavesBuffer(give, outdated, victims, p)
<1> DEFINE C == IdlePods(give) \ outdated
           n == ScaleIn(give, outdated)
           rank == DeletionRank(outdated, Recycle)
<1>1. C = IdlePods(give) \ (outdated \cup Recycle) /\ C \subseteq Slots
  BY DEF IdlePods, SchedulePods, LivePods
<1>2. PICK excess \in First(n, C, rank) : victims \in First(limit, outdated \cup Recycle \cup excess, rank)
  <2>1. \E excess \in First(n, IdlePods(give) \ (outdated \cup Recycle), rank) :
           victims \in First(limit, outdated \cup Recycle \cup excess, rank)
    BY Zenon DEF PodsToDelete
  <2> QED
    BY <1>1, <2>1, Zenon
<1>3. victims \subseteq outdated \cup Recycle \cup excess /\ p \in excess
  <2>1. victims \subseteq outdated \cup Recycle \cup excess
    BY <1>2, Zenon DEF First
  <2>2. p \notin Recycle
    BY Zenon
  <2> QED
    BY <2>1, <2>2, Zenon
<1>4. n \in Nat
  BY ScaleInNat
<1> HIDE DEF n, rank
<1>5. /\ excess \subseteq C /\ Cardinality(C \ excess) >= Cardinality(C) - n
      /\ \A q \in C \ excess : rank[p] <= rank[q]
      /\ Cardinality(excess) <= n
  BY <1>1, <1>3, <1>4, FirstLeaves, Zenon
<1>6. n > 0
  <2>1. IsFiniteSet(excess) /\ Cardinality(excess) \in Nat
    BY <1>1, <1>5, SizeOf, Zenon
  <2>2. Cardinality(excess) # 0
    BY <1>3, <2>1, FS_EmptySet
  <2> QED
    BY <1>4, <1>5, <2>1, <2>2
<1>7. Cardinality(C) - n >= BufferMin
  BY <1>6, ScaleInBound, Zenon DEF n
<1>8. Cardinality(C \ excess) \in Nat /\ Cardinality(C) \in Nat /\ BufferMin \in Nat
  <2>1. C \ excess \subseteq Slots
    BY <1>1, ZenonT(60)
  <2> QED
    BY <1>1, <2>1, SizeOf, ScalingAssumption, Zenon DEF ScalingAssumption
<1>9. Cardinality(C \ excess) >= BufferMin
  <2>1. \A a, c, k, m \in Nat : a >= c - k /\ c - k >= m => a >= m
    OBVIOUS
  <2> QED
    BY <1>4, <1>5, <1>7, <1>8, <2>1, ZenonT(60)
<1>10. (C \ excess) \cap victims = {}
  BY <1>1, <1>3, ZenonT(60)
<1> QED
  BY <1>5, <1>9, <1>10, Zenon DEF rank, LeavesBuffer

\* An idle pod that ranks with a ready one is ready.
LEMMA RankedReady ==
    ASSUME BufferInv, pc = "listed", Satisfied, NEW give, NEW outdated,
           Recycle \cap IdlePods(give) = {},
           NEW p \in IdlePods(give) \ outdated, listed[p] = "ready",
           NEW q \in IdlePods(give) \ outdated,
           DeletionRank(outdated, Recycle)[p] <= DeletionRank(outdated, Recycle)[q]
    PROVE  q \in Slots /\ listed[q] = "ready" /\ pod[q] = "ready" /\ q \notin marked
           /\ q \notin Stored(give)
<1>1. p \in Slots /\ q \in Slots /\ p \notin Recycle /\ q \notin Recycle /\ q \notin Stored(give)
  BY DEF IdlePods, SchedulePods, LivePods
<1>2. /\ DeletionRank(outdated, Recycle)[p] = 4
      /\ DeletionRank(outdated, Recycle)[q] = IF listed[q] = "ready" THEN 4 ELSE 3
  BY <1>1, ZenonT(60) DEF DeletionRank
<1>3. listed[q] = "ready"
  BY <1>2
<1> QED
  BY <1>1, <1>3, IdleReady, ZenonT(60)

\* An attempt that takes a ready idle pod of the current revision leaves bufferMin others.
LEMMA ScaleInStep ==
    ASSUME BufferInv, "lostReply" \notin Environment, BufferMin <= BufferMax, Attempt,
           NEW p \in ReadyIdle(listed, held') \ marked,
           pod[p] = "ready", pod'[p] = "terminating", rev[p] = template
    PROVE  Cardinality(ReadyIdle(pod', held')) >= BufferMin
<1>0. TypeOK /\ p \in Slots /\ listed[p] = "ready" /\ p \notin held' /\ p \notin marked
  BY DEF BufferInv, ReadyIdle
<1>1. CASE ScheduleFails \/ ScalePending
  <2>1. PICK evicted : evicted \subseteq Evicted /\ pod' = Delete(evicted)
    BY <1>1, OtherParts, ZenonT(60)
  <2> QED
    BY <1>0, <2>1, SMTT(60) DEF Evicted, Delete
<1>2. CASE Scale
  <2>1. PICK give, evicted, outdated, victims, create, deleted :
          Parts(give, evicted, outdated, victims, create, deleted)
    BY <1>2, ScaleParts, ZenonT(60)
  <2>2. pc = "listed" /\ Satisfied
    BY <1>2, ZenonT(60) DEF Scale
  <2>3. held' = Stored(give)
    BY <2>1, ZenonT(60) DEF Parts, Store, Stored
  <2>4. /\ give \in SUBSET Available /\ Cardinality(give) = Lesser(asked, Cardinality(Available))
        /\ evicted \subseteq marked /\ deleted \subseteq victims
        /\ outdated \in Outdated(IdlePods(give))
    BY <2>1, ZenonT(60) DEF Parts, Evicted
  <2>5. outdated \subseteq IdlePods(give) /\ \A q \in outdated : rev[q] # template
    BY <2>4, ZenonT(60) DEF Outdated, Ready
  <2>6. \A q \in Slots :
           /\ q \in create => listed[q] = "absent"
           /\ q \notin create \cup (evicted \cup deleted) => pod'[q] = pod[q]
    <3>1. /\ create \subseteq Fresh
          /\ pod' = [q \in Slots |->
                        IF q \in create THEN "pending" ELSE Delete(evicted \cup deleted)[q]]
      BY <2>1, ZenonT(60) DEF Parts
    <3>2. \A q \in Slots :
             /\ q \in create => known[q] = "absent" /\ listed[q] = "absent"
             /\ q \notin create /\ ~Alive(pod[q]) => ~Alive(pod'[q])
             /\ q \notin create \cup (evicted \cup deleted) => pod'[q] = pod[q]
             /\ q \notin create /\ q \in evicted \cup deleted => ~Alive(pod'[q])
      BY <1>0, <3>1, PodAfter, ZenonT(60)
    <3> QED
      BY <3>2, ZenonT(60)
  <2>7. p \in IdlePods(give) /\ p \notin outdated /\ p \in victims /\ Recycle \cap IdlePods(give) = {}
    <3>1. p \in IdlePods(give)
      BY <1>0, <2>3, ZenonT(60) DEF IdlePods, SchedulePods, LivePods, Alive, Evicted
    <3>2. Recycle \cap IdlePods(give) = {}
      BY <2>2, RecycleHeld
    <3>3. p \in victims
      BY <1>0, <2>4, <2>6
    <3> QED
      BY <2>5, <3>1, <3>2, <3>3
  <2>8. PICK left \in SUBSET (IdlePods(give) \ outdated) :
          /\ Cardinality(left) >= BufferMin
          /\ left \cap victims = {}
          /\ \A q \in left :
                DeletionRank(outdated, Recycle)[p] <= DeletionRank(outdated, Recycle)[q]
    <3>1. victims \in PodsToDelete(IdlePods(give), outdated, Recycle, ScaleIn(give, outdated),
                                   ScaleLimit(Desired(give, outdated)))
      BY <2>1, Zenon DEF Parts
    <3>2. LeavesBuffer(give, outdated, victims, p)
      BY <1>0, <2>4, <2>5, <2>7, <3>1, PickLeaves, ZenonT(60)
    <3> QED
      BY <3>2, Zenon DEF LeavesBuffer
  <2>9. \A q \in left : /\ q \in Slots /\ listed[q] = "ready" /\ pod[q] = "ready"
                        /\ q \notin marked /\ q \notin Stored(give)
    BY <1>0, <2>2, <2>7, <2>8, RankedReady, Zenon
  <2>10. left \subseteq ReadyIdle(pod', held') /\ left \subseteq Slots
    <3>1. \A q \in left : q \notin create \cup (evicted \cup deleted)
      BY <2>4, <2>6, <2>8, <2>9
    <3>2. \A q \in left : pod'[q] = "ready" /\ q \notin held'
      BY <2>3, <2>6, <2>9, <3>1, Zenon
    <3> QED
      BY <2>9, <3>2, Zenon DEF ReadyIdle
  <2>11. ReadyIdle(pod', held') \subseteq Slots
    BY Zenon DEF ReadyIdle
  <2>12. Cardinality(left) <= Cardinality(ReadyIdle(pod', held'))
    BY <2>10, <2>11, SizeMonotone, Zenon
  <2>13. /\ Cardinality(left) \in Nat /\ Cardinality(ReadyIdle(pod', held')) \in Nat
         /\ BufferMin \in Nat
    BY <2>10, <2>11, SizeOf, ScalingAssumption, Zenon DEF ScalingAssumption
  <2> QED
    BY <2>8, <2>12, <2>13
<1> QED
  BY <1>1, <1>2 DEF Attempt

\* Scaling in stops at the buffer, for every capacity whose bufferMin is at most its
\* bufferMax, whatever restarts, fails, conflicts, is evicted or times out, as long as
\* calls get their replies and ready pods stay ready.
THEOREM BufferHeld ==
    ASSUME Environment \cap {"lostReply", "podLoss"} = {}, BufferMin <= BufferMax
    PROVE  Spec => ScaleInKeepsBuffer
<1>1. BufferInv /\ [Next]_vars =>
         [Attempt =>
            \A p \in ReadyIdle(listed, held') \ marked :
                pod[p] = "ready" /\ pod'[p] = "terminating" /\ rev[p] = template =>
                    Cardinality(ReadyIdle(pod', held')) >= BufferMin]_vars
  BY ScaleInStep
<1> QED
  BY <1>1, BufferInvariant, PTL DEF Spec, ScaleInKeepsBuffer

=============================================================================
