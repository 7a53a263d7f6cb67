------------------------- MODULE PoolAllocationInv -------------------------
(***************************************************************************)
(* Why allocation is exclusive under the Delete strategy: the inductive    *)
(* invariant behind ExclusiveAllocation, CleanHandover and UsedPodNotIdle. *)
(***************************************************************************)
EXTENDS PoolAllocation

\* The instances the invariant is about.  With stale BatchSandboxes, a lost reply or a
\* detaching sandbox the store, the annotations and the reconcile's copies may drift apart.
\* The list of pods may be old.
Settled ==
    Recycler = "delete" /\ Environment \cap {"lag", "lostReply", "detach"} = {}

Lagging == "podLag" \in Environment

Leaving == {"terminating", "gone"}

\* The informer has seen the pod, and a reconcile that does not list it saw it leave.
Seen(p) ==
    Lagging => /\ podCache[p] # "absent"
               /\ pc = "idle" \/ p \in listed \/ podCache[p] \in Leaving

Born(p) == pod[p] # "absent" /\ Seen(p)

\* A pod that is gone and that no reconcile will take for a ready one: it is not on the
\* list, now or the next time, or carries the eviction label.
Dead(p) ==
    /\ pod[p] = "gone" /\ (p \in listed => p \in marked)
    /\ Lagging /\ podCache[p] \in {"pending", "ready"} => p \in evict

\* The copy the reconcile works on still stands for the object.  Only a failed allocation
\* breaks this, and then the reconcile ends without another write.
Coherent(s) ==
    /\ pc # "idle" /\ InPool(view[s])
    /\ ~(pc = "allocating" /\ failed /\ give[s] = {})

\* Before recovery nothing has been read from the store.
UnrecoveredInv == ~recovered => pc \in {"idle", "listed"} /\ \A p \in Pods : store[p] = NoSandbox

\* The informer trails the API server.
CacheInv ==
    Lagging => \A p \in Pods : /\ pod[p] = "absent" => podCache[p] = "absent"
                               /\ podCache[p] \in Leaving => pod[p] \in Leaving

\* The reconcile's lists.
ListInv ==
    /\ evicted \subseteq marked /\ marked \subseteq listed /\ ready \subseteq listed
    /\ marked \subseteq evict
    /\ \A p \in listed : Born(p)
    /\ pc \in {"idle", "listed"} => evicted = {}

\* Every name in an annotation, a copy or the store belongs to a pod that was created,
\* and that the informer has seen.
BornInv ==
    /\ \A s \in Sandboxes :
         \A p \in sbx[s].alloc \cup sbx[s].release \cup view[s].alloc \cup view[s].release
                  \cup back[s] \cup tasks[s] : Born(p)
    /\ \A p \in Pods : store[p] # NoSandbox => Born(p)

\* What has been recycled is gone.
RecycledInv ==
    \A s \in Sandboxes :
        \A p \in sbx[s].released \cup view[s].released \cup recycled[s] : Dead(p)

\* An allocation stands until its pod is gone: its sandbox is there, and the store knows.
AllocInv ==
    /\ \A s, t \in Sandboxes : s # t => sbx[s].alloc \cap sbx[t].alloc = {}
    /\ \A s \in Sandboxes : \A p \in sbx[s].alloc :
         \/ Dead(p)
         \/ InPool(sbx[s]) /\ "pool" \in sbx[s].fin /\ (recovered => store[p] = s)

\* The reconcile's copies agree with the objects where it matters.
CopyInv ==
    \A s \in Sandboxes :
        /\ sbx[s].phase # "detached" /\ view[s].phase # "detached"
        /\ sbx[s].phase = "unborn" => sbx[s].alloc = {}
        /\ Coherent(s) =>
             /\ view[s].alloc = sbx[s].alloc
             /\ sbx[s].phase # "unborn"
             /\ "pool" \in view[s].fin /\ InPool(sbx[s]) => "pool" \in sbx[s].fin

\* What the reconcile is about to hand out is free, and promised once.
GiveInv ==
    /\ pc # "allocating" => give = Empty
    /\ \A s, t \in Sandboxes : s # t => give[s] \cap give[t] = {}
    /\ \A s \in Sandboxes :
         /\ give[s] # {} => InPool(view[s])
         /\ \A p \in give[s] :
              /\ p \in listed /\ p \notin marked /\ store[p] = NoSandbox
              /\ \A t \in Sandboxes : p \notin sbx[t].alloc

\* Whoever used a pod has it in alloc-status.
UsersInv == \A p \in Pods : \A s \in users[p] : p \in sbx[s].alloc

\* Together: no step of an instance that is Settled breaks it.
AllocationInv ==
    /\ TypeOK /\ UnrecoveredInv /\ CacheInv /\ ListInv /\ BornInv /\ RecycledInv
    /\ AllocInv /\ CopyInv /\ GiveInv /\ UsersInv

-----------------------------------------------------------------------------
(* Why a pod in use is left alone.                                         *)

\* The sandbox has no use for the pod any more.
HandedBack(s, p) ==
    p \in sbx[s].release \/ (sbx[s].phase = "deleting" /\ "task" \notin sbx[s].fin)

\* A task runs in a pod that is there and that its sandbox keeps.
TaskInv == TaskHoldsPod /\ \A s \in Sandboxes : \A p \in tasks[s] : pod[p] # "gone"

\* What the reconcile may conclude from an old copy of a sandbox: objects only move
\* forward, and only the reconcile itself gives them pods and the pool finalizer.
ViewInv ==
    \A s \in Sandboxes :
        /\ sbx[s].release \subseteq sbx[s].alloc
        /\ give[s] # {} => view[s].phase = "live"
        /\ view[s].phase = "live" /\ "pool" \in sbx[s].fin => "pool" \in view[s].fin
        /\ view[s].phase = "deleting" =>
             /\ sbx[s].phase \in {"deleting", "gone"}
             /\ "task" \in sbx[s].fin => "task" \in view[s].fin
             /\ "pool" \in view[s].fin /\ Outstanding(view[s]) = {} => Outstanding(sbx[s]) = {}
        /\ InPool(view[s]) => /\ view[s].release \subseteq sbx[s].release
                              /\ sbx[s].released \subseteq view[s].released
        /\ view[s].phase = "gone" => sbx[s].phase = "gone"
        /\ view[s].phase = "unborn" /\ pc # "idle" => sbx[s].alloc = {}

\* The reconcile takes back, and gives up, only what was handed back.
BackInv ==
    /\ drop \subseteq UNION {back[s] : s \in Sandboxes}
    /\ pc \in {"idle", "listed", "allocating"} => drop = {}
    /\ \A s, t \in Sandboxes :
         /\ give[s] \cap back[t] = {}
         /\ \A p \in back[t] :
              InPool(sbx[s]) /\ p \in sbx[s].alloc => Dead(p) \/ HandedBack(s, p)

HoldInv == TaskInv /\ ViewInv /\ BackInv /\ FinalizerGuardsPods

\* Where the store cannot be empty when labelled pods are evicted: the process does not
\* restart, or no pod gets the label.
Attentive == ~({"evict", "restart"} \subseteq Environment)

AttentiveInv ==
    /\ "restart" \notin Environment /\ ~recovered => \A s \in Sandboxes : sbx[s].alloc = {}
    /\ "evict" \notin Environment => evict = {} /\ marked = {}

\* Where nobody but the Pool deletes pods, and its list of pods is current.
Undisturbed == Environment \cap {"podLoss", "podLag"} = {}

\* A copy asks for pods.
Wanting == \E s \in Sandboxes : Supplements(view)[s] > 0

\* The pods that this reconcile may hand out.
Offered == {p \in ready \ marked : store[p] = NoSandbox}

\* The store names holders only.
StoredInv == \A p \in Pods : store[p] # NoSandbox => p \in sbx[store[p]].alloc

\* What is handed out is alive.  A reconcile that starts over after a conflict uses the
\* list it has, and may itself have deleted idle pods of that list.  It deletes them when
\* no sandbox asks for a pod any more; if one still does, no pod of the list was left.
ReadyInv ==
    /\ StoredInv
    /\ \A s \in Sandboxes : \A p \in give[s] : Alive(p)
    /\ pc = "listed" => ~Wanting \/ \A p \in Offered : Alive(p)
    /\ pc = "allocating" /\ ~failed =>
          \/ \A s \in Sandboxes : Supplements(view)[s] <= Cardinality(give[s])
          \/ \A p \in Offered : \E s \in Sandboxes : p \in give[s]
    /\ pc \in {"releasing", "scaling"} => ~Wanting \/ Offered = {}

\* All of it.
PoolInv ==
    /\ AllocationInv /\ HoldInv
    /\ Attentive => AttentiveInv
    /\ Undisturbed => ReadyInv

=============================================================================
