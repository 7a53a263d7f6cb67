---------------------------- MODULE ClientPoolInv ----------------------------
(***************************************************************************)
(* The inductive invariants of ClientPool: why a sandbox is in one hand at  *)
(* a time, and why the counts of an instance are exact.                     *)
(***************************************************************************)
EXTENDS ClientPool

\* A warmup that has its sandbox to itself, and a request that holds one.
Warms(k) == task[k].pc \in {"stage", "commit", "put"}
Holds(c) == acq[c].pc \in {"connect", "fence", "created", "final"}

\* Nobody but its warmup refers to a sandbox that is not in the buffer yet, and a
\* request has not put off the kill of the sandbox it holds.
AloneInv ==
    /\ \A k \in Key : Warms(k) =>
          task[k].sb \in Sandbox /\ \A j \in Key \ {k} : task[j].sb # task[k].sb
    /\ \A c \in Caller :
          /\ Holds(c) => acq[c].sb \in Sandbox
          /\ acq[c].sb \notin acq[c].pending

\* Types, and a sandbox is in one hand at a time.
CustodyInv ==
    /\ TypeOK
    /\ \A n \in Node : tick[n].pc = "shrink" => tick[n].todo > 0
    /\ AloneInv
    /\ ExclusiveCustody

\* The namespace is not active while a manager destroys it.
DestroyInv ==
    /\ \A m \in Manager : mgr[m] # "off" => ~Active
    /\ DestroyedEmpty

\* The run that a thread in shutdown() ends does not start again: a new run has a
\* higher generation.
StopInv ==
    \A n \in Node : /\ stopper[n].drained => stopper[n].pc # "none"
                    /\ stopper[n].gen <= gen[n]
                    /\ stopper[n].pc # "none" /\ stopper[n].gen = gen[n] => life[n] # "RUNNING"

\* Counts are exact, and so a drain that ended with zero has ended its run.
CountInv == InFlightExact /\ StopInv /\ DrainedQuiet

-----------------------------------------------------------------------------
(* Admission.                                                               *)

\* Nothing makes a primary lose the lock.
Steady == Environment \cap {"expire", "shutdown", "outage", "crash", "destroy"} = {}

OneLeader == Steady \/ \A m, n \in Node : m = n

\* Then the first instance to lead keeps the lead.
SteadyInv ==
    /\ destroy = "ACTIVE" /\ \A m \in Manager : mgr[m] = "off"
    /\ \A n \in Node : /\ stopper[n].pc = "none" /\ tick[n].pc # "retire"
                       /\ tick[n].pc # "off" \/ lock = n => life[n] = "RUNNING"
                       /\ owned[n] <=> lock = n
                       /\ tick[n].pc \in {"plan", "submit"} => lock = n
    /\ \A k \in Unputs : lock = k[1]

\* One instance admits warmups.
LeaderInv ==
    /\ Steady => SteadyInv
    /\ \A m, n \in Node : tick[m].pc \in {"plan", "submit"} /\ tick[n].pc \in {"plan", "submit"} => m = n
    /\ \A n \in Node : tick[n].pc \in {"plan", "submit"} => \A k \in Unputs : k[1] = n

\* A tick that is about to admit warmups has counted everything.
AdmissionInv ==
    /\ LeaderInv
    /\ AdmissionBound
    /\ \A n \in Node : tick[n].pc = "plan" => /\ Cardinality(Unputs) <= tick[n].warming
                                              /\ tick[n].max <= MaxIdle
    /\ \A n \in Node : tick[n].pc = "submit" =>
          Cardinality(Idle) + Cardinality(Unputs) + tick[n].todo <= MaxIdle

-----------------------------------------------------------------------------
(* Who will hand out or kill a sandbox that runs.                           *)

\* No process dies and no kill fails; and there are no requests, or the instances
\* stay up and the store answers.
Calm ==
    /\ Environment \cap {"crash", "killError"} = {}
    /\ Caller = {} \/ Environment \cap {"shutdown", "destroy", "outage"} = {}

Kept == Idle \cup InAcquire \cup Doomed \cup Borrowed

\* A request of an instance that stays up runs to its end.
RequestInv ==
    /\ destroy = "ACTIVE" /\ \A m \in Manager : mgr[m] = "off"
    /\ \A n \in Node : /\ stopper[n].pc = "none" /\ tick[n].pc # "retire"
                       /\ life[n] \in {"NOT_STARTED", "RUNNING"}
                       /\ life[n] = "NOT_STARTED" => doomed[n] = {}
                       /\ life[n] = "RUNNING" => installed[n]
    /\ \A c \in Caller : acq[c].pc # "out" =>
          /\ life[Home[c]] = "RUNNING"
          /\ acq[c].pc # "end" => acq[c].gen = gen[Home[c]]

OrphanInv ==
    /\ NoOrphan
    /\ Caller = {} => Doomed = {}
    /\ Caller # {} => RequestInv
    /\ \A s \in Sandbox : idle[s] = "expired" => s \notin alive
    /\ \A k \in Key : /\ task[k].pc \in {"free", "create", "late"} => task[k].sb = None
                      /\ task[k].pc = "recheck" => task[k].sb \in Kept \cup (Sandbox \ alive)
                      /\ \A j \in Key \ {k} : task[k].sb = None \/ task[j].sb # task[k].sb
    /\ \A c \in Caller :
          /\ acq[c].pc \in {"out", "begin", "enter", "create", "end"} => acq[c].pending = {}
          /\ acq[c].pc \in {"out", "begin", "enter", "take", "create", "end"} => acq[c].sb = None

\* All of it.
ClientInv ==
    /\ CustodyInv /\ DestroyInv /\ CountInv
    /\ OneLeader => AdmissionInv
    /\ Calm => OrphanInv
=============================================================================
