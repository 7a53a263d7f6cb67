---------------------------- MODULE MCClientPool ----------------------------
(* Instances of ClientPool for TLC. *)
EXTENDS ClientPoolInv, TLC

CONSTANT First  \* the instance that all callers use

HomeMC == [c \in Caller |-> First]

\* Sandbox names, warmup slots and callers of one instance are interchangeable.
Names == Permutations(Sandbox) \cup Permutations(Slot) \cup Permutations(Caller)

\* Without callers the instances are interchangeable as well.
NamesAndNodes == Names \cup Permutations(Node)
=============================================================================
