-------------------------- MODULE MCPoolAllocation --------------------------
(* Small instances of PoolAllocation for TLC. *)
EXTENDS PoolAllocationInv, TLC

OneEach == [s \in Sandboxes |-> 1]

CONSTANT Wide  \* the sandbox that may ask for two pods
TwoForWide == [s \in Sandboxes |-> IF s = Wide THEN 2 ELSE 1]

\* Pod names are interchangeable: no definition orders or chooses among them.
PodSymmetry == Permutations(Pods)

=============================================================================
