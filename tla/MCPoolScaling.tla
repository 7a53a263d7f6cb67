--------------------------- MODULE MCPoolScaling ---------------------------
(* Instances of PoolScaling for TLC: values of maxUnavailable and the symmetry of  *)
(* pod names.                                                                       *)
EXTENDS PoolScaling, TLC

Two == [percent |-> FALSE, value |-> 2]
Zero == [percent |-> FALSE, value |-> 0]
Quarter == [percent |-> TRUE, value |-> 25]

SlotSymmetry == Permutations(Slots)

=============================================================================
