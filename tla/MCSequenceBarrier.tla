------------------------- MODULE MCSequenceBarrier -------------------------
(***************************************************************************)
(* SequenceBarrier under a single producer, for model checking.            *)
(***************************************************************************)
EXTENDS SequenceBarrier, TLC

MCSymmetry == Permutations(Consumers)

=============================================================================
