------------------------------ MODULE MCSched ------------------------------
(* Sched on small instances: symmetry of the page frames. *)
EXTENDS Sched, TLC

FrameSymmetry == Permutations(Frames)
=============================================================================
