---------------------------- MODULE MCConvergence ----------------------------
(***************************************************************************)
(* Instances of Convergence for TLC.                                       *)
(***************************************************************************)
EXTENDS Convergence, TLC

\* Devices are interchangeable in the runs that check no liveness.
Symmetry == Permutations(Device)

=============================================================================
