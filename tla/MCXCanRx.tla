------------------------------ MODULE MCXCanRx ------------------------------
(***************************************************************************)
(* Instances of XCanRx for TLC.  No action and no safety property tells    *)
(* the CPUs apart, so their permutations are symmetries; the run that      *)
(* checks liveness does without.                                           *)
(***************************************************************************)
EXTENDS XCanRx, TLC

CpuSymmetry == Permutations(Cpus)
=============================================================================
