----------------------------- MODULE MCSandbox -----------------------------
(* Instances of Sandbox for TLC.                                           *)
EXTENDS Sandbox, TLC

\* anond processes are interchangeable
ProcSymmetry == Permutations(Procs)
=============================================================================
