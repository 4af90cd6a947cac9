----------------------------- MODULE MCLinuxVault -----------------------------
(***************************************************************************)
(* Model-checking instance of LinuxVault: references only differ by name.  *)
(***************************************************************************)
EXTENDS LinuxVault, TLC

Symmetry == Permutations(Refs)
===============================================================================
