----------------------------- MODULE MCMacosVault -----------------------------
(***************************************************************************)
(* Model-checking instance of MacosVault: references only differ by name.  *)
(***************************************************************************)
EXTENDS MacosVault, TLC

Symmetry == Permutations(Refs)
===============================================================================
