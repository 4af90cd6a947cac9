------------------------------ MODULE MCSessions ------------------------------
(***************************************************************************)
(* Model-checking instance of Sessions: sessions, cleaners and doctors     *)
(* only differ by name.                                                    *)
(***************************************************************************)
EXTENDS Sessions, TLC

Symmetry == Permutations(Sessions) \cup Permutations(Cleaners) \cup Permutations(Doctors)
===============================================================================
