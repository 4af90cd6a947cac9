------------------------ MODULE MCCredentialMutations ------------------------
(***************************************************************************)
(* Model-checking instance of CredentialMutations: symmetry of the         *)
(* identifiers that only differ by name, and a bound on the journal.       *)
(***************************************************************************)
EXTENDS CredentialMutations, TLC

Symmetry ==
  Permutations(Procs) \cup Permutations(Names)
    \cup Permutations(Ids) \cup Permutations(Refs)

\* Bound: nothing goes on from a state with three references on the journal.
FewOwed == Cardinality(journal) <= 2
=============================================================================
