----------------------------- MODULE MCMigrations -----------------------------
(***************************************************************************)
(* Model-checking instance of Migrations: p1 is one migration older.       *)
(***************************************************************************)
EXTENDS Migrations

CONSTANTS p1, p2

Versions == [p \in {p1, p2} |-> IF p = p1 THEN 1 ELSE 2]
===============================================================================
