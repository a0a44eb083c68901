----------------------------- MODULE MCMigrations -----------------------------
(***************************************************************************)
(* Small instances of Migrations for TLC.                                  *)
(***************************************************************************)
EXTENDS Migrations, TLC

MigrationSymmetry == Permutations(Runners) \cup Permutations(Publishers)
===============================================================================
