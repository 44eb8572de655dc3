---------------------------- MODULE MCMigrations ----------------------------
(* A small instance of Migrations for TLC. *)
EXTENDS Migrations, TLC

Symmetry == Permutations(PackageIDs) \cup Permutations(Tenants) \cup Permutations(Keys)
=============================================================================
