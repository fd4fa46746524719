-------------------------- MODULE MCPackageSearch --------------------------
(* A small instance of PackageSearch for TLC. *)
EXTENDS PackageSearch

=============================================================================
