------------------------------ MODULE MCListing ------------------------------
(* A small instance of Listing for TLC. *)
EXTENDS Listing

CONSTANT none

(* No parameter, a negative one, zero, one below and one above the cap. *)
SomeLimits == {none, -1, 0, 1, 5}
=============================================================================
