--------------------------- MODULE MCContainers ---------------------------
EXTENDS Containers

(* Capacities are doubled twice within MaxLen elements, and compact leaves *)
(* some that are no power of two.                                          *)
MCValues == {1, 2}
=============================================================================
