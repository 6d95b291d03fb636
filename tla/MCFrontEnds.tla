---- MODULE MCFrontEnds ----
(* A small instance of the programs that call the service. *)
EXTENDS FrontEnds
====
