---- MODULE MCUserService ----
(* Small instances of the user service by itself. *)
EXTENDS UserService, MCTraffic
====
