---- MODULE MCServiceClaims ----
(* Small instances of the user service for the claims that fail. *)
EXTENDS ServiceClaims, MCTraffic
====
