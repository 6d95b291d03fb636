---- MODULE MCCallHistory ----
(* Small instances of the user service with the history of its calls. *)
EXTENDS CallHistory, MCTraffic, TLC

(* The goroutines are alike. *)
Alike == Permutations(Procs)
====
