---- MODULE MCProcess ----
(* A small instance of the whole process. *)
EXTENDS Process
====
