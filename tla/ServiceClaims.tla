--------------------------- MODULE ServiceClaims ---------------------------
(***************************************************************************)
(* What comments and messages in the repository say of the user service    *)
(* and the service does not do. Each is checked by a run of its own, whose *)
(* counterexample is the shortest history that shows the difference.       *)
(***************************************************************************)
EXTENDS UserService

Wrote(p, m, label) == At(p, m, label) /\ pc'[p] # label

(* server.go:127, "update all fields except ID and create_date": the write  *)
(* of an UpdateUser leaves the create date of the user as it is.            *)
UpdateKeepsCreateDate ==
  [][\A p \in Procs : \A id \in storage!Live :
       Wrote(p, "UpdateUser", "update") =>
         users'[id].create_date = users[id].create_date]_vars

(* memory_storage.go:183, "email and phone ... (already copied above)": a   *)
(* user that AddUser has stored has the contact data it was added with.     *)
AddedUserIsReachable ==
  [][\A p \in Procs :
       Wrote(p, "AddUser", "add") /\ reply'[p].code = "OK" =>
         users'[req[p].id].email = req[p].email]_vars
=============================================================================
