---------------------------- MODULE CallHistory ----------------------------
(***************************************************************************)
(* The user service with its ledger, beside what the storage showed of the *)
(* matter of each call while it was being served: history variables to say *)
(* that an answer is one the storage justified at some moment of the call, *)
(* which is all that a handler that holds no lock can promise.             *)
(***************************************************************************)
EXTENDS UserLedger

VARIABLES
  seen,   \* what the storage has shown since p's request came in
  sent    \* the users p has sent its client in this call

historyVars == <<ledgerVars, seen, sent>>

(* The user p's request or message is about. *)
Subject(p) ==
  CASE method[p] = "UpdateUser" ->
         IF req[p].user = Nil THEN 0 ELSE req[p].user.id
    [] method[p] = "UserActivityStream" -> req[p].user_id
    [] OTHER -> req[p].id

(* What p's request asks of the storage, as it is now: the users it finds   *)
(* if it asks for users, otherwise whether its subject is there.            *)
Found(p) ==
  CASE method[p] = "GetUser" -> {users[req[p].id]} \ {Nil}
    [] method[p] = "ListUsers" -> storage!ListUsers(FilterOf(req[p], now))
    [] method[p] = "ListUsersByRole" -> storage!ListUsersByRole(req[p].role)
    [] OTHER -> {}

View(p) ==
  [found |-> Found(p),
   there |-> method[p] \notin ServerStreams /\ storage!UserExists(Subject(p))]

Working(p) == req[p] # Nil

HistoryInit ==
  /\ LedgerInit
  /\ seen = [p \in Procs |-> {}]
  /\ sent = [p \in Procs |-> {}]

(* A call's own write is not among the states its answer may rest on: once  *)
(* it has its request, its own steps add no view.                           *)
HistoryNext ==
  /\ LedgerNext
  /\ seen' = [p \in Procs |->
       IF ~Working(p)' THEN {}
       ELSE IF pc[p] = "return" \/ (pc'[p] # pc[p] /\ Working(p)) THEN seen[p]
       ELSE seen[p] \cup {View(p)'}]
  /\ sent' = [p \in Procs |->
       IF Working(p) /\ Working(p)' THEN sent[p] \cup (pending[p] \ pending'[p])
       ELSE {}]

HistorySpec == HistoryInit /\ [][HistoryNext]_historyVars

-----------------------------------------------------------------------------
(* What the answer of p says of the storage is so in this view.             *)
Justified(p, view) ==
  LET m == method[p]
      code == reply[p].code
  IN  CASE m = "GetUser" /\ code = "OK" -> view.found = {reply[p].user}
        [] m \in ServerStreams /\ code = "OK" -> view.found = sent[p]
        [] m \in ServerStreams /\ code = "NotFound" -> view.found = {}
        [] m \in {"UpdateUser", "DeleteUser"} /\ code = "OK" -> view.there
        [] code \in {"AlreadyExists", "acknowledged", "updated"} -> view.there
        [] m \notin ServerStreams /\ code = "NotFound" -> ~view.there
        [] m = "AddUser" /\ code = "OK" -> ~view.there
        [] code \in {"created", "unknown"} -> ~view.there
        [] OTHER -> TRUE

(* Every answer had its moment: what a call reports of the storage (the     *)
(* user it found, that there is none, that there already is one, the list   *)
(* it streamed) was so, all at once, at one moment between its request and  *)
(* its answer, whatever the other goroutines did meanwhile.                 *)
EveryAnswerHadItsMoment ==
  \A p \in Procs :
    /\ Working(p)
    /\ pc[p] = "return" \/ (pc[p] = "send" /\ method[p] \in ClientStreams)
    => \E view \in seen[p] : Justified(p, view)
=============================================================================
