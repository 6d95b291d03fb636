----------------------------- MODULE UserLedger -----------------------------
(***************************************************************************)
(* The user service beside a ledger of what became of every user: history  *)
(* variables that read the code's state and change nothing of it.          *)
(***************************************************************************)
EXTENDS UserService, FiniteSets

VARIABLES
  accounted,  \* users added less users deleted, by the calls that are over
  born        \* the create dates each id was ever given

ledgerVars == <<vars, accounted, born>>

(* The users that the call or message p works on has added, once its        *)
(* outcome stands in its answer or in its totals, and whether it has        *)
(* deleted one.                                                             *)
Added(p) ==
  CASE At(p, "AddUser", "return") /\ reply[p].code = "OK" -> 1
    [] method[p] = "BatchAddUsers" -> tally[p].added
    [] At(p, "SyncUsers", "send") /\ reply[p].code = "created" -> 1
    [] OTHER -> 0

Deleted(p) == At(p, "DeleteUser", "return") /\ reply[p].code = "OK"

(* The sum of the numbers f[p], counted out.                                *)
Total(f) == Cardinality(UNION {{p} \X (1 .. f[p]) : p \in DOMAIN f})

(* What the calls and messages of these goroutines add to the number of     *)
(* users.                                                                   *)
InFlight(procs) ==
  Total([p \in procs |-> Added(p)]) - Cardinality({p \in procs : Deleted(p)})

(* It is booked when the goroutine ends, and for a sync when the message's  *)
(* answer goes, or is lost with its stream.                                 *)
Settled(p) ==
  /\ pc'[p] # pc[p]
  /\ \/ pc[p] = "return"
     \/ At(p, "SyncUsers", "send")

(* A step gives id a date when it adds id, or syncs it.                     *)
Gives(id) ==
  \/ users[id] = Nil /\ users'[id] # Nil
  \/ \E p \in Procs : /\ At(p, "SyncUsers", "update") /\ pc'[p] = "send"
                     /\ req[p].id = id /\ storage!UpdateUser(req[p], "OK")

LedgerInit == Init /\ accounted = 0 /\ born = [id \in Ids |-> {}]

LedgerNext ==
  /\ Next
  /\ accounted' = accounted + InFlight({p \in Procs : Settled(p)})
  /\ born' = [id \in Ids |->
                IF Gives(id) THEN born[id] \cup {users'[id].create_date}
                ELSE born[id]]

LedgerSpec == LedgerInit /\ [][LedgerNext]_ledgerVars

-----------------------------------------------------------------------------
(* The answers tell the truth: the users there are, are those that the      *)
(* answers, totals and sync results given or about to be given say were     *)
(* added, less those they say were deleted. No user is added or deleted     *)
(* behind an answer of failure, and none is counted twice by two calls that *)
(* race for it.                                                             *)
UsersAccounted ==
  storage!Count = accounted + InFlight(Procs)

(* A create_date is given when the user is added, or by a sync that replaces *)
(* the whole user, and never changes otherwise (server.go:127): whatever    *)
(* updates and logins do, and however old the user they write back, the     *)
(* date stored for an id is one that it was given.                          *)
CreateDateWasGiven ==
  \A id \in Ids : storage!UserExists(id) => users[id].create_date \in born[id]

(* server.go:37-45: the first user there ever is, if AddUser is what stores *)
(* it, is an admin, also when the count it was checked against is old by    *)
(* the time it is stored, and whatever comes and goes later. (A batch or a  *)
(* sync does not ask, and after a deletion the count may be old.)           *)
FirstUserEverIsAdmin ==
  [][\A p \in Procs :
       /\ \A id \in Ids : born[id] = {}
       /\ At(p, "AddUser", "add") /\ pc'[p] = "return" /\ reply'[p].code = "OK"
       => users'[req[p].id].role = "ADMIN"]_ledgerVars
=============================================================================
