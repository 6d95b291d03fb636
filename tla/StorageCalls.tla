---------------------------- MODULE StorageCalls ----------------------------
(***************************************************************************)
(* The interface of server/storage.go as its callers see it: a goroutine   *)
(* makes a call of one of the eight methods, is answered, and goes on. The *)
(* abstract Storage and both backends extend this module, which leaves     *)
(* open when and how a call takes effect.                                  *)
(***************************************************************************)
EXTENDS Users

CONSTANTS
  Clients,    \* the goroutines that call the storage
  Calls       \* the calls they make

VARIABLES
  users,      \* what is stored under each id, Nil if nothing is
  call,       \* the call of each client, Nil between calls
  answer      \* its answer once it is decided

Filters == [created_since : SUBSET Int, older_than : SUBSET Int,
            status : SUBSET Statuses, page_size : Nat]

CallSet ==
  [op : {"AddUser", "UpdateUser"}, user : User]
    \cup [op : {"GetUser", "DeleteUser", "UserExists"}, id : Ids]
    \cup [op : {"ListUsers"}, filter : Filters]
    \cup [op : {"ListUsersByRole"}, role : Roles]
    \cup [op : {"Count"}]

ASSUME CallsAssumption == Calls \subseteq CallSet
ASSUME NilIsNoCall == Nil \notin CallSet
ASSUME NilIsNoClient == Nil \notin Clients

(* nil, or which error; the users returned; the count, or 1 for true.       *)
Answers == [code : {"OK", "AlreadyExists", "NotFound", "error"},
            found : SUBSET User, count : Nat]
ASSUME NilIsNoAnswer == Nil \notin Answers

Writers == {"AddUser", "UpdateUser", "DeleteUser"}

Live == {id \in Ids : users[id] # Nil}

Pending(c) == call[c] # Nil /\ answer[c] = Nil
Calling(c, op) == Pending(c) /\ call[c].op = op

CallsInit ==
  /\ users = [id \in Ids |-> Nil]
  /\ call = [c \in Clients |-> Nil]
  /\ answer = [c \in Clients |-> Nil]

Decide(c, code, found, count) ==
  answer' = [answer EXCEPT
               ![c] = [code |-> code, found |-> found, count |-> count]]

Done(c) == Decide(c, "OK", {}, 0)
Refuse(c, code) == Decide(c, code, {}, 0)

Invoke(c) ==
  /\ call[c] = Nil
  /\ \E request \in Calls : call' = [call EXCEPT ![c] = request]
  /\ UNCHANGED <<users, answer>>

Return(c) ==
  /\ answer[c] # Nil
  /\ call' = [call EXCEPT ![c] = Nil]
  /\ answer' = [answer EXCEPT ![c] = Nil]
  /\ UNCHANGED users

(* The users a ListFilter admits (server/storage.go:39-45).                 *)
Selected(filter) ==
  {id \in Live :
     LET created == AsTime(users[id].create_date)
     IN  /\ \A since \in filter.created_since : created >= since
         /\ \A limit \in filter.older_than : created < limit
         /\ \A status \in filter.status : users[id].status = status}
=============================================================================
