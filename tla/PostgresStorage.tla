-------------------------- MODULE PostgresStorage --------------------------
(***************************************************************************)
(* server/postgres_storage.go: each method is one SQL statement, but       *)
(* UpdateUser, which is two. A statement takes a connection of the pool,   *)
(* is atomic in the database, and gives the connection back; a list keeps  *)
(* it while the rows come in. The connection may break at any time, before *)
(* the database has done what the statement says or after.                 *)
(***************************************************************************)
EXTENDS StorageCalls

CONSTANTS MaxConns    \* connections in the pool

ASSUME MaxConnsAssumption == MaxConns \in Nat \ {0}

VARIABLES
  pc,         \* where the method is: the statement it waits for or is at
  conns,      \* the connections in use: by whom, and since which wait
  rows,       \* lists: the rows of the result still to come
  result      \* lists: the users read

vars == <<users, call, answer, pc, conns, rows, result>>

At(c, label) == pc[c] = label
Goto(c, label) == pc' = [pc EXCEPT ![c] = label]

(* initSchema, on an empty database.                                        *)
Init ==
  /\ CallsInit
  /\ pc = [c \in Clients |-> "idle"]
  /\ conns = {}
  /\ rows = [c \in Clients |-> {}]
  /\ result = [c \in Clients |-> {}]

Enter(c) ==
  /\ At(c, "idle")
  /\ Invoke(c)
  /\ Goto(c, "wait")
  /\ UNCHANGED <<conns, rows, result>>

Leave(c) ==
  /\ At(c, "return")
  /\ Return(c)
  /\ result' = [result EXCEPT ![c] = {}]
  /\ Goto(c, "idle")
  /\ UNCHANGED <<conns, rows>>

-----------------------------------------------------------------------------
(* The pool: a statement waits until a connection is free.                  *)
Acquire(c) ==
  /\ \/ At(c, "wait") /\ Goto(c, "statement")
     \/ At(c, "wait again") /\ Goto(c, "second statement")
  /\ Cardinality(conns) < MaxConns
  /\ conns' = conns \cup {<<c, pc[c]>>}
  /\ UNCHANGED <<users, call, answer, rows, result>>

Release(c) == conns' = {conn \in conns : conn[1] # c}

(* The end of a method, which has given back its connection.                *)
Over(c) ==
  /\ Release(c)
  /\ rows' = [rows EXCEPT ![c] = {}]
  /\ Goto(c, "return")
  /\ UNCHANGED <<call, result>>

(* No connection, or none any more: the statement is not executed.          *)
Broken(c) ==
  /\ pc[c] \in {"wait", "wait again", "statement", "second statement"}
  /\ Refuse(c, "error")
  /\ Over(c)
  /\ UNCHANGED users

(* A statement that changes rows is executed. Its answer comes, or not.     *)
Executed(c) == Done(c) \/ Refuse(c, "error")

-----------------------------------------------------------------------------
(* UNIQUE on username: nobody else has the name.                            *)
NameIsFree(user) ==
  \A id \in Live \ {user.id} : users[id].username # user.username

(* Variant: a nil date goes into the row as it is. *)
RowAsGiven(user) == user

(* The row that the INSERT leaves under the id. If there was one, its       *)
(* create date stays: the conflict clause does not name it.                 *)
Row(user) ==
  [user EXCEPT !.create_date = IF users[user.id] = Nil THEN AsTime(@)
                               ELSE users[user.id].create_date]

AddUser(c) ==
  /\ At(c, "statement") /\ Calling(c, "AddUser")
  /\ LET user == call[c].user
     IN  \/ /\ NameIsFree(user)
            /\ users' = [users EXCEPT ![user.id] = Row(user)]
            /\ Executed(c)
         \/ ~NameIsFree(user) /\ Refuse(c, "error") /\ UNCHANGED users
  /\ Over(c)

(* UpdateUser begins with a call of UserExists, whose statement gives its   *)
(* connection back. Variant: it keeps it.                                   *)
UpdateUserExistsKeeping(c) ==
  /\ At(c, "statement") /\ Calling(c, "UpdateUser")
  /\ users[call[c].user.id] # Nil
  /\ Goto(c, "wait again")
  /\ UNCHANGED <<users, call, answer, conns, rows, result>>

UpdateUserExists(c) ==
  /\ At(c, "statement") /\ Calling(c, "UpdateUser")
  /\ \/ /\ users[call[c].user.id] # Nil
        /\ Release(c)
        /\ Goto(c, "wait again")
        /\ UNCHANGED <<call, answer, rows, result>>
     \/ /\ users[call[c].user.id] = Nil
        /\ Refuse(c, "error")
        /\ Over(c)
  /\ UNCHANGED users

(* Variant: the UPDATE sets every column. *)
UpdatedAll(user) == [user EXCEPT !.create_date = AsTime(@)]

(* The row after the UPDATE, which leaves out the create date.              *)
Updated(user) == [user EXCEPT !.create_date = users[user.id].create_date]

(* If the row has gone the UPDATE changes nothing, and nobody looks how     *)
(* many rows it was.                                                        *)
UpdateUser(c) ==
  /\ At(c, "second statement")
  /\ LET user == call[c].user
         old == users[user.id]
     IN  \/ /\ old # Nil /\ NameIsFree(user)
            /\ users' = [users EXCEPT ![user.id] = Updated(user)]
            /\ Executed(c)
         \/ old # Nil /\ ~NameIsFree(user) /\ Refuse(c, "error") /\ UNCHANGED users
         \/ old = Nil /\ Done(c) /\ UNCHANGED users
  /\ Over(c)

(* Variant: a deletion that deletes nothing succeeds. *)
DeleteUserUncounted(c) ==
  /\ At(c, "statement") /\ Calling(c, "DeleteUser")
  /\ users' = [users EXCEPT ![call[c].id] = Nil]
  /\ Executed(c)
  /\ Over(c)

DeleteUser(c) ==
  /\ At(c, "statement") /\ Calling(c, "DeleteUser")
  /\ LET id == call[c].id
     IN  \/ /\ users[id] # Nil
            /\ users' = [users EXCEPT ![id] = Nil]
            /\ Executed(c)
         \/ users[id] = Nil /\ Refuse(c, "error") /\ UNCHANGED users
  /\ Over(c)

-----------------------------------------------------------------------------
(* GetUser, UserExists, Count: one row.                                     *)
QueryRow(c) ==
  /\ At(c, "statement")
  /\ \/ /\ Calling(c, "GetUser")
        /\ LET user == users[call[c].id]
           IN  \/ user # Nil /\ Decide(c, "OK", {user}, 0)
               \/ user = Nil /\ Refuse(c, "error")
     \/ /\ Calling(c, "UserExists")
        /\ Decide(c, "OK", {}, IF users[call[c].id] # Nil THEN 1 ELSE 0)
     \/ /\ Calling(c, "Count")
        /\ Decide(c, "OK", {}, Cardinality(Live))
  /\ Over(c)
  /\ UNCHANGED users

(* The lists: the database takes a snapshot. With a page size the LIMIT     *)
(* stands before the ORDER BY, and the database refuses the statement.      *)
Select(c) ==
  /\ At(c, "statement")
  /\ \/ /\ Calling(c, "ListUsers") /\ call[c].filter.page_size = 0
        /\ rows' = [rows EXCEPT ![c] = {users[id] : id \in Selected(call[c].filter)}]
        /\ Goto(c, "rows")
        /\ UNCHANGED <<call, answer, conns, result>>
     \/ /\ Calling(c, "ListUsers") /\ call[c].filter.page_size > 0
        /\ Refuse(c, "error")
        /\ Over(c)
     \/ /\ Calling(c, "ListUsersByRole")
        /\ rows' = [rows EXCEPT ![c] = {users[id] :
                      id \in {i \in Live : users[i].role = call[c].role}}]
        /\ Goto(c, "rows")
        /\ UNCHANGED <<call, answer, conns, result>>
  /\ UNCHANGED users

(* rows.Next() and Scan, in the order of the ids,                           *)
NextRow(c) ==
  /\ At(c, "rows")
  /\ \E user \in rows[c] :
       /\ \A other \in rows[c] : user.id <= other.id
       /\ rows' = [rows EXCEPT ![c] = @ \ {user}]
       /\ result' = [result EXCEPT ![c] = @ \cup {user}]
  /\ UNCHANGED <<users, call, answer, pc, conns>>

(* until Next says there are no more: it has come to the end, *)
NoMoreRows(c) ==
  /\ At(c, "rows")
  /\ rows[c] = {}
  /\ Decide(c, "OK", result[c], 0)
  /\ Over(c)
  /\ UNCHANGED users

(* or the connection has broken, or a row could not be scanned, at which    *)
(* the driver closes the result. Nobody asks rows.Err() which it was.       *)
RowsBroken(c) ==
  /\ At(c, "rows")
  /\ rows[c] # {}
  /\ Decide(c, "OK", result[c], 0)
  /\ Over(c)
  /\ UNCHANGED users

-----------------------------------------------------------------------------
Execute(c) ==
  \/ AddUser(c) \/ UpdateUserExists(c) \/ UpdateUser(c) \/ DeleteUser(c)
  \/ QueryRow(c) \/ Select(c)

Run(c) ==
  Acquire(c) \/ Execute(c) \/ NextRow(c) \/ NoMoreRows(c) \/ Leave(c)

Next ==
  \E c \in Clients :
    Enter(c) \/ Run(c) \/ Broken(c) \/ RowsBroken(c)

(* The database answers, and the pool serves those who wait in their order, *)
(* so a method that can go on again and again does. That connections break  *)
(* is possible, and nothing else is said of it.                             *)
Fairness == \A c \in Clients : SF_vars(Run(c))

Spec == Init /\ [][Next]_vars /\ Fairness

-----------------------------------------------------------------------------
(* A row has a create date, the epoch if the user came without.             *)
TypeOK ==
  /\ users \in [Ids -> User \cup {Nil}]
  /\ \A id \in Live : users[id].create_date # NoDate
  /\ call \in [Clients -> Calls \cup {Nil}]
  /\ answer \in [Clients -> Answers \cup {Nil}]
  /\ pc \in [Clients -> {"idle", "wait", "statement", "wait again",
                         "second statement", "rows", "return"}]
  /\ conns \in SUBSET (Clients \X {"wait", "wait again"})
  /\ Cardinality(conns) <= MaxConns
  /\ rows \in [Clients -> SUBSET User]
  /\ result \in [Clients -> SUBSET User]

(* What the promise of server/storage.go makes of this: a list is decided   *)
(* when the database takes its snapshot.                                    *)
decided ==
  [c \in Clients |->
     IF At(c, "rows")
     THEN [code |-> "OK", found |-> rows[c] \cup result[c], count |-> 0]
     ELSE answer[c]]

Promised == INSTANCE Storage WITH answer <- decided

(* Where the code departs from it: an addition replaces a user who is       *)
(* there, *)
Overwrites(c) ==
  /\ Calling(c, "AddUser")
  /\ LET user == call[c].user
     IN  /\ users[user.id] # Nil
         /\ users' = [users EXCEPT ![user.id] =
                        [user EXCEPT !.create_date = users[user.id].create_date]]
  /\ Executed(c)
  /\ UNCHANGED call

(* an update succeeds on a user deleted since it looked, *)
UpdatesNobody(c) ==
  /\ Calling(c, "UpdateUser") /\ users[call[c].user.id] = Nil
  /\ Done(c)
  /\ UNCHANGED <<users, call>>

(* and a list leaves users out.                                             *)
ListsPart(c) ==
  /\ At(c, "rows")
  /\ \E found \in SUBSET decided[c].found :
       found # decided[c].found /\ Decide(c, "OK", found, 0)
  /\ UNCHANGED <<users, call>>

(* In everything else this storage does what the interface promises: its    *)
(* methods, in one or two statements or row by row, over connections that   *)
(* break, take effect at one moment (postgres_storage.go:181, 372, 412,     *)
(* 473).                                                                    *)
KeepsItsPromiseBut ==
  /\ Promised!Init
  /\ [][\/ Promised!Next
        \/ \E c \in Clients : Overwrites(c) \/ UpdatesNobody(c) \/ ListsPart(c)
      ]_<<users, call, decided>>

(* The create date a user is first stored with stays as long as the user    *)
(* does, whatever is added over it or updated with an old copy              *)
(* (postgres_storage.go:164, 364).                                          *)
CreateDateNeverMoves ==
  [][\A id \in Ids :
       users[id] # Nil /\ users'[id] # Nil =>
         users'[id].create_date = users[id].create_date]_vars

(* A method with a connection has a statement to finish, so never does      *)
(* every method wait for a connection that another one keeps: UpdateUser    *)
(* gives its first back before it waits again (postgres_storage.go:347,     *)
(* 364).                                                                    *)
AtWork(c) == pc[c] \in {"statement", "second statement", "rows"}
SomebodyGivesBack ==
  (\E c \in Clients : pc[c] \in {"wait", "wait again"}) =>
    Cardinality(conns) < MaxConns \/ \E c \in Clients : AtWork(c)

(* No two methods wait for each other's connections, even if every          *)
(* connection is in use: every call returns (postgres_storage.go:320).      *)
Returns(c) == call[c] # Nil ~> call[c] = Nil
EveryCallReturns == \A c \in Clients : Returns(c)

-----------------------------------------------------------------------------
(* cmd/client/README.md:12 says a user that was added "can't be added       *)
(* again", scripts/README.md:187 calls it a conflict; the INSERT of AddUser *)
(* updates the user.                                                        *)
NobodyIsAddedTwice ==
  [][\A c \in Clients :
       Calling(c, "AddUser") /\ answer'[c] # Nil /\ answer'[c].code = "OK" =>
         users[call[c].user.id] = Nil]_vars

(* server/storage.go:25 says "ListUsers lists all users": a ListUsers that  *)
(* is answered from its rows has read every one of them.                    *)
ListUsersListsAll ==
  [][\A c \in Clients :
       Calling(c, "ListUsers") /\ At(c, "rows") /\ answer'[c] # Nil =>
         rows[c] = {}]_vars
=============================================================================
