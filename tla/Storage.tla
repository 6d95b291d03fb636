------------------------------ MODULE Storage ------------------------------
(***************************************************************************)
(* What server/storage.go promises: users under their ids, and methods     *)
(* that each take effect at one moment between call and return. A method   *)
(* may also fail with an error of the backend: then nobody knows whether   *)
(* it has taken effect.                                                    *)
(***************************************************************************)
EXTENDS StorageCalls

vars == <<users, call, answer>>

(* What a backend stores for a user: it may fill in the date and the        *)
(* status, keep the date of the user it replaces, and drop contact data     *)
(* (as memory_storage.go does).                                             *)
Store(user, dates, statuses) ==
  \E date \in dates, status \in statuses, email \in {user.email, ""} :
    users' = [users EXCEPT
                ![user.id] = [user EXCEPT !.create_date = date,
                                          !.status = status, !.email = email]]

NewDates(user) ==
  IF user.create_date = NoDate THEN Dates ELSE {user.create_date}
NewStatuses(user) ==
  IF user.status = "INACTIVE" THEN {"INACTIVE", "ACTIVE"} ELSE {user.status}

Applied(c) == Done(c) \/ Refuse(c, "error")

AddUser(c) ==
  /\ Calling(c, "AddUser")
  /\ LET user == call[c].user
     IN  \/ /\ users[user.id] = Nil /\ Applied(c)
            /\ Store(user, NewDates(user), NewStatuses(user))
         \/ users[user.id] # Nil /\ Refuse(c, "AlreadyExists") /\ UNCHANGED users

UpdateUser(c) ==
  /\ Calling(c, "UpdateUser")
  /\ LET user == call[c].user
         old == users[user.id]
     IN  \/ /\ old # Nil /\ Applied(c)
            /\ Store(user, {user.create_date, old.create_date}, {user.status})
         \/ old = Nil /\ Refuse(c, "NotFound") /\ UNCHANGED users

DeleteUser(c) ==
  /\ Calling(c, "DeleteUser")
  /\ LET id == call[c].id
     IN  \/ /\ users[id] # Nil /\ Applied(c)
            /\ users' = [users EXCEPT ![id] = Nil]
         \/ users[id] = Nil /\ Refuse(c, "NotFound") /\ UNCHANGED users

GetUser(c) ==
  /\ Calling(c, "GetUser")
  /\ LET id == call[c].id
     IN  \/ users[id] # Nil /\ Decide(c, "OK", {users[id]}, 0)
         \/ users[id] = Nil /\ Refuse(c, "NotFound")
  /\ UNCHANGED users

UserExists(c) ==
  /\ Calling(c, "UserExists")
  /\ Decide(c, "OK", {}, IF users[call[c].id] # Nil THEN 1 ELSE 0)
  /\ UNCHANGED users

Count(c) ==
  /\ Calling(c, "Count")
  /\ Decide(c, "OK", {}, Cardinality(Live))
  /\ UNCHANGED users

ListUsers(c) ==
  /\ Calling(c, "ListUsers")
  /\ Decide(c, "OK", {users[id] : id \in Selected(call[c].filter)}, 0)
  /\ UNCHANGED users

ListUsersByRole(c) ==
  /\ Calling(c, "ListUsersByRole")
  /\ Decide(c, "OK",
            {users[id] : id \in {i \in Live : users[i].role = call[c].role}}, 0)
  /\ UNCHANGED users

Fails(c) ==
  /\ Pending(c)
  /\ Refuse(c, "error")
  /\ UNCHANGED users

Serve(c) ==
  /\ \/ AddUser(c) \/ UpdateUser(c) \/ DeleteUser(c)
     \/ GetUser(c) \/ UserExists(c) \/ Count(c)
     \/ ListUsers(c) \/ ListUsersByRole(c)
     \/ Fails(c)
  /\ UNCHANGED call

Init == CallsInit

Next == \E c \in Clients : Invoke(c) \/ Serve(c) \/ Return(c)

Spec == Init /\ [][Next]_vars
=============================================================================
