--------------------------- MODULE MemoryStorage ---------------------------
(***************************************************************************)
(* server/memory_storage.go: the users, one map under a read-write lock.   *)
(*                                                                         *)
(* Each method holds the lock from its first line to its return, so each   *)
(* is one atomic step. A method that changes the map is an action with its *)
(* error as last parameter ("OK" is nil); a method that only reads is an   *)
(* operator. Timestamps are readings of the clock "now".                   *)
(***************************************************************************)
EXTENDS Users

VARIABLES
  users,      \* MemoryStorage.users: Nil where the map has no key
  now         \* what time.Now() returns

StorageTypeOK ==
  /\ users \in [Ids -> User \cup {Nil}]
  /\ now \in 1 .. MaxTime

(* NewMemoryStorage: an empty map. *)
Init ==
  /\ users = [id \in Ids |-> Nil]
  /\ now = 1

-----------------------------------------------------------------------------
UserExists(id) == users[id] # Nil

Live == {id \in Ids : UserExists(id)}

Count == Cardinality(Live)

(* cloneUser copies every field but Email and Phone. *)
cloneUser(user) == [user EXCEPT !.email = ""]

(* The defaults AddUser fills in before it stores the user. *)
WithDefaults(user) ==
  [user EXCEPT !.create_date = IF @ = NoDate THEN now ELSE @,
               !.status = IF @ = "INACTIVE" THEN "ACTIVE" ELSE @]

-----------------------------------------------------------------------------
(* Variants that a slip in the code would make, each followed by the        *)
(* definition it varies: AddUser does not look whether the user exists,     *)
AddUserOver(user, err) ==
  /\ err = "OK"
  /\ users' = [users EXCEPT ![user.id] = cloneUser(WithDefaults(user))]

AddUser(user, err) ==
  \/ /\ UserExists(user.id)
     /\ err = "AlreadyExists"
     /\ UNCHANGED users
  \/ /\ ~UserExists(user.id)
     /\ err = "OK"
     /\ users' = [users EXCEPT ![user.id] = cloneUser(WithDefaults(user))]

(* nor does UpdateUser, *)
UpsertUser(user, err) ==
  /\ err = "OK"
  /\ users' = [users EXCEPT ![user.id] = cloneUser(user)]

UpdateUser(user, err) ==
  \/ /\ ~UserExists(user.id)
     /\ err = "NotFound"
     /\ UNCHANGED users
  \/ /\ UserExists(user.id)
     /\ err = "OK"
     /\ users' = [users EXCEPT ![user.id] = cloneUser(user)]

(* and a deletion of nobody succeeds. *)
DeleteUserSilently(id, err) ==
  /\ err = "OK"
  /\ users' = [users EXCEPT ![id] = Nil]

DeleteUser(id, err) ==
  \/ /\ ~UserExists(id)
     /\ err = "NotFound"
     /\ UNCHANGED users
  \/ /\ UserExists(id)
     /\ err = "OK"
     /\ users' = [users EXCEPT ![id] = Nil]

(* Nil stands for the NotFound error. *)
GetUser(id) == IF UserExists(id) THEN cloneUser(users[id]) ELSE Nil

(* The three tests of ListUsers on one user. The page is not looked at.     *)
Matches(user, filter) ==
  /\ \A since \in filter.created_since : AsTime(user.create_date) >= since
  /\ \A limit \in filter.older_than : AsTime(user.create_date) < limit
  /\ \A status \in filter.status : user.status = status

ListUsers(filter) ==
  {cloneUser(users[id]) : id \in {i \in Live : Matches(users[i], filter)}}

ListUsersByRole(role) ==
  {cloneUser(users[id]) : id \in {i \in Live : users[i].role = role}}

-----------------------------------------------------------------------------
(* The clock moves on between any two steps of the program.                 *)
Tick ==
  /\ now < MaxTime
  /\ now' = now + 1
  /\ UNCHANGED users
=============================================================================
