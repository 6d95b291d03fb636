---- MODULE MCMemoryStorageLocks ----
(* A small instance of the in-memory storage and its lock. *)
EXTENDS MemoryStorageLocks, MCTraffic

SomeCalls ==
  {[op |-> "AddUser", user |-> Admin], [op |-> "UpdateUser", user |-> Suspended],
   [op |-> "AddUser", user |-> Other],
   [op |-> "DeleteUser", id |-> 1], [op |-> "GetUser", id |-> 1],
   [op |-> "UserExists", id |-> 2], [op |-> "Count"],
   [op |-> "ListUsers", filter |-> [created_since |-> {1}, older_than |-> {2},
                                    status |-> {"ACTIVE"}, page_size |-> 0]],
   [op |-> "ListUsersByRole", role |-> "ADMIN"]}

(* The clients are alike, so it is enough to watch one of them: each of its *)
(* calls returns, whatever the others do (memory_storage.go:33, 98).        *)
EachCallReturns == Returns(CHOOSE c \in Clients : TRUE)
====
