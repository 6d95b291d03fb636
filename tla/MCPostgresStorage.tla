---- MODULE MCPostgresStorage ----
(* A small instance of the storage in PostgreSQL. *)
EXTENDS PostgresStorage, MCTraffic

(* Everybody, with a page size or without. *)
Everyone(page) == [created_since |-> {}, older_than |-> {}, status |-> {},
                   page_size |-> page]

SomeCalls ==
  {[op |-> "AddUser", user |-> Admin], [op |-> "AddUser", user |-> Other],
   [op |-> "UpdateUser", user |-> Suspended],
   [op |-> "DeleteUser", id |-> 1], [op |-> "GetUser", id |-> 1],
   [op |-> "ListUsers", filter |-> Everyone(0)],
   [op |-> "ListUsers", filter |-> Everyone(1)],
   [op |-> "ListUsersByRole", role |-> "ADMIN"]}

(* The clients are alike, so it is enough to watch one of them: each of its *)
(* calls returns, whatever the others do (postgres_storage.go:320).         *)
EachCallReturns == Returns(CHOOSE c \in Clients : TRUE)
====
