----------------------------- MODULE MCTraffic -----------------------------
(***************************************************************************)
(* Requests for the model-checking runs of the user service.               *)
(***************************************************************************)
EXTENDS Users

(* A user as a client sends it; what is not given here is not set. *)
Sent(id, role, name) ==
  [id |-> id, role |-> role, username |-> name, email |-> "",
   profile |-> "p", status |-> "INACTIVE",
   create_date |-> NoDate, last_login |-> NoDate]

Admin == Sent(1, "ADMIN", "a")
Member == Sent(1, "MEMBER", "a")
Other == Sent(2, "MEMBER", "a")
Old == [Other EXCEPT !.create_date = 0]
Dated == [Admin EXCEPT !.status = "ACTIVE", !.create_date = 1]
Suspended == [Admin EXCEPT !.status = "SUSPENDED", !.create_date = 1]
Reachable == [Admin EXCEPT !.email = "e"]
Nameless == Sent(1, "ADMIN", "")
NoId == Sent(0, "ADMIN", "a")

ById(ids) == {[id |-> id] : id \in ids}
Change(user, paths) == [user |-> user, paths |-> paths]
Act(id, type, time) ==
  [user_id |-> id, activity_type |-> type, timestamp |-> time]
Query(since, older, status) ==
  [created_since |-> since, older_than |-> older, status |-> status,
   page_size |-> 0]
-----------------------------------------------------------------------------
(* Every method, with every kind of request it refuses. *)
ServiceTraffic ==
  [AddUser            |-> {Dated, NoId, Nameless},
   GetUser            |-> ById({0, 1}),
   UpdateUser         |-> {Change(Member, {"role"}), Change(Admin, {"role", "bogus"}),
                           Change(NoId, {}), Change(Nil, {})},
   DeleteUser         |-> ById({0, 1}),
   ListUsers          |-> {Query(1, NoDate, "ACTIVE")},
   ListUsersByRole    |-> {[role |-> "ADMIN"]},
   BatchAddUsers      |-> {Dated, NoId},
   UserActivityStream |-> {Act(0, "LOGIN", 1), Act(1, "LOGIN", 1)},
   SyncUsers          |-> {Dated, NoId}]

(* Every method that adds, deletes, writes back a user it has read, or      *)
(* answers about users who come, go and change.                             *)
HistoryTraffic ==
  [AddUser            |-> {Admin, Member},
   GetUser            |-> ById({1}),
   UpdateUser         |-> {Change([Suspended EXCEPT !.create_date = 0], {})},
   DeleteUser         |-> ById({1}),
   ListUsers          |-> {Query(1, NoDate, "SUSPENDED"), Query(NoDate, 0, "INACTIVE")},
   BatchAddUsers      |-> {Old},
   UserActivityStream |-> {Act(1, "LOGIN", NoDate)},
   SyncUsers          |-> {Dated}]
-----------------------------------------------------------------------------
(* The least traffic in which a claim of the repository fails. *)
DeletingTraffic ==
  [AddUser |-> {Admin, Other}, DeleteUser |-> ById({1})]

RecreatingTraffic ==
  [AddUser    |-> {Admin},
   DeleteUser |-> ById({1}),
   UpdateUser |-> {Change(Member, {})}]

ContactTraffic == [AddUser |-> {Reachable}]
=============================================================================
