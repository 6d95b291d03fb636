------------------------- MODULE UserServiceProofs -------------------------
(***************************************************************************)
(* Theorems about the user service, for every set of ids, goroutines and   *)
(* requests, every bound, and with or without a faulty storage.            *)
(***************************************************************************)
EXTENDS ServiceClaims, FiniteSetTheorems, TLAPS

-----------------------------------------------------------------------------
(* The storage speaks of the same users and dates as the service. *)
LEMMA SameData ==
  /\ storage!User = User
  /\ storage!NoDate = NoDate
BY DEF storage!User, User, storage!NoDate, NoDate, storage!Dates, Dates,
       storage!Roles, Roles, storage!Statuses, Statuses

(* A clone is a user: the contact data goes, what identifies it stays. *)
LEMMA CloneIsUser ==
  ASSUME NEW user \in User
  PROVE  /\ storage!cloneUser(user) \in User
         /\ storage!cloneUser(user).id = user.id
         /\ storage!cloneUser(user).role = user.role
         /\ storage!cloneUser(user).create_date = user.create_date
BY FieldsAssumption DEF User, storage!cloneUser

(* With its defaults a user is a user, and has a create date. *)
LEMMA DefaultsAreUser ==
  ASSUME NEW user \in User, now \in 1 .. MaxTime
  PROVE  /\ storage!WithDefaults(user) \in User
         /\ storage!WithDefaults(user).id = user.id
         /\ storage!WithDefaults(user).role = user.role
         /\ storage!WithDefaults(user).create_date # NoDate
<1> DEFINE date == IF user.create_date = NoDate THEN now ELSE user.create_date
           status == IF user.status = "INACTIVE" THEN "ACTIVE" ELSE user.status
<1>1. storage!WithDefaults(user)
        = [user EXCEPT !.create_date = date, !.status = status]
  BY SameData DEF storage!WithDefaults
<1>2. user.create_date \in Dates
  BY DEF User
<1>3. date \in Dates /\ date # NoDate
  BY <1>2, MaxTimeAssumption DEF Dates, NoDate
<1>4. status \in Statuses
  BY DEF User, Statuses
<1> HIDE DEF date, status
<1> QED
  BY <1>1, <1>3, <1>4 DEF User

(* An update changes neither the id nor the create date of what it read. *)
LEMMA OverlayIsUser ==
  ASSUME NEW old \in User, NEW new \in User, NEW paths
  PROVE  /\ Overlay(old, new, paths) \in User
         /\ Overlay(old, new, paths).id = old.id
         /\ Overlay(old, new, paths).create_date = old.create_date
BY DEF User, Overlay

(* GetUser returns a copy of what is stored under the id, or nil. *)
LEMMA GetUserReturns ==
  ASSUME storage!StorageTypeOK, NEW id \in Ids
  PROVE  /\ storage!GetUser(id) \in User \cup {Nil}
         /\ storage!GetUser(id) # Nil =>
              /\ storage!UserExists(id)
              /\ storage!GetUser(id).id = users[id].id
              /\ storage!GetUser(id).create_date = users[id].create_date
BY CloneIsUser, NilAssumption, SameData
   DEF storage!StorageTypeOK, storage!GetUser, storage!UserExists

(* Both lists return copies of stored users. *)
LEMMA ListsAreUsers ==
  ASSUME storage!StorageTypeOK, NEW filter, NEW role
  PROVE  /\ storage!ListUsers(filter) \subseteq User
         /\ storage!ListUsersByRole(role) \subseteq User
BY CloneIsUser, SameData
   DEF storage!StorageTypeOK, storage!ListUsers, storage!ListUsersByRole,
       storage!Live, storage!UserExists

(* What the writing methods do to the storage's type. *)
LEMMA WriteKeepsType ==
  ASSUME storage!StorageTypeOK, NEW user \in User, NEW err, UNCHANGED now,
         storage!AddUser(user, err) \/ storage!UpdateUser(user, err)
  PROVE  storage!StorageTypeOK'
<1>1. user.id \in Ids
  BY DEF User
<1>2. CASE storage!AddUser(user, err)
  BY <1>1, <1>2, CloneIsUser, DefaultsAreUser, SameData
     DEF storage!StorageTypeOK, storage!AddUser
<1>3. CASE storage!UpdateUser(user, err)
  BY <1>1, <1>3, CloneIsUser, SameData
     DEF storage!StorageTypeOK, storage!UpdateUser
<1> QED
  BY <1>2, <1>3

(* What a deletion does to the storage's type. *)
LEMMA DeleteKeepsType ==
  ASSUME storage!StorageTypeOK, NEW id \in Ids, NEW err, UNCHANGED now,
         storage!DeleteUser(id, err)
  PROVE  storage!StorageTypeOK'
BY SameData DEF storage!StorageTypeOK, storage!DeleteUser

-----------------------------------------------------------------------------
(* Typing. *)

(* The kind of request each method takes. *)
LEMMA RequestKinds ==
  /\ \A m \in {"AddUser", "BatchAddUsers", "SyncUsers"} : Requests(m) = User
  /\ \A m \in {"GetUser", "DeleteUser"} : Requests(m) = [id : Ids]
  /\ Requests("UpdateUser") =
       [user : User \cup {Nil}, paths : SUBSET (Paths \cup {"bogus"})]
  /\ Requests("UserActivityStream") = Activity
BY DEF Requests

(* An answer disturbs no local but the reply. *)
LEMMA AnswerKeepsLocals ==
  ASSUME LocalsOK, NEW p \in Procs, NEW label,
         NEW code \in Codes \cup Results, NEW user \in User \cup {Nil},
         Answer(p, label, code, user), UNCHANGED locals
  PROVE  LocalsOK'
BY DEF LocalsOK, Answer, locals

(* A return disturbs no local but the reply. *)
LEMMA ReturnKeepsLocals ==
  ASSUME LocalsOK, NEW p \in Procs, NEW code \in Codes, Return(p, code),
         UNCHANGED locals
  PROVE  LocalsOK'
BY AnswerKeepsLocals DEF Return

(* Back at the head of its loop, a handler has no request and no answer.    *)
LEMMA NextMessageKeepsLocals ==
  ASSUME LocalsOK, NEW p \in Procs, NextMessage(p), UNCHANGED pending,
         tally' \in [Procs -> [received : 0 .. MaxMsgs, added : Nat, failed : Nat]]
  PROVE  LocalsOK'
BY DEF LocalsOK, NextMessage, NoReply

(* The server starts with every variable in its type. *)
LEMMA InitTypeOK == Init => TypeOK
BY MaxMsgsAssumption, MaxTimeAssumption, SameData
   DEF Init, TypeOK, ControlOK, RequestOK, LocalsOK, Labels, storage!Init,
       storage!StorageTypeOK, NoReply, NoTally, At

(* Every step keeps the type, one step of the proof per action. *)
LEMMA NextTypeOK == TypeOK /\ [Next]_vars => TypeOK'
<1> SUFFICES ASSUME TypeOK, [Next]_vars
             PROVE  TypeOK'
  OBVIOUS
<1> USE DEF TypeOK, At, Goto
<1>1. ASSUME NEW p \in Procs, AddUserCount(p)
      PROVE  TypeOK'
  <2> USE <1>1 DEF AddUserCount
  <2>1. storage!StorageTypeOK'
    BY DEF storage!StorageTypeOK, ReadOnly
  <2>2. ControlOK'
    BY DEF ControlOK, Labels, Answer, Return
  <2>3. ASSUME NEW q \in Procs PROVE RequestOK(q)'
    BY DEF RequestOK, ControlOK, Answer, Return, locals
  <2>4. LocalsOK'
    <3>1. CASE UNCHANGED reply
      BY <3>1 DEF LocalsOK, locals
    <3> QED
      BY <3>1, ReturnKeepsLocals DEF Codes
  <2> QED
    BY <2>1, <2>2, <2>3, <2>4
<1>2. ASSUME NEW p \in Procs, AddUserStore(p)
      PROVE  TypeOK'
  <2> USE <1>2 DEF AddUserStore
  <2>0. req[p] \in User
    BY RequestKinds DEF RequestOK
  <2>1. storage!StorageTypeOK'
    <3>1. CASE UNCHANGED users
      BY <3>1 DEF storage!StorageTypeOK
    <3>2. ASSUME NEW err \in Codes, storage!AddUser(req[p], err)
          PROVE  storage!StorageTypeOK'
      BY <2>0, <3>2, WriteKeepsType
    <3> QED
      BY <3>1, <3>2 DEF Unavailable
  <2>2. ControlOK'
    BY DEF ControlOK, Labels, Answer, Return
  <2>3. ASSUME NEW q \in Procs PROVE RequestOK(q)'
    BY DEF RequestOK, ControlOK, Answer, Return, locals
  <2>4. LocalsOK'
    <3>1. PICK code \in Codes : Return(p, code)
      BY DEF Codes
    <3> QED
      BY <3>1, ReturnKeepsLocals
  <2> QED
    BY <2>1, <2>2, <2>3, <2>4
<1>3. ASSUME NEW p \in Procs, GetUser(p)
      PROVE  TypeOK'
  <2> USE <1>3 DEF GetUser
  <2>1. storage!StorageTypeOK'
    BY DEF storage!StorageTypeOK, ReadOnly
  <2>2. ControlOK'
    BY DEF ControlOK, Labels, Answer, Return
  <2>3. ASSUME NEW q \in Procs PROVE RequestOK(q)'
    BY DEF RequestOK, ControlOK, Answer, Return, locals
  <2>4. LocalsOK'
    <3>1. req[p] \in [id : Ids]
      BY RequestKinds DEF RequestOK
    <3>2. storage!GetUser(req[p].id) \in User \cup {Nil}
      BY <3>1, GetUserReturns
    <3> QED
      BY <3>2, AnswerKeepsLocals DEF Return, Codes
  <2> QED
    BY <2>1, <2>2, <2>3, <2>4
<1>4. ASSUME NEW p \in Procs, UpdateUserRead(p)
      PROVE  TypeOK'
  <2> USE <1>4 DEF UpdateUserRead
  <2> DEFINE new == req[p].user
             old == storage!GetUser(new.id)
  <2>0. /\ req[p].user \in User \cup {Nil}
        /\ new # Nil => /\ new \in User
                        /\ old \in User \cup {Nil}
    <3>1. req[p] \in [user : User \cup {Nil},
                      paths : SUBSET (Paths \cup {"bogus"})]
      BY RequestKinds DEF RequestOK
    <3>2. new # Nil => new.id \in Ids
      BY <3>1 DEF User
    <3> QED
      BY <3>1, <3>2, GetUserReturns
  <2>1. storage!StorageTypeOK'
    BY DEF storage!StorageTypeOK, ReadOnly
  <2>2. ControlOK'
    BY DEF ControlOK, Labels, Answer, Return
  <2>3. ASSUME NEW q \in Procs PROVE RequestOK(q)'
    <3>1. CASE \E code \in Codes : Return(p, code) /\ UNCHANGED snap
      BY <3>1 DEF RequestOK, ControlOK, Answer, Return
    <3>2. CASE /\ new # Nil /\ old # Nil
               /\ snap' = [snap EXCEPT ![p] = Overlay(old, new, req[p].paths)]
               /\ Goto(p, "update") /\ UNCHANGED reply
      <4>1. snap'[p] # Nil
        BY <2>0, <3>2, OverlayIsUser, NilAssumption DEF LocalsOK
      <4> QED
        BY <3>2, <4>1 DEF RequestOK, ControlOK
    <3> QED
      BY <3>1, <3>2 DEF Codes
  <2>4. LocalsOK'
    <3>1. CASE \E code \in Codes : Return(p, code) /\ UNCHANGED snap
      BY <3>1, ReturnKeepsLocals DEF locals
    <3>2. CASE /\ new # Nil /\ old # Nil
               /\ snap' = [snap EXCEPT ![p] = Overlay(old, new, req[p].paths)]
               /\ Goto(p, "update") /\ UNCHANGED reply
      BY <2>0, <3>2, OverlayIsUser DEF LocalsOK
    <3> QED
      BY <3>1, <3>2 DEF Codes
  <2> QED
    BY <2>1, <2>2, <2>3, <2>4
<1>5. ASSUME NEW p \in Procs, UpdateUserWrite(p)
      PROVE  TypeOK'
  <2> USE <1>5 DEF UpdateUserWrite
  <2>0. snap[p] \in User
    BY DEF RequestOK, LocalsOK
  <2>1. storage!StorageTypeOK'
    <3>1. CASE UNCHANGED users
      BY <3>1 DEF storage!StorageTypeOK
    <3>2. ASSUME NEW err \in Codes, storage!UpdateUser(snap[p], err)
          PROVE  storage!StorageTypeOK'
      BY <2>0, <3>2, WriteKeepsType
    <3> QED
      BY <3>1, <3>2 DEF Unavailable, Codes
  <2>2. ControlOK'
    BY DEF ControlOK, Labels, Answer, Return
  <2>3. ASSUME NEW q \in Procs PROVE RequestOK(q)'
    BY DEF RequestOK, ControlOK, Answer, Return, locals
  <2>4. LocalsOK'
    BY <2>0, ReturnKeepsLocals, AnswerKeepsLocals DEF Codes
  <2> QED
    BY <2>1, <2>2, <2>3, <2>4
<1>6. ASSUME NEW p \in Procs, DeleteUser(p)
      PROVE  TypeOK'
  <2> USE <1>6 DEF DeleteUser
  <2>0. req[p].id \in Ids
    <3>1. req[p] \in [id : Ids]
      BY RequestKinds DEF RequestOK
    <3> QED
      BY <3>1
  <2>1. storage!StorageTypeOK'
    <3>1. CASE UNCHANGED users
      BY <3>1 DEF storage!StorageTypeOK
    <3>2. ASSUME NEW err \in Codes, storage!DeleteUser(req[p].id, err)
          PROVE  storage!StorageTypeOK'
      BY <2>0, <3>2, DeleteKeepsType
    <3> QED
      BY <3>1, <3>2 DEF Unavailable
  <2>2. ControlOK'
    BY DEF ControlOK, Labels, Answer, Return
  <2>3. ASSUME NEW q \in Procs PROVE RequestOK(q)'
    BY DEF RequestOK, ControlOK, Answer, Return, locals
  <2>4. LocalsOK'
    <3>1. PICK code \in Codes : Return(p, code)
      BY DEF Codes
    <3> QED
      BY <3>1, ReturnKeepsLocals
  <2> QED
    BY <2>1, <2>2, <2>3, <2>4
<1>7. ASSUME NEW p \in Procs, ListUsers(p)
      PROVE  TypeOK'
  <2> USE <1>7 DEF ListUsers
  <2> USE DEF StartListing
  <2>1. storage!StorageTypeOK'
    BY DEF storage!StorageTypeOK, ReadOnly
  <2>2. ControlOK'
    BY DEF ControlOK, Labels, Answer, Return
  <2>3. ASSUME NEW q \in Procs PROVE RequestOK(q)'
    BY DEF RequestOK, ControlOK, Answer, Return, locals
  <2>4. LocalsOK'
    <3>1. CASE Return(p, "Unavailable") /\ UNCHANGED pending
      BY <3>1, ReturnKeepsLocals DEF locals, Codes
    <3>2. CASE Return(p, "NotFound") /\ UNCHANGED pending
      BY <3>2, ReturnKeepsLocals DEF locals, Codes
    <3>3. CASE pending' = [pending EXCEPT ![p] = storage!ListUsers(FilterOf(req[p], now))] /\ UNCHANGED reply
      BY <3>3, ListsAreUsers DEF LocalsOK
    <3> QED
      BY <3>1, <3>2, <3>3
  <2> QED
    BY <2>1, <2>2, <2>3, <2>4
<1>8. ASSUME NEW p \in Procs, ListUsersByRole(p)
      PROVE  TypeOK'
  <2> USE <1>8 DEF ListUsersByRole
  <2> USE DEF StartListing
  <2>1. storage!StorageTypeOK'
    BY DEF storage!StorageTypeOK, ReadOnly
  <2>2. ControlOK'
    BY DEF ControlOK, Labels, Answer, Return
  <2>3. ASSUME NEW q \in Procs PROVE RequestOK(q)'
    BY DEF RequestOK, ControlOK, Answer, Return, locals
  <2>4. LocalsOK'
    <3>1. CASE Return(p, "Unavailable") /\ UNCHANGED pending
      BY <3>1, ReturnKeepsLocals DEF locals, Codes
    <3>2. CASE Return(p, "NotFound") /\ UNCHANGED pending
      BY <3>2, ReturnKeepsLocals DEF locals, Codes
    <3>3. CASE pending' = [pending EXCEPT ![p] = storage!ListUsersByRole(req[p].role)] /\ UNCHANGED reply
      BY <3>3, ListsAreUsers DEF LocalsOK
    <3> QED
      BY <3>1, <3>2, <3>3
  <2> QED
    BY <2>1, <2>2, <2>3, <2>4
<1>9. ASSUME NEW p \in Procs, SendUser(p)
      PROVE  TypeOK'
  <2> USE <1>9 DEF SendUser
  <2>1. storage!StorageTypeOK'
    BY DEF storage!StorageTypeOK, ReadOnly
  <2>2. ControlOK'
    BY DEF ControlOK, Labels, Answer, Return
  <2>3. ASSUME NEW q \in Procs PROVE RequestOK(q)'
    BY DEF RequestOK, ControlOK, Answer, Return, locals
  <2>4. LocalsOK'
    BY DEF LocalsOK, Answer, Return, Codes
  <2> QED
    BY <2>1, <2>2, <2>3, <2>4
<1>10. ASSUME NEW p \in Procs, RecvMessage(p)
      PROVE  TypeOK'
  <2> USE <1>10 DEF RecvMessage
  <2>1. storage!StorageTypeOK'
    BY DEF storage!StorageTypeOK, ReadOnly
  <2>2. ControlOK'
    BY DEF ControlOK, Labels, Answer, Return
  <2>3. ASSUME NEW q \in Procs PROVE RequestOK(q)'
    <3>1. CASE q = p
      <4>1. req'[p] \in Traffic[method[p]] /\ method[p] \in Methods
        BY DEF RequestOK, ControlOK, LocalsOK
      <4>2. req'[p] \in Requests(method[p])
        BY <4>1, TrafficAssumption
      <4> QED
        BY <3>1, <4>2 DEF RequestOK, ControlOK
    <3> QED
      BY <3>1 DEF RequestOK, ControlOK
  <2>4. LocalsOK'
    BY MaxMsgsAssumption DEF LocalsOK
  <2> QED
    BY <2>1, <2>2, <2>3, <2>4
<1>11. ASSUME NEW p \in Procs, RecvEnd(p)
      PROVE  TypeOK'
  <2> USE <1>11 DEF RecvEnd
  <2>1. storage!StorageTypeOK'
    BY DEF storage!StorageTypeOK, ReadOnly
  <2>2. ControlOK'
    BY DEF ControlOK, Labels, Answer, Return
  <2>3. ASSUME NEW q \in Procs PROVE RequestOK(q)'
    BY DEF RequestOK, ControlOK, Answer, Return, locals
  <2>4. LocalsOK'
    BY ReturnKeepsLocals DEF Codes
  <2> QED
    BY <2>1, <2>2, <2>3, <2>4
<1>12. ASSUME NEW p \in Procs, BatchAddUser(p)
      PROVE  TypeOK'
  <2> USE <1>12 DEF BatchAddUser
  <2>0. req[p] \in User
    BY RequestKinds DEF RequestOK
  <2>1. storage!StorageTypeOK'
    <3>1. CASE UNCHANGED users
      BY <3>1 DEF storage!StorageTypeOK
    <3>2. ASSUME NEW err, storage!AddUser(req[p], err)
          PROVE  storage!StorageTypeOK'
      BY <2>0, <3>2, WriteKeepsType
    <3> QED
      BY <3>1, <3>2 DEF Unavailable
  <2>2. ControlOK'
    BY DEF ControlOK, Labels, Answer, Return, NextMessage
  <2>3. ASSUME NEW q \in Procs PROVE RequestOK(q)'
    BY DEF RequestOK, ControlOK, LocalsOK, NextMessage
  <2>4. LocalsOK'
    <3>1. \/ tally' = [tally EXCEPT ![p].failed = @ + 1]
          \/ tally' = [tally EXCEPT ![p].added = @ + 1]
      OBVIOUS
    <3>2. tally' \in [Procs -> [received : 0 .. MaxMsgs, added : Nat, failed : Nat]]
      <4> HIDE DEF BatchAddUser
      <4>1. tally \in [Procs -> [received : 0 .. MaxMsgs, added : Nat, failed : Nat]]
        BY DEF LocalsOK
      <4>2. CASE tally' = [tally EXCEPT ![p].failed = @ + 1]
        BY <4>1, <4>2
      <4>3. CASE tally' = [tally EXCEPT ![p].added = @ + 1]
        BY <4>1, <4>3
      <4> QED
        BY <3>1, <4>2, <4>3
    <3>3. NextMessage(p) /\ UNCHANGED pending
      BY DEF BatchAddUser
    <3> QED
      BY <3>2, <3>3, NextMessageKeepsLocals
  <2> QED
    BY <2>1, <2>2, <2>3, <2>4
<1>13. ASSUME NEW p \in Procs, ActivityExists(p)
      PROVE  TypeOK'
  <2> USE <1>13 DEF ActivityExists
  <2>1. storage!StorageTypeOK'
    BY DEF storage!StorageTypeOK, ReadOnly
  <2>2. ControlOK'
    BY DEF ControlOK, Labels, Answer, Return
  <2>3. ASSUME NEW q \in Procs PROVE RequestOK(q)'
    BY DEF RequestOK, ControlOK, Answer, Return, locals
  <2>4. LocalsOK'
    BY AnswerKeepsLocals DEF Return, Codes, Results
  <2> QED
    BY <2>1, <2>2, <2>3, <2>4
<1>14. ASSUME NEW p \in Procs, ActivityRead(p)
      PROVE  TypeOK'
  <2> USE <1>14 DEF ActivityRead
  <2> DEFINE user == storage!GetUser(req[p].user_id)
             fresh == [user EXCEPT !.last_login = req[p].timestamp]
  <2>0. user # Nil => fresh \in User
    <3>1. req[p] \in Activity
      BY RequestKinds DEF RequestOK
    <3>2. req[p].user_id \in Ids /\ req[p].timestamp \in Dates
      BY <3>1 DEF Activity
    <3>3. user # Nil => user \in User
      BY <3>2, GetUserReturns
    <3> QED
      BY <3>2, <3>3 DEF User
  <2>1. storage!StorageTypeOK'
    BY DEF storage!StorageTypeOK, ReadOnly
  <2>2. ControlOK'
    BY DEF ControlOK, Labels, Answer, Return
  <2>3. ASSUME NEW q \in Procs PROVE RequestOK(q)'
    <3>1. CASE snap'[p] # Nil
      BY <3>1 DEF RequestOK, ControlOK, LocalsOK
    <3>2. CASE Goto(p, "send") /\ UNCHANGED snap
      BY <3>2 DEF RequestOK, ControlOK
    <3> QED
      BY <2>0, <3>1, <3>2, NilAssumption DEF LocalsOK
  <2>4. LocalsOK'
    BY <2>0 DEF LocalsOK
  <2> QED
    BY <2>1, <2>2, <2>3, <2>4
<1>15. ASSUME NEW p \in Procs, ActivityWrite(p)
      PROVE  TypeOK'
  <2> USE <1>15 DEF ActivityWrite
  <2>0. snap[p] \in User
    BY DEF RequestOK, LocalsOK
  <2>1. storage!StorageTypeOK'
    <3>1. CASE UNCHANGED users
      BY <3>1 DEF storage!StorageTypeOK
    <3>2. ASSUME NEW err \in Codes, storage!UpdateUser(snap[p], err)
          PROVE  storage!StorageTypeOK'
      BY <2>0, <3>2, WriteKeepsType
    <3> QED
      BY <3>1, <3>2 DEF Unavailable
  <2>2. ControlOK'
    BY DEF ControlOK, Labels, Answer, Return
  <2>3. ASSUME NEW q \in Procs PROVE RequestOK(q)'
    BY DEF RequestOK, ControlOK, Answer, Return, locals
  <2>4. LocalsOK'
    BY DEF LocalsOK, locals
  <2> QED
    BY <2>1, <2>2, <2>3, <2>4
<1>16. ASSUME NEW p \in Procs, SyncExists(p)
      PROVE  TypeOK'
  <2> USE <1>16 DEF SyncExists
  <2>1. storage!StorageTypeOK'
    BY DEF storage!StorageTypeOK, ReadOnly
  <2>2. ControlOK'
    BY DEF ControlOK, Labels, Answer, Return
  <2>3. ASSUME NEW q \in Procs PROVE RequestOK(q)'
    BY DEF RequestOK, ControlOK, Answer, Return, locals
  <2>4. LocalsOK'
    <3>1. CASE UNCHANGED reply
      BY <3>1 DEF LocalsOK, locals
    <3> QED
      BY <3>1, AnswerKeepsLocals DEF Results
  <2> QED
    BY <2>1, <2>2, <2>3, <2>4
<1>17. ASSUME NEW p \in Procs, SyncWrite(p)
      PROVE  TypeOK'
  <2> USE <1>17 DEF SyncWrite
  <2>0. req[p] \in User
    BY RequestKinds DEF RequestOK
  <2>1. storage!StorageTypeOK'
    <3>1. CASE UNCHANGED users
      BY <3>1 DEF storage!StorageTypeOK
    <3>2. ASSUME NEW err, storage!AddUser(req[p], err)
          PROVE  storage!StorageTypeOK'
      BY <2>0, <3>2, WriteKeepsType
    <3>3. ASSUME NEW err, storage!UpdateUser(req[p], err)
          PROVE  storage!StorageTypeOK'
      BY <2>0, <3>3, WriteKeepsType
    <3> QED
      BY <3>1, <3>2, <3>3 DEF Unavailable
  <2>2. ControlOK'
    BY DEF ControlOK, Labels, Answer, Return
  <2>3. ASSUME NEW q \in Procs PROVE RequestOK(q)'
    BY DEF RequestOK, ControlOK, Answer, Return, locals
  <2>4. LocalsOK'
    BY AnswerKeepsLocals DEF Results
  <2> QED
    BY <2>1, <2>2, <2>3, <2>4
<1>18. ASSUME NEW p \in Procs, SendReply(p)
      PROVE  TypeOK'
  <2> USE <1>18 DEF SendReply
  <2>1. storage!StorageTypeOK'
    BY DEF storage!StorageTypeOK, ReadOnly
  <2>2. ControlOK'
    BY DEF ControlOK, Labels, Answer, Return, NextMessage
  <2>3. ASSUME NEW q \in Procs PROVE RequestOK(q)'
    BY DEF RequestOK, ControlOK, NextMessage
  <2>4. LocalsOK'
    <3>1. tally' \in [Procs -> [received : 0 .. MaxMsgs, added : Nat, failed : Nat]]
      BY DEF LocalsOK
    <3> QED
      BY <3>1, NextMessageKeepsLocals
  <2> QED
    BY <2>1, <2>2, <2>3, <2>4
<1>19. ASSUME NEW p \in Procs, SendFails(p)
      PROVE  TypeOK'
  <2> USE <1>19 DEF SendFails
  <2>1. storage!StorageTypeOK'
    BY DEF storage!StorageTypeOK, ReadOnly
  <2>2. ControlOK'
    BY DEF ControlOK, Labels, Answer, Return
  <2>3. ASSUME NEW q \in Procs PROVE RequestOK(q)'
    BY DEF RequestOK, ControlOK, Answer, Return, locals
  <2>4. LocalsOK'
    BY ReturnKeepsLocals DEF Codes
  <2> QED
    BY <2>1, <2>2, <2>3, <2>4
<1>20. ASSUME NEW p \in Procs, Call(p)
      PROVE  TypeOK'
  <2> USE <1>20 DEF Call
  <2>1. storage!StorageTypeOK'
    BY DEF storage!StorageTypeOK, ReadOnly
  <2>2. ControlOK'
    BY DEF ControlOK, Labels
  <2>3. ASSUME NEW q \in Procs PROVE RequestOK(q)'
    <3>1. PICK m \in Methods :
            /\ method' = [method EXCEPT ![p] = m]
            /\ \/ Goto(p, "recv")
               \/ Goto(p, "start") /\ req'[p] \in Requests(m)
            /\ \A r \in Procs \ {p} : req'[r] = req[r]
      BY TrafficAssumption DEF ControlOK
    <3>2. m # "none"
      BY TrafficAssumption DEF MethodNames, ClientStreams, ServerStreams, Unary
    <3> QED
      BY <3>1, <3>2 DEF RequestOK, ControlOK, locals
  <2>4. LocalsOK'
    BY DEF LocalsOK, locals
  <2> QED
    BY <2>1, <2>2, <2>3, <2>4
<1>21. ASSUME NEW p \in Procs, Finish(p)
      PROVE  TypeOK'
  <2> USE <1>21 DEF Finish
  <2>1. storage!StorageTypeOK'
    BY DEF storage!StorageTypeOK, ReadOnly
  <2>2. ControlOK'
    BY DEF ControlOK, Labels
  <2>3. ASSUME NEW q \in Procs PROVE RequestOK(q)'
    BY DEF RequestOK, ControlOK
  <2>4. LocalsOK'
    BY MaxMsgsAssumption DEF LocalsOK, NoTally, NoReply
  <2> QED
    BY <2>1, <2>2, <2>3, <2>4
<1>22. ASSUME Tick
      PROVE  TypeOK'
  <2>1. storage!StorageTypeOK'
    BY <1>22, MaxTimeAssumption DEF Tick, storage!Tick, storage!StorageTypeOK
  <2> QED
    BY <1>22, <2>1 DEF Tick, ControlOK, RequestOK, LocalsOK, locals
<1>23. ASSUME UNCHANGED vars
      PROVE  TypeOK'
  BY <1>23 DEF vars, storage!StorageTypeOK, ControlOK, RequestOK, LocalsOK
<1> QED
  BY <1>1, <1>2, <1>3, <1>4, <1>5, <1>6, <1>7, <1>8, <1>9, <1>10, <1>11,
     <1>12, <1>13, <1>14, <1>15, <1>16, <1>17, <1>18, <1>19, <1>20, <1>21,
     <1>22, <1>23 DEF Next, Handle, Exchange

(* Every variable keeps its type: a handler never acts on a request of      *)
(* another method or on a user it has not read, and the map never holds     *)
(* anything but users.                                                      *)
THEOREM Typing == Spec => []TypeOK
BY InitTypeOK, NextTypeOK, PTL DEF Spec
-----------------------------------------------------------------------------
(* What a step does to the stored users, and what brings a goroutine to a   *)
(* write: all that the invariants below need to know of Next.               *)

Adds(p) ==
  /\ pc'[p] # pc[p]
  /\ \/ At(p, "AddUser", "add") \/ At(p, "SyncUsers", "add")
     \/ At(p, "BatchAddUsers", "start") /\ req[p].id # 0
  /\ storage!AddUser(req[p], "OK")

Rewrites(p) ==
  /\ At(p, "UpdateUser", "update") \/ At(p, "UserActivityStream", "update")
  /\ storage!UpdateUser(snap[p], "OK")

Overwrites(p) ==
  /\ At(p, "SyncUsers", "update") /\ pc'[p] = "send"
  /\ storage!UpdateUser(req[p], "OK")

Deletes(p) ==
  /\ At(p, "DeleteUser", "start") /\ req[p].id # 0
  /\ storage!DeleteUser(req[p].id, "OK")

Effect ==
  \/ UNCHANGED users
  \/ \E p \in Procs : Adds(p) \/ Rewrites(p) \/ Overwrites(p) \/ Deletes(p)

Approach(q) ==
  \/ UNCHANGED <<pc[q], method[q], req[q], snap[q]>>
  \/ pc'[q] \notin {"add", "update"}
  \/ /\ At(q, "AddUser", "start") /\ Acceptable(req[q], storage!Count)
     /\ pc'[q] = "add" /\ UNCHANGED <<users, method[q], req[q]>>
  \/ /\ At(q, "SyncUsers", "start") /\ req[q].id # 0
     /\ UNCHANGED <<users, method[q], req[q]>>
  \/ /\ At(q, "UpdateUser", "start") /\ req[q].user \in User
     /\ storage!GetUser(req[q].user.id) \in User
     /\ snap'[q] = Overlay(storage!GetUser(req[q].user.id), req[q].user,
                           req[q].paths)
     /\ UNCHANGED <<users, method[q], req[q]>>
  \/ /\ At(q, "UserActivityStream", "get") /\ req[q] \in Activity
     /\ storage!GetUser(req[q].user_id) \in User
     /\ snap'[q] = [storage!GetUser(req[q].user_id) EXCEPT
                      !.last_login = req[q].timestamp]
     /\ UNCHANGED <<users, method[q], req[q]>>

(* Every step has one of the effects above on the storage. *)
LEMMA StepEffect == TypeOK /\ [Next]_vars => Effect
<1> SUFFICES ASSUME TypeOK, [Next]_vars
             PROVE  Effect
  OBVIOUS
<1> USE DEF Effect, TypeOK, ControlOK, At, Goto
<1>1. ASSUME NEW p \in Procs, AddUserStore(p)
      PROVE  Effect
  BY <1>1 DEF AddUserStore, Answer, Return, Unavailable, Adds, Rewrites,
            Overwrites, Deletes, storage!AddUser, storage!UpdateUser,
            storage!DeleteUser
<1>2. ASSUME NEW p \in Procs, UpdateUserWrite(p)
      PROVE  Effect
  BY <1>2 DEF UpdateUserWrite, Answer, Return, Unavailable, Adds, Rewrites,
            Overwrites, Deletes, storage!AddUser, storage!UpdateUser,
            storage!DeleteUser
<1>3. ASSUME NEW p \in Procs, DeleteUser(p)
      PROVE  Effect
  BY <1>3 DEF DeleteUser, Answer, Return, Unavailable, Adds, Rewrites,
            Overwrites, Deletes, storage!AddUser, storage!UpdateUser,
            storage!DeleteUser
<1>4. ASSUME NEW p \in Procs, BatchAddUser(p)
      PROVE  Effect
  BY <1>4 DEF BatchAddUser, Answer, Return, NextMessage, Unavailable, Adds, Rewrites,
            Overwrites, Deletes, storage!AddUser, storage!UpdateUser,
            storage!DeleteUser
<1>5. ASSUME NEW p \in Procs, ActivityWrite(p)
      PROVE  Effect
  BY <1>5 DEF ActivityWrite, Answer, Return, Unavailable, Adds, Rewrites,
            Overwrites, Deletes, storage!AddUser, storage!UpdateUser,
            storage!DeleteUser
<1>6. ASSUME NEW p \in Procs, SyncWrite(p)
      PROVE  Effect
  BY <1>6 DEF SyncWrite, Answer, Return, Unavailable, Adds, Rewrites,
            Overwrites, Deletes, storage!AddUser, storage!UpdateUser,
            storage!DeleteUser
<1>7. ASSUME NEW p \in Procs,
               \/ AddUserCount(p) \/ GetUser(p) \/ UpdateUserRead(p)
               \/ ListUsers(p) \/ ListUsersByRole(p) \/ SendUser(p)
               \/ RecvMessage(p) \/ RecvEnd(p) \/ ActivityExists(p)
               \/ ActivityRead(p) \/ SyncExists(p) \/ SendReply(p)
               \/ SendFails(p) \/ Call(p) \/ Finish(p)
      PROVE  UNCHANGED users
  BY <1>7 DEF ReadOnly, StartListing, AddUserCount, GetUser, UpdateUserRead, ListUsers, ListUsersByRole,
       SendUser, RecvMessage, RecvEnd, ActivityExists, ActivityRead,
       SyncExists, SendReply, SendFails, Call, Finish
<1>8. ASSUME Tick \/ UNCHANGED vars
      PROVE  UNCHANGED users
  BY <1>8 DEF Tick, storage!Tick, vars
<1> QED
  BY <1>1, <1>2, <1>3, <1>4, <1>5, <1>6, <1>7, <1>8 DEF Next, Handle, Exchange

(* Every step brings a handler to a write in one of the ways above. *)
LEMMA StepApproach ==
  ASSUME TypeOK, [Next]_vars, NEW q \in Procs
  PROVE  Approach(q)
<1> USE DEF Approach, TypeOK, ControlOK, LocalsOK, At, Goto
<1>1. ASSUME NEW p \in Procs, AddUserCount(p)
      PROVE  Approach(q)
  BY <1>1 DEF AddUserCount, Answer, Return, ReadOnly, locals
<1>2. ASSUME NEW p \in Procs, AddUserStore(p)
      PROVE  Approach(q)
  BY <1>2 DEF AddUserStore, Answer, Return, ReadOnly, locals
<1>3. ASSUME NEW p \in Procs, GetUser(p)
      PROVE  Approach(q)
  BY <1>3 DEF GetUser, Answer, Return, ReadOnly, locals
<1>4. ASSUME NEW p \in Procs, UpdateUserRead(p)
      PROVE  Approach(q)
  <2>1. CASE q = p /\ pc'[p] = "update"
    <3>1. req[p] \in [user : User \cup {Nil},
                      paths : SUBSET (Paths \cup {"bogus"})]
      BY <1>4, RequestKinds DEF RequestOK, UpdateUserRead
    <3>2. /\ req[p].user \in User /\ storage!GetUser(req[p].user.id) # Nil
          /\ snap'[p] = Overlay(storage!GetUser(req[p].user.id), req[p].user,
                                req[p].paths)
      BY <1>4, <2>1, <3>1 DEF UpdateUserRead, Answer, Return
    <3>3. storage!GetUser(req[p].user.id) \in User
      BY <3>2, GetUserReturns DEF User
    <3> QED
      BY <1>4, <2>1, <3>2, <3>3 DEF UpdateUserRead, ReadOnly
  <2> QED
    BY <1>4, <2>1 DEF UpdateUserRead, Answer, Return
<1>5. ASSUME NEW p \in Procs, UpdateUserWrite(p)
      PROVE  Approach(q)
  BY <1>5 DEF UpdateUserWrite, Answer, Return, ReadOnly, locals
<1>6. ASSUME NEW p \in Procs, DeleteUser(p)
      PROVE  Approach(q)
  BY <1>6 DEF DeleteUser, Answer, Return, ReadOnly, locals
<1>7. ASSUME NEW p \in Procs, ListUsers(p)
      PROVE  Approach(q)
  BY <1>7 DEF ListUsers, StartListing, Answer, Return, ReadOnly, locals
<1>8. ASSUME NEW p \in Procs, ListUsersByRole(p)
      PROVE  Approach(q)
  BY <1>8 DEF ListUsersByRole, StartListing, Answer, Return, ReadOnly, locals
<1>9. ASSUME NEW p \in Procs, SendUser(p)
      PROVE  Approach(q)
  BY <1>9 DEF SendUser, Answer, Return, ReadOnly, locals
<1>10. ASSUME NEW p \in Procs, RecvMessage(p)
      PROVE  Approach(q)
  BY <1>10 DEF RecvMessage, Answer, Return, ReadOnly, locals
<1>11. ASSUME NEW p \in Procs, RecvEnd(p)
      PROVE  Approach(q)
  BY <1>11 DEF RecvEnd, Answer, Return, ReadOnly, locals
<1>12. ASSUME NEW p \in Procs, BatchAddUser(p)
      PROVE  Approach(q)
  BY <1>12 DEF BatchAddUser, NextMessage, Answer, Return, ReadOnly, locals
<1>13. ASSUME NEW p \in Procs, ActivityExists(p)
      PROVE  Approach(q)
  BY <1>13 DEF ActivityExists, Answer, Return, ReadOnly, locals
<1>14. ASSUME NEW p \in Procs, ActivityRead(p)
      PROVE  Approach(q)
  <2>1. CASE q = p /\ pc'[p] = "update"
    <3>0. req[p] \in Activity
      BY <1>14, RequestKinds DEF RequestOK, ActivityRead
    <3>1. req[p].user_id \in Ids
      BY <3>0 DEF Activity
    <3>2. /\ storage!GetUser(req[p].user_id) # Nil
          /\ snap'[p] = [storage!GetUser(req[p].user_id) EXCEPT
                           !.last_login = req[p].timestamp]
      BY <1>14, <2>1 DEF ActivityRead
    <3>3. storage!GetUser(req[p].user_id) \in User
      BY <3>1, <3>2, GetUserReturns
    <3> QED
      BY <1>14, <2>1, <3>0, <3>2, <3>3 DEF ActivityRead, ReadOnly
  <2> QED
    BY <1>14, <2>1 DEF ActivityRead
<1>15. ASSUME NEW p \in Procs, ActivityWrite(p)
      PROVE  Approach(q)
  BY <1>15 DEF ActivityWrite, Answer, Return, ReadOnly, locals
<1>16. ASSUME NEW p \in Procs, SyncExists(p)
      PROVE  Approach(q)
  BY <1>16 DEF SyncExists, Answer, Return, ReadOnly, locals
<1>17. ASSUME NEW p \in Procs, SyncWrite(p)
      PROVE  Approach(q)
  BY <1>17 DEF SyncWrite, Answer, Return, ReadOnly, locals
<1>18. ASSUME NEW p \in Procs, SendReply(p)
      PROVE  Approach(q)
  BY <1>18 DEF SendReply, NextMessage, Answer, Return, ReadOnly, locals
<1>19. ASSUME NEW p \in Procs, SendFails(p)
      PROVE  Approach(q)
  BY <1>19 DEF SendFails, Answer, Return, ReadOnly, locals
<1>20. ASSUME NEW p \in Procs, Call(p)
      PROVE  Approach(q)
  BY <1>20 DEF Call, Answer, Return, ReadOnly, locals
<1>21. ASSUME NEW p \in Procs, Finish(p)
      PROVE  Approach(q)
  BY <1>21 DEF Finish, Answer, Return, ReadOnly, locals
<1>22. ASSUME Tick \/ UNCHANGED vars
      PROVE  Approach(q)
  BY <1>22 DEF Tick, vars, locals
<1> QED
  BY <1>1, <1>2, <1>3, <1>4, <1>5, <1>6, <1>7, <1>8, <1>9, <1>10, <1>11,
     <1>12, <1>13, <1>14, <1>15, <1>16, <1>17, <1>18, <1>19, <1>20, <1>21,
     <1>22 DEF Next, Handle, Exchange

-----------------------------------------------------------------------------
(* A user appears only where one is added: the write of an update finds the *)
(* user there or does nothing.                                              *)
THEOREM NoResurrection == Spec => AppearsOnlyByAdding
<1>1. TypeOK /\ [Next]_vars =>
        [\A id \in storage!Live' \ storage!Live :
           \E p \in Procs :
             /\ \/ At(p, "AddUser", "add") \/ At(p, "SyncUsers", "add")
                \/ At(p, "BatchAddUsers", "start")
             /\ req[p].id = id /\ pc'[p] # pc[p]]_vars
  <2> SUFFICES ASSUME TypeOK, [Next]_vars,
                      NEW id \in storage!Live', id \notin storage!Live
               PROVE  \E p \in Procs :
                        /\ \/ At(p, "AddUser", "add") \/ At(p, "SyncUsers", "add")
                           \/ At(p, "BatchAddUsers", "start")
                        /\ req[p].id = id /\ pc'[p] # pc[p]
    OBVIOUS
  <2>1. id \in Ids /\ users[id] = Nil /\ users'[id] # Nil
    BY DEF storage!Live, storage!UserExists
  <2>2. users \in [Ids -> User \cup {Nil}]
    BY SameData DEF TypeOK, storage!StorageTypeOK
  <2>3. Effect
    BY StepEffect
  <2>4. ~UNCHANGED users
    BY <2>1
  <2>5. ASSUME NEW p \in Procs, Adds(p)
        PROVE  req[p].id = id /\ pc'[p] # pc[p]
    BY <2>1, <2>2, <2>5 DEF Adds, storage!AddUser
  <2>6. ASSUME NEW p \in Procs, Rewrites(p) \/ Overwrites(p) \/ Deletes(p)
        PROVE  FALSE
    BY <2>1, <2>2, <2>6
       DEF Rewrites, Overwrites, Deletes, storage!UpdateUser,
           storage!DeleteUser, storage!UserExists
  <2> QED
    BY <2>3, <2>4, <2>5, <2>6 DEF Effect, Adds
<1> QED
  BY <1>1, Typing, PTL DEF Spec, AppearsOnlyByAdding

-----------------------------------------------------------------------------
(* What is about to be added, or to overwrite, has been checked for its id. *)
Checked(p) ==
  At(p, "AddUser", "add") \/ At(p, "SyncUsers", "add")
    \/ At(p, "SyncUsers", "update") => req[p].id # 0

OwnIdInv == TypeOK /\ StoredUnderOwnId /\ \A p \in Procs : Checked(p)

(* The empty map has every user under its own id. *)
LEMMA InitOwnIdInv == Init => OwnIdInv
BY InitTypeOK
   DEF Init, OwnIdInv, StoredUnderOwnId, Checked, At, storage!Init,
       storage!UserExists

(* No step stores a user under another's id. *)
LEMMA NextOwnIdInv == OwnIdInv /\ [Next]_vars => OwnIdInv'
<1> SUFFICES ASSUME OwnIdInv, [Next]_vars
             PROVE  OwnIdInv'
  OBVIOUS
<1>1. TypeOK /\ TypeOK'
  BY NextTypeOK DEF OwnIdInv
<1>2. ASSUME NEW q \in Procs
      PROVE  Checked(q)'
  <2>1. Approach(q)
    BY <1>1, StepApproach
  <2> QED
    BY <2>1 DEF Approach, OwnIdInv, Checked, At, Acceptable
<1>3. StoredUnderOwnId'
  <2> SUFFICES ASSUME NEW id \in Ids, users'[id] # Nil
               PROVE  id # 0 /\ users'[id].id = id
    BY DEF StoredUnderOwnId, storage!UserExists
  <2>1. users \in [Ids -> User \cup {Nil}]
    BY <1>1, SameData DEF TypeOK, storage!StorageTypeOK
  <2>2. users[id] # Nil => id # 0 /\ users[id].id = id
    BY DEF OwnIdInv, StoredUnderOwnId, storage!UserExists
  <2>3. ASSUME NEW p \in Procs, Adds(p)
        PROVE  id # 0 /\ users'[id].id = id
    <3>1. req[p] \in User /\ req[p].id # 0
      BY <1>1, <2>3, RequestKinds
         DEF Adds, OwnIdInv, Checked, TypeOK, RequestOK, At
    <3>2. storage!cloneUser(storage!WithDefaults(req[p])).id = req[p].id
      BY <1>1, <3>1, CloneIsUser, DefaultsAreUser
         DEF TypeOK, storage!StorageTypeOK
    <3> QED
      BY <2>1, <2>2, <2>3, <3>1, <3>2 DEF Adds, storage!AddUser
  <2>4. ASSUME NEW p \in Procs, NEW user \in User,
               storage!UpdateUser(user, "OK")
        PROVE  id # 0 /\ users'[id].id = id
    BY <2>1, <2>2, <2>4, CloneIsUser
       DEF storage!UpdateUser, storage!UserExists
  <2>5. ASSUME NEW p \in Procs, Rewrites(p) \/ Overwrites(p)
        PROVE  \E user \in User : storage!UpdateUser(user, "OK")
    BY <1>1, <2>5, RequestKinds
       DEF Rewrites, Overwrites, TypeOK, RequestOK, LocalsOK, At
  <2>6. ASSUME NEW p \in Procs, Deletes(p)
        PROVE  id # 0 /\ users'[id].id = id
    BY <2>1, <2>2, <2>6 DEF Deletes, storage!DeleteUser
  <2>7. Effect
    BY <1>1, StepEffect
  <2> QED
    BY <2>2, <2>3, <2>4, <2>5, <2>6, <2>7 DEF Effect
<1> QED
  BY <1>1, <1>2, <1>3 DEF OwnIdInv

(* The map holds each user under its own id, and never under the invalid 0. *)
THEOREM OwnId == Spec => []StoredUnderOwnId
<1>1. OwnIdInv => StoredUnderOwnId
  BY DEF OwnIdInv
<1> QED
  BY <1>1, InitOwnIdInv, NextOwnIdInv, PTL DEF Spec

-----------------------------------------------------------------------------
(* The first user. While none is ever deleted, a count that was not 0 when  *)
(* AddUser checked it is still not 0 when it adds the user.                 *)
AdminInv ==
  /\ TypeOK
  /\ \A p \in Procs :
       At(p, "AddUser", "add") /\ req[p].role # "ADMIN" => storage!Live # {}

(* The count is zero just when there are no users. *)
LEMMA CountZero == storage!Count = 0 <=> storage!Live = {}
<1>1. storage!Live \subseteq Ids
  BY DEF storage!Live
<1>2. IsFiniteSet(storage!Live)
  BY <1>1, IdsAssumption, FS_Subset
<1>3. storage!Count = Cardinality(storage!Live)
  BY DEF storage!Count, storage!Cardinality, Cardinality
<1> QED
  BY <1>2, <1>3, FS_EmptySet

(* Where nothing deletes, who is there stays. *)
LEMMA LiveGrows ==
  ASSUME TypeOK, [Next]_vars, "DeleteUser" \notin Methods
  PROVE  storage!Live \subseteq storage!Live'
<1> SUFFICES ASSUME NEW id \in Ids, users[id] # Nil
             PROVE  users'[id] # Nil
  BY DEF storage!Live, storage!UserExists
<1>1. users \in [Ids -> User \cup {Nil}]
  BY SameData DEF TypeOK, storage!StorageTypeOK
<1>2. TypeOK'
  BY NextTypeOK
<1>3. ASSUME NEW p \in Procs, Adds(p)
      PROVE  users'[id] # Nil
  BY <1>1, <1>3 DEF Adds, storage!AddUser, storage!UserExists
<1>4. ASSUME NEW p \in Procs, NEW user \in User, storage!UpdateUser(user, "OK")
      PROVE  users'[id] # Nil
  BY <1>1, <1>4, CloneIsUser, NilAssumption DEF storage!UpdateUser
<1>5. ASSUME NEW p \in Procs, Rewrites(p) \/ Overwrites(p)
      PROVE  \E user \in User : storage!UpdateUser(user, "OK")
  BY <1>5, RequestKinds
     DEF Rewrites, Overwrites, TypeOK, RequestOK, LocalsOK, At
<1>6. ASSUME NEW p \in Procs
      PROVE  ~Deletes(p)
  BY DEF Deletes, At, TypeOK, ControlOK
<1> QED
  BY StepEffect, <1>3, <1>4, <1>5, <1>6 DEF Effect

(* Nobody is about to be stored when the server starts. *)
LEMMA InitAdminInv == Init => AdminInv
BY InitTypeOK DEF Init, AdminInv, At

(* No step lets one who is no admin approach an empty storage. *)
LEMMA NextAdminInv ==
  ASSUME "DeleteUser" \notin Methods
  PROVE  AdminInv /\ [Next]_vars => AdminInv'
<1> SUFFICES ASSUME AdminInv, [Next]_vars
             PROVE  AdminInv'
  OBVIOUS
<1>1. TypeOK /\ TypeOK'
  BY NextTypeOK DEF AdminInv
<1>2. ASSUME NEW q \in Procs, At(q, "AddUser", "add")', req'[q].role # "ADMIN"
      PROVE  storage!Live' # {}
  <2>1. Approach(q)
    BY <1>1, StepApproach
  <2>2. storage!Live # {}
    BY <1>2, <2>1, CountZero DEF Approach, AdminInv, At, Acceptable
  <2> QED
    BY <1>1, <2>2, LiveGrows
<1> QED
  BY <1>1, <1>2 DEF AdminInv

(* Where users are created by AddUser alone and never deleted, the first    *)
(* one is an admin, however many calls race to be the first.                *)
THEOREM FirstAdmin ==
  ASSUME Methods \cap {"DeleteUser", "BatchAddUsers", "SyncUsers"} = {}
  PROVE  Spec => FirstUserIsAdmin
<1>1. AdminInv /\ [Next]_vars =>
        [storage!Live = {} =>
           \A id \in storage!Live' : users'[id].role = "ADMIN"]_vars
  <2> SUFFICES ASSUME AdminInv, [Next]_vars, storage!Live = {},
                      NEW id \in storage!Live'
               PROVE  users'[id].role = "ADMIN"
    OBVIOUS
  <2>1. TypeOK
    BY DEF AdminInv
  <2>2. users \in [Ids -> User \cup {Nil}]
    BY <2>1, SameData DEF TypeOK, storage!StorageTypeOK
  <2>3. \A i \in Ids : users[i] = Nil
    BY DEF storage!Live, storage!UserExists
  <2>4. id \in Ids /\ users'[id] # Nil
    BY DEF storage!Live, storage!UserExists
  <2>5. PICK p \in Procs :
          Adds(p) \/ Rewrites(p) \/ Overwrites(p) \/ Deletes(p)
    BY <2>1, <2>3, <2>4, StepEffect DEF Effect
  <2>6. ~Deletes(p) /\ ~Overwrites(p)
    BY <2>1 DEF Deletes, Overwrites, At, TypeOK, ControlOK
  <2>7. ~Rewrites(p)
    <3>1. Rewrites(p) => snap[p].id \in Ids
      BY <2>1 DEF Rewrites, TypeOK, RequestOK, LocalsOK, At, User
    <3> QED
      BY <2>3, <3>1 DEF Rewrites, storage!UpdateUser, storage!UserExists
  <2>8. At(p, "AddUser", "add")
    BY <2>1, <2>5, <2>6, <2>7 DEF Adds, At, TypeOK, ControlOK
  <2>9. req[p] \in User /\ req[p].role = "ADMIN"
    BY <2>1, <2>8, RequestKinds DEF AdminInv, TypeOK, RequestOK, At
  <2>10. storage!cloneUser(storage!WithDefaults(req[p])).role = "ADMIN"
    BY <2>1, <2>9, CloneIsUser, DefaultsAreUser
       DEF TypeOK, storage!StorageTypeOK
  <2> QED
    BY <2>2, <2>3, <2>4, <2>5, <2>6, <2>7, <2>10 DEF Adds, storage!AddUser
<1>2. Init => AdminInv
  BY InitAdminInv
<1>3. AdminInv /\ [Next]_vars => AdminInv'
  BY NextAdminInv
<1> QED
  BY <1>1, <1>2, <1>3, PTL DEF Spec, FirstUserIsAdmin
-----------------------------------------------------------------------------
(* The create date. While nobody is deleted or synchronised, a user held    *)
(* for writing back is still there, and has the date it had.                *)
Held(p) ==
  At(p, "UpdateUser", "update") \/ At(p, "UserActivityStream", "update") =>
    /\ users[snap[p].id] # Nil
    /\ users[snap[p].id].create_date = snap[p].create_date

HeldInv == OwnIdInv /\ \A p \in Procs : Held(p)

(* No step then takes a user away or gives it another date.                 *)
LEMMA DateIsKept ==
  ASSUME Methods \cap {"DeleteUser", "SyncUsers"} = {}, HeldInv, [Next]_vars,
         NEW id \in Ids, users[id] # Nil
  PROVE  users'[id] # Nil /\ users'[id].create_date = users[id].create_date
<1>1. TypeOK
  BY DEF HeldInv, OwnIdInv
<1>2. users \in [Ids -> User \cup {Nil}]
  BY <1>1, SameData DEF TypeOK, storage!StorageTypeOK
<1>3. ASSUME NEW p \in Procs, Adds(p)
      PROVE  users'[id] = users[id]
  BY <1>2, <1>3 DEF Adds, storage!AddUser, storage!UserExists
<1>4. ASSUME NEW p \in Procs, Rewrites(p)
      PROVE  users'[id] # Nil /\ users'[id].create_date = users[id].create_date
  <2>1. snap[p] \in User
    BY <1>1, <1>4 DEF Rewrites, TypeOK, RequestOK, LocalsOK, At
  <2>2. users' = [users EXCEPT ![snap[p].id] = storage!cloneUser(snap[p])]
    BY <1>4 DEF Rewrites, storage!UpdateUser
  <2>3. users[snap[p].id].create_date = snap[p].create_date
    BY <1>4 DEF HeldInv, Held, Rewrites
  <2>4. /\ storage!cloneUser(snap[p]) # Nil
        /\ storage!cloneUser(snap[p]).create_date = snap[p].create_date
    BY <2>1, CloneIsUser, NilAssumption
  <2> QED
    BY <1>2, <2>2, <2>3, <2>4
<1>5. ASSUME NEW p \in Procs, Overwrites(p) \/ Deletes(p)
      PROVE  FALSE
  BY <1>1, <1>5 DEF Overwrites, Deletes, At, TypeOK, ControlOK
<1> QED
  BY <1>1, <1>3, <1>4, <1>5, StepEffect DEF Effect

(* What is read for writing back is what is there.                          *)
LEMMA NextHeldInv ==
  ASSUME Methods \cap {"DeleteUser", "SyncUsers"} = {}, HeldInv, [Next]_vars
  PROVE  HeldInv'
<1>1. OwnIdInv /\ OwnIdInv'
  BY NextOwnIdInv DEF HeldInv
<1>2. TypeOK /\ TypeOK'
  BY <1>1 DEF OwnIdInv
<1>3. ASSUME NEW q \in Procs,
             At(q, "UpdateUser", "update")' \/ At(q, "UserActivityStream", "update")'
      PROVE  /\ users'[snap'[q].id] # Nil
             /\ users'[snap'[q].id].create_date = snap'[q].create_date
  <2>1. CASE UNCHANGED <<pc[q], method[q], req[q], snap[q]>>
    <3>1. At(q, "UpdateUser", "update") \/ At(q, "UserActivityStream", "update")
      BY <1>3, <2>1 DEF At
    <3>2. snap[q].id \in Ids
      BY <1>2, <3>1 DEF TypeOK, RequestOK, LocalsOK, At, User
    <3> QED
      BY <2>1, <3>1, <3>2, DateIsKept DEF HeldInv, Held
  <2>2. ASSUME NEW id \in Ids, storage!GetUser(id) \in User, UNCHANGED users,
               snap'[q].id = storage!GetUser(id).id,
               snap'[q].create_date = storage!GetUser(id).create_date
        PROVE  /\ users'[snap'[q].id] # Nil
               /\ users'[snap'[q].id].create_date = snap'[q].create_date
    <3>1. /\ users[id] # Nil /\ snap'[q].id = users[id].id
          /\ snap'[q].create_date = users[id].create_date
      BY <1>2, <2>2, GetUserReturns, NilAssumption DEF TypeOK, storage!UserExists
    <3>2. users[id].id = id
      BY <1>1, <3>1 DEF OwnIdInv, StoredUnderOwnId, storage!UserExists
    <3> QED
      BY <2>2, <3>1, <3>2
  <2>3. CASE /\ req[q].user \in User
             /\ storage!GetUser(req[q].user.id) \in User
             /\ snap'[q] = Overlay(storage!GetUser(req[q].user.id), req[q].user,
                                   req[q].paths)
             /\ UNCHANGED users
    <3>1. req[q].user.id \in Ids
      BY <2>3 DEF User
    <3> QED
      BY <2>2, <2>3, <3>1, OverlayIsUser
  <2>4. CASE /\ req[q] \in Activity
             /\ storage!GetUser(req[q].user_id) \in User
             /\ snap'[q] = [storage!GetUser(req[q].user_id) EXCEPT
                              !.last_login = req[q].timestamp]
             /\ UNCHANGED users
    <3>1. req[q].user_id \in Ids
      BY <2>4 DEF Activity
    <3>2. /\ snap'[q].id = storage!GetUser(req[q].user_id).id
          /\ snap'[q].create_date = storage!GetUser(req[q].user_id).create_date
      BY <2>4 DEF User
    <3> QED
      BY <2>2, <2>4, <3>1, <3>2
  <2>5. Approach(q)
    BY <1>2, StepApproach
  <2> QED
    BY <1>3, <2>1, <2>3, <2>4, <2>5 DEF Approach, At
<1> QED
  BY <1>1, <1>3 DEF HeldInv, Held

(* "Update all fields except ... create_date" (server.go:127) is true where *)
(* users are neither deleted nor synchronised: then every update and every  *)
(* login, however old the user it writes back, leaves the date as it is.    *)
THEOREM DateIsNotUpdated ==
  ASSUME Methods \cap {"DeleteUser", "SyncUsers"} = {}
  PROVE  Spec => UpdateKeepsCreateDate
<1> DEFINE Kept ==
      \A p \in Procs : \A id \in storage!Live :
        Wrote(p, "UpdateUser", "update") =>
          users'[id].create_date = users[id].create_date
<1>1. Init => HeldInv
  BY InitOwnIdInv DEF Init, HeldInv, Held, At
<1>2. HeldInv /\ [Next]_vars => HeldInv'
  BY NextHeldInv
<1>3. HeldInv /\ [Next]_vars => [Kept]_vars
  BY DateIsKept DEF storage!Live, storage!UserExists
<1>4. UpdateKeepsCreateDate <=> [][Kept]_vars
  BY DEF UpdateKeepsCreateDate
<1> QED
  BY <1>1, <1>2, <1>3, <1>4, PTL DEF Spec
-----------------------------------------------------------------------------
(* The step of a goroutine leaves where another one is and what it holds.   *)
LEMMA OthersStay ==
  ASSUME TypeOK, NEW d \in Procs, Handle(d) \/ Exchange(d), NEW p \in Procs, d # p
  PROVE  UNCHANGED <<pc[p], method[p], req[p], pending[p], tally[p], reply[p]>>
<1> USE DEF TypeOK, ControlOK, LocalsOK, Goto, Answer, Return, NextMessage, locals
<1>1. CASE Handle(d)
  BY <1>1
     DEF Handle, AddUserCount, AddUserStore, GetUser, UpdateUserRead,
         UpdateUserWrite, DeleteUser, ListUsers, ListUsersByRole, StartListing,
         BatchAddUser, ActivityExists, ActivityRead, ActivityWrite, SyncExists,
         SyncWrite, Finish
<1>2. CASE Exchange(d)
  BY <1>2
     DEF Exchange, Call, RecvMessage, RecvEnd, SendUser, SendReply, SendFails
<1> QED
  BY <1>1, <1>2

(* A step that is not p's leaves where p is and what it holds.              *)
LEMMA OwnStep ==
  ASSUME TypeOK, [Next]_vars, NEW p \in Procs, ~(Handle(p) \/ Exchange(p))
  PROVE  UNCHANGED <<pc[p], method[p], req[p], pending[p], tally[p], reply[p]>>
<1>1. CASE Tick \/ UNCHANGED vars
  BY <1>1 DEF Tick, vars, locals
<1>2. ASSUME NEW d \in Procs, Handle(d) \/ Exchange(d)
      PROVE  UNCHANGED <<pc[p], method[p], req[p], pending[p], tally[p], reply[p]>>
  BY <1>2, OthersStay
<1> QED
  BY <1>1, <1>2 DEF Next

-----------------------------------------------------------------------------
(* The totals of a batch. Between two messages they add up, while one is    *)
(* worked on it is the only one not yet counted.                            *)
Counted(p) == tally[p].added + tally[p].failed

BatchInv ==
  \A p \in Procs :
    /\ pc[p] = "idle" => tally[p] = NoTally
    /\ method[p] = "BatchAddUsers" =>
         \/ pc[p] \in {"recv", "return"} /\ tally[p].received = Counted(p)
         \/ pc[p] = "start" /\ tally[p].received = Counted(p) + 1

(* Every step of a goroutine keeps its own totals and no other's.           *)
LEMMA BatchStep ==
  ASSUME TypeOK, BatchInv, NEW p \in Procs, Handle(p) \/ Exchange(p)
  PROVE  BatchInv'
<1> USE DEF BatchInv, Counted, Answer, Return, Goto, NextMessage
<1>1. /\ pc \in [Procs -> Labels] /\ method = [q \in Procs |-> method[q]]
      /\ tally \in [Procs -> [received : 0 .. MaxMsgs, added : Nat, failed : Nat]]
  BY DEF TypeOK, ControlOK, LocalsOK
<1>2. ASSUME method' = method, tally' = tally, method[p] # "BatchAddUsers",
             \E label \in Labels \ {"idle"} : pc' = [pc EXCEPT ![p] = label]
      PROVE  BatchInv'
  BY <1>1, <1>2
<1>3. ASSUME AddUserCount(p) \/ AddUserStore(p) \/ GetUser(p) \/ UpdateUserRead(p)
               \/ UpdateUserWrite(p) \/ DeleteUser(p)
      PROVE  BatchInv'
  BY <1>2, <1>3
     DEF AddUserCount, AddUserStore, GetUser, UpdateUserRead, UpdateUserWrite,
         DeleteUser, locals, At, Labels
<1>4. ASSUME ListUsers(p) \/ ListUsersByRole(p) \/ ActivityExists(p)
               \/ ActivityRead(p) \/ ActivityWrite(p) \/ SyncExists(p) \/ SyncWrite(p)
      PROVE  BatchInv'
  BY <1>2, <1>4
     DEF ListUsers, ListUsersByRole, StartListing, ActivityExists, ActivityRead,
         ActivityWrite, SyncExists, SyncWrite, locals, At, Labels
<1>5. ASSUME BatchAddUser(p) PROVE BatchInv'
  <2>1. /\ method' = method /\ method[p] = "BatchAddUsers" /\ pc[p] = "start"
        /\ pc' = [pc EXCEPT ![p] = "recv"]
    BY <1>5 DEF BatchAddUser, At
  <2>2. \/ tally' = [tally EXCEPT ![p].failed = @ + 1]
        \/ tally' = [tally EXCEPT ![p].added = @ + 1]
    BY <1>5 DEF BatchAddUser
  <2>3. tally[p].received = tally[p].added + tally[p].failed + 1
    BY <2>1
  <2> QED
    BY <1>1, <2>1, <2>2, <2>3
<1>6. ASSUME Finish(p) PROVE BatchInv'
  BY <1>1, <1>6 DEF Finish
<1>7. ASSUME Call(p) PROVE BatchInv'
  BY <1>1, <1>7 DEF Call, locals, NoTally, ClientStreams
<1>8. ASSUME RecvMessage(p) PROVE BatchInv'
  BY <1>1, <1>8 DEF RecvMessage
<1>9. ASSUME RecvEnd(p) PROVE BatchInv'
  BY <1>1, <1>9 DEF RecvEnd, locals
<1>10. ASSUME SendUser(p) PROVE BatchInv'
  <2>1. method' = method /\ tally' = tally /\ method[p] # "BatchAddUsers"
    BY <1>10 DEF SendUser, ServerStreams
  <2>2. pc' = pc \/ pc' = [pc EXCEPT ![p] = "return"]
    BY <1>10 DEF SendUser
  <2> QED
    BY <1>1, <1>2, <2>1, <2>2 DEF Labels
<1>11. ASSUME SendReply(p) \/ SendFails(p) PROVE BatchInv'
  <2>1. method' = method /\ tally' = tally /\ method[p] # "BatchAddUsers"
    BY <1>11 DEF SendReply, SendFails, locals
  <2> QED
    BY <1>2, <1>11, <2>1 DEF SendReply, SendFails, Labels
<1> QED
  BY <1>3, <1>4, <1>5, <1>6, <1>7, <1>8, <1>9, <1>10, <1>11 DEF Handle, Exchange

(* Of a batch of any length every message is counted once, as added or as   *)
(* failed, whatever its storage answered.                                   *)
THEOREM TotalsAddUp == Spec => []BatchAddsUp
<1>1. Init => BatchInv
  BY DEF Init, BatchInv
<1>2. TypeOK /\ BatchInv /\ [Next]_vars => BatchInv'
  BY BatchStep DEF Next, Tick, vars, locals, BatchInv, Counted
<1>3. BatchInv => BatchAddsUp
  BY DEF BatchInv, Counted, BatchAddsUp
<1> QED
  BY <1>1, <1>2, <1>3, Typing, PTL DEF Spec
=============================================================================
