----------------------- MODULE PostgresStorageProofs -----------------------
(***************************************************************************)
(* Theorems about the storage in PostgreSQL, for any number of clients,    *)
(* any calls and any pool of connections.                                  *)
(***************************************************************************)
EXTENDS PostgresStorage, FiniteSetTheorems, TLAPS

(* A second statement is that of an update. Without it nothing is known of  *)
(* the call the UPDATE is made for.                                         *)
PostgresInv ==
  /\ TypeOK
  /\ IsFiniteSet(conns)
  /\ \A c \in Clients :
       pc[c] \in {"wait again", "second statement"} =>
         call[c] # Nil /\ call[c].op = "UpdateUser"

-----------------------------------------------------------------------------
(* What is called with, by method. *)
LEMMA CallArguments ==
  ASSUME NEW request \in Calls
  PROVE  /\ request # Nil
         /\ request.op \in {"AddUser", "UpdateUser"} => request.user \in User
         /\ request.op \in {"GetUser", "DeleteUser", "UserExists"} =>
              request.id \in Ids
<1>1. request \in CallSet
  BY CallsAssumption
<1>2. request # Nil
  BY <1>1, NilIsNoCall
<1> QED
  BY <1>1, <1>2 DEF CallSet

(* The rows the statements leave are users with a create date. *)
LEMMA RowIsUser ==
  ASSUME TypeOK, NEW user \in User
  PROVE  /\ user.id \in Ids
         /\ Row(user) \in User /\ Row(user).create_date # NoDate
         /\ users[user.id] # Nil =>
              /\ Row(user).create_date = users[user.id].create_date
              /\ Updated(user) \in User /\ Updated(user).create_date # NoDate
              /\ Updated(user).create_date = users[user.id].create_date
<1>1. user.id \in Ids
  BY DEF User
<1>2. users[user.id] # Nil =>
        users[user.id].create_date \in Dates /\ users[user.id].create_date # NoDate
  BY <1>1 DEF TypeOK, Live, User
<1>3. AsTime(user.create_date) \in Dates /\ AsTime(user.create_date) # NoDate
  BY MaxTimeAssumption DEF AsTime, User, Dates, NoDate
<1> QED
  BY <1>1, <1>2, <1>3 DEF Row, Updated, User

(* A returned connection leaves the pool no fuller, a taken one no fuller   *)
(* than it may be. *)
LEMMA ReleaseFits ==
  ASSUME PostgresInv, NEW c \in Clients, Release(c)
  PROVE  /\ conns' \in SUBSET (Clients \X {"wait", "wait again"})
         /\ IsFiniteSet(conns') /\ Cardinality(conns') <= MaxConns
<1>1. conns' \subseteq conns
  BY DEF Release
<1>2. IsFiniteSet(conns') /\ Cardinality(conns') <= Cardinality(conns)
  BY <1>1, FS_Subset DEF PostgresInv
<1>3. Cardinality(conns) \in Nat /\ Cardinality(conns') \in Nat
  BY <1>2, FS_CardinalityType DEF PostgresInv
<1>4. Cardinality(conns) <= MaxConns
  BY DEF PostgresInv, TypeOK
<1>5. conns' \in SUBSET (Clients \X {"wait", "wait again"})
  BY <1>1 DEF PostgresInv, TypeOK
<1>6. Cardinality(conns') <= MaxConns
  BY <1>2, <1>3, <1>4, MaxConnsAssumption
<1> QED
  BY <1>2, <1>5, <1>6

(* A connection is taken only if one is free, so the pool stays within its  *)
(* bound. *)
LEMMA AcquireFits ==
  ASSUME PostgresInv, NEW c \in Clients, Acquire(c)
  PROVE  /\ conns' \in SUBSET (Clients \X {"wait", "wait again"})
         /\ IsFiniteSet(conns') /\ Cardinality(conns') <= MaxConns
<1>1. conns' = conns \cup {<<c, pc[c]>>} /\ pc[c] \in {"wait", "wait again"}
  BY DEF Acquire, At
<1>2. IsFiniteSet(conns) /\ Cardinality(conns) \in Nat
  BY FS_CardinalityType DEF PostgresInv
<1>3. /\ IsFiniteSet(conns')
      /\ Cardinality(conns') \in {Cardinality(conns), Cardinality(conns) + 1}
  BY <1>1, <1>2, FS_AddElement
<1>4. Cardinality(conns) < MaxConns
  BY DEF Acquire
<1>5. conns \in SUBSET (Clients \X {"wait", "wait again"})
  BY DEF PostgresInv, TypeOK
<1>6. conns' \in SUBSET (Clients \X {"wait", "wait again"})
  <2>1. <<c, pc[c]>> \in Clients \X {"wait", "wait again"}
    BY <1>1
  <2> QED
    BY <1>1, <1>5, <2>1
<1>7. Cardinality(conns') <= MaxConns
  BY <1>2, <1>3, <1>4, MaxConnsAssumption
<1> QED
  BY <1>3, <1>6, <1>7

-----------------------------------------------------------------------------
(* What the table may hold, and the answers. *)
Table == /\ users \in [Ids -> User \cup {Nil}]
         /\ \A id \in Live : users[id].create_date # NoDate
Answered == answer \in [Clients -> Answers \cup {Nil}]

(* An answer that is decided is an answer. *)
LEMMA DecidedType ==
  ASSUME TypeOK, NEW c \in Clients, NEW code \in {"OK", "error"},
         NEW found \in SUBSET User, NEW count \in Nat,
         Decide(c, code, found, count)
  PROVE  Answered'
BY DEF TypeOK, Decide, Answers, Answered

(* Whether the answer of an executed statement comes or is lost, it is an   *)
(* answer. *)
LEMMA ExecutedType ==
  ASSUME TypeOK, NEW c \in Clients,
         Executed(c) \/ Done(c) \/ Refuse(c, "error")
  PROVE  Answered'
BY DecidedType DEF Executed, Done, Refuse

(* A method that ends with an answer, and leaves a table, is no trouble. *)
LEMMA OverKeeps ==
  ASSUME PostgresInv, NEW c \in Clients, Over(c), Table', Answered'
  PROVE  PostgresInv'
<1>1. /\ conns' \in SUBSET (Clients \X {"wait", "wait again"})
      /\ IsFiniteSet(conns') /\ Cardinality(conns') <= MaxConns
  BY ReleaseFits DEF Over
<1>2. TypeOK'
  BY <1>1 DEF PostgresInv, TypeOK, Over, Goto, Table, Answered
<1> QED
  BY <1>1, <1>2 DEF PostgresInv, TypeOK, Over, Goto

(* A row stored or a row gone leaves a table. *)
LEMMA TableKept ==
  ASSUME TypeOK, NEW id \in Ids, NEW row \in User \cup {Nil},
         row # Nil => row.create_date # NoDate,
         users' = [users EXCEPT ![id] = row]
  PROVE  Table'
BY DEF TypeOK, Table, Live

(* A step that does not touch the table leaves a table. *)
LEMMA TableUnchanged ==
  ASSUME TypeOK, UNCHANGED users
  PROVE  Table'
BY DEF TypeOK, Table, Live

(* The database and the pool are empty when the server starts. *)
LEMMA InitInv == Init => PostgresInv
<1>1. IsFiniteSet({}) /\ Cardinality({}) = 0
  BY FS_EmptySet
<1> QED
  BY <1>1, MaxConnsAssumption DEF Init, CallsInit, PostgresInv, TypeOK, Live

(* No step takes a connection too many, stores what is no row, or begins a  *)
(* second statement of another method than UpdateUser. *)
LEMMA NextInv == PostgresInv /\ [Next]_vars => PostgresInv'
<1> SUFFICES ASSUME PostgresInv, [Next]_vars
             PROVE  PostgresInv'
  OBVIOUS
<1>1. TypeOK
  BY DEF PostgresInv
<1>2. CASE UNCHANGED vars
  BY <1>2 DEF vars, PostgresInv, TypeOK, Live
<1>3. ASSUME NEW c \in Clients, Enter(c)
      PROVE  PostgresInv'
  BY <1>3 DEF Enter, Invoke, Goto, At, PostgresInv, TypeOK, Live
<1>4. ASSUME NEW c \in Clients, Acquire(c)
      PROVE  PostgresInv'
  <2>1. /\ conns' \in SUBSET (Clients \X {"wait", "wait again"})
        /\ IsFiniteSet(conns') /\ Cardinality(conns') <= MaxConns
    BY <1>4, AcquireFits
  <2> QED
    BY <1>4, <2>1 DEF Acquire, Goto, At, PostgresInv, TypeOK, Live
<1>5. ASSUME NEW c \in Clients, AddUser(c)
      PROVE  PostgresInv'
  <2>1. call[c].user \in User
    BY <1>1, <1>5, CallArguments DEF AddUser, Calling, Pending, TypeOK
  <2>2. Table'
    BY <1>1, <1>5, <2>1, RowIsUser, TableKept, TableUnchanged DEF AddUser
  <2>3. Answered'
    BY <1>1, <1>5, ExecutedType DEF AddUser
  <2> QED
    BY <1>5, <2>2, <2>3, OverKeeps DEF AddUser
<1>6. ASSUME NEW c \in Clients, UpdateUserExists(c)
      PROVE  PostgresInv'
  <2>1. CASE Over(c)
    BY <1>1, <1>6, <2>1, OverKeeps, TableUnchanged, ExecutedType
       DEF UpdateUserExists, Table, Answered, TypeOK
  <2>2. CASE Release(c) /\ Goto(c, "wait again") /\ UNCHANGED <<call, answer, rows, result>>
    <3>1. /\ conns' \in SUBSET (Clients \X {"wait", "wait again"})
          /\ IsFiniteSet(conns') /\ Cardinality(conns') <= MaxConns
      BY <2>2, ReleaseFits
    <3> QED
      BY <1>6, <2>2, <3>1
         DEF UpdateUserExists, Calling, Pending, Goto, PostgresInv, TypeOK, Live
  <2> QED
    BY <1>6, <2>1, <2>2 DEF UpdateUserExists
<1>7. ASSUME NEW c \in Clients, UpdateUser(c)
      PROVE  PostgresInv'
  <2>1. call[c].user \in User
    BY <1>7, CallArguments DEF UpdateUser, At, PostgresInv, TypeOK
  <2>2. Table'
    BY <1>1, <1>7, <2>1, RowIsUser, TableKept, TableUnchanged DEF UpdateUser
  <2>3. Answered'
    BY <1>1, <1>7, ExecutedType DEF UpdateUser
  <2> QED
    BY <1>7, <2>2, <2>3, OverKeeps DEF UpdateUser
<1>8. ASSUME NEW c \in Clients, DeleteUser(c)
      PROVE  PostgresInv'
  <2>1. call[c].id \in Ids
    BY <1>1, <1>8, CallArguments DEF DeleteUser, Calling, Pending, TypeOK
  <2>2. Table'
    BY <1>1, <1>8, <2>1, TableKept, TableUnchanged DEF DeleteUser
  <2>3. Answered'
    BY <1>1, <1>8, ExecutedType DEF DeleteUser
  <2> QED
    BY <1>8, <2>2, <2>3, OverKeeps DEF DeleteUser
<1>9. ASSUME NEW c \in Clients, QueryRow(c)
      PROVE  PostgresInv'
  <2>1. CASE Calling(c, "GetUser")
    <3>1. call[c].id \in Ids
      BY <1>1, <2>1, CallArguments DEF Calling, Pending, TypeOK
    <3>2. users[call[c].id] # Nil => {users[call[c].id]} \in SUBSET User
      BY <1>1, <3>1 DEF TypeOK
    <3>3. Answered'
      <4>1. \/ users[call[c].id] # Nil /\ Decide(c, "OK", {users[call[c].id]}, 0)
            \/ Refuse(c, "error")
        BY <1>9, <2>1 DEF QueryRow, Calling
      <4> QED
        BY <1>1, <3>2, <4>1, DecidedType DEF Refuse
    <3> QED
      BY <1>1, <1>9, <3>3, OverKeeps, TableUnchanged DEF QueryRow
  <2>2. CASE ~Calling(c, "GetUser")
    <3>1. IsFiniteSet(Live)
      BY IdsAssumption, FS_Subset DEF Live
    <3>2. \E count \in Nat : Decide(c, "OK", {}, count)
      BY <1>9, <2>2, <3>1, FS_CardinalityType DEF QueryRow
    <3>3. Answered'
      BY <1>1, <3>2, DecidedType
    <3> QED
      BY <1>1, <1>9, <3>3, OverKeeps, TableUnchanged DEF QueryRow
  <2> QED
    BY <2>1, <2>2
<1>10. ASSUME NEW c \in Clients, Select(c)
       PROVE  PostgresInv'
  <2>1. CASE Over(c) /\ Refuse(c, "error")
    BY <1>1, <1>10, <2>1, OverKeeps, TableUnchanged, ExecutedType DEF Select
  <2>2. ASSUME NEW found \in SUBSET User, rows' = [rows EXCEPT ![c] = found],
               Goto(c, "rows"), UNCHANGED <<users, call, answer, conns, result>>
        PROVE  PostgresInv'
    BY <2>2 DEF Goto, PostgresInv, TypeOK, Live
  <2>3. /\ {users[id] : id \in Selected(call[c].filter)} \in SUBSET User
        /\ {users[id] : id \in {i \in Live : users[i].role = call[c].role}} \in SUBSET User
    BY <1>1 DEF Selected, Live, TypeOK
  <2> QED
    BY <1>10, <2>1, <2>2, <2>3 DEF Select
<1>11. ASSUME NEW c \in Clients, NextRow(c)
       PROVE  PostgresInv'
  <2>1. PICK user \in rows[c] : /\ rows' = [rows EXCEPT ![c] = @ \ {user}]
                                /\ result' = [result EXCEPT ![c] = @ \cup {user}]
    BY <1>11 DEF NextRow
  <2>2. user \in User
    BY <1>1, <2>1 DEF TypeOK
  <2> QED
    BY <1>11, <2>1, <2>2 DEF NextRow, PostgresInv, TypeOK, Live
<1>12. ASSUME NEW c \in Clients, NoMoreRows(c) \/ RowsBroken(c)
       PROVE  PostgresInv'
  <2>1. Decide(c, "OK", result[c], 0) /\ result[c] \in SUBSET User
    BY <1>1, <1>12 DEF NoMoreRows, RowsBroken, TypeOK
  <2>2. Answered'
    BY <1>1, <2>1, DecidedType
  <2> QED
    BY <1>1, <1>12, <2>2, OverKeeps, TableUnchanged DEF NoMoreRows, RowsBroken
<1>13. ASSUME NEW c \in Clients, Broken(c)
       PROVE  PostgresInv'
  BY <1>1, <1>13, OverKeeps, TableUnchanged, ExecutedType DEF Broken
<1>14. ASSUME NEW c \in Clients, Leave(c)
       PROVE  PostgresInv'
  BY <1>14 DEF Leave, Return, Goto, At, PostgresInv, TypeOK, Live
<1> QED
  BY <1>2, <1>3, <1>4, <1>5, <1>6, <1>7, <1>8, <1>9, <1>10, <1>11, <1>12, <1>13, <1>14
     DEF Next, Run, Execute

-----------------------------------------------------------------------------
(* What a place in a method means: a call that has not come to its return   *)
(* is undecided, and only a list that reads its rows, or has, has read any. *)
Phase(c) ==
  /\ pc[c] \notin {"idle", "return"} => Pending(c)
  /\ pc[c] = "idle" => answer[c] = Nil
  /\ pc[c] \notin {"rows", "return"} => result[c] = {}

PhaseInv == PostgresInv /\ \A c \in Clients : Phase(c)

(* At first every client is outside the methods.                            *)
LEMMA InitPhaseInv == Init => PhaseInv
BY InitInv DEF Init, CallsInit, PhaseInv, Phase

(* Every step keeps what the places mean.                                   *)
LEMMA NextPhaseInv == PhaseInv /\ [Next]_vars => PhaseInv'
<1> SUFFICES ASSUME PhaseInv, [Next]_vars, NEW d \in Clients
             PROVE  Phase(d)'
  BY NextInv DEF PhaseInv
<1>1. TypeOK /\ Phase(d)
  BY DEF PhaseInv, PostgresInv
<1>2. CASE UNCHANGED vars
  BY <1>1, <1>2 DEF vars, Phase, Pending
<1>3. ASSUME NEW c \in Clients, Enter(c)
      PROVE  Phase(d)'
  <2>1. PICK request \in Calls : call' = [call EXCEPT ![c] = request]
    BY <1>3 DEF Enter, Invoke
  <2>2. request # Nil
    BY CallArguments
  <2> QED
    BY <1>1, <1>3, <2>1, <2>2 DEF Enter, Invoke, At, Goto, TypeOK, Phase, Pending
<1>4. ASSUME NEW c \in Clients, Acquire(c)
      PROVE  Phase(d)'
  BY <1>1, <1>4 DEF Acquire, At, Goto, TypeOK, Phase, Pending
<1>5. ASSUME NEW c \in Clients, Over(c), \A e \in Clients \ {c} : answer'[e] = answer[e]
      PROVE  Phase(d)'
  BY <1>1, <1>5 DEF Over, Goto, TypeOK, Phase, Pending
<1>6. ASSUME NEW c \in Clients, AddUser(c) \/ UpdateUser(c) \/ DeleteUser(c) \/ QueryRow(c)
               \/ NoMoreRows(c) \/ RowsBroken(c) \/ Broken(c)
      PROVE  Phase(d)'
  BY <1>1, <1>5, <1>6
     DEF AddUser, UpdateUser, DeleteUser, QueryRow, NoMoreRows, RowsBroken, Broken,
         Executed, Done, Refuse, Decide, TypeOK
<1>7. ASSUME NEW c \in Clients, UpdateUserExists(c)
      PROVE  Phase(d)'
  <2>1. CASE Over(c) /\ Refuse(c, "error")
    BY <1>1, <1>5, <2>1 DEF Refuse, Decide, TypeOK
  <2>2. CASE Goto(c, "wait again") /\ UNCHANGED <<call, answer, rows, result>>
    BY <1>1, <1>7, <2>2 DEF UpdateUserExists, At, Goto, TypeOK, Phase, Pending
  <2> QED
    BY <1>7, <2>1, <2>2 DEF UpdateUserExists
<1>8. ASSUME NEW c \in Clients, Select(c)
      PROVE  Phase(d)'
  <2>1. CASE Over(c) /\ Refuse(c, "error")
    BY <1>1, <1>5, <2>1 DEF Refuse, Decide, TypeOK
  <2>2. CASE Goto(c, "rows") /\ UNCHANGED <<call, answer, conns, result>>
    BY <1>1, <1>8, <2>2 DEF Select, At, Goto, TypeOK, Phase, Pending
  <2> QED
    BY <1>8, <2>1, <2>2 DEF Select
<1>9. ASSUME NEW c \in Clients, NextRow(c)
      PROVE  Phase(d)'
  BY <1>1, <1>9 DEF NextRow, At, TypeOK, Phase, Pending
<1>10. ASSUME NEW c \in Clients, Leave(c)
       PROVE  Phase(d)'
  BY <1>1, <1>10 DEF Leave, Return, At, Goto, TypeOK, Phase, Pending
<1> QED
  BY <1>2, <1>3, <1>4, <1>6, <1>7, <1>8, <1>9, <1>10 DEF Next, Run, Execute

-----------------------------------------------------------------------------
(* The refinement. A method that ends with an answer decides it there.      *)
LEMMA DecidesAsOver ==
  ASSUME TypeOK, NEW c \in Clients, NEW code, NEW found, NEW count,
         Decide(c, code, found, count), Over(c)
  PROVE  Promised!Decide(c, code, found, count)
BY DEF TypeOK, Decide, Over, Goto, At, decided, Promised!Decide

(* Where no answer is given, and no list is begun or read, none is decided. *)
LEMMA NothingDecided ==
  ASSUME TypeOK, NEW c \in Clients, NEW label \in {"wait", "wait again", "statement",
         "second statement"}, pc[c] # "rows",
         Goto(c, label), UNCHANGED <<answer, rows, result>>
  PROVE  decided' = decided
BY DEF TypeOK, Goto, At, decided

(* A method under way is undecided, for the interface as well.              *)
LEMMA CallsForReal ==
  ASSUME NEW c \in Clients, Phase(c), pc[c] \notin {"idle", "return", "rows"}
  PROVE  /\ call[c] # Nil /\ answer[c] = Nil /\ Promised!Pending(c)
         /\ \A op : Promised!Calling(c, op) <=> call[c].op = op
BY DEF Phase, Pending, At, decided, Promised!Pending, Promised!Calling

(* An error may be answered at any time.                                    *)
LEMMA FailsAsPromised ==
  ASSUME TypeOK, NEW c \in Clients, Phase(c), pc[c] \notin {"idle", "return", "rows"},
         Refuse(c, "error"), Over(c), UNCHANGED users
  PROVE  Promised!Serve(c)
<1>1. Promised!Decide(c, "error", {}, 0) /\ UNCHANGED call
  BY DecidesAsOver DEF Refuse, Over
<1> QED
  BY <1>1, CallsForReal DEF Promised!Serve, Promised!Fails, Promised!Refuse

(* An executed statement is answered, or with an error.                     *)
LEMMA AppliesAsPromised ==
  ASSUME TypeOK, NEW c \in Clients, Executed(c), Over(c)
  PROVE  Promised!Applied(c) /\ UNCHANGED call
BY DecidesAsOver DEF Executed, Done, Refuse, Over, Promised!Applied, Promised!Done,
   Promised!Refuse

Departs(c) == Overwrites(c) \/ UpdatesNobody(c) \/ ListsPart(c)

(* AddUser is an addition, or replaces who is there.                        *)
LEMMA AddUserPromised ==
  ASSUME PhaseInv, NEW c \in Clients, AddUser(c)
  PROVE  Promised!Serve(c) \/ Departs(c)
<1> DEFINE user == call[c].user
<1>1. TypeOK /\ Phase(c) /\ pc[c] = "statement" /\ call[c].op = "AddUser" /\ Over(c)
  BY DEF PhaseInv, PostgresInv, AddUser, At, Calling
<1>2. user \in User /\ user.id \in Ids
  BY <1>1, CallArguments DEF AddUser, Calling, Pending, TypeOK, User
<1>3. CASE Refuse(c, "error") /\ UNCHANGED users
  BY <1>1, <1>3, FailsAsPromised
<1>4. CASE users' = [users EXCEPT ![user.id] = Row(user)] /\ Executed(c)
  <2>1. CASE users[user.id] # Nil
    BY <1>1, <1>4, <2>1 DEF Row, AddUser, Over, Departs, Overwrites
  <2>2. CASE users[user.id] = Nil
    <3>1. Row(user) = [user EXCEPT !.create_date = AsTime(user.create_date),
                                   !.status = user.status, !.email = user.email]
      BY <1>2, <2>2 DEF Row, User
    <3>2. AsTime(user.create_date) \in Promised!NewDates(user)
      BY MaxTimeAssumption
         DEF AsTime, NoDate, Promised!NewDates, Promised!NoDate, Promised!Dates
    <3>3. user.status \in Promised!NewStatuses(user)
      BY DEF Promised!NewStatuses
    <3>4. Promised!Store(user, Promised!NewDates(user), Promised!NewStatuses(user))
      BY <1>4, <3>1, <3>2, <3>3 DEF Promised!Store
    <3>5. Promised!Applied(c) /\ UNCHANGED call
      BY <1>1, <1>4, AppliesAsPromised
    <3>6. Promised!Calling(c, "AddUser")
      BY <1>1, CallsForReal
    <3> QED
      BY <2>2, <3>4, <3>5, <3>6 DEF Promised!Serve, Promised!AddUser
  <2> QED
    BY <2>1, <2>2
<1> QED
  BY <1>3, <1>4 DEF AddUser

(* UpdateUser is an update, or finds that the user is gone.                 *)
LEMMA UpdateUserPromised ==
  ASSUME PhaseInv, NEW c \in Clients, UpdateUser(c)
  PROVE  Promised!Serve(c) \/ Departs(c)
<1> DEFINE user == call[c].user
<1>1. /\ TypeOK /\ Phase(c) /\ pc[c] = "second statement" /\ Over(c)
      /\ call[c] # Nil /\ call[c].op = "UpdateUser" /\ answer[c] = Nil
  BY CallsForReal DEF PhaseInv, PostgresInv, UpdateUser, At
<1>2. user \in User /\ user.id \in Ids
  BY <1>1, CallArguments DEF TypeOK, User
<1>3. CASE Refuse(c, "error") /\ UNCHANGED users
  BY <1>1, <1>3, FailsAsPromised
<1>4. CASE users[user.id] = Nil /\ Done(c) /\ UNCHANGED users
  BY <1>1, <1>4 DEF Over, Departs, UpdatesNobody, Calling, Pending
<1>5. CASE /\ users[user.id] # Nil /\ Executed(c)
           /\ users' = [users EXCEPT ![user.id] = Updated(user)]
  <2>1. Updated(user) = [user EXCEPT !.create_date = users[user.id].create_date,
                                     !.status = user.status, !.email = user.email]
    BY <1>2 DEF Updated, User
  <2>2. Promised!Store(user, {user.create_date, users[user.id].create_date},
                       {user.status})
    BY <1>5, <2>1 DEF Promised!Store
  <2>3. Promised!Applied(c) /\ UNCHANGED call
    BY <1>1, <1>5, AppliesAsPromised
  <2>4. Promised!Calling(c, "UpdateUser")
    BY <1>1, CallsForReal
  <2> QED
    BY <1>5, <2>2, <2>3, <2>4 DEF Promised!Serve, Promised!UpdateUser
<1> QED
  BY <1>3, <1>4, <1>5 DEF UpdateUser

(* DeleteUser deletes, or fails.                                            *)
LEMMA DeleteUserPromised ==
  ASSUME PhaseInv, NEW c \in Clients, DeleteUser(c)
  PROVE  Promised!Serve(c)
<1>1. TypeOK /\ Phase(c) /\ pc[c] = "statement" /\ call[c].op = "DeleteUser" /\ Over(c)
  BY DEF PhaseInv, PostgresInv, DeleteUser, At, Calling
<1>2. CASE Refuse(c, "error") /\ UNCHANGED users
  BY <1>1, <1>2, FailsAsPromised
<1>3. CASE /\ users[call[c].id] # Nil /\ Executed(c)
           /\ users' = [users EXCEPT ![call[c].id] = Nil]
  BY <1>1, <1>3, AppliesAsPromised, CallsForReal DEF Promised!Serve, Promised!DeleteUser
<1> QED
  BY <1>2, <1>3 DEF DeleteUser

(* A query of one row answers what the table holds.                         *)
LEMMA QueryRowPromised ==
  ASSUME PhaseInv, NEW c \in Clients, QueryRow(c)
  PROVE  Promised!Serve(c)
<1>1. /\ TypeOK /\ Phase(c) /\ pc[c] = "statement" /\ Over(c)
      /\ UNCHANGED <<users, call>>
  BY DEF PhaseInv, PostgresInv, QueryRow, At, Over
<1>2. CASE Refuse(c, "error")
  BY <1>1, <1>2, FailsAsPromised
<1>3. CASE /\ Calling(c, "GetUser") /\ users[call[c].id] # Nil
           /\ Decide(c, "OK", {users[call[c].id]}, 0)
  BY <1>1, <1>3, DecidesAsOver, CallsForReal
     DEF Calling, Promised!Serve, Promised!GetUser
<1>4. CASE /\ Calling(c, "UserExists")
           /\ Decide(c, "OK", {}, IF users[call[c].id] # Nil THEN 1 ELSE 0)
  BY <1>1, <1>4, DecidesAsOver, CallsForReal
     DEF Calling, Promised!Serve, Promised!UserExists
<1>5. CASE Calling(c, "Count") /\ Decide(c, "OK", {}, Cardinality(Live))
  <2>1. Promised!Cardinality(Promised!Live) = Cardinality(Live)
    BY DEF Promised!Cardinality, Cardinality, Promised!Live, Live
  <2> QED
    BY <1>1, <1>5, <2>1, DecidesAsOver, CallsForReal
       DEF Calling, Promised!Serve, Promised!Count
<1> QED
  BY <1>2, <1>3, <1>4, <1>5 DEF QueryRow

(* A list is decided as the database takes its snapshot.                    *)
LEMMA SelectPromised ==
  ASSUME PhaseInv, NEW c \in Clients, Select(c)
  PROVE  Promised!Serve(c)
<1>1. /\ TypeOK /\ Phase(c) /\ pc[c] = "statement" /\ UNCHANGED <<users, call>>
      /\ result[c] = {}
  BY DEF PhaseInv, PostgresInv, Phase, Select, At, Over
<1>2. CASE Refuse(c, "error") /\ Over(c)
  BY <1>1, <1>2, FailsAsPromised
<1>3. ASSUME NEW found, rows' = [rows EXCEPT ![c] = found], Goto(c, "rows"),
             UNCHANGED <<answer, result>>
      PROVE  Promised!Decide(c, "OK", found, 0)
  <2>1. decided' = [decided EXCEPT ![c] =
                      [code |-> "OK", found |-> rows'[c] \cup result'[c], count |-> 0]]
    BY <1>1, <1>3 DEF TypeOK, Goto, At, decided
  <2> QED
    BY <1>1, <1>3, <2>1 DEF TypeOK, Promised!Decide
<1>4. CASE /\ Calling(c, "ListUsers") /\ Goto(c, "rows") /\ UNCHANGED <<answer, result>>
           /\ rows' = [rows EXCEPT ![c] = {users[id] : id \in Selected(call[c].filter)}]
  <2>1. Promised!Selected(call[c].filter) = Selected(call[c].filter)
    BY DEF Selected, Live, AsTime, NoDate, Promised!Selected, Promised!Live,
           Promised!AsTime, Promised!NoDate
  <2> QED
    BY <1>1, <1>3, <1>4, <2>1, CallsForReal
       DEF Calling, Promised!Serve, Promised!ListUsers
<1>5. CASE /\ Calling(c, "ListUsersByRole") /\ Goto(c, "rows")
           /\ UNCHANGED <<answer, result>>
           /\ rows' = [rows EXCEPT ![c] = {users[id] :
                         id \in {i \in Live : users[i].role = call[c].role}}]
  BY <1>1, <1>3, <1>5, CallsForReal
     DEF Calling, Live, Promised!Serve, Promised!ListUsersByRole, Promised!Live
<1> QED
  BY <1>2, <1>4, <1>5 DEF Select

(* Its rows are read as they are decided: all of them, or a part.           *)
LEMMA RowsPromised ==
  ASSUME PhaseInv, NEW c \in Clients, NextRow(c) \/ NoMoreRows(c) \/ RowsBroken(c)
  PROVE  Departs(c) \/ UNCHANGED <<users, call, decided>>
<1>1. TypeOK /\ pc[c] = "rows" /\ UNCHANGED <<users, call>>
  BY DEF PhaseInv, PostgresInv, NextRow, NoMoreRows, RowsBroken, At, Over
<1>2. CASE NextRow(c)
  <2>1. PICK user \in rows[c] : /\ rows' = [rows EXCEPT ![c] = @ \ {user}]
                                /\ result' = [result EXCEPT ![c] = @ \cup {user}]
    BY <1>2 DEF NextRow
  <2>2. rows'[c] \cup result'[c] = rows[c] \cup result[c]
    BY <1>1, <2>1 DEF TypeOK
  <2>3. decided' = decided
    BY <1>1, <1>2, <2>1, <2>2 DEF NextRow, TypeOK, At, decided
  <2> QED
    BY <1>1, <2>3
<1>3. CASE NoMoreRows(c) \/ RowsBroken(c)
  <2>1. Decide(c, "OK", result[c], 0) /\ Over(c)
    BY <1>3 DEF NoMoreRows, RowsBroken
  <2>2. decided' = [decided EXCEPT ![c] =
                      [code |-> "OK", found |-> result[c], count |-> 0]]
    BY <1>1, <2>1, DecidesAsOver DEF Promised!Decide
  <2>3. decided[c] = [code |-> "OK", found |-> rows[c] \cup result[c], count |-> 0]
    BY <1>1 DEF At, decided
  <2>4. CASE rows[c] \cup result[c] = result[c]
    BY <1>1, <2>2, <2>3, <2>4 DEF decided
  <2>5. CASE rows[c] \cup result[c] # result[c]
    BY <1>1, <2>1, <2>3, <2>5 DEF At, Departs, ListsPart
  <2> QED
    BY <2>4, <2>5
<1> QED
  BY <1>2, <1>3

(* Every step is one the interface promises, one of the three departures,   *)
(* or nothing its callers see.                                              *)
LEMMA NextPromisedBut ==
  ASSUME PhaseInv, [Next]_vars
  PROVE  \/ Promised!Next \/ \E c \in Clients : Departs(c)
         \/ UNCHANGED <<users, call, decided>>
<1>1. TypeOK /\ \A c \in Clients : Phase(c)
  BY DEF PhaseInv, PostgresInv
<1>2. CASE UNCHANGED vars
  BY <1>2 DEF vars, decided, At
<1>3. ASSUME NEW c \in Clients, Enter(c)
      PROVE  Promised!Next
  <2>1. decided' = decided
    BY <1>1, <1>3, NothingDecided DEF Enter, At, Invoke
  <2> QED
    BY <1>3, <2>1 DEF Enter, Invoke, Promised!Invoke, Promised!Next
<1>4. ASSUME NEW c \in Clients, Acquire(c)
      PROVE  UNCHANGED <<users, call, decided>>
  BY <1>1, <1>4, NothingDecided DEF Acquire, At
<1>5. ASSUME NEW c \in Clients, UpdateUserExists(c)
      PROVE  Promised!Next \/ UNCHANGED <<users, call, decided>>
  BY <1>1, <1>5, NothingDecided, FailsAsPromised DEF UpdateUserExists, At, Promised!Next
<1>6. ASSUME NEW c \in Clients, Broken(c)
      PROVE  Promised!Next
  BY <1>1, <1>6, FailsAsPromised DEF Broken, Promised!Next
<1>7. ASSUME NEW c \in Clients, Leave(c)
      PROVE  Promised!Next
  <2>1. decided[c] = answer[c] /\ decided' = [decided EXCEPT ![c] = Nil]
    BY <1>1, <1>7 DEF Leave, Return, At, Goto, TypeOK, decided
  <2> QED
    BY <1>7, <2>1 DEF Leave, Return, Promised!Return, Promised!Next
<1> QED
  BY <1>2, <1>3, <1>4, <1>5, <1>6, <1>7, AddUserPromised, UpdateUserPromised,
     DeleteUserPromised, QueryRowPromised, SelectPromised, RowsPromised
     DEF Next, Run, Execute, Promised!Next

-----------------------------------------------------------------------------
(* Who has a connection is at work: what ends a statement gives its         *)
(* connection back in the same step.                                        *)
ConnsInv == PostgresInv /\ \A conn \in conns : AtWork(conn[1])

(* A step that gives back the connection of its method, and moves no other, *)
(* leaves connections at work.                                              *)
LEMMA ReleaseLeavesWork ==
  ASSUME ConnsInv, NEW c \in Clients, NEW label, Release(c), Goto(c, label),
         NEW conn \in conns'
  PROVE  AtWork(conn[1])'
<1>1. conn \in conns /\ conn[1] # c /\ conn[1] \in Clients
  BY DEF Release, ConnsInv, PostgresInv, TypeOK
<1> QED
  BY <1>1 DEF Goto, AtWork, ConnsInv, PostgresInv, TypeOK

(* Every step keeps it so.                                                  *)
LEMMA NextConnsInv == ConnsInv /\ [Next]_vars => ConnsInv'
<1> SUFFICES ASSUME ConnsInv, [Next]_vars, NEW conn \in conns'
             PROVE  AtWork(conn[1])'
  BY NextInv DEF ConnsInv
<1>1. pc \in [Clients -> {"idle", "wait", "statement", "wait again",
                          "second statement", "rows", "return"}]
  BY DEF ConnsInv, PostgresInv, TypeOK
<1>2. \A d \in conns : d[1] \in Clients /\ AtWork(d[1])
  BY DEF ConnsInv, PostgresInv, TypeOK
<1>3. CASE UNCHANGED vars
  BY <1>2, <1>3 DEF vars, AtWork
<1>4. ASSUME NEW c \in Clients, Acquire(c)
      PROVE  AtWork(conn[1])'
  <2>1. conns' = conns \cup {<<c, pc[c]>>} /\ AtWork(c)'
    BY <1>1, <1>4 DEF Acquire, Goto, AtWork
  <2>2. \A d \in Clients \ {c} : pc'[d] = pc[d]
    BY <1>1, <1>4 DEF Acquire, Goto
  <2>3. CASE conn[1] = c
    BY <2>1, <2>3 DEF AtWork
  <2>4. CASE conn[1] # c
    <3>1. conn \in conns
      BY <2>1, <2>4
    <3> QED
      BY <1>2, <2>2, <2>4, <3>1 DEF AtWork
  <2> QED
    BY <2>3, <2>4
<1>5. ASSUME NEW c \in Clients, Enter(c) \/ Leave(c)
      PROVE  AtWork(conn[1])'
  BY <1>1, <1>2, <1>5 DEF Enter, Leave, At, Goto, AtWork
<1>6. ASSUME NEW c \in Clients, Release(c), Goto(c, "wait again")
      PROVE  AtWork(conn[1])'
  BY <1>6, ReleaseLeavesWork
<1>7. ASSUME NEW c \in Clients, Over(c)
      PROVE  AtWork(conn[1])'
  BY <1>7, ReleaseLeavesWork DEF Over
<1>8. ASSUME NEW c \in Clients, UNCHANGED conns, Goto(c, "rows")
      PROVE  AtWork(conn[1])'
  BY <1>1, <1>2, <1>8 DEF Goto, AtWork
<1>9. ASSUME NEW c \in Clients, NextRow(c)
      PROVE  AtWork(conn[1])'
  BY <1>2, <1>9 DEF NextRow, AtWork
<1>10. ASSUME NEW c \in Clients, UpdateUserExists(c) \/ Select(c)
       PROVE  AtWork(conn[1])'
  BY <1>6, <1>7, <1>8, <1>10 DEF UpdateUserExists, Select
<1>11. ASSUME NEW c \in Clients,
              AddUser(c) \/ UpdateUser(c) \/ DeleteUser(c) \/ QueryRow(c)
                \/ NoMoreRows(c) \/ RowsBroken(c) \/ Broken(c)
       PROVE  AtWork(conn[1])'
  BY <1>7, <1>11
     DEF AddUser, UpdateUser, DeleteUser, QueryRow, NoMoreRows, RowsBroken, Broken
<1> QED
  BY <1>3, <1>4, <1>5, <1>9, <1>10, <1>11 DEF Next, Run, Execute

(* A pool whose connections are all in use has somebody at work.            *)
LEMMA FullPoolAtWork == ConnsInv => SomebodyGivesBack
<1> SUFFICES ASSUME ConnsInv, ~(Cardinality(conns) < MaxConns)
             PROVE  \E c \in Clients : AtWork(c)
  BY DEF SomebodyGivesBack
<1>1. IsFiniteSet(conns) /\ Cardinality(conns) \in Nat
  BY FS_CardinalityType DEF ConnsInv, PostgresInv
<1>2. Cardinality(conns) # 0
  BY <1>1, MaxConnsAssumption
<1>3. PICK conn \in conns : TRUE
  BY <1>1, <1>2, FS_EmptySet
<1>4. conn[1] \in Clients /\ AtWork(conn[1])
  BY <1>3 DEF ConnsInv, PostgresInv, TypeOK
<1> QED
  BY <1>4

-----------------------------------------------------------------------------
(* A step that changes the table adds, updates or deletes one user, and the *)
(* date of a user there before and after is the same. *)
LEMMA DatesStay ==
  ASSUME PostgresInv, [Next]_vars, NEW id \in Ids,
         users[id] # Nil, users'[id] # Nil
  PROVE  users'[id].create_date = users[id].create_date
<1>1. TypeOK
  BY DEF PostgresInv
<1>2. ASSUME NEW c \in Clients, AddUser(c)
      PROVE  users'[id].create_date = users[id].create_date
  <2>1. call[c].user \in User
    BY <1>1, <1>2, CallArguments DEF AddUser, Calling, Pending, TypeOK
  <2> QED
    BY <1>1, <1>2, <2>1, RowIsUser DEF AddUser, TypeOK
<1>3. ASSUME NEW c \in Clients, UpdateUser(c)
      PROVE  users'[id].create_date = users[id].create_date
  <2>1. call[c].user \in User
    BY <1>3, CallArguments DEF UpdateUser, At, PostgresInv, TypeOK
  <2> QED
    BY <1>1, <1>3, <2>1, RowIsUser DEF UpdateUser, TypeOK
<1>4. ASSUME NEW c \in Clients, DeleteUser(c)
      PROVE  users'[id] \in {users[id], Nil}
  BY <1>1, <1>4 DEF DeleteUser, TypeOK
<1>5. ASSUME NEW c \in Clients,
             Enter(c) \/ Acquire(c) \/ UpdateUserExists(c) \/ QueryRow(c) \/ Select(c)
               \/ NextRow(c) \/ NoMoreRows(c) \/ Leave(c) \/ Broken(c) \/ RowsBroken(c)
      PROVE  UNCHANGED users
  BY <1>5
     DEF Enter, Invoke, Acquire, UpdateUserExists, QueryRow, Select, NextRow,
         NoMoreRows, Leave, Return, Broken, RowsBroken
<1> QED
  BY <1>2, <1>3, <1>4, <1>5 DEF Next, Run, Execute, vars

(* The invariant holds in every state. *)
LEMMA Invariance == Spec => []PostgresInv
<1>1. PostgresInv /\ UNCHANGED vars => PostgresInv'
  BY NextInv
<1> QED
  BY InitInv, NextInv, PTL DEF Spec

(* The table holds users with a create date, and never are more connections *)
(* in use than there are (postgres_storage.go:195, 320).                    *)
THEOREM PostgresTyping == Spec => []TypeOK
BY Invariance, PTL DEF PostgresInv

(* An upsert or update leaves the create date of a user as it is            *)
(* (postgres_storage.go:164, 364).                                          *)
THEOREM CreateDateStays == Spec => CreateDateNeverMoves
<1>1. PostgresInv /\ [Next]_vars =>
        [\A id \in Ids : users[id] # Nil /\ users'[id] # Nil =>
            users'[id].create_date = users[id].create_date]_vars
  BY DatesStay
<1> QED
  BY <1>1, Invariance, PTL DEF Spec, CreateDateNeverMoves

(* While a method waits for a connection one is free, or one is held by a   *)
(* method that will give it back: the pool does not deadlock, whatever its  *)
(* size (postgres_storage.go:347, 364).                                     *)
THEOREM PoolDoesNotDeadlock == Spec => []SomebodyGivesBack
<1>1. Init => ConnsInv
  BY InitInv DEF Init, ConnsInv
<1> QED
  BY <1>1, NextConnsInv, FullPoolAtWork, PTL DEF Spec

(* But for three departures, each method does what the interface promises:  *)
(* it takes effect at one moment, over any pool of connections that break   *)
(* before or after their statement (postgres_storage.go:181, 372, 412).     *)
THEOREM PostgresKeepsItsPromiseBut == Spec => KeepsItsPromiseBut
<1>1. Init => Promised!Init
  <2>1. Init => decided = [c \in Clients |-> Nil]
    BY DEF Init, CallsInit, At, decided
  <2> QED
    BY <2>1 DEF Init, CallsInit, Promised!Init, Promised!CallsInit
<1>2. PhaseInv /\ [Next]_vars =>
        [\/ Promised!Next
         \/ \E c \in Clients : Overwrites(c) \/ UpdatesNobody(c) \/ ListsPart(c)
        ]_<<users, call, decided>>
  BY NextPromisedBut DEF Departs
<1> QED
  BY <1>1, <1>2, InitPhaseInv, NextPhaseInv, PTL DEF Spec, KeepsItsPromiseBut
=============================================================================
