---------------------- MODULE MemoryStorageLocksProofs ----------------------
(***************************************************************************)
(* Theorems about the in-memory storage under its lock, for any number of  *)
(* goroutines and any calls: the lock keeps writers alone, and with it the *)
(* methods, step by step, do what the interface promises.                  *)
(***************************************************************************)
EXTENDS MemoryStorageLocks, FiniteSetTheorems, TLAPS

(* The id a call that writes is about. *)
Target(c) == IF call[c].op = "DeleteUser" THEN call[c].id ELSE call[c].user.id

Lists == {"ListUsers", "ListUsersByRole"}

(* The ids a list is to hold. *)
Listed(c) ==
  IF call[c].op = "ListUsers" THEN Selected(call[c].filter)
  ELSE {id \in Live : users[id].role = call[c].role}

(* What a goroutine has in hand at each label. *)
Phase(c) ==
  /\ pc[c] = "idle" <=> call[c] = Nil
  /\ pc[c] = "unlock" <=> answer[c] # Nil
  /\ pc[c] \in {"drain", "check", "write"} => call[c].op \in Writers
  /\ pc[c] \in {"read", "loop"} => call[c].op \notin Writers
  /\ pc[c] = "loop" => call[c].op \in Lists
  /\ pc[c] \notin {"loop", "unlock"} => result[c] = {}

(* Who is in a method holds the lock, and who changes the map is alone. *)
Holds(c) ==
  /\ pc[c] \in {"drain", "check", "write"} => writer = c
  /\ pc[c] \in {"read", "loop"} => c \in readers
  /\ pc[c] \in {"check", "write"} => readers = {}

(* What a method has seen of the map is still so. *)
UpToDate(c) ==
  /\ pc[c] = "write" =>
       ((call[c].op = "AddUser") <=> (users[Target(c)] = Nil))
  /\ pc[c] = "loop" =>
       result[c] = {users[id] : id \in Listed(c) \ todo[c]}

LockInv ==
  /\ TypeOK
  /\ \A id \in Live : users[id].email = ""
  /\ \A c \in Clients : Phase(c) /\ Holds(c)
  /\ \A c \in Clients : pc[c] = "loop" => todo[c] \subseteq Live

PromiseInv ==
  /\ LockInv
  /\ \A c \in Clients : UpToDate(c)

-----------------------------------------------------------------------------
(* cloneUser is a user without contact data, and the same user if it had    *)
(* none.                                                                    *)
LEMMA CloneIsUser ==
  ASSUME NEW user \in User, NEW time
  PROVE  /\ memory(time)!cloneUser(user) \in User
         /\ memory(time)!cloneUser(user).email = ""
         /\ user.email = "" => memory(time)!cloneUser(user) = user
BY FieldsAssumption DEF memory!cloneUser, User

(* With the defaults of AddUser a user is still one. *)
LEMMA DefaultsAreUser ==
  ASSUME NEW user \in User, NEW time \in 1 .. MaxTime
  PROVE  memory(time)!WithDefaults(user) \in User
<1>1. time \in Dates
  BY MaxTimeAssumption DEF Dates
<1>2. "ACTIVE" \in Statuses
  BY DEF Statuses
<1> QED
  BY <1>1, <1>2 DEF memory!WithDefaults, User

(* What is called with, by method. *)
LEMMA CallArguments ==
  ASSUME NEW request \in Calls
  PROVE  /\ request # Nil
         /\ request.op \in {"AddUser", "UpdateUser"} => request.user \in User
         /\ request.op \in {"GetUser", "DeleteUser", "UserExists"} =>
              request.id \in Ids
         /\ request.op = "ListUsers" => request.filter \in Filters
         /\ request.op = "ListUsersByRole" => request.role \in Roles
         /\ request.op \in Writers \cup Lists \cup {"GetUser", "UserExists", "Count"}
<1>1. request \in CallSet
  BY CallsAssumption
<1>2. request # Nil
  BY <1>1, NilIsNoCall
<1> QED
  BY <1>1, <1>2 DEF CallSet, Writers, Lists

(* The map has finitely many users. *)
LEMMA CountIsNat ==
  Cardinality(Live) \in Nat
<1>1. IsFiniteSet(Live)
  BY IdsAssumption, FS_Subset DEF Live
<1> QED
  BY <1>1, FS_CardinalityType

-----------------------------------------------------------------------------
(* What a step that decides one answer does to the answers. *)
Decides(c) ==
  /\ answer' \in [Clients -> Answers \cup {Nil}]
  /\ answer'[c] # Nil
  /\ \A d \in Clients \ {c} : answer'[d] = answer[d]

(* An answer that is decided is an answer. *)
LEMMA DecidedType ==
  ASSUME TypeOK, NEW c \in Clients, NEW code \in {"OK", "AlreadyExists", "NotFound"},
         NEW found \in SUBSET User, NEW count \in Nat,
         Decide(c, code, found, count)
  PROVE  Decides(c)
BY NilIsNoAnswer DEF TypeOK, Decide, Answers, Decides

(* No goroutine is in a method when the server starts. *)
LEMMA InitInv == Init => PromiseInv
BY NilAssumption
   DEF Init, CallsInit, PromiseInv, LockInv, TypeOK, Phase, Holds, UpToDate, Live

(* Every step keeps the types, the phases and the lock. *)
LEMMA NextLockInv == LockInv /\ [Next]_vars => LockInv'
<1> SUFFICES ASSUME LockInv, [Next]_vars
             PROVE  LockInv'
  OBVIOUS
<1> USE DEF LockInv
<1>1. CASE UNCHANGED vars
  BY <1>1 DEF vars, TypeOK, Live, Phase, Holds
<1>2. ASSUME NEW c \in Clients, Enter(c)
      PROVE  LockInv'
  <2>1. PICK request \in Calls : call' = [call EXCEPT ![c] = request]
    BY <1>2 DEF Enter, Invoke
  <2>2. TypeOK'
    BY <1>2, <2>1 DEF Enter, Invoke, Goto, At, TypeOK, lockVars
  <2>3. ASSUME NEW d \in Clients
        PROVE  Phase(d)' /\ Holds(d)'
    BY <1>2, <2>1, <2>3, CallArguments
       DEF Enter, Invoke, Goto, At, TypeOK, Phase, Holds, lockVars
  <2> QED
    BY <1>2, <2>2, <2>3 DEF Enter, Invoke, Goto, At, TypeOK, Live
<1>3. ASSUME NEW c \in Clients, Lock(c)
      PROVE  LockInv'
  <2>1. TypeOK'
    BY <1>3 DEF Lock, Goto, At, TypeOK
  <2>2. ASSUME NEW d \in Clients
        PROVE  Phase(d)' /\ Holds(d)'
    BY <1>3, <2>2, NilIsNoClient DEF Lock, Goto, At, TypeOK, Phase, Holds
  <2> QED
    BY <1>3, <2>1, <2>2 DEF Lock, Goto, At, TypeOK, Live
<1>4. ASSUME NEW c \in Clients, RLock(c)
      PROVE  LockInv'
  <2>1. TypeOK'
    BY <1>4 DEF RLock, Goto, At, TypeOK
  <2>2. ASSUME NEW d \in Clients
        PROVE  Phase(d)' /\ Holds(d)'
    BY <1>4, <2>2, NilIsNoClient DEF RLock, Goto, At, TypeOK, Phase, Holds
  <2> QED
    BY <1>4, <2>1, <2>2 DEF RLock, Goto, At, TypeOK, Live
<1>5. ASSUME NEW c \in Clients, Drain(c)
      PROVE  LockInv'
  <2>1. TypeOK'
    BY <1>5 DEF Drain, Goto, At, TypeOK, lockVars
  <2>2. ASSUME NEW d \in Clients
        PROVE  Phase(d)' /\ Holds(d)'
    BY <1>5, <2>2 DEF Drain, Goto, At, TypeOK, Phase, Holds, lockVars
  <2> QED
    BY <1>5, <2>1, <2>2 DEF Drain, Goto, At, TypeOK, Live
<1>6. ASSUME NEW c \in Clients, Check(c)
      PROVE  LockInv'
  <2>1. \/ /\ answer' = answer /\ pc' = [pc EXCEPT ![c] = "write"]
        \/ /\ pc' = [pc EXCEPT ![c] = "unlock"]
           /\ \E code \in {"AlreadyExists", "NotFound"} : Refuse(c, code)
    BY <1>6 DEF Check, Goto
  <2>2. CASE answer' = answer /\ pc' = [pc EXCEPT ![c] = "write"]
    BY <1>6, <2>2 DEF Check, At, TypeOK, Phase, Holds, lockVars, Live
  <2>3. CASE Decides(c) /\ pc' = [pc EXCEPT ![c] = "unlock"]
    BY <1>6, <2>3 DEF Decides, Check, At, TypeOK, Phase, Holds, lockVars, Live
  <2> QED
    BY <2>1, <2>2, <2>3, DecidedType DEF Refuse
<1>7. ASSUME NEW c \in Clients, Write(c)
      PROVE  LockInv'
  <2> DEFINE stored(time) == memory(time)!cloneUser(memory(time)!WithDefaults(call[c].user))
  <2>1. call[c] \in Calls /\ call[c].op \in Writers
    BY <1>7 DEF Write, At, Phase, TypeOK
  <2>2. \E id \in Ids, new \in User \cup {Nil} :
           /\ users' = [users EXCEPT ![id] = new]
           /\ new # Nil => new.email = ""
    <3>1. CASE call[c].op = "AddUser"
      <4>1. PICK time \in 1 .. MaxTime :
              users' = [users EXCEPT ![call[c].user.id] = stored(time)]
        BY <1>7, <3>1 DEF Write
      <4>2. call[c].user \in User
        BY <2>1, <3>1, CallArguments
      <4>3. stored(time) \in User /\ stored(time).email = ""
        BY <4>2, CloneIsUser, DefaultsAreUser
      <4> QED
        BY <4>1, <4>2, <4>3 DEF User
    <3>2. CASE call[c].op = "UpdateUser"
      <4>1. call[c].user \in User
        BY <2>1, <3>2, CallArguments
      <4>2. call[c].user.id \in Ids
        BY <4>1 DEF User
      <4>3. users' = [users EXCEPT ![call[c].user.id] =
                        memory(1)!cloneUser(call[c].user)]
        BY <1>7, <3>2 DEF Write
      <4> QED
        BY <4>1, <4>2, <4>3, CloneIsUser
    <3>3. CASE call[c].op = "DeleteUser"
      <4>1. call[c].id \in Ids
        BY <2>1, <3>3, CallArguments
      <4>2. users' = [users EXCEPT ![call[c].id] = Nil]
        BY <1>7, <3>3 DEF Write
      <4> QED
        BY <4>1, <4>2
    <3> QED
      BY <2>1, <3>1, <3>2, <3>3 DEF Writers
  <2>3. Decide(c, "OK", {}, 0)
    BY <1>7 DEF Write, Done
  <2>4. Decides(c)
    BY <2>3, DecidedType
  <2>5. TypeOK'
    BY <1>7, <2>2, <2>4 DEF Decides, Write, Goto, At, TypeOK, lockVars
  <2>6. ASSUME NEW d \in Clients
        PROVE  Phase(d)' /\ Holds(d)'
    BY <1>7, <2>4, <2>6
       DEF Decides, Write, Goto, At, TypeOK, Phase, Holds, lockVars
  <2>7. \A id \in Live' : users'[id].email = ""
    BY <2>2 DEF Live, TypeOK
  <2>8. ASSUME NEW d \in Clients
        PROVE  pc'[d] # "loop"
    BY <1>7, <2>8 DEF Write, Goto, At, TypeOK, Holds
  <2> QED
    BY <2>5, <2>6, <2>7, <2>8
<1>8. ASSUME NEW c \in Clients, Look(c)
      PROVE  LockInv'
  <2>1. \E code \in {"OK", "NotFound"}, found \in SUBSET User, count \in Nat :
           Decide(c, code, found, count)
    <3>1. CASE call[c].op = "GetUser" /\ GetUser(c)
      <4>1. call[c].id \in Ids
        BY <1>8, <3>1, CallArguments DEF Look, At, Phase, TypeOK
      <4>2. users[call[c].id] # Nil => memory(1)!cloneUser(users[call[c].id]) \in User
        BY <4>1, CloneIsUser DEF TypeOK
      <4> QED
        BY <3>1, <4>2 DEF GetUser, Refuse
    <3> QED
      BY <1>8, <3>1, CountIsNat DEF Look
  <2>2. Decides(c)
    BY <2>1, DecidedType
  <2>3. ASSUME NEW d \in Clients
        PROVE  Phase(d)' /\ Holds(d)'
    BY <1>8, <2>2, <2>3
       DEF Decides, Look, Goto, At, TypeOK, Phase, Holds, lockVars
  <2>4. TypeOK'
    BY <1>8, <2>2 DEF Decides, Look, Goto, At, TypeOK, lockVars
  <2> QED
    BY <1>8, <2>3, <2>4 DEF Look, Goto, At, TypeOK, Live
<1>9. ASSUME NEW c \in Clients, StartLoop(c)
      PROVE  LockInv'
  <2>1. TypeOK'
    BY <1>9 DEF StartLoop, Goto, At, TypeOK, lockVars, Live
  <2>2. ASSUME NEW d \in Clients
        PROVE  Phase(d)' /\ Holds(d)'
    BY <1>9, <2>2
       DEF StartLoop, Goto, At, TypeOK, Phase, Holds, lockVars, Lists, Writers
  <2>3. ASSUME NEW d \in Clients, pc'[d] = "loop"
        PROVE  todo'[d] \subseteq Live'
    BY <1>9, <2>3 DEF StartLoop, Goto, At, TypeOK, Live
  <2> QED
    BY <1>9, <2>1, <2>2, <2>3 DEF StartLoop, Live
<1>10. ASSUME NEW c \in Clients, Visit(c)
       PROVE  LockInv'
  <2>1. PICK id \in todo[c] :
          /\ todo' = [todo EXCEPT ![c] = @ \ {id}]
          /\ \E copies \in {{}, {memory(1)!cloneUser(users[id])}} :
               result' = [result EXCEPT ![c] = @ \cup copies]
    BY <1>10 DEF Visit, TypeOK
  <2>2. users[id] \in User
    BY <1>10, <2>1 DEF Visit, At, TypeOK, Live
  <2>3. PICK copies \in SUBSET User : result' = [result EXCEPT ![c] = @ \cup copies]
    BY <2>1, <2>2, CloneIsUser
  <2>4. TypeOK'
    BY <1>10, <2>1, <2>3 DEF Visit, At, TypeOK, lockVars
  <2>5. ASSUME NEW d \in Clients
        PROVE  Phase(d)' /\ Holds(d)'
    BY <1>10, <2>3, <2>5 DEF Visit, At, TypeOK, Phase, Holds, lockVars
  <2>6. ASSUME NEW d \in Clients, pc'[d] = "loop"
        PROVE  todo'[d] \subseteq Live'
    BY <1>10, <2>1, <2>6 DEF Visit, At, TypeOK, Live
  <2> QED
    BY <1>10, <2>4, <2>5, <2>6 DEF Visit, Live
<1>11. ASSUME NEW c \in Clients, EndLoop(c)
       PROVE  LockInv'
  <2>1. Decides(c)
    BY <1>11, DecidedType DEF EndLoop, TypeOK
  <2>2. TypeOK'
    BY <1>11, <2>1 DEF Decides, EndLoop, Goto, At, TypeOK, lockVars
  <2>3. ASSUME NEW d \in Clients
        PROVE  Phase(d)' /\ Holds(d)'
    BY <1>11, <2>1, <2>3
       DEF Decides, EndLoop, Goto, At, TypeOK, Phase, Holds, lockVars
  <2> QED
    BY <1>11, <2>2, <2>3 DEF EndLoop, Goto, At, TypeOK, Live
<1>12. ASSUME NEW c \in Clients, Unlock(c)
       PROVE  LockInv'
  <2>1. TypeOK'
    BY <1>12 DEF Unlock, Return, Goto, At, TypeOK
  <2>2. ASSUME NEW d \in Clients
        PROVE  Phase(d)' /\ Holds(d)'
    BY <1>12, <2>2 DEF Unlock, Return, Goto, At, TypeOK, Phase, Holds
  <2> QED
    BY <1>12, <2>1, <2>2 DEF Unlock, Return, Goto, At, TypeOK, Live
<1> QED
  BY <1>1, <1>2, <1>3, <1>4, <1>5, <1>6, <1>7, <1>8, <1>9, <1>10, <1>11, <1>12
     DEF Next, Run

-----------------------------------------------------------------------------
(* The loops of both lists test a user as the interface says they do. *)
LEMMA VisitTests ==
  ASSUME NEW c \in Clients, NEW id \in Live
  PROVE  id \in Listed(c) <=>
           IF call[c].op = "ListUsers"
           THEN memory(1)!Matches(users[id], call[c].filter)
           ELSE users[id].role = call[c].role
BY DEF Listed, Selected, memory!Matches, memory!AsTime, AsTime, memory!NoDate, NoDate

(* A step that leaves the map and the method alone leaves it up to date. *)
LEMMA StaysUpToDate ==
  ASSUME NEW c \in Clients, UpToDate(c),
         UNCHANGED <<users, pc[c], call[c], todo[c], result[c]>>
  PROVE  UpToDate(c)'
BY DEF UpToDate, Target, Listed, Live, Selected

(* No step lets a method act on a map that has changed since it looked. *)
LEMMA NextPromiseInv == PromiseInv /\ [Next]_vars => PromiseInv'
<1> SUFFICES ASSUME PromiseInv, [Next]_vars,
                    NEW d \in Clients
             PROVE  UpToDate(d)'
  BY NextLockInv DEF PromiseInv
<1>1. LockInv /\ TypeOK /\ Phase(d) /\ Holds(d) /\ UpToDate(d)
  BY DEF PromiseInv, LockInv
<1>2. CASE UNCHANGED vars
  BY <1>1, <1>2, StaysUpToDate DEF vars
<1>3. ASSUME NEW c \in Clients, c # d, Enter(c) \/ Run(c)
      PROVE  UpToDate(d)'
  <2>1. UNCHANGED <<pc[d], call[d], todo[d], result[d]>>
    BY <1>1, <1>3
       DEF TypeOK, Enter, Run, Invoke, Return, Goto, lockVars, Lock, RLock, Drain,
           Check, Write, Look, StartLoop, Visit, EndLoop, Unlock
  <2>2. CASE Write(c)
    <3>1. Holds(c) /\ pc[c] = "write"
      BY <2>2, <1>1 DEF LockInv, Write, At
    <3>2. pc[d] \notin {"write", "loop"}
      BY <1>1, <1>3, <3>1 DEF Holds
    <3> QED
      BY <2>1, <3>2 DEF UpToDate
  <2>3. CASE ~Write(c)
    <3>1. UNCHANGED users
      BY <1>3, <2>3
         DEF Enter, Run, Invoke, Return, Lock, RLock, Drain,
             Check, Look, StartLoop, Visit, EndLoop, Unlock
    <3> QED
      BY <1>1, <2>1, <3>1, StaysUpToDate
  <2> QED
    BY <2>2, <2>3
<1>4. CASE Check(d)
  BY <1>1, <1>4 DEF Check, Goto, At, TypeOK, UpToDate, Target
<1>5. CASE StartLoop(d)
  <2>1. pc'[d] = "loop" /\ todo'[d] = Live /\ result'[d] = {}
    BY <1>1, <1>5 DEF StartLoop, Goto, At, TypeOK, Phase
  <2>2. Listed(d)' \subseteq Live
    BY <1>5 DEF StartLoop, Listed, Selected, Live
  <2> QED
    BY <2>1, <2>2 DEF UpToDate
<1>6. CASE Visit(d)
  <2>1. PICK id \in todo[d] :
          /\ todo' = [todo EXCEPT ![d] = @ \ {id}]
          /\ result' = [result EXCEPT ![d] =
               IF IF call[d].op = "ListUsers"
                  THEN memory(1)!Matches(users[id], call[d].filter)
                  ELSE users[id].role = call[d].role
               THEN @ \cup {memory(1)!cloneUser(users[id])} ELSE @]
    BY <1>6 DEF Visit
  <2>2. pc[d] = "loop" /\ id \in Live /\ todo[d] \subseteq Live
    BY <1>1, <1>6, <2>1 DEF LockInv, Visit, At
  <2>3. memory(1)!cloneUser(users[id]) = users[id]
    BY <1>1, <2>2, CloneIsUser DEF LockInv, TypeOK, Live
  <2>4. result'[d] = IF id \in Listed(d) THEN result[d] \cup {users[id]} ELSE result[d]
    BY <1>1, <2>1, <2>2, <2>3, VisitTests DEF TypeOK
  <2>5. todo'[d] = todo[d] \ {id}
    BY <1>1, <2>1 DEF TypeOK
  <2>6. result'[d] = {users[i] : i \in Listed(d) \ todo'[d]}
    BY <1>1, <2>1, <2>2, <2>4, <2>5 DEF UpToDate
  <2>7. Listed(d)' = Listed(d)
    BY <1>6 DEF Visit, Listed, Selected, Live
  <2> QED
    BY <1>6, <2>2, <2>6, <2>7 DEF UpToDate, Visit
<1>7. ASSUME Enter(d) \/ Run(d), ~Check(d), ~StartLoop(d), ~Visit(d)
      PROVE  UpToDate(d)'
  BY <1>1, <1>7
     DEF TypeOK, Enter, Run, Goto, Lock, RLock, Drain, Write, Look, EndLoop, Unlock,
         UpToDate
<1> QED
  BY <1>2, <1>3, <1>4, <1>5, <1>6, <1>7 DEF Next

-----------------------------------------------------------------------------
(* A writer that is refused is refused as the interface promises; one that  *)
(* goes on has not done anything yet. *)
LEMMA CheckPromised ==
  ASSUME PromiseInv, NEW c \in Clients, Check(c)
  PROVE  Promised!Next \/ UNCHANGED Promised!vars
<1>1. call[c] # Nil /\ answer[c] = Nil /\ call[c].op \in Writers
  BY CallArguments DEF PromiseInv, LockInv, TypeOK, Phase, Check, At
<1>2. CASE call[c].op = "AddUser" /\ users[Target(c)] # Nil
  BY <1>1, <1>2
     DEF Check, Target, Promised!Next, Promised!Serve, Promised!AddUser,
         Promised!Calling, Promised!Pending, Refuse, Promised!Refuse,
         Decide, Promised!Decide
<1>3. CASE call[c].op = "UpdateUser" /\ users[Target(c)] = Nil
  BY <1>1, <1>3
     DEF Check, Target, Promised!Next, Promised!Serve, Promised!UpdateUser,
         Promised!Calling, Promised!Pending, Refuse, Promised!Refuse,
         Decide, Promised!Decide
<1>4. CASE call[c].op = "DeleteUser" /\ users[Target(c)] = Nil
  BY <1>1, <1>4
     DEF Check, Target, Promised!Next, Promised!Serve, Promised!DeleteUser,
         Promised!Calling, Promised!Pending, Refuse, Promised!Refuse,
         Decide, Promised!Decide
<1> QED
  BY <1>1, <1>2, <1>3, <1>4 DEF Check, Target, Writers, Promised!vars

(* A writer that has found the map as its check asks is told so, and the    *)
(* map changes as the interface promises. *)
LEMMA WritePromised ==
  ASSUME PromiseInv, NEW c \in Clients, Write(c)
  PROVE  Promised!Serve(c)
<1>1. /\ call[c] \in Calls /\ call[c] # Nil /\ answer[c] = Nil
      /\ call[c].op \in Writers /\ users \in [Ids -> User \cup {Nil}]
      /\ (call[c].op = "AddUser") <=> (users[Target(c)] = Nil)
  BY CallArguments DEF PromiseInv, LockInv, TypeOK, Phase, UpToDate, Write, At
<1>2. Promised!Decide(c, "OK", {}, 0) /\ UNCHANGED call
  BY DEF Write, Done, Decide, Promised!Decide
<1>3. CASE call[c].op = "AddUser"
  <2> DEFINE user == call[c].user
  <2>1. PICK time \in 1 .. MaxTime :
          users' = [users EXCEPT ![user.id] =
                      memory(time)!cloneUser(memory(time)!WithDefaults(user))]
    BY <1>3 DEF Write
  <2>2. user \in User
    BY <1>1, <1>3, CallArguments
  <2>3. Promised!Store(user, Promised!NewDates(user), Promised!NewStatuses(user))
    <3> DEFINE date == IF user.create_date = NoDate THEN time ELSE user.create_date
               status == IF user.status = "INACTIVE" THEN "ACTIVE" ELSE user.status
    <3>1. memory(time)!cloneUser(memory(time)!WithDefaults(user))
            = [user EXCEPT !.create_date = date, !.status = status, !.email = ""]
      BY <2>2 DEF memory!cloneUser, memory!WithDefaults, memory!NoDate, NoDate, User
    <3>2. time \in Promised!Dates
      BY MaxTimeAssumption DEF Promised!Dates
    <3>3. date \in Promised!NewDates(user)
      BY <3>2 DEF Promised!NewDates, Promised!NoDate, NoDate
    <3>4. status \in Promised!NewStatuses(user)
      BY DEF Promised!NewStatuses
    <3> HIDE DEF date, status
    <3> QED
      BY <2>1, <3>1, <3>3, <3>4 DEF Promised!Store
  <2> QED
    BY <1>1, <1>2, <1>3, <2>1, <2>3
       DEF Target, Promised!Serve, Promised!AddUser, Promised!Calling,
           Promised!Pending, Promised!Applied, Promised!Done
<1>4. CASE call[c].op = "UpdateUser"
  <2> DEFINE user == call[c].user
  <2>1. users' = [users EXCEPT ![user.id] = memory(1)!cloneUser(user)]
    BY <1>4 DEF Write
  <2>2. user \in User
    BY <1>1, <1>4, CallArguments
  <2>3. Promised!Store(user, {user.create_date, users[user.id].create_date},
                       {user.status})
    <3>1. memory(1)!cloneUser(user)
            = [user EXCEPT !.create_date = user.create_date, !.status = user.status,
                           !.email = ""]
      BY <2>2 DEF memory!cloneUser, User
    <3> QED
      BY <2>1, <3>1 DEF Promised!Store
  <2> QED
    BY <1>1, <1>2, <1>4, <2>1, <2>3
       DEF Target, Promised!Serve, Promised!UpdateUser, Promised!Calling,
           Promised!Pending, Promised!Applied, Promised!Done
<1>5. CASE call[c].op = "DeleteUser"
  BY <1>1, <1>2, <1>5
     DEF Write, Target, Promised!Serve, Promised!DeleteUser, Promised!Calling,
         Promised!Pending, Promised!Applied, Promised!Done
<1> QED
  BY <1>1, <1>3, <1>4, <1>5 DEF Writers

(* A reader is told what the map holds at the moment it looks. *)
LEMMA LookPromised ==
  ASSUME PromiseInv, NEW c \in Clients, Look(c)
  PROVE  Promised!Serve(c)
<1>1. /\ call[c] \in Calls /\ call[c] # Nil /\ answer[c] = Nil
      /\ users \in [Ids -> User \cup {Nil}]
  BY CallArguments DEF PromiseInv, LockInv, TypeOK, Phase, Look, At
<1>2. ASSUME call[c].op = "GetUser", users[call[c].id] # Nil
      PROVE  memory(1)!cloneUser(users[call[c].id]) = users[call[c].id]
  <2>1. call[c].id \in Ids
    BY <1>1, <1>2, CallArguments
  <2> QED
    BY <1>1, <1>2, <2>1, CloneIsUser DEF PromiseInv, LockInv, Live
<1>3. CASE call[c].op = "GetUser"
  BY <1>1, <1>2, <1>3
     DEF Look, GetUser, Refuse, Decide, Promised!Serve, Promised!GetUser,
         Promised!Calling, Promised!Pending, Promised!Refuse, Promised!Decide
<1>4. CASE call[c].op = "UserExists"
  BY <1>1, <1>4
     DEF Look, Decide, Promised!Serve, Promised!UserExists,
         Promised!Calling, Promised!Pending, Promised!Decide
<1>5. CASE call[c].op = "Count"
  <2>1. Promised!Cardinality(Promised!Live) = Cardinality(Live)
    BY DEF Promised!Cardinality, Cardinality, Promised!Live, Live
  <2> QED
    BY <1>1, <1>5, <2>1
       DEF Look, Decide, Promised!Serve, Promised!Count,
           Promised!Calling, Promised!Pending, Promised!Decide
<1> QED
  BY <1>3, <1>4, <1>5 DEF Look

(* A list is what the map holds at the moment its loop ends. *)
LEMMA EndLoopPromised ==
  ASSUME PromiseInv, NEW c \in Clients, EndLoop(c)
  PROVE  Promised!Serve(c)
<1>1. /\ call[c] # Nil /\ answer[c] = Nil /\ call[c].op \in Lists
      /\ UNCHANGED <<users, call>>
  BY CallArguments DEF PromiseInv, LockInv, TypeOK, Phase, EndLoop, At
<1>2. Promised!Decide(c, "OK", {users[id] : id \in Listed(c)}, 0)
  <2>1. result[c] = {users[id] : id \in Listed(c)}
    BY DEF PromiseInv, UpToDate, EndLoop, At
  <2> QED
    BY <2>1 DEF EndLoop, Decide, Promised!Decide
<1>3. CASE call[c].op = "ListUsers"
  BY <1>1, <1>2, <1>3
     DEF Listed, Selected, Live, AsTime, NoDate,
         Promised!Serve, Promised!ListUsers, Promised!Selected, Promised!Live,
         Promised!AsTime, Promised!NoDate, Promised!Calling, Promised!Pending
<1>4. CASE call[c].op = "ListUsersByRole"
  BY <1>1, <1>2, <1>4
     DEF Listed, Live, Promised!Serve, Promised!ListUsersByRole, Promised!Live,
         Promised!Calling, Promised!Pending
<1> QED
  BY <1>1, <1>3, <1>4 DEF Lists

(* Every step is one the interface promises, or nothing its callers see. *)
LEMMA NextPromised ==
  PromiseInv /\ [Next]_vars => [Promised!Next]_Promised!vars
<1> SUFFICES ASSUME PromiseInv, [Next]_vars
             PROVE  Promised!Next \/ UNCHANGED Promised!vars
  OBVIOUS
<1>1. CASE UNCHANGED vars
  BY <1>1 DEF vars, Promised!vars
<1>2. ASSUME NEW c \in Clients, Enter(c)
      PROVE  Promised!Next
  BY <1>2 DEF Enter, Invoke, Promised!Invoke, Promised!Next
<1>3. ASSUME NEW c \in Clients, Unlock(c)
      PROVE  Promised!Next
  BY <1>3 DEF Unlock, Return, Promised!Return, Promised!Next
<1>4. ASSUME NEW c \in Clients,
             Lock(c) \/ RLock(c) \/ Drain(c) \/ StartLoop(c) \/ Visit(c)
      PROVE  UNCHANGED Promised!vars
  BY <1>4 DEF Lock, RLock, Drain, StartLoop, Visit, Promised!vars
<1>5. ASSUME NEW c \in Clients, Write(c) \/ Look(c) \/ EndLoop(c)
      PROVE  Promised!Next
  BY <1>5, WritePromised, LookPromised, EndLoopPromised DEF Promised!Next
<1> QED
  BY <1>1, <1>2, <1>3, <1>4, <1>5, CheckPromised DEF Next, Run

-----------------------------------------------------------------------------
(* Who has the lock is in a method, from which there is a way out to the    *)
(* unlock.                                                                  *)
Holder(c) ==
  /\ writer = c => pc[c] \in {"drain", "check", "write", "unlock"}
  /\ c \in readers => pc[c] \in {"read", "loop", "unlock"}
HolderInv == PromiseInv /\ \A c \in Clients : Holder(c)

(* Every step keeps it so.                                                  *)
LEMMA NextHolderInv == HolderInv /\ [Next]_vars => HolderInv'
<1> SUFFICES ASSUME HolderInv, [Next]_vars, NEW d \in Clients
             PROVE  Holder(d)'
  BY NextPromiseInv DEF HolderInv
<1>1. TypeOK /\ \A c \in Clients : Holder(c)
  BY DEF HolderInv, PromiseInv, LockInv
<1>2. CASE UNCHANGED vars
  BY <1>1, <1>2 DEF vars, Holder
<1>3. ASSUME NEW c \in Clients, Enter(c) \/ Lock(c) \/ Drain(c) \/ RLock(c)
      PROVE  Holder(d)'
  BY <1>1, <1>3, NilIsNoClient
     DEF Enter, Lock, Drain, RLock, At, Goto, lockVars, TypeOK, Holder
<1>4. ASSUME NEW c \in Clients,
             Check(c) \/ Write(c) \/ Look(c) \/ StartLoop(c) \/ Visit(c) \/ EndLoop(c)
      PROVE  Holder(d)'
  BY <1>1, <1>4
     DEF Check, Write, Look, StartLoop, Visit, EndLoop, At, Goto, lockVars,
         TypeOK, Holder
<1>5. ASSUME NEW c \in Clients, Unlock(c)
      PROVE  Holder(d)'
  BY <1>1, <1>5, NilIsNoClient DEF Unlock, At, Goto, TypeOK, Holder
<1> QED
  BY <1>2, <1>3, <1>4, <1>5 DEF Next, Run

(* Behind whoever waits there is somebody who does not.                     *)
LEMMA HoldersGoOn == HolderInv => SomebodyGoesOn
<1> SUFFICES ASSUME HolderInv, NEW c \in Clients, pc[c] # "idle"
             PROVE  \E d \in Clients : GoesOn(d)
  BY DEF SomebodyGoesOn
<1>1. TypeOK /\ \A d \in Clients : Holder(d)
  BY DEF HolderInv, PromiseInv, LockInv
<1>2. ASSUME NEW d \in Clients, At(d, "drain")
      PROVE  \E e \in Clients : GoesOn(e)
  BY <1>1, <1>2 DEF TypeOK, Holder, GoesOn, Inside, At
<1>3. CASE At(c, "lock") /\ writer # Nil
  BY <1>1, <1>2, <1>3 DEF TypeOK, Holder, GoesOn, Inside, At
<1> QED
  BY <1>1, <1>2, <1>3 DEF TypeOK, GoesOn, Inside, At

-----------------------------------------------------------------------------
(* The invariant holds in every state. *)
LEMMA Invariance == Spec => []PromiseInv
<1>1. PromiseInv /\ UNCHANGED vars => PromiseInv'
  BY NextPromiseInv
<1> QED
  BY InitInv, NextPromiseInv, PTL DEF Spec

(* The lock and what is under it keep their types. *)
THEOREM LockTyping == Spec => []TypeOK
BY Invariance, PTL DEF PromiseInv, LockInv

(* A goroutine about to write the map is the only one in any method of the  *)
(* storage (memory_storage.go:33, 71, 84).                                  *)
THEOREM WritersAlone == Spec => []NoConcurrentMapWrite
<1>1. PromiseInv => NoConcurrentMapWrite
  BY DEF PromiseInv, LockInv, Holds, NoConcurrentMapWrite, Inside
<1> QED
  BY <1>1, Invariance, PTL

(* The lock deadlocks nobody: while a goroutine is in a method, one can go  *)
(* on (memory_storage.go:33, 59, 98).                                       *)
THEOREM LockDoesNotDeadlock == Spec => []SomebodyGoesOn
<1>1. Init => HolderInv
  BY InitInv, NilIsNoClient DEF Init, CallsInit, HolderInv, Holder
<1> QED
  BY <1>1, NextHolderInv, HoldersGoOn, PTL DEF Spec

(* The storage step by step implements the interface: every method takes    *)
(* effect at one moment (memory_storage.go:33, 98).                         *)
THEOREM MemoryImplementsStorage == Spec => KeepsItsPromise
<1>1. Init => Promised!Init
  BY DEF Init, CallsInit, Promised!Init, Promised!CallsInit
<1> QED
  BY <1>1, Invariance, NextPromised, PTL
     DEF Spec, KeepsItsPromise, Promised!Spec

(* Of this storage it is true that a user that was added "can't be added    *)
(* again" (cmd/client/README.md:12), by any number of goroutines that try:  *)
(* an addition that succeeds has found nobody under the id.                 *)
NobodyIsAddedTwice ==
  [][\A c \in Clients :
       Calling(c, "AddUser") /\ answer'[c] # Nil /\ answer'[c].code = "OK" =>
         users[call[c].user.id] = Nil]_vars

(* It follows from the promise of the interface.                            *)
THEOREM AddedOnce == Spec => NobodyIsAddedTwice
<1> DEFINE Free ==
      \A c \in Clients :
        Calling(c, "AddUser") /\ answer'[c] # Nil /\ answer'[c].code = "OK" =>
          users[call[c].user.id] = Nil
<1>1. ASSUME PromiseInv, [Next]_vars PROVE Free
  <2> SUFFICES ASSUME NEW c \in Clients, Calling(c, "AddUser"), answer'[c] # Nil,
                      answer'[c].code = "OK"
               PROVE  users[call[c].user.id] = Nil
    OBVIOUS
  <2>1. /\ answer[c] = Nil /\ call[c] # Nil /\ call[c].op = "AddUser"
        /\ answer = [d \in Clients |-> answer[d]]
    BY <1>1 DEF Calling, Pending, PromiseInv, LockInv, TypeOK
  <2>2. PICK d \in Clients :
          Promised!Invoke(d) \/ Promised!Serve(d) \/ Promised!Return(d)
    BY <1>1, <2>1, NextPromised DEF Promised!Next, Promised!vars
  <2>3. Promised!Serve(d)
    BY <2>1, <2>2 DEF Promised!Invoke, Promised!Return
  <2>4. d = c
    BY <2>1, <2>3
       DEF Promised!Serve, Promised!AddUser, Promised!UpdateUser,
           Promised!DeleteUser, Promised!GetUser, Promised!UserExists,
           Promised!Count, Promised!ListUsers, Promised!ListUsersByRole,
           Promised!Fails, Promised!Applied, Promised!Done, Promised!Refuse,
           Promised!Decide
  <2>5. Promised!AddUser(c) \/ Promised!Fails(c)
    BY <2>1, <2>3, <2>4
       DEF Promised!Serve, Promised!UpdateUser, Promised!DeleteUser,
           Promised!GetUser, Promised!UserExists, Promised!Count,
           Promised!ListUsers, Promised!ListUsersByRole, Promised!Calling
  <2> QED
    BY <2>1, <2>5
       DEF Promised!AddUser, Promised!Fails, Promised!Refuse, Promised!Decide
<1>2. NobodyIsAddedTwice <=> [][Free]_vars
  BY DEF NobodyIsAddedTwice
<1>3. PromiseInv /\ [Next]_vars => [Free]_vars
  BY <1>1
<1> QED
  BY <1>2, <1>3, Invariance, PTL DEF Spec
=============================================================================
