-------------------------- MODULE UserLedgerProofs --------------------------
(***************************************************************************)
(* Theorems about what becomes of a user, for every set of ids, goroutines *)
(* and requests, every bound, and with or without a faulty storage.        *)
(***************************************************************************)
EXTENDS UserLedger, UserServiceProofs

(* A user that is to be written back carries a date its id was given; the   *)
(* ids it is kept under are their own.                                      *)
Dated(p) ==
  At(p, "UpdateUser", "update") \/ At(p, "UserActivityStream", "update") =>
    snap[p].create_date \in born[snap[p].id]

DateInv ==
  /\ OwnIdInv
  /\ CreateDateWasGiven
  /\ \A p \in Procs : Dated(p)

(* No user is stored or held when the server starts. *)
LEMMA InitDateInv == LedgerInit => DateInv
BY InitOwnIdInv
   DEF LedgerInit, Init, DateInv, CreateDateWasGiven, Dated, At,
       storage!Init, storage!UserExists

(* No step stores or holds a date that no addition gave. *)
LEMMA NextDateInv == DateInv /\ [LedgerNext]_ledgerVars => DateInv'
<1> SUFFICES ASSUME DateInv, [LedgerNext]_ledgerVars
             PROVE  DateInv'
  OBVIOUS
<1>1. [Next]_vars
  BY DEF LedgerNext, ledgerVars
<1>2. OwnIdInv /\ OwnIdInv'
  BY <1>1, NextOwnIdInv DEF DateInv
<1>3. TypeOK /\ TypeOK'
  BY <1>2 DEF OwnIdInv
<1>4. users \in [Ids -> User \cup {Nil}]
  BY <1>3, SameData DEF TypeOK, storage!StorageTypeOK
<1>5. ASSUME NEW id \in Ids
      PROVE  born[id] \subseteq born'[id]
  BY DEF LedgerNext, ledgerVars
<1>6. ASSUME NEW id \in Ids, users[id] # Nil
      PROVE  /\ users[id] \in User /\ users[id].id = id
             /\ users[id].create_date \in born[id]
  BY <1>2, <1>4, <1>6
     DEF DateInv, CreateDateWasGiven, OwnIdInv, StoredUnderOwnId,
         storage!UserExists
<1>7. ASSUME NEW q \in Procs,
             At(q, "UpdateUser", "update")' \/ At(q, "UserActivityStream", "update")'
      PROVE  snap'[q].create_date \in born'[snap'[q].id]
  <2>1. CASE UNCHANGED <<pc[q], method[q], req[q], snap[q]>>
    <3>1. At(q, "UpdateUser", "update") \/ At(q, "UserActivityStream", "update")
      BY <1>7, <2>1 DEF At
    <3>2. snap[q].id \in Ids
      BY <1>3, <3>1 DEF TypeOK, RequestOK, LocalsOK, At, User
    <3> QED
      BY <1>5, <2>1, <3>1, <3>2 DEF DateInv, Dated
  <2>2. ASSUME NEW id \in Ids, storage!GetUser(id) \in User,
               snap'[q].id = storage!GetUser(id).id,
               snap'[q].create_date = storage!GetUser(id).create_date
        PROVE  snap'[q].create_date \in born'[snap'[q].id]
    BY <1>3, <1>5, <1>6, <2>2, GetUserReturns, NilAssumption
       DEF TypeOK, storage!UserExists
  <2>3. CASE /\ req[q].user \in User
             /\ storage!GetUser(req[q].user.id) \in User
             /\ snap'[q] = Overlay(storage!GetUser(req[q].user.id), req[q].user,
                                   req[q].paths)
    <3>1. req[q].user.id \in Ids
      BY <2>3 DEF User
    <3> QED
      BY <2>2, <2>3, <3>1, OverlayIsUser
  <2>4. CASE /\ req[q] \in Activity
             /\ storage!GetUser(req[q].user_id) \in User
             /\ snap'[q] = [storage!GetUser(req[q].user_id) EXCEPT
                              !.last_login = req[q].timestamp]
    <3>1. req[q].user_id \in Ids
      BY <2>4 DEF Activity
    <3>2. /\ snap'[q].id = storage!GetUser(req[q].user_id).id
          /\ snap'[q].create_date = storage!GetUser(req[q].user_id).create_date
      BY <2>4 DEF User
    <3> QED
      BY <2>2, <2>4, <3>1, <3>2
  <2>5. Approach(q)
    BY <1>1, <1>3, StepApproach
  <2> QED
    BY <1>7, <2>1, <2>3, <2>4, <2>5 DEF Approach, At
<1>8. ASSUME NEW id \in Ids, users'[id] # Nil
      PROVE  users'[id].create_date \in born'[id]
  <2>1. CASE users'[id] = users[id]
    BY <1>5, <1>6, <1>8, <2>1
  <2>2. ASSUME NEW p \in Procs, Adds(p), users'[id] # users[id]
        PROVE  users'[id].create_date \in born'[id]
    <3>1. users[id] = Nil
      BY <1>4, <2>2 DEF Adds, storage!AddUser, storage!UserExists
    <3> QED
      BY <1>8, <3>1 DEF LedgerNext, ledgerVars, vars, Gives
  <2>3. ASSUME NEW p \in Procs, Rewrites(p), users'[id] # users[id]
        PROVE  users'[id].create_date \in born'[id]
    <3>1. snap[p] \in User
      BY <1>3, <2>3 DEF Rewrites, TypeOK, RequestOK, LocalsOK, At
    <3>2. snap[p].id = id /\ users'[id] = storage!cloneUser(snap[p])
      BY <1>4, <2>3 DEF Rewrites, storage!UpdateUser
    <3>3. users'[id].create_date = snap[p].create_date
      BY <3>1, <3>2, CloneIsUser
    <3> QED
      BY <1>5, <2>3, <3>2, <3>3 DEF DateInv, Dated, Rewrites
  <2>4. ASSUME NEW p \in Procs, Deletes(p)
        PROVE  users'[id] = users[id]
    BY <1>4, <1>8, <2>4 DEF Deletes, storage!DeleteUser
  <2>5. ASSUME NEW p \in Procs, Overwrites(p), users'[id] # users[id]
        PROVE  users'[id].create_date \in born'[id]
    <3>1. req[p].id = id
      BY <1>4, <2>5 DEF Overwrites, storage!UpdateUser
    <3>2. Gives(id)
      BY <2>5, <3>1 DEF Overwrites, Gives
    <3> QED
      BY <2>5, <3>2 DEF LedgerNext, ledgerVars, vars
  <2> QED
    BY <1>1, <1>3, <2>1, <2>2, <2>3, <2>4, <2>5, StepEffect DEF Effect
<1> QED
  BY <1>2, <1>7, <1>8
     DEF DateInv, CreateDateWasGiven, Dated, storage!UserExists

(* The date stored for an id is one it was given by an addition or a sync,  *)
(* by every interleaving of updates, logins, deletions and additions.       *)
THEOREM CreateDate == LedgerSpec => []CreateDateWasGiven
<1>1. DateInv => CreateDateWasGiven
  BY DEF DateInv
<1> QED
  BY <1>1, InitDateInv, NextDateInv, PTL DEF LedgerSpec
-----------------------------------------------------------------------------
(* The first user. Whoever is about to be added while no user was ever      *)
(* there has been found to be an admin.                                     *)
NobodyYet == \A id \in Ids : born[id] = {}

FirstInv ==
  /\ DateInv
  /\ \A p \in Procs :
       At(p, "AddUser", "add") /\ NobodyYet => req[p].role = "ADMIN"

(* Dates are never taken away.                                              *)
LEMMA NobodyBefore == ASSUME [LedgerNext]_ledgerVars, NobodyYet' PROVE NobodyYet
BY DEF LedgerNext, ledgerVars, NobodyYet

(* While there never was a user, none is stored.                            *)
LEMMA NobodyIsThere == ASSUME DateInv, NobodyYet PROVE storage!Live = {}
BY DEF DateInv, CreateDateWasGiven, NobodyYet, storage!Live

(* As long as no id was ever given a date, who adds by AddUser has asked    *)
(* for an admin.                                                            *)
LEMMA NextFirstInv == FirstInv /\ [LedgerNext]_ledgerVars => FirstInv'
<1> SUFFICES ASSUME FirstInv, [LedgerNext]_ledgerVars
             PROVE  FirstInv'
  OBVIOUS
<1>1. [Next]_vars /\ TypeOK /\ TypeOK'
  BY NextDateInv DEF LedgerNext, ledgerVars, FirstInv, DateInv, OwnIdInv
<1>2. ASSUME NEW q \in Procs, At(q, "AddUser", "add")', NobodyYet'
      PROVE  req'[q].role = "ADMIN"
  <2>1. NobodyYet /\ storage!Count = 0
    BY <1>2, NobodyBefore, NobodyIsThere, CountZero DEF FirstInv
  <2>2. Approach(q)
    BY <1>1, StepApproach
  <2> QED
    BY <1>2, <2>1, <2>2 DEF Approach, FirstInv, At, Acceptable
<1> QED
  BY <1>2, NextDateInv DEF FirstInv

(* A goroutine about to store a user returns only by storing it.            *)
LEMMA OnlyTheStore ==
  ASSUME TypeOK, [Next]_vars, NEW p \in Procs, At(p, "AddUser", "add"),
         pc'[p] = "return"
  PROVE  AddUserStore(p)
<1>1. pc \in [Procs -> Labels] /\ pc[p] = "add" /\ method[p] = "AddUser" /\ pc' # pc
  BY DEF TypeOK, ControlOK, At
<1>2. PICK d \in Procs : Handle(d) \/ Exchange(d)
  BY <1>1 DEF Next, Tick, vars
<1>3. \E label : pc' = [pc EXCEPT ![d] = label]
  BY <1>1, <1>2
     DEF Handle, AddUserCount, AddUserStore, GetUser, UpdateUserRead, UpdateUserWrite,
         DeleteUser, ListUsers, ListUsersByRole, StartListing, BatchAddUser,
         ActivityExists, ActivityRead, ActivityWrite, SyncExists, SyncWrite, Finish,
         Exchange, Call, RecvMessage, RecvEnd, SendUser, SendReply, SendFails,
         NextMessage, Answer, Return, Goto
<1>4. d = p
  BY <1>1, <1>3
<1> QED
  BY <1>1, <1>2, <1>4
     DEF Handle, AddUserCount, GetUser, UpdateUserRead, UpdateUserWrite,
         DeleteUser, ListUsers, ListUsersByRole, BatchAddUser,
         ActivityExists, ActivityRead, ActivityWrite, SyncExists, SyncWrite, Finish,
         Exchange, Call, RecvMessage, RecvEnd, SendUser, SendReply, SendFails, At

(* The first user there ever is, stored by AddUser, is an admin, whatever   *)
(* races with it and whatever is deleted, added and synchronised later.     *)
THEOREM FirstEverAdmin == LedgerSpec => FirstUserEverIsAdmin
<1> DEFINE Admitted ==
      \A p \in Procs :
        /\ \A id \in Ids : born[id] = {}
        /\ At(p, "AddUser", "add") /\ pc'[p] = "return" /\ reply'[p].code = "OK"
        => users'[req[p].id].role = "ADMIN"
<1>1. ASSUME FirstInv, [LedgerNext]_ledgerVars PROVE Admitted
  <2> SUFFICES ASSUME NEW p \in Procs, NobodyYet, At(p, "AddUser", "add"),
                      pc'[p] = "return", reply'[p].code = "OK"
               PROVE  users'[req[p].id].role = "ADMIN"
    BY DEF NobodyYet
  <2>1. TypeOK /\ [Next]_vars
    BY <1>1 DEF FirstInv, DateInv, OwnIdInv, LedgerNext, ledgerVars
  <2>2. AddUserStore(p)
    BY <2>1, OnlyTheStore
  <2>3. reply = [q \in Procs |-> reply[q]]
    BY <2>1 DEF TypeOK, LocalsOK
  <2>4. storage!AddUser(req[p], "OK")
    BY <2>2, <2>3 DEF AddUserStore, Return, Answer, Codes
  <2>5. req[p] \in User /\ req[p].role = "ADMIN" /\ req[p].id \in Ids
    <3>1. req[p] \in User
      BY <2>1, RequestKinds DEF TypeOK, RequestOK, At
    <3>2. req[p].role = "ADMIN"
      BY <1>1 DEF FirstInv
    <3> QED
      BY <3>1, <3>2 DEF User
  <2>6. storage!cloneUser(storage!WithDefaults(req[p])).role = "ADMIN"
    BY <2>1, <2>5, CloneIsUser, DefaultsAreUser DEF TypeOK, storage!StorageTypeOK
  <2>7. users \in [Ids -> User \cup {Nil}]
    BY <2>1, SameData DEF TypeOK, storage!StorageTypeOK
  <2> QED
    BY <2>4, <2>5, <2>6, <2>7 DEF storage!AddUser
<1>2. LedgerInit => FirstInv
  BY InitDateInv DEF LedgerInit, Init, FirstInv, At
<1>3. FirstUserEverIsAdmin <=> [][Admitted]_ledgerVars
  BY DEF FirstUserEverIsAdmin
<1>4. FirstInv /\ [LedgerNext]_ledgerVars => [Admitted]_ledgerVars
  BY <1>1
<1> QED
  BY <1>2, <1>3, <1>4, NextFirstInv, PTL DEF LedgerSpec
-----------------------------------------------------------------------------
(* The account. Sums are cardinalities of sets of pairs, so what one step   *)
(* changes can be reckoned with the facts about finite sets.                *)
Pairs(f) == UNION {{p} \X (1 .. f[p]) : p \in DOMAIN f}

(* A row of n pairs has n of them.                                          *)
LEMMA RowOf ==
  ASSUME NEW d, NEW n \in Nat
  PROVE  IsFiniteSet({d} \X (1 .. n)) /\ Cardinality({d} \X (1 .. n)) = n
<1>1. IsFiniteSet({d}) /\ Cardinality({d}) = 1
  BY FS_Singleton
<1>2. IsFiniteSet(1 .. n) /\ Cardinality(1 .. n) = IF 1 > n THEN 0 ELSE n - 1 + 1
  BY FS_Interval
<1>3. Cardinality(1 .. n) = n
  BY <1>2
<1>4. /\ IsFiniteSet({d} \X (1 .. n))
      /\ Cardinality({d} \X (1 .. n)) = Cardinality({d}) * Cardinality(1 .. n)
  BY <1>1, <1>2, FS_Product
<1>5. Cardinality({d} \X (1 .. n)) = 1 * n
  BY <1>1, <1>3, <1>4
<1> QED
  BY <1>4, <1>5

(* Where nobody is counted, the sum is 0, and where one is, it is his.      *)
LEMMA TotalOfFew ==
  /\ \A f : DOMAIN f = {} => Total(f) = 0
  /\ \A f, d : DOMAIN f = {d} /\ f[d] \in Nat => Total(f) = f[d]
<1>1. ASSUME NEW f, DOMAIN f = {} PROVE Total(f) = 0
  <2>1. UNION {{p} \X (1 .. f[p]) : p \in DOMAIN f} = {}
    BY <1>1
  <2> QED
    BY <2>1, FS_EmptySet DEF Total
<1>2. ASSUME NEW f, NEW d, DOMAIN f = {d}, f[d] \in Nat PROVE Total(f) = f[d]
  <2>1. UNION {{p} \X (1 .. f[p]) : p \in DOMAIN f} = {d} \X (1 .. f[d])
    BY <1>2
  <2>2. Cardinality({d} \X (1 .. f[d])) = f[d]
    BY <1>2, RowOf
  <2> QED
    BY <2>1, <2>2 DEF Total
<1> QED
  BY <1>1, <1>2

(* One summand taken out of a sum.                                          *)
LEMMA TotalWithout ==
  ASSUME NEW S, NEW f \in [S -> Nat], NEW d \in S,
         NEW R, R = UNION {{p} \X (1 .. f[p]) : p \in S \ {d}}, IsFiniteSet(R)
  PROVE  IsFiniteSet(Pairs(f)) /\ Total(f) = Cardinality(R) + f[d]
<1> DEFINE D == {d} \X (1 .. f[d])
<1>1. Pairs(f) = R \cup D
  BY DEF Pairs
<1>2. R \cap D = {}
  OBVIOUS
<1>3. f[d] \in Nat
  OBVIOUS
<1>4. IsFiniteSet(D) /\ Cardinality(D) = f[d]
  BY <1>3, RowOf
<1> HIDE DEF D
<1>5. /\ IsFiniteSet(R \cup D)
      /\ Cardinality(R \cup D) = Cardinality(R) + Cardinality(D) - Cardinality(R \cap D)
  BY <1>4, FS_Union
<1>6. Cardinality(R) \in Nat /\ Cardinality(R \cap D) = 0
  BY <1>2, FS_CardinalityType, FS_EmptySet
<1>7. Total(f) = Cardinality(Pairs(f))
  BY DEF Total, Pairs
<1> QED
  BY <1>1, <1>3, <1>4, <1>5, <1>6, <1>7

(* One summand changed: so much changes the sum.                            *)
LEMMA TotalMoves ==
  ASSUME NEW S, NEW f \in [S -> Nat], NEW g \in [S -> Nat], NEW d \in S,
         \A p \in S \ {d} : g[p] = f[p], IsFiniteSet(Pairs(f))
  PROVE  /\ IsFiniteSet(Pairs(g)) /\ Total(f) \in Nat
         /\ Total(g) = Total(f) - f[d] + g[d]
<1> DEFINE R == UNION {{p} \X (1 .. f[p]) : p \in S \ {d}}
<1>1. R \subseteq Pairs(f)
  BY DEF Pairs
<1>2. IsFiniteSet(R) /\ Cardinality(R) \in Nat
  BY <1>1, FS_Subset, FS_CardinalityType
<1>3. R = UNION {{p} \X (1 .. g[p]) : p \in S \ {d}}
  OBVIOUS
<1> HIDE DEF R
<1>4. Total(f) = Cardinality(R) + f[d]
  BY <1>2, TotalWithout DEF R
<1>5. IsFiniteSet(Pairs(g)) /\ Total(g) = Cardinality(R) + g[d]
  BY <1>2, <1>3, TotalWithout
<1>6. f[d] \in Nat /\ g[d] \in Nat
  OBVIOUS
<1> QED
  BY <1>2, <1>4, <1>5, <1>6

-----------------------------------------------------------------------------
(* What a call or message of p's has in hand.                               *)
Net(p) == Added(p) - (IF Deleted(p) THEN 1 ELSE 0)

(* Where the goroutine serves nobody it has nothing in hand, and only the   *)
(* handler of a client stream waits for a message.                          *)
Stage(p) ==
  /\ pc[p] = "idle" => method[p] = "none" /\ tally[p] = NoTally
  /\ pc[p] = "recv" => method[p] \in ClientStreams

(* A call or message adds a natural number of users.                        *)
LEMMA AddedIsNat ==
  ASSUME NEW p \in Procs
  PROVE  /\ TypeOK => Added(p) \in Nat
         /\ TypeOK' => Added(p)' \in Nat
BY DEF TypeOK, LocalsOK, Added

(* What a call of the storage does to the number of its users.              *)
LEMMA StorageCounts ==
  ASSUME storage!StorageTypeOK
  PROVE  /\ storage!Count \in Nat
         /\ UNCHANGED users => storage!Count' = storage!Count
         /\ \A user \in User : \A err :
              /\ storage!AddUser(user, err) =>
                   storage!Count' = storage!Count + (IF err = "OK" THEN 1 ELSE 0)
              /\ storage!UpdateUser(user, err) => storage!Count' = storage!Count
         /\ \A id \in Ids : \A err : storage!DeleteUser(id, err) =>
              storage!Count' = storage!Count - (IF err = "OK" THEN 1 ELSE 0)
<1>1. /\ storage!Live \subseteq Ids /\ IsFiniteSet(storage!Live)
      /\ users \in [Ids -> User \cup {Nil}]
  BY IdsAssumption, FS_Subset, SameData DEF storage!Live, storage!StorageTypeOK
<1>2. storage!Count = Cardinality(storage!Live) /\ storage!Count \in Nat
  BY <1>1, FS_CardinalityType DEF storage!Count, storage!Cardinality, Cardinality
<1>3. storage!Count' = Cardinality(storage!Live')
  BY DEF storage!Count, storage!Cardinality, Cardinality
<1>4. ASSUME storage!Live' = storage!Live PROVE storage!Count' = storage!Count
  BY <1>2, <1>3, <1>4
<1>5. UNCHANGED users => storage!Live' = storage!Live
  BY DEF storage!Live, storage!UserExists
<1>6. ASSUME NEW user \in User, NEW err, storage!AddUser(user, err)
      PROVE  storage!Count' = storage!Count + (IF err = "OK" THEN 1 ELSE 0)
  <2>1. CASE UNCHANGED users /\ err = "AlreadyExists"
    BY <1>2, <1>4, <1>5, <2>1
  <2>2. CASE /\ ~storage!UserExists(user.id) /\ err = "OK"
             /\ storage!AddUser(user, "OK")
    <3>1. user.id \in Ids
      BY DEF User
    <3>2. users' = [users EXCEPT ![user.id] =
                      storage!cloneUser(storage!WithDefaults(user))]
      BY <2>2 DEF storage!AddUser
    <3>3. storage!cloneUser(storage!WithDefaults(user)) # Nil
      <4>1. now \in 1 .. MaxTime
        BY DEF storage!StorageTypeOK
      <4> QED
        BY <4>1, CloneIsUser, DefaultsAreUser, NilAssumption
    <3>4. storage!Live' = storage!Live \cup {user.id} /\ user.id \notin storage!Live
      BY <1>1, <2>2, <3>1, <3>2, <3>3 DEF storage!Live, storage!UserExists
    <3>5. storage!Count' = storage!Count + 1
      BY <1>1, <1>2, <1>3, <3>4, FS_AddElement
    <3> QED
      BY <2>2, <3>5
  <2> QED
    BY <1>6, <2>1, <2>2 DEF storage!AddUser
<1>7. ASSUME NEW user \in User, NEW err, storage!UpdateUser(user, err)
      PROVE  storage!Count' = storage!Count
  <2>1. CASE UNCHANGED users
    BY <1>4, <1>5, <2>1
  <2>2. CASE /\ storage!UserExists(user.id)
             /\ users' = [users EXCEPT ![user.id] = storage!cloneUser(user)]
    <3>1. storage!cloneUser(user) # Nil
      BY CloneIsUser, NilAssumption
    <3>2. storage!Live' = storage!Live
      BY <1>1, <2>2, <3>1 DEF storage!Live, storage!UserExists
    <3> QED
      BY <1>4, <3>2
  <2> QED
    BY <1>7, <2>1, <2>2 DEF storage!UpdateUser
<1>8. ASSUME NEW id \in Ids, NEW err, storage!DeleteUser(id, err)
      PROVE  storage!Count' = storage!Count - (IF err = "OK" THEN 1 ELSE 0)
  <2>1. CASE UNCHANGED users /\ err = "NotFound"
    BY <1>2, <1>4, <1>5, <2>1
  <2>2. CASE /\ storage!UserExists(id) /\ err = "OK"
             /\ users' = [users EXCEPT ![id] = Nil]
    <3>1. storage!Live' = storage!Live \ {id} /\ id \in storage!Live
      BY <1>1, <2>2 DEF storage!Live, storage!UserExists
    <3>2. storage!Count' = storage!Count - 1
      BY <1>1, <1>2, <1>3, <3>1, FS_RemoveElement
    <3> QED
      BY <2>2, <3>2
  <2> QED
    BY <1>8, <2>1, <2>2 DEF storage!DeleteUser
<1> QED
  BY <1>2, <1>4, <1>5, <1>6, <1>7, <1>8

(* A goroutine stays where it can be with what it can have.                 *)
LEMMA StageStep ==
  ASSUME TypeOK, NEW d \in Procs, Stage(d), Handle(d) \/ Exchange(d)
  PROVE  Stage(d)'
<1> USE DEF TypeOK, ControlOK, LocalsOK, Stage, At, Goto, Answer, Return,
            NextMessage, locals
<1>1. CASE Handle(d)
  BY <1>1
     DEF Handle, AddUserCount, AddUserStore, GetUser, UpdateUserRead,
         UpdateUserWrite, DeleteUser, ListUsers, ListUsersByRole, StartListing,
         BatchAddUser, ActivityExists, ActivityRead, ActivityWrite, SyncExists,
         SyncWrite, Finish, ClientStreams
<1>2. CASE Exchange(d)
  BY <1>2
     DEF Exchange, Call, RecvMessage, RecvEnd, SendUser, SendReply, SendFails
<1> QED
  BY <1>1, <1>2

(* What a step of d's adds to the users is what it adds to what d has in    *)
(* hand, or to what is booked for it.                                       *)
LEMMA AccountStep ==
  ASSUME TypeOK, NEW d \in Procs, Stage(d), Handle(d) \/ Exchange(d)
  PROVE  storage!Count' =
           storage!Count + Net(d)' - (IF Settled(d) THEN 0 ELSE Net(d))
<1> DEFINE Goal == storage!Count' =
             storage!Count + Net(d)' - (IF Settled(d) THEN 0 ELSE Net(d))
<1>0. /\ pc = [q \in Procs |-> pc[q]] /\ method = [q \in Procs |-> method[q]]
      /\ reply = [q \in Procs |-> reply[q]] /\ storage!Count \in Nat
      /\ tally \in [Procs -> [received : 0 .. MaxMsgs, added : Nat, failed : Nat]]
  BY StorageCounts DEF TypeOK, ControlOK, LocalsOK
<1>1. ASSUME UNCHANGED users PROVE storage!Count' = storage!Count
  BY <1>1, StorageCounts DEF TypeOK
<1>2. ASSUME NEW user \in User, NEW err
      PROVE  /\ storage!AddUser(user, err) =>
                  storage!Count' = storage!Count + (IF err = "OK" THEN 1 ELSE 0)
             /\ storage!UpdateUser(user, err) => storage!Count' = storage!Count
  BY StorageCounts DEF TypeOK
<1>3. ASSUME AddUserCount(d) PROVE Goal
  BY <1>0, <1>1, <1>3
     DEF AddUserCount, ReadOnly, locals, Net, Added, Deleted, Settled, At, Goto,
         Answer, Return
<1>4. ASSUME AddUserStore(d) PROVE Goal
  <2>1. req[d] \in User
    BY <1>4, RequestKinds DEF AddUserStore, At, TypeOK, RequestOK
  <2>2. /\ At(d, "AddUser", "add") /\ method' = method
        /\ \E code \in Codes :
             /\ Return(d, code)
             /\ storage!Count' = storage!Count + (IF code = "OK" THEN 1 ELSE 0)
    BY <1>0, <1>1, <1>2, <1>4, <2>1 DEF AddUserStore, Unavailable, Codes
  <2> QED
    BY <1>0, <2>2 DEF Net, Added, Deleted, Settled, At, Goto, Answer, Return
<1>5. ASSUME GetUser(d) \/ UpdateUserRead(d) \/ ListUsers(d) \/ ListUsersByRole(d)
               \/ ActivityExists(d) \/ ActivityRead(d) \/ SendUser(d)
      PROVE  Goal
  <2>1. /\ UNCHANGED <<users, method>>
        /\ method[d] \in {"GetUser", "UpdateUser", "ListUsers", "ListUsersByRole",
                         "UserActivityStream"}
    BY <1>5
       DEF GetUser, UpdateUserRead, ListUsers, ListUsersByRole, StartListing,
           ActivityExists, ActivityRead, SendUser, ServerStreams, ReadOnly, At
  <2> QED
    BY <1>0, <1>1, <2>1 DEF Net, Added, Deleted, At
<1>6. ASSUME UpdateUserWrite(d) \/ ActivityWrite(d) PROVE Goal
  <2>1. snap[d] \in User
    BY <1>6 DEF UpdateUserWrite, ActivityWrite, At, TypeOK, RequestOK, LocalsOK
  <2>2. /\ storage!Count' = storage!Count /\ method' = method
        /\ method[d] \in {"UpdateUser", "UserActivityStream"}
    BY <1>1, <1>2, <1>6, <2>1 DEF UpdateUserWrite, ActivityWrite, Unavailable, At
  <2> QED
    BY <1>0, <2>2 DEF Net, Added, Deleted, At
<1>7. ASSUME DeleteUser(d) PROVE Goal
  <2>1. req[d].id \in Ids
    <3>1. req[d] \in [id : Ids]
      BY <1>7, RequestKinds DEF DeleteUser, At, TypeOK, RequestOK
    <3> QED
      BY <3>1
  <2>2. \A err : storage!DeleteUser(req[d].id, err) =>
          storage!Count' = storage!Count - (IF err = "OK" THEN 1 ELSE 0)
    BY <2>1, StorageCounts DEF TypeOK
  <2>3. /\ At(d, "DeleteUser", "start") /\ method' = method
        /\ \E code \in Codes :
             /\ Return(d, code)
             /\ storage!Count' = storage!Count - (IF code = "OK" THEN 1 ELSE 0)
    BY <1>0, <1>1, <1>7, <2>2 DEF DeleteUser, Unavailable, Codes
  <2> QED
    BY <1>0, <2>3 DEF Net, Added, Deleted, Settled, At, Goto, Answer, Return
<1>8. ASSUME BatchAddUser(d) PROVE Goal
  <2>1. req[d] \in User
    BY <1>8, RequestKinds DEF BatchAddUser, At, TypeOK, RequestOK
  <2>2. At(d, "BatchAddUsers", "start") /\ method' = method /\ pc'[d] = "recv"
    BY <1>0, <1>8 DEF BatchAddUser, NextMessage, Goto
  <2>3. CASE storage!Count' = storage!Count /\ tally'[d].added = tally[d].added
    BY <1>0, <2>2, <2>3 DEF Net, Added, Deleted, Settled, At
  <2>4. CASE storage!Count' = storage!Count + 1 /\ tally'[d].added = tally[d].added + 1
    BY <1>0, <2>2, <2>4 DEF Net, Added, Deleted, Settled, At
  <2>5. CASE /\ UNCHANGED users \/ storage!AddUser(req[d], "AlreadyExists")
             /\ tally' = [tally EXCEPT ![d].failed = @ + 1]
    BY <1>0, <1>1, <1>2, <2>1, <2>3, <2>5
  <2>6. CASE /\ storage!AddUser(req[d], "OK")
             /\ tally' = [tally EXCEPT ![d].added = @ + 1]
    BY <1>0, <1>2, <2>1, <2>4, <2>6
  <2> QED
    BY <1>8, <2>5, <2>6 DEF BatchAddUser, Unavailable
<1>9. ASSUME SyncExists(d) PROVE Goal
  BY <1>0, <1>1, <1>9
     DEF SyncExists, ReadOnly, locals, Net, Added, Deleted, Settled, At, Goto, Answer
<1>10. ASSUME SyncWrite(d) PROVE Goal
  <2>1. req[d] \in User
    BY <1>10, RequestKinds DEF SyncWrite, Answer, TypeOK, RequestOK
  <2>2. /\ method[d] = "SyncUsers" /\ pc[d] \in {"update", "add"}
        /\ method' = method /\ pc'[d] = "send"
        /\ storage!Count' =
             storage!Count + (IF reply'[d].code = "created" THEN 1 ELSE 0)
    BY <1>0, <1>1, <1>2, <1>10, <2>1 DEF SyncWrite, Answer, Goto, Unavailable
  <2> QED
    BY <1>0, <2>2 DEF Net, Added, Deleted, Settled, At
<1>11. ASSUME Finish(d) PROVE Goal
  BY <1>0, <1>1, <1>11
     DEF Finish, ReadOnly, Net, Added, Deleted, Settled, At, Goto
<1>12. ASSUME Call(d) PROVE Goal
  BY <1>0, <1>1, <1>12
     DEF Call, ReadOnly, locals, Net, Added, Deleted, Settled, At, Goto, Stage,
         NoTally
<1>13. ASSUME RecvMessage(d) PROVE Goal
  BY <1>0, <1>1, <1>13
     DEF RecvMessage, ReadOnly, Net, Added, Deleted, Settled, At, Goto
<1>14. ASSUME RecvEnd(d) PROVE Goal
  BY <1>0, <1>1, <1>14
     DEF RecvEnd, ReadOnly, locals, Net, Added, Deleted, Settled, At, Goto, Answer,
         Return, Stage, ClientStreams
<1>15. ASSUME SendReply(d) PROVE Goal
  BY <1>0, <1>1, <1>15
     DEF SendReply, NextMessage, ReadOnly, Net, Added, Deleted, Settled, At, Goto
<1>16. ASSUME SendFails(d) PROVE Goal
  BY <1>0, <1>1, <1>16
     DEF SendFails, ReadOnly, locals, Net, Added, Deleted, Settled, At, Goto, Answer,
         Return
<1> QED
  BY <1>3, <1>4, <1>5, <1>6, <1>7, <1>8, <1>9, <1>10, <1>11, <1>12, <1>13, <1>14,
     <1>15, <1>16 DEF Handle, Exchange

-----------------------------------------------------------------------------
(* The calls and messages with something in hand are finitely many, and     *)
(* with what is booked they account for every user.                         *)
Adders == [p \in Procs |-> Added(p)]
Deleters == {p \in Procs : Deleted(p)}

AccountInv ==
  /\ TypeOK
  /\ \A p \in Procs : Stage(p)
  /\ IsFiniteSet(Pairs(Adders)) /\ IsFiniteSet(Deleters)
  /\ accounted \in Int
  /\ UsersAccounted

(* What a single goroutine has in hand, and what nobody has.                *)
LEMMA InFlightOfFew ==
  ASSUME TypeOK
  PROVE  /\ InFlight({}) = 0
         /\ \A d \in Procs : InFlight({d}) = Net(d)
<1>1. InFlight({}) = 0
  <2>1. Total([p \in {} |-> Added(p)]) = 0
    BY TotalOfFew
  <2>2. Cardinality({p \in {} : Deleted(p)}) = 0
    <3>1. {p \in {} : Deleted(p)} = {}
      OBVIOUS
    <3> QED
      BY <3>1, FS_EmptySet
  <2> QED
    BY <2>1, <2>2 DEF InFlight
<1>2. ASSUME NEW d \in Procs PROVE InFlight({d}) = Net(d)
  <2>1. Added(d) \in Nat
    BY AddedIsNat
  <2>2. Total([p \in {d} |-> Added(p)]) = Added(d)
    <3> DEFINE f == [p \in {d} |-> Added(p)]
    <3>1. DOMAIN f = {d} /\ f[d] = Added(d)
      OBVIOUS
    <3> HIDE DEF f
    <3>2. Total(f) = f[d]
      BY <2>1, <3>1, TotalOfFew
    <3> QED
      BY <3>1, <3>2 DEF f
  <2>3. Cardinality({p \in {d} : Deleted(p)}) = IF Deleted(d) THEN 1 ELSE 0
    <3>1. {p \in {d} : Deleted(p)} = IF Deleted(d) THEN {d} ELSE {}
      OBVIOUS
    <3> QED
      BY <3>1, FS_EmptySet, FS_Singleton
  <2> QED
    BY <2>2, <2>3 DEF InFlight, Net
<1> QED
  BY <1>1, <1>2

(* Of the sum over all goroutines a step of d's changes d's share alone.    *)
LEMMA InFlightStep ==
  ASSUME TypeOK, TypeOK', IsFiniteSet(Pairs(Adders)), IsFiniteSet(Deleters),
         NEW d \in Procs, Handle(d) \/ Exchange(d)
  PROVE  /\ IsFiniteSet(Pairs(Adders)') /\ IsFiniteSet(Deleters')
         /\ InFlight(Procs) \in Int
         /\ InFlight(Procs)' = InFlight(Procs) - Net(d) + Net(d)'
<1> DEFINE f == [p \in Procs |-> Added(p)]
           g == [p \in Procs |-> Added(p)']
           D == {p \in Procs : Deleted(p)}
           E == {p \in Procs : Deleted(p)'}
<1>1. ASSUME NEW p \in Procs, p # d
      PROVE  Added(p)' = Added(p) /\ Deleted(p)' = Deleted(p)
  BY <1>1, OthersStay DEF Added, Deleted, At
<1>2. f \in [Procs -> Nat] /\ g \in [Procs -> Nat]
  BY AddedIsNat
<1>3. \A p \in Procs \ {d} : g[p] = f[p]
  BY <1>1
<1>4. f[d] = Added(d) /\ g[d] = Added(d)'
  OBVIOUS
<1>5. IsFiniteSet(Pairs(f)) /\ IsFiniteSet(D)
  BY DEF Adders, Deleters
<1>6. /\ E = IF Deleted(d)' THEN D \cup {d} ELSE D \ {d}
      /\ d \in D <=> Deleted(d)
  BY <1>1
<1> HIDE DEF f, g, D, E
<1>7. /\ IsFiniteSet(Pairs(g)) /\ Total(f) \in Nat
      /\ Total(g) = Total(f) - f[d] + g[d]
  BY <1>2, <1>3, <1>5, TotalMoves
<1>8. /\ IsFiniteSet(E)
      /\ Cardinality(E) = Cardinality(D) - (IF Deleted(d) THEN 1 ELSE 0)
                            + (IF Deleted(d)' THEN 1 ELSE 0)
  <2>1. Cardinality(D) \in Nat
    BY <1>5, FS_CardinalityType
  <2>2. CASE Deleted(d)'
    BY <1>5, <1>6, <2>1, <2>2, FS_AddElement
  <2>3. CASE ~Deleted(d)'
    BY <1>5, <1>6, <2>1, <2>3, FS_RemoveElement
  <2> QED
    BY <2>2, <2>3
<1>9. /\ InFlight(Procs) = Total(f) - Cardinality(D)
      /\ InFlight(Procs)' = Total(g) - Cardinality(E)
  BY DEF InFlight, f, g, D, E, Total
<1>10. Pairs(Adders)' = Pairs(g) /\ Deleters' = E
  BY DEF Pairs, Adders, Deleters, g, E
<1>11. /\ Cardinality(D) \in Nat /\ Cardinality(E) \in Nat
       /\ f[d] \in Nat /\ g[d] \in Nat
  BY <1>2, <1>5, <1>8, FS_CardinalityType
<1>12. /\ Net(d) = f[d] - (IF Deleted(d) THEN 1 ELSE 0)
       /\ Net(d)' = g[d] - (IF Deleted(d)' THEN 1 ELSE 0)
  BY <1>4 DEF Net
<1> QED
  BY <1>7, <1>8, <1>9, <1>10, <1>11, <1>12

(* No user, nothing in hand and nothing booked.                             *)
LEMMA InitAccountInv == LedgerInit => AccountInv
<1> SUFFICES ASSUME LedgerInit
             PROVE  AccountInv
  OBVIOUS
<1>1. Init /\ TypeOK
  BY InitTypeOK DEF LedgerInit
<1>2. ASSUME NEW p \in Procs
      PROVE  Stage(p) /\ Added(p) = 0 /\ ~Deleted(p)
  BY <1>1, <1>2 DEF Init, Stage, Added, Deleted, At
<1>3. Pairs(Adders) = {} /\ Deleters = {}
  <2>1. Adders = [p \in Procs |-> 0]
    BY <1>2 DEF Adders
  <2>2. Pairs(Adders) = UNION {{p} \X (1 .. 0) : p \in Procs}
    BY <2>1 DEF Pairs
  <2>3. 1 .. 0 = {}
    OBVIOUS
  <2> QED
    BY <1>2, <2>2, <2>3 DEF Deleters
<1>4. InFlight(Procs) = 0
  <2>1. InFlight(Procs) = Cardinality(Pairs(Adders)) - Cardinality(Deleters)
    BY DEF InFlight, Total, Pairs, Adders, Deleters
  <2> QED
    BY <1>3, <2>1, FS_EmptySet
<1>5. storage!Count = 0
  BY <1>1, CountZero DEF Init, storage!Init, storage!Live, storage!UserExists
<1> QED
  BY <1>1, <1>2, <1>3, <1>4, <1>5, FS_EmptySet
     DEF AccountInv, UsersAccounted, LedgerInit

(* No step adds or deletes a user without an answer that says so.           *)
LEMMA NextAccountInv == AccountInv /\ [LedgerNext]_ledgerVars => AccountInv'
<1> SUFFICES ASSUME AccountInv, [LedgerNext]_ledgerVars
             PROVE  AccountInv'
  OBVIOUS
<1>1. TypeOK /\ TypeOK' /\ [Next]_vars
  BY NextTypeOK DEF AccountInv, LedgerNext, ledgerVars
<1>2. storage!Count \in Nat /\ (UNCHANGED users => storage!Count' = storage!Count)
  BY <1>1, StorageCounts DEF TypeOK
<1>3. ASSUME UNCHANGED <<users, pc, method, tally, reply, accounted>>
      PROVE  AccountInv'
  <2>1. ASSUME NEW p \in Procs
        PROVE  /\ Added(p)' = Added(p) /\ Deleted(p)' = Deleted(p)
               /\ Stage(p)' = Stage(p)
    BY <1>3 DEF Added, Deleted, Stage, At
  <2>2. Adders' = Adders /\ Deleters' = Deleters
    BY <2>1 DEF Adders, Deleters
  <2>3. InFlight(Procs) = Cardinality(Pairs(Adders)) - Cardinality(Deleters)
    BY DEF InFlight, Total, Pairs, Adders, Deleters
  <2>4. InFlight(Procs)' = Cardinality(Pairs(Adders')) - Cardinality(Deleters')
    BY DEF InFlight, Total, Pairs, Adders, Deleters
  <2>5. UsersAccounted'
    BY <1>2, <1>3, <2>2, <2>3, <2>4 DEF AccountInv, UsersAccounted
  <2>6. Pairs(Adders)' = Pairs(Adders)
    BY <2>2 DEF Pairs
  <2> QED
    BY <1>1, <1>3, <2>1, <2>2, <2>5, <2>6 DEF AccountInv
<1>4. CASE UNCHANGED ledgerVars
  BY <1>3, <1>4 DEF ledgerVars, vars
<1>5. ASSUME LedgerNext, Tick PROVE AccountInv'
  <2>1. UNCHANGED <<users, pc, method, tally, reply>>
    BY <1>5 DEF Tick, storage!Tick, locals
  <2>2. {p \in Procs : Settled(p)} = {}
    BY <2>1 DEF Settled
  <2>3. accounted' = accounted + 0
    BY <1>1, <1>5, <2>2, InFlightOfFew DEF LedgerNext
  <2> QED
    BY <1>3, <2>1, <2>3 DEF AccountInv
<1>6. ASSUME LedgerNext, NEW d \in Procs, Handle(d) \/ Exchange(d)
      PROVE  AccountInv'
  <2>1. ASSUME NEW p \in Procs, p # d
        PROVE  Stage(p)' = Stage(p) /\ ~Settled(p)
    BY <1>1, <1>6, <2>1, OthersStay DEF Stage, Settled
  <2>2. \A p \in Procs : Stage(p)'
    BY <1>1, <1>6, <2>1, StageStep DEF AccountInv
  <2>3. accounted' = accounted + (IF Settled(d) THEN Net(d) ELSE 0)
    <3>1. {p \in Procs : Settled(p)} = IF Settled(d) THEN {d} ELSE {}
      BY <2>1
    <3>2. InFlight({p \in Procs : Settled(p)}) = IF Settled(d) THEN Net(d) ELSE 0
      BY <1>1, <3>1, InFlightOfFew
    <3> QED
      BY <1>6, <3>2 DEF LedgerNext
  <2>4. storage!Count' =
          storage!Count + Net(d)' - (IF Settled(d) THEN 0 ELSE Net(d))
    BY <1>1, <1>6, AccountStep DEF AccountInv
  <2>5. /\ IsFiniteSet(Pairs(Adders)') /\ IsFiniteSet(Deleters')
        /\ InFlight(Procs) \in Int
        /\ InFlight(Procs)' = InFlight(Procs) - Net(d) + Net(d)'
    BY <1>1, <1>6, InFlightStep DEF AccountInv
  <2>6. Net(d) \in Int /\ Net(d)' \in Int
    BY <1>1, AddedIsNat DEF Net
  <2>7. accounted \in Int /\ storage!Count = accounted + InFlight(Procs)
    BY DEF AccountInv, UsersAccounted
  <2>8. accounted' \in Int /\ storage!Count' = accounted' + InFlight(Procs)'
    BY <2>3, <2>4, <2>5, <2>6, <2>7
  <2> QED
    BY <1>1, <2>2, <2>5, <2>8 DEF AccountInv, UsersAccounted
<1> QED
  BY <1>4, <1>5, <1>6 DEF LedgerNext, Next

(* The answers account for the users, for any number of calls that race for *)
(* the same ids, and whatever the storage refuses.                          *)
THEOREM AnswersAccountForUsers == LedgerSpec => []UsersAccounted
<1>1. AccountInv => UsersAccounted
  BY DEF AccountInv
<1> QED
  BY <1>1, InitAccountInv, NextAccountInv, PTL DEF LedgerSpec
=============================================================================
