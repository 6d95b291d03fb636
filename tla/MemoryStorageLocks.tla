------------------------- MODULE MemoryStorageLocks -------------------------
(***************************************************************************)
(* server/memory_storage.go step by step: the methods read and write the   *)
(* map in several steps, under a sync.RWMutex that each takes first and    *)
(* gives back last. That this makes each of them take effect at one moment *)
(* is what MemoryStorage, and with it UserService, take for granted.       *)
(***************************************************************************)
EXTENDS StorageCalls

VARIABLES
  pc,         \* where the method is
  writer,     \* who holds the lock for writing, or is next to; Nil: nobody
  readers,    \* who hold it for reading
  todo,       \* lists: the ids the loop over the map has still to visit
  result      \* lists: what it has collected

lockVars == <<writer, readers>>
vars == <<users, call, answer, pc, writer, readers, todo, result>>

(* The data operations of the methods, at a reading of the clock.           *)
memory(time) == INSTANCE MemoryStorage WITH now <- time

At(c, label) == pc[c] = label
Goto(c, label) == pc' = [pc EXCEPT ![c] = label]

Init ==
  /\ CallsInit
  /\ pc = [c \in Clients |-> "idle"]
  /\ writer = Nil
  /\ readers = {}
  /\ todo = [c \in Clients |-> {}]
  /\ result = [c \in Clients |-> {}]

Enter(c) ==
  /\ At(c, "idle")
  /\ Invoke(c)
  /\ Goto(c, "lock")
  /\ UNCHANGED <<lockVars, todo, result>>

-----------------------------------------------------------------------------
(* sync.RWMutex. Lock keeps new readers out at once and waits for those     *)
(* that are in; RLock waits while somebody writes or waits to.              *)

(* Variant: the writers, too, take the lock for reading only. *)
RLockToWrite(c) ==
  /\ At(c, "lock") /\ call[c].op \in Writers
  /\ writer = Nil
  /\ readers' = readers \cup {c}
  /\ Goto(c, "check")
  /\ UNCHANGED <<users, call, answer, writer, todo, result>>

Lock(c) ==
  /\ At(c, "lock") /\ call[c].op \in Writers
  /\ writer = Nil
  /\ writer' = c
  /\ Goto(c, "drain")
  /\ UNCHANGED <<users, call, answer, readers, todo, result>>

Drain(c) ==
  /\ At(c, "drain")
  /\ readers = {}
  /\ Goto(c, "check")
  /\ UNCHANGED <<users, call, answer, lockVars, todo, result>>

RLock(c) ==
  /\ At(c, "lock") /\ call[c].op \notin Writers
  /\ writer = Nil
  /\ readers' = readers \cup {c}
  /\ Goto(c, "read")
  /\ UNCHANGED <<users, call, answer, writer, todo, result>>

(* Variant: the read lock is not given back. *)
UnlockWriters(c) ==
  /\ At(c, "unlock")
  /\ Return(c)
  /\ writer' = IF writer = c THEN Nil ELSE writer
  /\ result' = [result EXCEPT ![c] = {}]
  /\ Goto(c, "idle")
  /\ UNCHANGED <<readers, todo>>

(* The deferred unlock, as the method returns.                              *)
Unlock(c) ==
  /\ At(c, "unlock")
  /\ Return(c)
  /\ writer' = IF writer = c THEN Nil ELSE writer
  /\ readers' = readers \ {c}
  /\ result' = [result EXCEPT ![c] = {}]
  /\ Goto(c, "idle")
  /\ UNCHANGED todo

-----------------------------------------------------------------------------
(* The methods that write: look the id up, *)
Check(c) ==
  /\ At(c, "check")
  /\ LET op == call[c].op
         id == IF op = "DeleteUser" THEN call[c].id ELSE call[c].user.id
         exists == users[id] # Nil
     IN  \/ /\ op = "AddUser" /\ exists
            /\ Refuse(c, "AlreadyExists") /\ Goto(c, "unlock")
         \/ /\ op # "AddUser" /\ ~exists
            /\ Refuse(c, "NotFound") /\ Goto(c, "unlock")
         \/ /\ (op = "AddUser") = ~exists
            /\ Goto(c, "write") /\ UNCHANGED answer
  /\ UNCHANGED <<users, call, lockVars, todo, result>>

(* and store a copy, or delete.                                             *)
Write(c) ==
  /\ At(c, "write")
  /\ LET op == call[c].op
     IN  \/ /\ op = "AddUser"
            /\ \E time \in 1 .. MaxTime :
                 users' = [users EXCEPT ![call[c].user.id] =
                             memory(time)!cloneUser(
                               memory(time)!WithDefaults(call[c].user))]
         \/ /\ op = "UpdateUser"
            /\ users' = [users EXCEPT ![call[c].user.id] =
                           memory(1)!cloneUser(call[c].user)]
         \/ /\ op = "DeleteUser"
            /\ users' = [users EXCEPT ![call[c].id] = Nil]
  /\ Done(c)
  /\ Goto(c, "unlock")
  /\ UNCHANGED <<call, lockVars, todo, result>>

-----------------------------------------------------------------------------
(* Variant: whatever the map has under the id is a user. *)
GetUserUnchecked(c) == Decide(c, "OK", {users[call[c].id]}, 0)

GetUser(c) ==
  LET user == users[call[c].id]
  IN  \/ user # Nil /\ Decide(c, "OK", {memory(1)!cloneUser(user)}, 0)
      \/ user = Nil /\ Refuse(c, "NotFound")

(* The methods that read: one look at the map, *)
Look(c) ==
  /\ At(c, "read")
  /\ \/ call[c].op = "GetUser" /\ GetUser(c)
     \/ /\ call[c].op = "UserExists"
        /\ Decide(c, "OK", {}, IF users[call[c].id] # Nil THEN 1 ELSE 0)
     \/ /\ call[c].op = "Count"
        /\ Decide(c, "OK", {}, Cardinality(Live))
  /\ Goto(c, "unlock")
  /\ UNCHANGED <<users, call, lockVars, todo, result>>

(* or a loop over its entries, in any order.                                *)
StartLoop(c) ==
  /\ At(c, "read") /\ call[c].op \in {"ListUsers", "ListUsersByRole"}
  /\ todo' = [todo EXCEPT ![c] = Live]
  /\ Goto(c, "loop")
  /\ UNCHANGED <<users, call, answer, lockVars, result>>

Visit(c) ==
  /\ At(c, "loop")
  /\ \E id \in todo[c] :
       LET user == users[id]
           listed == IF call[c].op = "ListUsers"
                     THEN memory(1)!Matches(user, call[c].filter)
                     ELSE user.role = call[c].role
       IN  /\ todo' = [todo EXCEPT ![c] = @ \ {id}]
           /\ result' = [result EXCEPT
                ![c] = IF listed THEN @ \cup {memory(1)!cloneUser(user)} ELSE @]
  /\ UNCHANGED <<users, call, answer, lockVars, pc>>

EndLoop(c) ==
  /\ At(c, "loop") /\ todo[c] = {}
  /\ Decide(c, "OK", result[c], 0)
  /\ Goto(c, "unlock")
  /\ UNCHANGED <<users, call, lockVars, todo, result>>

-----------------------------------------------------------------------------
Run(c) ==
  \/ Lock(c) \/ RLock(c) \/ Drain(c)
  \/ Check(c) \/ Write(c)
  \/ Look(c) \/ StartLoop(c) \/ Visit(c) \/ EndLoop(c)
  \/ Unlock(c)

Next == \E c \in Clients : Enter(c) \/ Run(c)

(* A goroutine that can go on again and again does: the scheduler runs it,  *)
(* and the mutex lets nobody starve, as Unlock admits the readers that wait *)
(* before the next writer, and writers queue.                               *)
Fairness == \A c \in Clients : SF_vars(Run(c))

Spec == Init /\ [][Next]_vars /\ Fairness

-----------------------------------------------------------------------------
TypeOK ==
  /\ users \in [Ids -> User \cup {Nil}]
  /\ call \in [Clients -> Calls \cup {Nil}]
  /\ answer \in [Clients -> Answers \cup {Nil}]
  /\ pc \in [Clients -> {"idle", "lock", "drain", "check", "write", "read",
                         "loop", "unlock"}]
  /\ writer \in Clients \cup {Nil}
  /\ readers \in SUBSET Clients
  /\ todo \in [Clients -> SUBSET Ids]
  /\ result \in [Clients -> SUBSET User]

(* The step-by-step methods do what the interface promises, each at one     *)
(* moment: a check and the write that relies on it, and all the steps of a  *)
(* loop, see one map (memory_storage.go:33, 98).                            *)
Promised == INSTANCE Storage
KeepsItsPromise == Promised!Spec

(* The Go map is never written while another goroutine is in a method that  *)
(* reads or writes it, which would end the program.                         *)
Inside(c) == pc[c] \in {"check", "write", "read", "loop"}
NoConcurrentMapWrite ==
  \A c, d \in Clients : pc[c] = "write" /\ Inside(d) => c = d

(* The lock never leaves everyone waiting for it, on whatever path the      *)
(* methods returned before: as long as somebody is in a method, somebody    *)
(* can go on (memory_storage.go:33, 59, 98).                                *)
GoesOn(c) ==
  \/ Inside(c) \/ At(c, "unlock")
  \/ At(c, "lock") /\ writer = Nil
  \/ At(c, "drain") /\ readers = {}
SomebodyGoesOn ==
  (\E c \in Clients : pc[c] # "idle") => \E c \in Clients : GoesOn(c)

(* Nobody waits for the lock for ever: every method returns, on each path   *)
(* through it.                                                              *)
Returns(c) == call[c] # Nil ~> call[c] = Nil
EveryCallReturns == \A c \in Clients : Returns(c)
=============================================================================
