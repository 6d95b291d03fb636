---------------------------- MODULE UserService ----------------------------
(***************************************************************************)
(* server/server.go: the nine methods of the gRPC service over the storage *)
(* of server/memory_storage.go.                                            *)
(*                                                                         *)
(* gRPC runs every call in a goroutine of its own, an element of Procs. A  *)
(* handler holds no lock: what it shares with the others is the storage,   *)
(* so each of its calls s.storage.X is one action, with the computation on *)
(* its local variables up to the next such call (or Recv or Send) folded   *)
(* in, and the actions of different goroutines interleave.                 *)
(*                                                                         *)
(* Clients are the environment: they start any call of Traffic at any      *)
(* time, send any message of it, close a stream or break it off. A message *)
(* that reaches the handler is a Recv, one it sends is a Send.             *)
(***************************************************************************)
EXTENDS Users

CONSTANTS
  Procs,          \* the goroutines that serve calls
  Traffic,        \* for each method in use, the requests clients send it
  Second,         \* readings of the clock in a second (Unix() truncates)
  MaxMsgs,        \* messages a client sends on one stream (bound)
  FaultyStorage   \* may a storage call fail on its own, as Storage allows?

VARIABLES
  users, now,     \* the storage and the clock
  pc,             \* where the handler is: the next thing it does
  method,         \* the method it serves
  req,            \* the request, or the message of the stream it works on
  snap,           \* UpdateUser, UserActivityStream: the user it has read
  pending,        \* ListUsers, ListUsersByRole: the users still to be sent
  tally,          \* BatchAddUsers: its totals; other streams: received only
  reply           \* what it answers, at "send" and at "return"

storage == INSTANCE MemoryStorage

locals == <<snap, pending, tally>>
vars == <<users, now, pc, method, req, snap, pending, tally, reply>>

-----------------------------------------------------------------------------
ClientStreams == {"BatchAddUsers", "UserActivityStream", "SyncUsers"}
ServerStreams == {"ListUsers", "ListUsersByRole"}
Unary == {"AddUser", "GetUser", "UpdateUser", "DeleteUser"}
MethodNames == ClientStreams \cup ServerStreams \cup Unary

(* The messages of proto/protos/example.proto, as far as they are read. An  *)
(* update mask is the set of its paths, {} if it is absent or empty.        *)
ListRequest == [created_since : Dates, older_than : {NoDate} \cup Nat,
                status : Statuses, page_size : Nat]
Activity == [user_id : Ids, activity_type : {"LOGIN", "VIEW_PAGE"},
             timestamp : Dates]

Requests(m) ==
  CASE m \in {"AddUser", "BatchAddUsers", "SyncUsers"} -> User
    [] m \in {"GetUser", "DeleteUser"} -> [id : Ids]
    [] m = "UpdateUser" ->
         [user : User \cup {Nil}, paths : SUBSET (Paths \cup {"bogus"})]
    [] m = "ListUsers" -> ListRequest
    [] m = "ListUsersByRole" -> [role : Roles]
    [] m = "UserActivityStream" -> Activity

Methods == DOMAIN Traffic

ASSUME TrafficAssumption ==
  /\ Methods \subseteq MethodNames
  /\ \A m \in Methods : Traffic[m] \subseteq Requests(m)
ASSUME MaxMsgsAssumption == MaxMsgs \in Nat \ {0}
ASSUME SecondAssumption == Second \in Nat \ {0}
ASSUME FaultyStorageAssumption == FaultyStorage \in BOOLEAN

At(p, m, label) == method[p] = m /\ pc[p] = label

(* A reply: its code, and the body of an answer that has one.               *)
NoTally == [received |-> 0, added |-> 0, failed |-> 0]
NoReply == [code |-> "none", user |-> Nil]
Codes == {"OK", "InvalidArgument", "NotFound", "AlreadyExists", "Internal",
          "Unavailable", "Aborted"}                 \* of a call
Results == {"acknowledged", "unknown", "created", "updated", "FAILED"}
                                                    \* of a stream's message
Labels == {"idle", "recv", "start", "add", "get", "update", "send", "return"}

ControlOK ==
  /\ pc \in [Procs -> Labels]
  /\ method \in [Procs -> Methods \cup {"none"}]
  /\ req = [p \in Procs |-> req[p]]

RequestOK(p) ==
  /\ pc[p] # "idle" => method[p] # "none"
  /\ pc[p] \notin {"idle", "recv", "return"} => req[p] \in Requests(method[p])
  /\ pc[p] = "update" /\ method[p] \in {"UpdateUser", "UserActivityStream"}
       => snap[p] # Nil

LocalsOK ==
  /\ snap \in [Procs -> User \cup {Nil}]
  /\ pending \in [Procs -> SUBSET User]
  /\ tally \in [Procs -> [received : 0 .. MaxMsgs, added : Nat, failed : Nat]]
  /\ reply \in [Procs -> [code : Codes \cup Results \cup {"none"},
                          user : User \cup {Nil}]]

TypeOK ==
  /\ storage!StorageTypeOK
  /\ ControlOK
  /\ \A p \in Procs : RequestOK(p)
  /\ LocalsOK

Init ==
  /\ storage!Init
  /\ pc = [p \in Procs |-> "idle"]
  /\ method = [p \in Procs |-> "none"]
  /\ req = [p \in Procs |-> Nil]
  /\ snap = [p \in Procs |-> Nil]
  /\ pending = [p \in Procs |-> {}]
  /\ tally = [p \in Procs |-> NoTally]
  /\ reply = [p \in Procs |-> NoReply]

-----------------------------------------------------------------------------
Goto(p, label) == pc' = [pc EXCEPT ![p] = label]

(* The handler has its answer: it returns it, or sends it on its stream.    *)
Answer(p, label, code, user) ==
  /\ Goto(p, label)
  /\ reply' = [reply EXCEPT ![p] = [code |-> code, user |-> user]]

Return(p, code) == Answer(p, "return", code, Nil)

(* A storage that is not the map in memory may answer any call with an      *)
(* error of its own and do nothing.                                         *)
Unavailable == FaultyStorage /\ UNCHANGED users

ReadOnly == UNCHANGED <<users, now>>

-----------------------------------------------------------------------------
(* The unary methods. *)

(* Variants of definitions that a slip in the code would make, each named   *)
(* after the slip and followed by the definition it varies. The properties  *)
(* are checked to fail with them.                                           *)
AcceptableWhoever(user, count) == user.id # 0 /\ user.username # ""

(* What AddUser checks before it stores: the first user must be an admin,   *)
(* the id and the name must be there.                                       *)
Acceptable(user, count) ==
  /\ count = 0 => user.role = "ADMIN"
  /\ user.id # 0
  /\ user.username # ""

AddUserCount(p) ==
  /\ At(p, "AddUser", "start")
  /\ \/ Unavailable /\ Return(p, "Internal")
     \/ /\ Acceptable(req[p], storage!Count)
        /\ Goto(p, "add") /\ UNCHANGED reply
     \/ /\ ~Acceptable(req[p], storage!Count)
        /\ Return(p, "InvalidArgument")
  /\ ReadOnly /\ UNCHANGED <<method, req, locals>>

AddUserStore(p) ==
  /\ At(p, "AddUser", "add")
  /\ \/ Unavailable /\ Return(p, "Unavailable")
     \/ \E err \in Codes : storage!AddUser(req[p], err) /\ Return(p, err)
  /\ UNCHANGED <<now, method, req, locals>>

GetUser(p) ==
  /\ At(p, "GetUser", "start")
  /\ LET user == storage!GetUser(req[p].id)
     IN  \/ req[p].id = 0 /\ Return(p, "InvalidArgument")
         \/ req[p].id # 0 /\ Unavailable /\ Return(p, "Unavailable")
         \/ req[p].id # 0 /\ user = Nil /\ Return(p, "NotFound")
         \/ req[p].id # 0 /\ user # Nil /\ Answer(p, "return", "OK", user)
  /\ ReadOnly /\ UNCHANGED <<method, req, locals>>

(* Variant: without a mask the request's user takes the old one's place. *)
OverlayEverything(old, new, paths) == [new EXCEPT !.id = old.id]

(* The fields the request sets in the user that was read: those of the      *)
(* mask, or without a mask all but id and create_date.                      *)
Overlay(old, new, paths) ==
  LET Sets(path) == paths = {} \/ path \in paths
  IN  [old EXCEPT
         !.role = IF Sets("role") THEN new.role ELSE @,
         !.username = IF Sets("username") THEN new.username ELSE @,
         !.email = IF Sets("email") THEN new.email ELSE @,
         !.profile = IF Sets("profile") THEN new.profile ELSE @,
         !.status = IF Sets("status") THEN new.status ELSE @,
         !.last_login = IF Sets("last_login") THEN new.last_login ELSE @]

UpdateUserRead(p) ==
  /\ At(p, "UpdateUser", "start")
  /\ LET new == req[p].user
         paths == req[p].paths
         valid == new # Nil /\ new.id # 0
         old == storage!GetUser(new.id)
     IN  \/ ~valid /\ Return(p, "InvalidArgument") /\ UNCHANGED snap
         \/ valid /\ Unavailable /\ Return(p, "Unavailable") /\ UNCHANGED snap
         \/ /\ valid /\ old = Nil
            /\ Return(p, "NotFound") /\ UNCHANGED snap
         \/ /\ valid /\ old # Nil /\ ~(paths \subseteq MaskPaths)
            /\ Return(p, "InvalidArgument") /\ UNCHANGED snap
         \/ /\ valid /\ old # Nil /\ paths \subseteq MaskPaths
            /\ snap' = [snap EXCEPT ![p] = Overlay(old, new, paths)]
            /\ Goto(p, "update") /\ UNCHANGED reply
  /\ ReadOnly /\ UNCHANGED <<method, req, pending, tally>>

UpdateUserWrite(p) ==
  /\ At(p, "UpdateUser", "update")
  /\ \/ Unavailable /\ Return(p, "Unavailable")
     \/ /\ storage!UpdateUser(snap[p], "OK")
        /\ Answer(p, "return", "OK", snap[p])
     \/ /\ storage!UpdateUser(snap[p], "NotFound")
        /\ Return(p, "NotFound")
  /\ UNCHANGED <<now, method, req, locals>>

DeleteUser(p) ==
  /\ At(p, "DeleteUser", "start")
  /\ \/ req[p].id = 0 /\ Return(p, "InvalidArgument") /\ UNCHANGED users
     \/ req[p].id # 0 /\ Unavailable /\ Return(p, "Unavailable")
     \/ /\ req[p].id # 0
        /\ \E err \in Codes : storage!DeleteUser(req[p].id, err) /\ Return(p, err)
  /\ UNCHANGED <<now, method, req, locals>>

-----------------------------------------------------------------------------
(* The server streams: the storage is read once, the users that matched are *)
(* sent one by one in the order of the map's iteration, which is any order. *)

Unix(time) == (time \div Second) * Second

(* The filter handed to the storage: a nil pointer is the empty set, one    *)
(* that is not nil the set of what it points to. The page token never       *)
(* reaches a decision and is left out.                                      *)
FilterOf(r, time) ==
  [created_since |-> IF r.created_since = NoDate THEN {}
                     ELSE {Unix(r.created_since)},
   older_than    |-> IF r.older_than = NoDate THEN {}
                     ELSE {Unix(time - r.older_than)},
   status        |-> IF r.status = "INACTIVE" THEN {} ELSE {r.status},
   page_size     |-> r.page_size]

(* Both list handlers, once they know which users they list.                *)
StartListing(p, listed) ==
  /\ \/ Unavailable /\ Return(p, "Unavailable") /\ UNCHANGED pending
     \/ listed = {} /\ Return(p, "NotFound") /\ UNCHANGED pending
     \/ /\ listed # {}
        /\ pending' = [pending EXCEPT ![p] = listed]
        /\ Goto(p, "send") /\ UNCHANGED reply
  /\ ReadOnly /\ UNCHANGED <<method, req, snap, tally>>

ListUsers(p) ==
  /\ At(p, "ListUsers", "start")
  /\ StartListing(p, storage!ListUsers(FilterOf(req[p], now)))

ListUsersByRole(p) ==
  /\ At(p, "ListUsersByRole", "start")
  /\ StartListing(p, storage!ListUsersByRole(req[p].role))

SendUser(p) ==
  /\ pc[p] = "send" /\ method[p] \in ServerStreams
  /\ \E user \in pending[p] :
       /\ pending' = [pending EXCEPT ![p] = @ \ {user}]
       /\ IF pending[p] = {user} THEN Return(p, "OK")
          ELSE UNCHANGED <<pc, reply>>
  /\ ReadOnly /\ UNCHANGED <<method, req, snap, tally>>

-----------------------------------------------------------------------------
(* The client streams. Recv hands the handler a message, the end of the     *)
(* stream (EOF), or the error of a stream that broke.                       *)

RecvMessage(p) ==
  /\ pc[p] = "recv" /\ tally[p].received < MaxMsgs
  /\ \E message \in Traffic[method[p]] : req' = [req EXCEPT ![p] = message]
  /\ tally' = [tally EXCEPT ![p].received = @ + 1]
  /\ Goto(p, "start")
  /\ ReadOnly /\ UNCHANGED <<method, snap, pending, reply>>

RecvEnd(p) ==
  /\ pc[p] = "recv"
  /\ Return(p, "OK") \/ Return(p, "Aborted")
  /\ ReadOnly /\ UNCHANGED <<method, req, locals>>

(* Back to the head of the loop: the message and its locals are done with.  *)
NextMessage(p) ==
  /\ Goto(p, "recv")
  /\ req' = [req EXCEPT ![p] = Nil]
  /\ snap' = [snap EXCEPT ![p] = Nil]
  /\ reply' = [reply EXCEPT ![p] = NoReply]

(* Variant: an error of the storage is not counted as a failure. *)
BatchAddUserUncounted(p) ==
  /\ At(p, "BatchAddUsers", "start")
  /\ LET valid == req[p].id # 0 /\ req[p].username # ""
     IN  \/ /\ ~valid /\ UNCHANGED users
            /\ tally' = [tally EXCEPT ![p].failed = @ + 1]
         \/ valid /\ storage!AddUser(req[p], "AlreadyExists") /\ UNCHANGED tally
         \/ /\ valid /\ storage!AddUser(req[p], "OK")
            /\ tally' = [tally EXCEPT ![p].added = @ + 1]
  /\ NextMessage(p)
  /\ UNCHANGED <<now, method, pending>>

BatchAddUser(p) ==
  /\ At(p, "BatchAddUsers", "start")
  /\ LET valid == req[p].id # 0 /\ req[p].username # ""
         Failed == tally' = [tally EXCEPT ![p].failed = @ + 1]
     IN  \/ ~valid /\ Failed /\ UNCHANGED users
         \/ valid /\ Unavailable /\ Failed
         \/ valid /\ storage!AddUser(req[p], "AlreadyExists") /\ Failed
         \/ /\ valid /\ storage!AddUser(req[p], "OK")
            /\ tally' = [tally EXCEPT ![p].added = @ + 1]
  /\ NextMessage(p)
  /\ UNCHANGED <<now, method, pending>>

ActivityExists(p) ==
  /\ At(p, "UserActivityStream", "start")
  /\ LET exists == storage!UserExists(req[p].user_id)
         next == IF req[p].activity_type = "LOGIN" THEN "get" ELSE "send"
     IN  \/ Unavailable /\ Return(p, "Unavailable")
         \/ ~exists /\ Answer(p, "send", "unknown", Nil)
         \/ exists /\ Answer(p, next, "acknowledged", Nil)
  /\ ReadOnly /\ UNCHANGED <<method, req, locals>>

(* Variant: the error of GetUser is not looked at. *)
ActivityReadUnchecked(p) ==
  /\ At(p, "UserActivityStream", "get")
  /\ LET user == storage!GetUser(req[p].user_id)
     IN  snap' = [snap EXCEPT ![p] =
                    IF user = Nil THEN Nil
                    ELSE [user EXCEPT !.last_login = req[p].timestamp]]
  /\ Goto(p, "update")
  /\ ReadOnly /\ UNCHANGED <<method, req, pending, tally, reply>>

(* An error of GetUser or UpdateUser is not told to the client.             *)
ActivityRead(p) ==
  /\ At(p, "UserActivityStream", "get")
  /\ LET user == storage!GetUser(req[p].user_id)
     IN  \/ /\ user # Nil
            /\ snap' = [snap EXCEPT ![p] =
                          [user EXCEPT !.last_login = req[p].timestamp]]
            /\ Goto(p, "update")
         \/ /\ user = Nil \/ Unavailable
            /\ Goto(p, "send") /\ UNCHANGED snap
  /\ ReadOnly /\ UNCHANGED <<method, req, pending, tally, reply>>

(* Variant: a failed update is tried again from the reading on. *)
ActivityWriteRetried(p) ==
  /\ At(p, "UserActivityStream", "update")
  /\ \/ storage!UpdateUser(snap[p], "OK") /\ Goto(p, "send")
     \/ storage!UpdateUser(snap[p], "NotFound") /\ Goto(p, "start")
  /\ UNCHANGED <<now, method, req, locals, reply>>

ActivityWrite(p) ==
  /\ At(p, "UserActivityStream", "update")
  /\ \/ Unavailable
     \/ \E err \in Codes : storage!UpdateUser(snap[p], err)
  /\ Goto(p, "send")
  /\ UNCHANGED <<now, method, req, locals, reply>>

(* Variant: the id is not checked. *)
SyncExistsAnyId(p) ==
  /\ At(p, "SyncUsers", "start")
  /\ Goto(p, IF storage!UserExists(req[p].id) THEN "update" ELSE "add")
  /\ ReadOnly /\ UNCHANGED <<method, req, locals, reply>>

SyncExists(p) ==
  /\ At(p, "SyncUsers", "start")
  /\ \/ req[p].id = 0 /\ Answer(p, "send", "FAILED", Nil)
     \/ req[p].id # 0 /\ Unavailable /\ Answer(p, "send", "FAILED", Nil)
     \/ /\ req[p].id # 0
        /\ Goto(p, IF storage!UserExists(req[p].id) THEN "update" ELSE "add")
        /\ UNCHANGED reply
  /\ ReadOnly /\ UNCHANGED <<method, req, locals>>

SyncWrite(p) ==
  /\ method[p] = "SyncUsers"
  /\ \/ /\ pc[p] \in {"update", "add"} /\ Unavailable
        /\ Answer(p, "send", "FAILED", Nil)
     \/ /\ pc[p] = "update" /\ storage!UpdateUser(req[p], "OK")
        /\ Answer(p, "send", "updated", Nil)
     \/ /\ pc[p] = "update" /\ storage!UpdateUser(req[p], "NotFound")
        /\ Answer(p, "send", "FAILED", Nil)
     \/ /\ pc[p] = "add" /\ storage!AddUser(req[p], "OK")
        /\ Answer(p, "send", "created", Nil)
     \/ /\ pc[p] = "add" /\ storage!AddUser(req[p], "AlreadyExists")
        /\ Answer(p, "send", "FAILED", Nil)
  /\ UNCHANGED <<now, method, req, locals>>

SendReply(p) ==
  /\ pc[p] = "send" /\ method[p] \in ClientStreams
  /\ NextMessage(p)
  /\ ReadOnly /\ UNCHANGED <<method, pending, tally>>

-----------------------------------------------------------------------------
(* A Send fails once the client is gone; the handler returns that error.    *)
SendFails(p) ==
  /\ pc[p] = "send"
  /\ Return(p, "Aborted")
  /\ ReadOnly /\ UNCHANGED <<method, req, locals>>

(* A client starts a call and gRPC a goroutine for it.                      *)
Call(p) ==
  /\ pc[p] = "idle"
  /\ \E m \in Methods :
       /\ method' = [method EXCEPT ![p] = m]
       /\ \/ /\ m \in ClientStreams
             /\ Goto(p, "recv") /\ UNCHANGED req
          \/ /\ m \notin ClientStreams
             /\ \E r \in Traffic[m] : req' = [req EXCEPT ![p] = r]
             /\ Goto(p, "start")
  /\ ReadOnly /\ UNCHANGED <<locals, reply>>

(* The call's status leaves the server and its goroutine ends.              *)
Finish(p) ==
  /\ pc[p] = "return"
  /\ Goto(p, "idle")
  /\ method' = [method EXCEPT ![p] = "none"]
  /\ req' = [req EXCEPT ![p] = Nil]
  /\ snap' = [snap EXCEPT ![p] = Nil]
  /\ pending' = [pending EXCEPT ![p] = {}]
  /\ tally' = [tally EXCEPT ![p] = NoTally]
  /\ reply' = [reply EXCEPT ![p] = NoReply]
  /\ ReadOnly

(* What a goroutine does of its own accord, *)
Handle(p) ==
  \/ AddUserCount(p) \/ AddUserStore(p) \/ GetUser(p)
  \/ UpdateUserRead(p) \/ UpdateUserWrite(p) \/ DeleteUser(p)
  \/ ListUsers(p) \/ ListUsersByRole(p) \/ BatchAddUser(p)
  \/ ActivityExists(p) \/ ActivityRead(p) \/ ActivityWrite(p)
  \/ SyncExists(p) \/ SyncWrite(p)
  \/ Finish(p)

(* and what it needs a client for. *)
Exchange(p) ==
  \/ Call(p) \/ RecvMessage(p) \/ RecvEnd(p)
  \/ SendUser(p) \/ SendReply(p) \/ SendFails(p)

Tick ==
  /\ storage!Tick
  /\ UNCHANGED <<pc, method, req, locals, reply>>

Next == Tick \/ \E p \in Procs : Handle(p) \/ Exchange(p)

(* The Go scheduler runs every goroutine that can run, and a waiting writer *)
(* of the lock gets it. Nothing is assumed of the clients: a stream they    *)
(* neither feed, read nor close waits for ever.                             *)
Fairness == \A p \in Procs : WF_vars(Handle(p))

Spec == Init /\ [][Next]_vars /\ Fairness

-----------------------------------------------------------------------------
(***************************************************************************)
(* Properties.                                                             *)
(***************************************************************************)

(* The map never holds the invalid id 0, and holds each user under its own  *)
(* id: every handler that writes has checked the id it writes, however long *)
(* ago (server.go:48, 84, 250, 335) and wherever the user came from (the    *)
(* request, or a user read before).                                         *)
StoredUnderOwnId ==
  \A id \in Ids : storage!UserExists(id) => id # 0 /\ users[id].id = id

(* server.go:37-45: a user created while there are none is an admin, also   *)
(* when the count it was checked against is old by the time it is stored.   *)
(* It holds while users are created by AddUser alone and never deleted.     *)
FirstUserIsAdmin ==
  [][storage!Live = {} =>
       \A id \in storage!Live' : users'[id].role = "ADMIN"]_vars

(* A user who is not there appears only by a step that adds it. An update   *)
(* that has read the user before it was deleted does not bring it back      *)
(* (memory_storage.go:75), from UpdateUser, a LOGIN activity or a sync.     *)
AppearsOnlyByAdding ==
  [][\A id \in storage!Live' \ storage!Live :
       \E p \in Procs :
         /\ \/ At(p, "AddUser", "add") \/ At(p, "SyncUsers", "add")
            \/ At(p, "BatchAddUsers", "start")
         /\ req[p].id = id /\ pc'[p] # pc[p]]_vars

(* The totals of a batch add up between any two messages, whatever became   *)
(* of each (server.go:247-269): what was received was added or failed.      *)
BatchAddsUp ==
  \A p \in Procs :
    method[p] = "BatchAddUsers" /\ pc[p] \in {"recv", "return"} =>
      tally[p].received = tally[p].added + tally[p].failed

(* Every request and every message of a stream is worked off: its handler   *)
(* gets to its answer, or to the next message, without help of a client.    *)
EveryMessageIsHandled ==
  \A p \in Procs :
    pc[p] \notin {"idle", "recv", "send"} ~> pc[p] \in {"idle", "recv", "send"}
=============================================================================
