------------------------- MODULE CallHistoryProofs -------------------------
(***************************************************************************)
(* The theorem about the history of calls: every answer was the truth at   *)
(* one moment of its call, for every set of goroutines, requests and ids,  *)
(* every bound, and with or without a faulty storage.                      *)
(*                                                                         *)
(* The invariant follows one goroutine. Up to its answer the storage as it *)
(* is now is among what was seen (Looks); what it has found is kept with   *)
(* a view that bears it out (Holds); and the users a list has still to     *)
(* send make up, with those it sent, what was found in one view (Lists).   *)
(***************************************************************************)
EXTENDS CallHistory, UserLedgerProofs

(* While storage, clock, method and request stay, so does the view.         *)
LEMMA SameView ==
  ASSUME NEW p \in Procs, UNCHANGED <<users, now, method[p], req[p]>>
  PROVE  View(p)' = View(p)
<1>1. storage!ListUsers(FilterOf(req[p], now))' = storage!ListUsers(FilterOf(req[p], now))
  BY DEF storage!ListUsers, storage!Live, storage!UserExists, storage!Matches,
         storage!AsTime, storage!cloneUser, FilterOf, Unix, storage!NoDate, NoDate
<1>2. storage!ListUsersByRole(req[p].role)' = storage!ListUsersByRole(req[p].role)
  BY DEF storage!ListUsersByRole, storage!Live, storage!UserExists, storage!cloneUser
<1>3. Found(p)' = Found(p)
  BY <1>1, <1>2 DEF Found
<1>4. storage!UserExists(Subject(p))' = storage!UserExists(Subject(p))
  BY DEF storage!UserExists, Subject
<1> QED
  BY <1>3, <1>4 DEF View

(* Codes that say nothing of the storage, and what bears out the others.    *)
Silent == {"InvalidArgument", "Internal", "Unavailable", "Aborted", "FAILED"}

(* Any view justifies an answer that says nothing of the storage.           *)
LEMMA SilenceIsJustified ==
  ASSUME NEW p \in Procs, NEW view, reply'[p].code \in Silent
  PROVE  Justified(p, view)'
<1>1. reply'[p].code \notin {"OK", "NotFound", "AlreadyExists", "acknowledged", "updated",
                           "created", "unknown"}
  BY DEF Silent
<1> QED
  BY <1>1 DEF Justified

(* GetUser answers with the one user its view has found.                    *)
LEMMA UserIsJustified ==
  ASSUME NEW p \in Procs, NEW view, method'[p] = "GetUser", reply'[p].code = "OK",
         view.found = {reply'[p].user}
  PROVE  Justified(p, view)'
BY DEF Justified, ServerStreams

(* A list has sent what its view has found, or it was nothing.              *)
LEMMA ListIsJustified ==
  ASSUME NEW p \in Procs, NEW view, method'[p] \in ServerStreams,
         \/ reply'[p].code = "OK" /\ view.found = sent'[p]
         \/ reply'[p].code = "NotFound" /\ view.found = {}
  PROVE  Justified(p, view)'
BY DEF Justified, ServerStreams

(* Answers that say there is such a user.                                   *)
LEMMA PresenceIsJustified ==
  ASSUME NEW p \in Procs, NEW view, view.there,
         \/ method'[p] \in {"UpdateUser", "DeleteUser"} /\ reply'[p].code = "OK"
         \/ reply'[p].code \in {"AlreadyExists", "acknowledged", "updated"}
  PROVE  Justified(p, view)'
BY DEF Justified, ServerStreams

(* Answers that say there was none.                                         *)
LEMMA AbsenceIsJustified ==
  ASSUME NEW p \in Procs, NEW view, ~view.there,
         \/ method'[p] \notin ServerStreams /\ reply'[p].code = "NotFound"
         \/ method'[p] = "AddUser" /\ reply'[p].code = "OK"
         \/ reply'[p].code \in {"created", "unknown"}
  PROVE  Justified(p, view)'
BY DEF Justified, ServerStreams

-----------------------------------------------------------------------------
(* What is stored has no contact data, so a copy of it is no different.     *)
NoContact == \A id \in Ids : users[id] # Nil => users[id].email = ""

Looks(p) ==
  Working(p) =>
    /\ seen[p] # {}
    /\ pc[p] \notin {"send", "return"} => View(p) \in seen[p]

Holds(p) ==
  Working(p) /\ method[p] = "UserActivityStream" /\ pc[p] \in {"get", "update"} =>
    /\ reply[p].code = "acknowledged"
    /\ \E view \in seen[p] : view.there

Lists(p) ==
  Working(p) /\ method[p] \in ServerStreams =>
    /\ pc[p] = "start" => pending[p] = {} /\ sent[p] = {}
    /\ pc[p] = "send" =>
         \E view \in seen[p] : view.found = pending[p] \cup sent[p]

Answers(p) ==
  /\ Working(p)
  /\ pc[p] = "return" \/ (pc[p] = "send" /\ method[p] \in ClientStreams)
  => \E view \in seen[p] : Justified(p, view)

Idles(p) ==
  /\ pc[p] \in {"idle", "recv"} => req[p] = Nil
  /\ pc[p] = "idle" => pending[p] = {}
  /\ pc[p] = "recv" => method[p] \in ClientStreams

(* UpdateUser writes back the user it was asked to update.                  *)
Carries(p) ==
  At(p, "UpdateUser", "update") =>
    req[p].user \in User /\ snap[p].id = req[p].user.id

Moment(p) == Looks(p) /\ Holds(p) /\ Lists(p) /\ Answers(p) /\ Idles(p)

MomentInv ==
  OwnIdInv /\ NoContact /\ \A p \in Procs : Carries(p) /\ Moment(p)

-----------------------------------------------------------------------------
(* What the history keeps of a step.                                        *)
LEMMA Recorded ==
  ASSUME HistoryNext, NEW p \in Procs
  PROVE  /\ Working(p) /\ Working(p)' =>
              /\ seen[p] \subseteq seen'[p]
              /\ sent'[p] = sent[p] \cup (pending[p] \ pending'[p])
         /\ Working(p)' /\ pc[p] # "return" /\ (pc'[p] = pc[p] \/ ~Working(p)) =>
              View(p)' \in seen'[p]
         /\ ~Working(p) => sent'[p] = {}
<1>1. /\ seen'[p] = IF ~Working(p)' THEN {}
                    ELSE IF pc[p] = "return" \/ (pc'[p] # pc[p] /\ Working(p)) THEN seen[p]
                    ELSE seen[p] \cup {View(p)'}
      /\ sent'[p] = IF Working(p) /\ Working(p)'
                    THEN sent[p] \cup (pending[p] \ pending'[p]) ELSE {}
  BY DEF HistoryNext
<1> QED
  BY <1>1

(* A goroutine that does nothing sees what the others do.                   *)
LEMMA OthersAreSeen ==
  ASSUME HistoryNext, NEW p \in Procs, Moment(p),
         UNCHANGED <<pc[p], method[p], req[p], pending[p], reply[p]>>
  PROVE  Moment(p)'
<1>1. Working(p)' <=> Working(p)
  BY DEF Working
<1>2. Working(p) => seen[p] \subseteq seen'[p] /\ sent'[p] = sent[p]
  BY <1>1, Recorded
<1>3. Looks(p)'
  BY <1>1, <1>2, Recorded DEF Moment, Looks
<1>4. Holds(p)' /\ Lists(p)' /\ Idles(p)'
  BY <1>1, <1>2, Recorded DEF Moment, Holds, Lists, Idles
<1>5. Answers(p)'
  <2>1. ASSUME NEW view, Working(p) PROVE Justified(p, view)' <=> Justified(p, view)
    BY <1>2, <2>1 DEF Justified
  <2> QED
    BY <1>1, <1>2, <2>1 DEF Moment, Answers
<1> QED
  BY <1>3, <1>4, <1>5 DEF Moment
-----------------------------------------------------------------------------
(* What the request of a call holds.                                        *)
LEMMA RequestHolds ==
  ASSUME NEW p \in Procs, req[p] \in Requests(method[p])
  PROVE  /\ method[p] \in {"GetUser", "DeleteUser"} => req[p].id \in Ids
         /\ method[p] = "UpdateUser" => req[p].user \in User \cup {Nil}
<1>1. CASE method[p] \in {"GetUser", "DeleteUser"}
  <2>1. req[p] \in [id : Ids]
    BY <1>1 DEF Requests
  <2> QED
    BY <1>1, <2>1
<1>2. CASE method[p] = "UpdateUser"
  <2>1. req[p] \in [user : User \cup {Nil}, paths : SUBSET (Paths \cup {"bogus"})]
    BY <1>2 DEF Requests
  <2> QED
    BY <1>2, <2>1
<1> QED
  BY <1>1, <1>2

(* A copy of a user without contact data is the user.                       *)
LEMMA WithoutContact ==
  ASSUME NEW user \in User, user.email = ""
  PROVE  storage!cloneUser(user) = user
BY DEF User, storage!cloneUser

(* What a view shows of the matter of a call.                               *)
LEMMA Shows ==
  ASSUME NEW p \in Procs
  PROVE  /\ method[p] \in {"AddUser", "GetUser", "DeleteUser", "SyncUsers"} =>
              (View(p).there <=> storage!UserExists(req[p].id))
         /\ method[p] = "UpdateUser" /\ req[p].user # Nil =>
              (View(p).there <=> storage!UserExists(req[p].user.id))
         /\ method[p] = "UserActivityStream" =>
              (View(p).there <=> storage!UserExists(req[p].user_id))
         /\ View(p).found = Found(p)
BY DEF View, Subject, ServerStreams

(* p goes on without an answer: what it was to look at is as it was.        *)
LEMMA GoesOn ==
  ASSUME HistoryNext, NEW p \in Procs, Moment(p), method[p] \notin ServerStreams,
         UNCHANGED <<users, now, method[p], req[p]>>,
         pc[p] \in {"start", "get"}, pc'[p] \in {"add", "get", "update"}, Holds(p)'
  PROVE  Moment(p)'
<1>1. Working(p)' <=> Working(p)
  BY DEF Working
<1>2. Looks(p)'
  BY <1>1, SameView, Recorded DEF Moment, Looks
<1>3. Lists(p)' /\ Answers(p)' /\ Idles(p)'
  BY DEF Lists, Answers, Idles
<1> QED
  BY <1>2, <1>3 DEF Moment

(* p has its answer, and a view of what it saw bears it out.                *)
LEMMA Ends ==
  ASSUME HistoryNext, NEW p \in Procs, Moment(p), UNCHANGED <<method[p], req[p]>>,
         pc'[p] = "return" \/ (pc'[p] = "send" /\ method[p] \notin ServerStreams),
         Working(p) => \E view \in seen[p] : Justified(p, view)'
  PROVE  Moment(p)'
<1>1. Working(p)' <=> Working(p)
  BY DEF Working
<1>2. Working(p) => seen[p] \subseteq seen'[p]
  BY <1>1, Recorded
<1>3. Looks(p)' /\ Answers(p)'
  BY <1>1, <1>2 DEF Moment, Looks, Answers
<1>4. Holds(p)' /\ Lists(p)' /\ Idles(p)'
  BY DEF Holds, Lists, Idles
<1> QED
  BY <1>3, <1>4 DEF Moment

(* The same with a code that says nothing.                                  *)
LEMMA EndsSilently ==
  ASSUME HistoryNext, NEW p \in Procs, Moment(p), UNCHANGED <<method[p], req[p]>>,
         pc'[p] = "return" \/ (pc'[p] = "send" /\ method[p] \notin ServerStreams),
         reply'[p].code \in Silent
  PROVE  Moment(p)'
<1>1. ASSUME Working(p) PROVE \E view \in seen[p] : Justified(p, view)'
  BY <1>1, SilenceIsJustified DEF Moment, Looks
<1> QED
  BY <1>1, Ends

(* The same with a code that the storage, as p just found it, bears out.    *)
LEMMA EndsTruly ==
  ASSUME HistoryNext, NEW p \in Procs, Moment(p), UNCHANGED <<method[p], req[p]>>,
         pc[p] \notin {"send", "return"},
         pc'[p] = "return" \/ (pc'[p] = "send" /\ method[p] \notin ServerStreams),
         \/ /\ View(p).there
            /\ \/ method[p] \in {"UpdateUser", "DeleteUser"} /\ reply'[p].code = "OK"
               \/ reply'[p].code \in {"AlreadyExists", "acknowledged", "updated"}
         \/ /\ ~View(p).there
            /\ \/ method[p] \notin ServerStreams /\ reply'[p].code = "NotFound"
               \/ method[p] = "AddUser" /\ reply'[p].code = "OK"
               \/ reply'[p].code \in {"created", "unknown"}
         \/ /\ method[p] = "GetUser" /\ reply'[p].code = "OK"
            /\ View(p).found = {reply'[p].user}
         \/ /\ method[p] \in ServerStreams /\ reply'[p].code = "NotFound"
            /\ View(p).found = {}
  PROVE  Moment(p)'
<1>1. ASSUME Working(p) PROVE \E view \in seen[p] : Justified(p, view)'
  <2>1. PICK view \in seen[p] : view = View(p)
    BY <1>1 DEF Moment, Looks
  <2>2. Justified(p, view)'
    BY <2>1, PresenceIsJustified, AbsenceIsJustified, UserIsJustified, ListIsJustified
  <2> QED
    BY <2>2
<1> QED
  BY <1>1, Ends

(* p has no request any more.                                               *)
LEMMA IsDone ==
  ASSUME NEW p \in Procs, req'[p] = Nil, pc'[p] = "idle" => pending'[p] = {},
         pc'[p] = "recv" => method'[p] \in ClientStreams
  PROVE  Moment(p)'
BY DEF Moment, Looks, Holds, Lists, Answers, Idles, Working

-----------------------------------------------------------------------------
(* The unary methods.                                                       *)
LEMMA UnaryMoments ==
  ASSUME HistoryNext, OwnIdInv, NoContact, NEW p \in Procs, Carries(p), Moment(p),
         AddUserCount(p) \/ AddUserStore(p) \/ GetUser(p) \/ UpdateUserRead(p)
           \/ UpdateUserWrite(p) \/ DeleteUser(p)
  PROVE  Moment(p)'
<1>1. /\ pc \in [Procs -> Labels] /\ reply = [q \in Procs |-> reply[q]]
      /\ users \in [Ids -> User \cup {Nil}]
  BY SameData DEF OwnIdInv, TypeOK, ControlOK, LocalsOK, storage!StorageTypeOK
<1>2. method' = method /\ req' = req
  BY DEF AddUserCount, AddUserStore, GetUser, UpdateUserRead, UpdateUserWrite, DeleteUser
<1>3. method[p] \notin ServerStreams
  BY DEF AddUserCount, AddUserStore, GetUser, UpdateUserRead, UpdateUserWrite,
         DeleteUser, At, ServerStreams
<1>4. pc[p] \notin {"idle", "recv", "return"} => req[p] \in Requests(method[p])
  BY DEF OwnIdInv, TypeOK, RequestOK
<1> USE DEF At, Return, Answer, Goto
<1>5. ASSUME AddUserCount(p) PROVE Moment(p)'
  <2>1. CASE pc'[p] = "add"
    BY <1>1, <1>2, <1>3, <1>5, <2>1, GoesOn DEF AddUserCount, ReadOnly, Holds
  <2>2. CASE pc'[p] # "add"
    <3>1. pc'[p] = "return" /\ reply'[p].code \in Silent
      BY <1>1, <1>5, <2>2 DEF AddUserCount, Silent
    <3> QED
      BY <1>2, <3>1, EndsSilently
  <2> QED
    BY <2>1, <2>2
<1>6. ASSUME AddUserStore(p) PROVE Moment(p)'
  <2>1. pc[p] = "add" /\ method[p] = "AddUser" /\ pc'[p] = "return"
    BY <1>1, <1>6 DEF AddUserStore
  <2>2. CASE reply'[p].code = "Unavailable"
    BY <1>2, <2>1, <2>2, EndsSilently DEF Silent
  <2>3. CASE reply'[p].code # "Unavailable"
    <3>1. \/ storage!UserExists(req[p].id) /\ reply'[p].code = "AlreadyExists"
          \/ ~storage!UserExists(req[p].id) /\ reply'[p].code = "OK"
      BY <1>1, <1>6, <2>3 DEF AddUserStore, storage!AddUser
    <3> QED
      BY <1>2, <2>1, <3>1, Shows, EndsTruly
  <2> QED
    BY <2>2, <2>3
<1>7. ASSUME GetUser(p) PROVE Moment(p)'
  <2>1. pc[p] = "start" /\ method[p] = "GetUser" /\ pc'[p] = "return"
    BY <1>1, <1>7 DEF GetUser
  <2>2. CASE reply'[p].code \in Silent
    BY <1>2, <2>1, <2>2, EndsSilently
  <2>3. CASE reply'[p].code \notin Silent
    <3>1. req[p].id \in Ids
      BY <1>4, <2>1, RequestHolds
    <3>2. storage!GetUser(req[p].id) = users[req[p].id]
      BY <1>1, <3>1, WithoutContact DEF NoContact, storage!GetUser, storage!UserExists
    <3>3. View(p).found = {users[req[p].id]} \ {Nil}
      BY <2>1, Shows DEF Found
    <3>4. \/ ~storage!UserExists(req[p].id) /\ reply'[p].code = "NotFound"
          \/ /\ storage!UserExists(req[p].id) /\ reply'[p].code = "OK"
             /\ reply'[p].user = users[req[p].id]
      BY <1>1, <1>7, <2>3, <3>2 DEF GetUser, Silent, storage!UserExists
    <3>5. CASE reply'[p].code = "NotFound"
      BY <1>2, <1>3, <2>1, <3>4, <3>5, Shows, EndsTruly
    <3>6. CASE reply'[p].code = "OK"
      <4>1. View(p).found = {reply'[p].user}
        BY <3>3, <3>4, <3>6 DEF storage!UserExists
      <4> QED
        BY <1>2, <2>1, <3>6, <4>1, EndsTruly
    <3> QED
      BY <3>4, <3>5, <3>6
  <2> QED
    BY <2>2, <2>3
<1>8. ASSUME UpdateUserRead(p) PROVE Moment(p)'
  <2>1. pc[p] = "start" /\ method[p] = "UpdateUser" /\ pc'[p] \in {"return", "update"}
    BY <1>1, <1>8 DEF UpdateUserRead
  <2>2. CASE pc'[p] = "update"
    BY <1>2, <1>3, <1>8, <2>1, <2>2, GoesOn DEF UpdateUserRead, ReadOnly, Holds
  <2>3. CASE pc'[p] = "return" /\ reply'[p].code \in Silent
    BY <1>2, <2>3, EndsSilently
  <2>4. CASE pc'[p] = "return" /\ reply'[p].code \notin Silent
    <3>1. /\ reply'[p].code = "NotFound" /\ req[p].user # Nil
          /\ storage!GetUser(req[p].user.id) = Nil
      BY <1>1, <1>8, <2>4 DEF UpdateUserRead, Silent
    <3>2. req[p].user \in User
      BY <1>4, <2>1, <3>1, RequestHolds
    <3>3. req[p].user.id \in Ids
      BY <3>2 DEF User
    <3>4. ~storage!UserExists(req[p].user.id)
      BY <1>1, <3>1, <3>3, CloneIsUser, NilAssumption DEF storage!GetUser, storage!UserExists
    <3> QED
      BY <1>2, <1>3, <2>1, <2>4, <3>1, <3>4, Shows, EndsTruly
  <2> QED
    BY <2>1, <2>2, <2>3, <2>4
<1>9. ASSUME UpdateUserWrite(p) PROVE Moment(p)'
  <2>1. pc[p] = "update" /\ method[p] = "UpdateUser" /\ pc'[p] = "return"
    BY <1>1, <1>9 DEF UpdateUserWrite
  <2>2. CASE reply'[p].code = "Unavailable"
    BY <1>2, <2>1, <2>2, EndsSilently DEF Silent
  <2>3. CASE reply'[p].code # "Unavailable"
    <3>1. snap[p].id = req[p].user.id /\ req[p].user # Nil
      BY <2>1, NilAssumption DEF Carries
    <3>2. \/ storage!UserExists(req[p].user.id) /\ reply'[p].code = "OK"
          \/ ~storage!UserExists(req[p].user.id) /\ reply'[p].code = "NotFound"
      BY <1>1, <1>9, <2>3, <3>1 DEF UpdateUserWrite, storage!UpdateUser
    <3> QED
      BY <1>2, <1>3, <2>1, <3>1, <3>2, Shows, EndsTruly
  <2> QED
    BY <2>2, <2>3
<1>10. ASSUME DeleteUser(p) PROVE Moment(p)'
  <2>1. pc[p] = "start" /\ method[p] = "DeleteUser" /\ pc'[p] = "return"
    BY <1>1, <1>10 DEF DeleteUser
  <2>2. CASE reply'[p].code \in Silent
    BY <1>2, <2>1, <2>2, EndsSilently
  <2>3. CASE reply'[p].code \notin Silent
    <3>1. \/ storage!UserExists(req[p].id) /\ reply'[p].code = "OK"
          \/ ~storage!UserExists(req[p].id) /\ reply'[p].code = "NotFound"
      BY <1>1, <1>10, <2>3 DEF DeleteUser, storage!DeleteUser, Silent
    <3> QED
      BY <1>2, <1>3, <2>1, <3>1, Shows, EndsTruly
  <2> QED
    BY <2>2, <2>3
<1> QED
  BY <1>5, <1>6, <1>7, <1>8, <1>9, <1>10

(* The lists: found in one view, then sent user by user.                    *)
LEMMA ListMoments ==
  ASSUME HistoryNext, OwnIdInv, NEW p \in Procs, Moment(p),
         ListUsers(p) \/ ListUsersByRole(p) \/ SendUser(p)
  PROVE  Moment(p)'
<1>1. /\ pc \in [Procs -> Labels] /\ reply = [q \in Procs |-> reply[q]]
      /\ pending \in [Procs -> SUBSET User]
  BY DEF OwnIdInv, TypeOK, ControlOK, LocalsOK
<1>2. method' = method /\ req' = req /\ (Working(p)' <=> Working(p))
  BY DEF ListUsers, ListUsersByRole, StartListing, SendUser, Working
<1>3. method[p] \in ServerStreams /\ method[p] \notin ClientStreams
  BY DEF ListUsers, ListUsersByRole, SendUser, At, ServerStreams, ClientStreams
<1> USE DEF At, Return, Answer, Goto
<1>4. ASSUME NEW listed, pc[p] = "start", StartListing(p, listed), Found(p) = listed
      PROVE  Moment(p)'
  <2>1. View(p).found = listed
    BY <1>4, Shows
  <2>2. CASE pc'[p] = "return"
    <3>1. reply'[p].code \in Silent \/ (reply'[p].code = "NotFound" /\ listed = {})
      BY <1>1, <1>4, <2>2 DEF StartListing, Silent
    <3> QED
      BY <1>2, <1>3, <1>4, <2>1, <2>2, <3>1, EndsSilently, EndsTruly
  <2>3. CASE pc'[p] = "send"
    <3>1. pending'[p] = listed
      BY <1>1, <1>4, <2>3 DEF StartListing
    <3>2. ASSUME Working(p)
          PROVE  View(p) \in seen'[p] /\ pending'[p] \cup sent'[p] = listed
      <4>1. View(p) \in seen[p] /\ seen[p] \subseteq seen'[p]
        BY <1>2, <1>4, <3>2, Recorded DEF Moment, Looks
      <4>2. pending[p] = {} /\ sent[p] = {}
        BY <1>3, <1>4, <3>2 DEF Moment, Lists
      <4>3. sent'[p] = {}
        BY <1>2, <3>2, <4>2, Recorded
      <4> QED
        BY <3>1, <4>1, <4>3
    <3>3. Lists(p)'
      <4>1. ASSUME Working(p)
            PROVE  \E view \in seen'[p] : view.found = pending'[p] \cup sent'[p]
        BY <2>1, <3>2, <4>1
      <4> QED
        BY <1>2, <2>3, <4>1 DEF Lists
    <3>4. Looks(p)' /\ Holds(p)' /\ Answers(p)' /\ Idles(p)'
      BY <1>2, <1>3, <2>3, <3>2 DEF Looks, Holds, Answers, Idles
    <3> QED
      BY <3>3, <3>4 DEF Moment
  <2> QED
    BY <1>1, <1>4, <2>2, <2>3 DEF StartListing
<1>5. ASSUME ListUsers(p) PROVE Moment(p)'
  BY <1>4, <1>5 DEF ListUsers, Found
<1>6. ASSUME ListUsersByRole(p) PROVE Moment(p)'
  BY <1>4, <1>6 DEF ListUsersByRole, Found
<1>7. ASSUME SendUser(p) PROVE Moment(p)'
  <2>1. PICK user \in pending[p] :
          /\ pending' = [pending EXCEPT ![p] = @ \ {user}]
          /\ IF pending[p] = {user} THEN Return(p, "OK") ELSE UNCHANGED <<pc, reply>>
    BY <1>7 DEF SendUser
  <2>2. pc[p] = "send" /\ pending'[p] = pending[p] \ {user}
    BY <1>1, <1>7, <2>1 DEF SendUser
  <2>3. ASSUME Working(p)
        PROVE  /\ seen[p] \subseteq seen'[p] /\ sent'[p] = sent[p] \cup {user}
               /\ \E view \in seen[p] : view.found = pending[p] \cup sent[p]
    BY <1>2, <1>3, <2>2, <2>3, Recorded DEF Moment, Lists
  <2>4. CASE pending[p] = {user}
    <3>1. pc'[p] = "return" /\ reply'[p].code = "OK"
      <4>1. /\ pc' = [pc EXCEPT ![p] = "return"]
            /\ reply' = [reply EXCEPT ![p] = [code |-> "OK", user |-> Nil]]
        BY <2>1, <2>4
      <4> QED
        BY <1>1, <4>1
    <3>2. ASSUME Working(p) PROVE \E view \in seen[p] : Justified(p, view)'
      <4>1. PICK view \in seen[p] : view.found = pending[p] \cup sent[p]
        BY <2>3, <3>2
      <4>2. view.found = sent'[p]
        BY <2>3, <2>4, <3>2, <4>1
      <4> QED
        BY <1>2, <1>3, <3>1, <4>2, ListIsJustified
    <3> QED
      BY <1>2, <3>1, <3>2, Ends
  <2>5. CASE pending[p] # {user}
    <3>1. pc' = pc
      BY <2>1, <2>5
    <3>2. ASSUME Working(p)
          PROVE  \E view \in seen'[p] : view.found = pending'[p] \cup sent'[p]
      <4>1. PICK view \in seen[p] : view.found = pending[p] \cup sent[p]
        BY <2>3, <3>2
      <4>2. view.found = pending'[p] \cup sent'[p]
        BY <2>2, <2>3, <3>2, <4>1
      <4> QED
        BY <2>3, <3>2, <4>1, <4>2
    <3>3. Lists(p)'
      BY <1>2, <2>2, <3>1, <3>2 DEF Lists
    <3>4. Looks(p)' /\ Holds(p)' /\ Answers(p)' /\ Idles(p)'
      BY <1>2, <1>3, <2>2, <3>1, <3>2 DEF Looks, Holds, Answers, Idles
    <3> QED
      BY <3>3, <3>4 DEF Moment
  <2> QED
    BY <2>4, <2>5
<1> QED
  BY <1>5, <1>6, <1>7

(* The messages of the streams.                                             *)
LEMMA StreamMoments ==
  ASSUME HistoryNext, OwnIdInv, NEW p \in Procs, Moment(p),
         ActivityExists(p) \/ ActivityRead(p) \/ ActivityWrite(p) \/ SyncExists(p)
           \/ SyncWrite(p)
  PROVE  Moment(p)'
<1>1. pc \in [Procs -> Labels] /\ reply = [q \in Procs |-> reply[q]]
  BY DEF OwnIdInv, TypeOK, ControlOK, LocalsOK
<1>2. method' = method /\ req' = req /\ (Working(p)' <=> Working(p))
  BY DEF ActivityExists, ActivityRead, ActivityWrite, SyncExists, SyncWrite, locals,
         Working
<1>3. method[p] \notin ServerStreams
  BY DEF ActivityExists, ActivityRead, ActivityWrite, SyncExists, SyncWrite, At,
         ServerStreams
<1> USE DEF At, Return, Answer, Goto
<1>4. ASSUME ActivityExists(p) PROVE Moment(p)'
  <2>1. pc[p] = "start" /\ method[p] = "UserActivityStream" /\ UNCHANGED <<users, now>>
    BY <1>4 DEF ActivityExists, ReadOnly
  <2>2. CASE pc'[p] = "return" /\ reply'[p].code = "Unavailable"
    BY <1>2, <2>2, EndsSilently DEF Silent
  <2>3. CASE /\ pc'[p] = "send" /\ reply'[p].code = "unknown"
             /\ ~storage!UserExists(req[p].user_id)
    BY <1>2, <1>3, <2>1, <2>3, Shows, EndsTruly
  <2>4. CASE /\ pc'[p] = "send" /\ reply'[p].code = "acknowledged"
             /\ storage!UserExists(req[p].user_id)
    BY <1>2, <1>3, <2>1, <2>4, Shows, EndsTruly
  <2>5. CASE /\ pc'[p] = "get" /\ reply'[p].code = "acknowledged"
             /\ storage!UserExists(req[p].user_id)
    <3>1. ASSUME Working(p) PROVE \E view \in seen'[p] : view.there
      <4>1. View(p) \in seen[p] /\ seen[p] \subseteq seen'[p]
        BY <1>2, <2>1, <3>1, Recorded DEF Moment, Looks
      <4> QED
        BY <2>1, <2>5, <4>1, Shows
    <3>2. Holds(p)'
      BY <1>2, <2>5, <3>1 DEF Holds
    <3> QED
      BY <1>2, <1>3, <2>1, <2>5, <3>2, GoesOn
  <2> QED
    BY <1>1, <1>4, <2>2, <2>3, <2>4, <2>5 DEF ActivityExists
<1>5. ASSUME ActivityRead(p) \/ ActivityWrite(p) PROVE Moment(p)'
  <2>1. /\ pc[p] \in {"get", "update"} /\ method[p] = "UserActivityStream"
        /\ reply' = reply
    BY <1>5 DEF ActivityRead, ActivityWrite
  <2>2. ASSUME Working(p)
        PROVE  /\ reply'[p].code = "acknowledged"
               /\ \E view \in seen[p] : view.there
               /\ seen[p] \subseteq seen'[p]
    BY <1>2, <2>1, <2>2, Recorded DEF Moment, Holds
  <2>3. CASE pc'[p] = "send"
    <3>1. ASSUME Working(p) PROVE \E view \in seen[p] : Justified(p, view)'
      BY <2>2, <3>1, PresenceIsJustified
    <3> QED
      BY <1>2, <1>3, <2>3, <3>1, Ends
  <2>4. CASE pc[p] = "get" /\ pc'[p] = "update" /\ UNCHANGED <<users, now>>
    <3>1. Holds(p)'
      BY <1>2, <2>2 DEF Holds
    <3> QED
      BY <1>2, <1>3, <2>4, <3>1, GoesOn
  <2> QED
    BY <1>1, <1>5, <2>3, <2>4 DEF ActivityRead, ActivityWrite, ReadOnly
<1>6. ASSUME SyncExists(p) PROVE Moment(p)'
  <2>1. pc[p] = "start" /\ method[p] = "SyncUsers" /\ UNCHANGED <<users, now>>
    BY <1>6 DEF SyncExists, ReadOnly
  <2>2. CASE pc'[p] = "send" /\ reply'[p].code = "FAILED"
    BY <1>2, <1>3, <2>2, EndsSilently DEF Silent
  <2>3. CASE pc'[p] \in {"update", "add"}
    BY <1>2, <1>3, <2>1, <2>3, GoesOn DEF Holds
  <2> QED
    BY <1>1, <1>6, <2>2, <2>3 DEF SyncExists
<1>7. ASSUME SyncWrite(p) PROVE Moment(p)'
  <2>1. pc[p] \in {"update", "add"} /\ method[p] = "SyncUsers" /\ pc'[p] = "send"
    BY <1>1, <1>7 DEF SyncWrite
  <2>2. CASE reply'[p].code = "FAILED"
    BY <1>2, <1>3, <2>1, <2>2, EndsSilently DEF Silent
  <2>3. CASE reply'[p].code # "FAILED"
    <3>1. \/ storage!UserExists(req[p].id) /\ reply'[p].code = "updated"
          \/ ~storage!UserExists(req[p].id) /\ reply'[p].code = "created"
      BY <1>1, <1>7, <2>3 DEF SyncWrite, storage!UpdateUser, storage!AddUser
    <3> QED
      BY <1>2, <1>3, <2>1, <3>1, Shows, EndsTruly
  <2> QED
    BY <2>2, <2>3
<1> QED
  BY <1>4, <1>5, <1>6, <1>7

(* A new request, the end of one, and a client that is gone.                *)
LEMMA ExchangeMoments ==
  ASSUME HistoryNext, OwnIdInv, NEW p \in Procs, Moment(p),
         BatchAddUser(p) \/ Finish(p) \/ Call(p) \/ RecvMessage(p) \/ RecvEnd(p)
           \/ SendReply(p) \/ SendFails(p)
  PROVE  Moment(p)'
<1>1. /\ pc \in [Procs -> Labels] /\ reply = [q \in Procs |-> reply[q]]
      /\ req = [q \in Procs |-> req[q]] /\ method = [q \in Procs |-> method[q]]
      /\ pending \in [Procs -> SUBSET User]
  BY DEF OwnIdInv, TypeOK, ControlOK, LocalsOK
<1> USE DEF At, Return, Answer, Goto, NextMessage
<1>2. ASSUME BatchAddUser(p) \/ Finish(p) \/ SendReply(p) PROVE Moment(p)'
  <2>1. /\ req'[p] = Nil
        /\ \/ pc'[p] = "idle" /\ pending'[p] = {}
           \/ pc'[p] = "recv" /\ method'[p] \in ClientStreams
    BY <1>1, <1>2 DEF BatchAddUser, Finish, SendReply, ClientStreams
  <2> QED
    BY <2>1, IsDone
<1>3. ASSUME ~Working(p), pc[p] # "return", pc'[p] = "start",
             method'[p] \in ServerStreams => pending'[p] = {}
      PROVE  Moment(p)'
  <2>1. sent'[p] = {} /\ (Working(p)' => View(p)' \in seen'[p])
    BY <1>3, Recorded
  <2>2. Looks(p)' /\ Lists(p)'
    BY <1>3, <2>1 DEF Looks, Lists
  <2>3. Holds(p)' /\ Answers(p)' /\ Idles(p)'
    BY <1>3 DEF Holds, Answers, Idles
  <2> QED
    BY <2>2, <2>3 DEF Moment
<1>4. ASSUME Call(p) PROVE Moment(p)'
  <2>1. ~Working(p) /\ req[p] = Nil /\ pending' = pending /\ pending[p] = {} /\ pc[p] = "idle"
    BY <1>4 DEF Call, locals, Moment, Idles, Working
  <2>2. \/ pc'[p] = "start"
        \/ pc'[p] = "recv" /\ req' = req /\ method'[p] \in ClientStreams
    BY <1>1, <1>4 DEF Call
  <2> QED
    BY <1>3, <2>1, <2>2, IsDone
<1>5. ASSUME RecvMessage(p) PROVE Moment(p)'
  <2>1. ~Working(p) /\ method[p] \in ClientStreams /\ method' = method /\ pc[p] = "recv"
    BY <1>5 DEF RecvMessage, Moment, Idles, Working
  <2>2. pc'[p] = "start" /\ method'[p] \notin ServerStreams
    BY <1>1, <1>5, <2>1 DEF RecvMessage, ServerStreams, ClientStreams
  <2> QED
    BY <1>3, <2>1, <2>2
<1>6. ASSUME RecvEnd(p) PROVE Moment(p)'
  <2>1. req'[p] = Nil /\ pc'[p] = "return"
    BY <1>1, <1>6 DEF RecvEnd, Moment, Idles
  <2> QED
    BY <2>1, IsDone
<1>7. ASSUME SendFails(p) PROVE Moment(p)'
  <2>1. pc'[p] = "return" /\ reply'[p].code = "Aborted" /\ UNCHANGED <<method, req>>
    BY <1>1, <1>7 DEF SendFails
  <2> QED
    BY <2>1, EndsSilently DEF Silent
<1> QED
  BY <1>2, <1>4, <1>5, <1>6, <1>7

-----------------------------------------------------------------------------
(* The whole of the invariant.                                              *)
LEMMA InitMomentInv == HistoryInit => MomentInv
<1> SUFFICES ASSUME HistoryInit PROVE MomentInv
  OBVIOUS
<1>1. Init
  BY DEF HistoryInit, LedgerInit
<1>2. OwnIdInv /\ NoContact
  BY <1>1, InitOwnIdInv DEF Init, storage!Init, NoContact
<1>3. \A p \in Procs : pc[p] = "idle" /\ req[p] = Nil /\ pending[p] = {}
  BY <1>1 DEF Init
<1> QED
  BY <1>2, <1>3
     DEF MomentInv, Carries, At, Moment, Looks, Holds, Lists, Answers, Idles, Working

(* Whatever is stored is a copy without contact data.                       *)
LEMMA NoContactKept ==
  ASSUME OwnIdInv, NoContact, [Next]_vars
  PROVE  NoContact'
<1>1. TypeOK /\ users \in [Ids -> User \cup {Nil}] /\ now \in 1 .. MaxTime
  BY SameData DEF OwnIdInv, TypeOK, storage!StorageTypeOK
<1>2. ASSUME NEW user \in User, NEW id \in Ids,
             users' = [users EXCEPT ![user.id] = storage!cloneUser(user)], users'[id] # Nil
      PROVE  users'[id].email = ""
  <2>1. storage!cloneUser(user).email = ""
    BY DEF User, storage!cloneUser
  <2> QED
    BY <1>1, <1>2, <2>1 DEF NoContact
<1>3. ASSUME NEW p \in Procs, NEW id \in Ids, Adds(p), users'[id] # Nil
      PROVE  users'[id].email = ""
  <2>1. req[p] \in User
    BY <1>1, <1>3, RequestKinds DEF Adds, TypeOK, RequestOK, At
  <2>2. /\ storage!WithDefaults(req[p]) \in User
        /\ storage!WithDefaults(req[p]).id = req[p].id
    BY <1>1, <2>1, DefaultsAreUser
  <2> QED
    BY <1>2, <1>3, <2>2 DEF Adds, storage!AddUser
<1>4. ASSUME NEW p \in Procs, NEW id \in Ids, Rewrites(p) \/ Overwrites(p), users'[id] # Nil
      PROVE  users'[id].email = ""
  <2>1. PICK user \in User : storage!UpdateUser(user, "OK")
    BY <1>1, <1>4, RequestKinds
       DEF Rewrites, Overwrites, TypeOK, RequestOK, LocalsOK, At
  <2> QED
    BY <1>2, <1>4, <2>1 DEF storage!UpdateUser
<1>5. ASSUME NEW p \in Procs, NEW id \in Ids, Deletes(p), users'[id] # Nil
      PROVE  users'[id].email = ""
  BY <1>1, <1>5 DEF Deletes, storage!DeleteUser, NoContact
<1> QED
  BY <1>1, <1>3, <1>4, <1>5, StepEffect DEF Effect, NoContact

(* What UpdateUser has read and laid its changes over keeps the id it       *)
(* asked for.                                                               *)
LEMMA CarriesKept ==
  ASSUME OwnIdInv, [Next]_vars, NEW p \in Procs, Carries(p)
  PROVE  Carries(p)'
<1> SUFFICES ASSUME At(p, "UpdateUser", "update")'
             PROVE  req'[p].user \in User /\ snap'[p].id = req'[p].user.id
  BY DEF Carries
<1>1. TypeOK /\ storage!StorageTypeOK
  BY DEF OwnIdInv, TypeOK
<1>2. Approach(p)
  BY <1>1, StepApproach
<1>3. CASE UNCHANGED <<pc[p], method[p], req[p], snap[p]>>
  BY <1>3 DEF Carries, At
<1>4. CASE /\ req[p].user \in User /\ storage!GetUser(req[p].user.id) \in User
           /\ snap'[p] = Overlay(storage!GetUser(req[p].user.id), req[p].user, req[p].paths)
           /\ UNCHANGED req[p]
  <2>1. req[p].user.id \in Ids
    BY <1>4 DEF User
  <2>2. storage!GetUser(req[p].user.id).id = req[p].user.id
    BY <1>1, <1>4, <2>1, GetUserReturns, NilAssumption DEF OwnIdInv, StoredUnderOwnId
  <2> QED
    BY <1>4, <2>2, OverlayIsUser
<1> QED
  BY <1>2, <1>3, <1>4 DEF Approach, At

(* Every step keeps the invariant, whichever goroutine takes it.            *)
LEMMA NextMomentInv == MomentInv /\ [HistoryNext]_historyVars => MomentInv'
<1>1. ASSUME MomentInv, HistoryNext PROVE MomentInv'
  <2>1. [Next]_vars
    BY <1>1 DEF HistoryNext, LedgerNext
  <2>2. OwnIdInv /\ TypeOK /\ NoContact
    BY <1>1 DEF MomentInv, OwnIdInv
  <2>3. OwnIdInv' /\ NoContact'
    BY <2>1, <2>2, NextOwnIdInv, NoContactKept
  <2>4. ASSUME NEW p \in Procs PROVE Carries(p)' /\ Moment(p)'
    <3>1. Carries(p) /\ Moment(p)
      BY <1>1 DEF MomentInv
    <3>2. Carries(p)'
      BY <2>1, <2>2, <3>1, CarriesKept
    <3>3. CASE ~(Handle(p) \/ Exchange(p))
      BY <1>1, <2>1, <2>2, <3>1, <3>2, <3>3, OwnStep, OthersAreSeen
    <3>4. CASE Handle(p) \/ Exchange(p)
      BY <1>1, <2>2, <3>1, <3>2, <3>4, UnaryMoments, ListMoments, StreamMoments,
         ExchangeMoments
         DEF Handle, Exchange
    <3> QED
      BY <3>3, <3>4
  <2> QED
    BY <2>3, <2>4 DEF MomentInv
<1>2. ASSUME MomentInv, UNCHANGED historyVars PROVE MomentInv'
  <2>1. /\ UNCHANGED <<users, now, pc, method, req, pending, reply, snap, seen, sent>>
        /\ UNCHANGED vars
    BY <1>2 DEF historyVars, ledgerVars, vars
  <2>2. OwnIdInv' /\ NoContact'
    BY <1>2, <2>1, NextOwnIdInv DEF MomentInv, NoContact
  <2>3. ASSUME NEW p \in Procs PROVE Carries(p)' /\ Moment(p)'
    <3>1. Carries(p) /\ Moment(p)
      BY <1>2 DEF MomentInv
    <3>2. View(p)' = View(p)
      BY <2>1, SameView
    <3>3. Carries(p)' /\ Looks(p)' /\ Holds(p)' /\ Lists(p)' /\ Idles(p)'
      BY <2>1, <3>1, <3>2
         DEF Carries, At, Moment, Looks, Holds, Lists, Idles, Working
    <3>4. ASSUME NEW view PROVE Justified(p, view)' <=> Justified(p, view)
      BY <2>1 DEF Justified
    <3>5. Answers(p)'
      BY <2>1, <3>1, <3>4 DEF Moment, Answers, Working
    <3> QED
      BY <3>3, <3>5 DEF Moment
  <2> QED
    BY <2>2, <2>3 DEF MomentInv
<1> QED
  BY <1>1, <1>2

(* No handler holds a lock, and yet no answer is made of two states of the  *)
(* storage: what it reports was so at one moment of its call, by every      *)
(* interleaving of any number of goroutines.                                *)
THEOREM AnswersAreOfAMoment == HistorySpec => []EveryAnswerHadItsMoment
<1>1. MomentInv => EveryAnswerHadItsMoment
  BY DEF MomentInv, Moment, Answers, EveryAnswerHadItsMoment
<1> QED
  BY <1>1, InitMomentInv, NextMomentInv, PTL DEF HistorySpec
=============================================================================
