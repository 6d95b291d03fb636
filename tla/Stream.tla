------------------------------- MODULE Stream -------------------------------
(***************************************************************************)
(* One gRPC call between a client and the handler that serves it, as the   *)
(* generated stubs of proto/pkg/example_grpc.pb.go make it: messages one   *)
(* way and the other, through buffers that hold no more than the window of *)
(* flow control, and a status at the end. A unary call is a stream of one  *)
(* message each way.                                                       *)
(*                                                                         *)
(* The handler is that of UserService as its client sees it: when it       *)
(* reads, when it sends, when it ends. Messages are numbered in the order  *)
(* in which they were given to the client, and a response has the number   *)
(* of the message it answers.                                              *)
(***************************************************************************)
EXTENDS Integers, SequencesExt

CONSTANTS
  Window,       \* messages under way in one direction
  MaxMessages   \* messages in one direction (bound)

ASSUME WindowAssumption == Window \in Nat \ {0}
ASSUME MaxMessagesAssumption == MaxMessages \in Nat \ {0}

VARIABLES
  kind,         \* the kind of the call
  up, closed,   \* messages under way to the handler; CloseSend was called
  down,         \* messages under way to the client
  handler,      \* where the handler is
  handled,      \* the messages it has received,
  owed,         \* and the responses it has yet to send,
  due,          \* of all it has ever come to owe (history)
  status,       \* the status it has returned
  cancelled     \* the client's context was cancelled

streamVars ==
  <<kind, up, closed, down, handler, handled, owed, due, status, cancelled>>

(* AddUser and UpdateUser; GetUser and DeleteUser; the two lists;           *)
(* BatchAddUsers; UserActivityStream and SyncUsers.                         *)
Kinds == {"post", "get", "list", "batch", "bidi"}

Numbers == Seq(0 .. MaxMessages)

StreamTypeOK ==
  /\ kind \in Kinds \cup {"none"}
  /\ up \in Numbers /\ Len(up) <= Window
  /\ down \in Numbers /\ Len(down) <= Window
  /\ handled \in Numbers /\ owed \in Numbers /\ due \in Numbers
  /\ handler \in {"none", "recv", "send", "over"}
  /\ status \in {"none", "OK", "error"}
  /\ handler = "send" => owed # <<>>
  /\ handler = "over" <=> status # "none"
  /\ closed \in BOOLEAN /\ cancelled \in BOOLEAN

StreamInit ==
  /\ kind = "none"
  /\ up = <<>> /\ closed = FALSE /\ down = <<>>
  /\ handler = "none" /\ handled = <<>> /\ owed = <<>> /\ due = <<>>
  /\ status = "none" /\ cancelled = FALSE

-----------------------------------------------------------------------------
(* The client's side. A stub that is given its one message sends it and     *)
(* closes the stream.                                                       *)
Open(k) ==
  LET whole == k \in {"post", "get", "list"}
  IN  /\ kind' = k
      /\ up' = IF whole THEN <<1>> ELSE <<>>
      /\ closed' = whole
      /\ down' = <<>> /\ handler' = "recv" /\ handled' = <<>>
      /\ owed' = <<>> /\ due' = <<>>
      /\ status' = "none" /\ cancelled' = FALSE

IsOver == status # "none" \/ cancelled

(* Send blocks while the window is full, and fails once the call is over;   *)
(* until it has heard of that it may still succeed, to no effect.           *)
Send(n) ==
  /\ \/ ~IsOver /\ Len(up) < Window /\ up' = Append(up, n)
     \/ status # "none" /\ UNCHANGED up
  /\ UNCHANGED <<kind, closed, down, handler, handled, owed, due, status, cancelled>>

CloseSend ==
  /\ closed' = TRUE
  /\ UNCHANGED <<kind, up, down, handler, handled, owed, due, status, cancelled>>

(* Header comes with the first response or with the status.                 *)
HeaderIsThere == down # <<>> \/ IsOver

Recv ==
  /\ down # <<>>
  /\ down' = Tail(down)
  /\ UNCHANGED <<kind, up, closed, handler, handled, owed, due, status, cancelled>>

(* Recv returns EOF after an OK and the error after any other status, once  *)
(* what came before has been received; a cancelled call fails at once.      *)
RecvEOF == down = <<>> /\ status = "OK" /\ ~cancelled
RecvFails == cancelled \/ (down = <<>> /\ status = "error")

-----------------------------------------------------------------------------
(* The handler. *)
Return(code) == handler' = "over" /\ status' = code

(* A message is received and, but by a batch, answered: by one response, or *)
(* by a list of them. There is one at least, a list of nobody is an error   *)
(* (server.go:190, 211).                                                    *)
HandlerRecv ==
  /\ handler = "recv" /\ up # <<>>
  /\ up' = Tail(up)
  /\ handled' = Append(handled, Head(up))
  /\ \/ kind = "batch" /\ UNCHANGED <<handler, owed>>
     \/ /\ kind \in {"post", "get", "bidi"}
        /\ handler' = "send" /\ owed' = <<Head(up)>>
     \/ /\ kind = "list"
        /\ handler' = "send"
        /\ \E n \in 1 .. MaxMessages : owed' = [i \in 1 .. n |-> i]
  /\ due' = due \o owed'
  /\ UNCHANGED <<kind, closed, down, status, cancelled>>

(* The end of the client's messages: a batch answers with its totals.       *)
HandlerRecvEnd ==
  /\ handler = "recv" /\ up = <<>> /\ closed
  /\ \/ /\ kind = "batch"
        /\ handler' = "send" /\ owed' = <<Len(handled)>> /\ UNCHANGED status
     \/ kind = "bidi" /\ Return("OK") /\ UNCHANGED owed
  /\ due' = due \o owed'
  /\ UNCHANGED <<kind, up, closed, down, handled, cancelled>>

HandlerSend ==
  /\ handler = "send" /\ Len(down) < Window
  /\ down' = Append(down, Head(owed))
  /\ owed' = Tail(owed)
  /\ \/ Tail(owed) # <<>> /\ UNCHANGED <<handler, status>>
     \/ Tail(owed) = <<>> /\ kind = "bidi" /\ handler' = "recv" /\ UNCHANGED status
     \/ Tail(owed) = <<>> /\ kind # "bidi" /\ Return("OK")
  /\ UNCHANGED <<kind, up, closed, handled, due, cancelled>>

(* It may be refused by an interceptor or fail at any point, and does fail  *)
(* at its next Recv or Send once the call was cancelled.                    *)
HandlerFails ==
  /\ handler \in {"recv", "send"}
  /\ Return("error")
  /\ UNCHANGED <<kind, up, closed, down, handled, owed, due, cancelled>>

HandlerWorks == HandlerRecv \/ HandlerRecvEnd \/ HandlerSend
=============================================================================
