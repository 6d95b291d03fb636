----------------------------- MODULE DemoClient -----------------------------
(***************************************************************************)
(* cmd/client/main.go: a program that makes one call after the other. In a *)
(* bidirectional stream a goroutine receives while func main sends.        *)
(***************************************************************************)
EXTENDS Stream

(* AddUser, GetUser, UpdateUser, both lists, BatchAddUsers,                 *)
(* UserActivityStream, SyncUsers and DeleteUser.                            *)
Script == <<"post", "get", "post", "list", "list", "batch", "bidi", "bidi", "get">>

VARIABLES
  main,       \* where func main is in a demonstration
  demo,       \* the demonstrations begun
  sent,       \* the messages sent in this one
  receiver    \* the goroutine that receives

clientVars == <<main, demo, sent, receiver>>

ClientTypeOK ==
  /\ main \in {"next", "send", "close", "recv", "await", "ended"}
  /\ demo \in 0 .. Len(Script)
  /\ sent \in 0 .. MaxMessages
  /\ receiver \in {"none", "recv", "done"}

ClientInit == main = "next" /\ demo = 0 /\ sent = 0 /\ receiver = "none"

-----------------------------------------------------------------------------
(* The next demonstration, which is over at once if its call cannot be      *)
(* opened.                                                                  *)
Demonstrate ==
  /\ main = "next" /\ demo < Len(Script)
  /\ demo' = demo + 1 /\ sent' = 0
  /\ LET k == Script[demo + 1]
     IN  \/ /\ k \in {"post", "get", "list"}
            /\ Open(k) /\ main' = "recv" /\ UNCHANGED receiver
         \/ /\ k = "batch"
            /\ Open(k) /\ main' = "send" /\ UNCHANGED receiver
         \/ /\ k = "bidi"
            /\ Open(k) /\ main' = "send" /\ receiver' = "recv"
         \/ UNCHANGED <<main, receiver, streamVars>>

DemonstrationsEnd ==
  /\ main = "next" /\ demo = Len(Script)
  /\ main' = "ended"
  /\ UNCHANGED <<demo, sent, receiver, streamVars>>

(* A batch that cannot send any more is given up, a stream is closed.       *)
SendNext ==
  /\ main = "send" /\ sent < MaxMessages
  /\ \/ Send(sent + 1) /\ sent' = sent + 1 /\ UNCHANGED main
     \/ /\ IsOver
        /\ main' = IF kind = "batch" THEN "next" ELSE "close"
        /\ UNCHANGED <<sent, streamVars>>
  /\ UNCHANGED <<demo, receiver>>

AllSent ==
  /\ main = "send" /\ sent = MaxMessages
  /\ main' = "close"
  /\ UNCHANGED <<demo, sent, receiver, streamVars>>

CloseSending ==
  /\ main = "close"
  /\ CloseSend
  /\ main' = IF kind = "batch" THEN "recv" ELSE "await"
  /\ UNCHANGED <<demo, sent, receiver>>

Receive ==
  /\ main = "recv"
  /\ \/ Recv /\ UNCHANGED main
     \/ (RecvEOF \/ RecvFails) /\ main' = "next" /\ UNCHANGED streamVars
  /\ UNCHANGED <<demo, sent, receiver>>

(* Variant: the receiver signals only the end of the stream. *)
ReceiverToEOF ==
  /\ receiver = "recv"
  /\ \/ Recv /\ UNCHANGED receiver
     \/ RecvEOF /\ receiver' = "done" /\ UNCHANGED streamVars
  /\ UNCHANGED <<main, demo, sent>>

Receiver ==
  /\ receiver = "recv"
  /\ \/ Recv /\ UNCHANGED receiver
     \/ (RecvEOF \/ RecvFails) /\ receiver' = "done" /\ UNCHANGED streamVars
  /\ UNCHANGED <<main, demo, sent>>

(* The channel done has no buffer: the goroutine ends as main reads it.     *)
Await ==
  /\ main = "await" /\ receiver = "done"
  /\ main' = "next" /\ receiver' = "none"
  /\ UNCHANGED <<demo, sent, streamVars>>

ClientMain ==
  \/ Demonstrate \/ DemonstrationsEnd
  \/ SendNext \/ AllSent \/ CloseSending \/ Receive \/ Await
=============================================================================
