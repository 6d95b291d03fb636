------------------------------ MODULE Gateway ------------------------------
(***************************************************************************)
(* proto/pkg/example.pb.gw.go: one HTTP request and the gRPC call that the *)
(* gateway makes of it. The HTTP client sends its body item by item, some  *)
(* of them malformed, and may stop or leave at any point; reading a body   *)
(* whose request is over fails.                                            *)
(***************************************************************************)
EXTENDS Stream

VARIABLES
  http,         \* where the HTTP handler is
  items,        \* the items of the body so far: are they well-formed?
  ended,        \* the body has come to its end
  gone,         \* the HTTP client has left, which cancels the request
  read,         \* the items decoded
  sender,       \* the goroutine that sends a bidirectional stream's items
  answer, code  \* the responses written, and how the HTTP response ended

bodyVars == <<items, ended, gone>>
gatewayVars == <<http, bodyVars, read, sender, answer, code>>

GatewayTypeOK ==
  /\ http \in {"new", "body", "decode", "send", "close", "header", "recv", "over"}
  /\ items \in Seq(BOOLEAN) /\ read \in 0 .. Len(items)
  /\ ended \in BOOLEAN /\ gone \in BOOLEAN
  /\ sender \in {"none", "decode", "send", "close", "ended"}
  /\ answer \in Numbers
  /\ code \in {"none", "OK", "error", "InvalidArgument"}

GatewayInit ==
  /\ http = "new"
  /\ items = <<>> /\ ended = FALSE /\ gone = FALSE
  /\ read = 0 /\ sender = "none"
  /\ answer = <<>> /\ code = "none"

-----------------------------------------------------------------------------
(* The HTTP client. *)
BodyItem ==
  /\ http \notin {"new", "over"} /\ ~ended /\ ~gone
  /\ Len(items) < MaxMessages
  /\ \E wellFormed \in BOOLEAN : items' = Append(items, wellFormed)
  /\ UNCHANGED <<http, ended, gone, read, sender, answer, code, streamVars>>

BodyEnd ==
  /\ http \notin {"new", "over"} /\ ~ended /\ ~gone
  /\ ended' = TRUE
  /\ UNCHANGED <<http, items, gone, read, sender, answer, code, streamVars>>

(* The context of the request is that of the call.                          *)
Leave ==
  /\ http \notin {"new", "over"} /\ ~gone
  /\ gone' = TRUE /\ cancelled' = TRUE
  /\ UNCHANGED <<http, items, ended, read, sender, answer, code>>
  /\ UNCHANGED <<kind, up, closed, down, handler, handled, owed, due, status>>

(* What Decode returns.                                                     *)
DecodesItem == read < Len(items) /\ items[read + 1]
DecodesEOF == read = Len(items) /\ ended
(* Variant: a body that outlives its request. *)
DecodeFailsOnItem == (read < Len(items) /\ ~items[read + 1]) \/ gone

DecodeFails ==
  \/ read < Len(items) /\ ~items[read + 1]
  \/ gone \/ http = "over"

Goto(label) ==
  /\ http' = label
  /\ UNCHANGED <<bodyVars, answer, code>>

(* Variant: the call's context is not cancelled at the end. *)
FinishQuietly(c) ==
  /\ http' = "over" /\ code' = c
  /\ UNCHANGED <<bodyVars, read, answer, streamVars>>

(* The HTTP handler returns: its deferred cancel ends a call that is not    *)
(* over.                                                                    *)
Finish(c) ==
  /\ http' = "over" /\ code' = c
  /\ cancelled' = TRUE
  /\ UNCHANGED <<bodyVars, read, answer>>
  /\ UNCHANGED <<kind, up, closed, down, handler, handled, owed, due, status>>

-----------------------------------------------------------------------------
(* The handlers of the routes. One that streams its body opens the call     *)
(* first; a body that is one message or is not asked for is read first.     *)
Route(k) ==
  /\ http = "new"
  /\ \/ /\ k \in {"post", "get", "list"}
        /\ kind' = k /\ Goto("body")
        /\ UNCHANGED <<sender, up, closed, down, handler, handled, owed, due>>
        /\ UNCHANGED <<status, cancelled>>
     \/ k = "batch" /\ Open(k) /\ Goto("decode") /\ UNCHANGED sender
     \/ k = "bidi" /\ Open(k) /\ Goto("header") /\ sender' = "decode"
  /\ UNCHANGED read

(* No metadata for the call, no connection for it.                          *)
RouteFails ==
  /\ http = "new"
  /\ Finish("error")
  /\ UNCHANGED sender

(* A post decodes its body, an empty one as the empty message; what is left *)
(* of a body is read away before the call is made.                          *)
CallPost ==
  /\ http = "body" /\ kind = "post" /\ ended /\ ~gone
  /\ DecodesItem \/ DecodesEOF
  /\ Open(kind) /\ Goto("recv")
  /\ UNCHANGED <<read, sender>>

CallGet ==
  /\ http = "body" /\ kind = "get" /\ ended /\ ~gone
  /\ Open(kind) /\ Goto("recv")
  /\ UNCHANGED <<read, sender>>

CallList ==
  /\ http = "body" /\ kind = "list" /\ ended /\ ~gone
  /\ Open(kind) /\ Goto("header")
  /\ UNCHANGED <<read, sender>>

(* A body that cannot be decoded, a path or query that is not what the      *)
(* method takes; no call can be made for a client that has left.            *)
Refuse ==
  /\ http = "body"
  /\ \/ kind = "post" /\ DecodeFails /\ Finish("InvalidArgument")
     \/ ended /\ Finish("InvalidArgument")
     \/ gone /\ Finish("error")
  /\ UNCHANGED sender

(* Variant: a batch skips what it cannot decode. *)
DecodeLeniently ==
  /\ http = "decode"
  /\ \/ DecodesItem /\ read' = read + 1 /\ Goto("send") /\ UNCHANGED streamVars
     \/ DecodesEOF /\ Goto("close") /\ UNCHANGED <<read, streamVars>>
     \/ /\ ~DecodesItem /\ DecodeFails /\ read < Len(items)
        /\ read' = read + 1 /\ UNCHANGED <<http, bodyVars, answer, code, streamVars>>
  /\ UNCHANGED sender

(* Variant: it takes any error for the end of the body. *)
DecodeToFirstError ==
  /\ http = "decode"
  /\ \/ DecodesItem /\ read' = read + 1 /\ Goto("send")
     \/ (DecodesEOF \/ DecodeFails) /\ Goto("close") /\ UNCHANGED read
  /\ UNCHANGED <<sender, streamVars>>

(* Variant: it sends what the end of the body leaves it with. *)
DecodePastEnd ==
  /\ http = "decode"
  /\ \/ (DecodesItem \/ DecodesEOF) /\ read' = read + 1 /\ Goto("send") /\ UNCHANGED streamVars
     \/ DecodeFails /\ Finish("InvalidArgument")
  /\ UNCHANGED sender

(* The loop of a batch: a malformed item ends the request and the call.     *)
Decode ==
  /\ http = "decode"
  /\ \/ DecodesItem /\ read' = read + 1 /\ Goto("send") /\ UNCHANGED streamVars
     \/ DecodesEOF /\ Goto("close") /\ UNCHANGED <<read, streamVars>>
     \/ DecodeFails /\ Finish("InvalidArgument")
  /\ UNCHANGED sender

(* EOF from Send: the call is over, and CloseAndRecv will say how.          *)
SendItem ==
  /\ http = "send"
  /\ \/ Send(read) /\ Goto("decode") /\ UNCHANGED read
     \/ IsOver /\ Goto("close") /\ UNCHANGED <<read, streamVars>>
     \/ gone /\ Finish("error")
  /\ UNCHANGED sender

CloseItems ==
  /\ http = "close"
  /\ CloseSend
  /\ Goto("header")
  /\ UNCHANGED <<read, sender>>

(* Variant: everything is sent before anything is received. *)
AwaitHeaderAfterSending ==
  /\ http = "header" /\ sender \in {"none", "ended"}
  /\ HeaderIsThere
  /\ \/ Goto("recv") /\ UNCHANGED <<read, streamVars>>
     \/ cancelled /\ Finish("error")
  /\ UNCHANGED sender

AwaitHeader ==
  /\ http = "header"
  /\ HeaderIsThere
  /\ \/ Goto("recv") /\ UNCHANGED <<read, streamVars>>
     \/ cancelled /\ Finish("error")
  /\ UNCHANGED sender

-----------------------------------------------------------------------------
(* Variant: a response that cannot be written is left out. *)
ForwardWhatItCan ==
  /\ http = "recv"
  /\ \/ /\ ~gone /\ Recv /\ answer' \in {answer, Append(answer, Head(down))}
        /\ UNCHANGED <<http, bodyVars, read, code>>
     \/ RecvEOF /\ Finish("OK")
     \/ RecvFails /\ Finish("error")
  /\ UNCHANGED sender

(* Responses are written as they come, then the end or the error; to a      *)
(* client that has left nothing can be written.                             *)
Forward ==
  /\ http = "recv"
  /\ \/ /\ ~gone /\ Recv /\ answer' = Append(answer, Head(down))
        /\ UNCHANGED <<http, bodyVars, read, code>>
     \/ RecvEOF /\ Finish("OK")
     \/ RecvFails /\ Finish("error")
  /\ UNCHANGED sender

-----------------------------------------------------------------------------
(* Variant: at an error the goroutine is gone without closing the stream.   *)
SenderDecodeOrReturn ==
  /\ sender = "decode"
  /\ \/ DecodesItem /\ read' = read + 1 /\ sender' = "send"
     \/ DecodesEOF /\ sender' = "close" /\ UNCHANGED read
     \/ DecodeFails /\ sender' = "ended" /\ UNCHANGED read
  /\ UNCHANGED <<http, bodyVars, answer, code, streamVars>>

(* The goroutine of a bidirectional stream. A malformed item only ends it:  *)
(* what it returns of it nobody reads.                                      *)
SenderDecode ==
  /\ sender = "decode"
  /\ \/ DecodesItem /\ read' = read + 1 /\ sender' = "send"
     \/ (DecodesEOF \/ DecodeFails) /\ sender' = "close" /\ UNCHANGED read
  /\ UNCHANGED <<http, bodyVars, answer, code, streamVars>>

SenderSend ==
  /\ sender = "send"
  /\ \/ Send(read) /\ sender' = "decode"
     \/ IsOver /\ sender' = "close" /\ UNCHANGED streamVars
  /\ UNCHANGED <<http, bodyVars, read, answer, code>>

SenderClose ==
  /\ sender = "close"
  /\ CloseSend
  /\ sender' = "ended"
  /\ UNCHANGED <<http, bodyVars, read, answer, code>>

-----------------------------------------------------------------------------
HTTPClient == BodyItem \/ BodyEnd \/ Leave

HTTPHandler ==
  \/ \E k \in Kinds : Route(k)
  \/ RouteFails \/ CallPost \/ CallGet \/ CallList \/ Refuse
  \/ Decode \/ SendItem \/ CloseItems \/ AwaitHeader \/ Forward

Sender == SenderDecode \/ SenderSend \/ SenderClose
=============================================================================
