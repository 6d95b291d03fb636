----------------------------- MODULE FrontEnds -----------------------------
(***************************************************************************)
(* The two programs that make gRPC calls of the service, each in a         *)
(* behaviour of its own: the gateway for one HTTP request, which stands    *)
(* for each of them, as requests share nothing but the connection; and the *)
(* demonstration client for its whole script.                              *)
(***************************************************************************)
EXTENDS Gateway, DemoClient

VARIABLE program    \* which of the two it is

vars == <<program, streamVars, gatewayVars, clientVars>>

TypeOK ==
  /\ program \in {"gateway", "client"}
  /\ StreamTypeOK /\ GatewayTypeOK /\ ClientTypeOK

Init ==
  /\ program \in {"gateway", "client"}
  /\ StreamInit /\ GatewayInit /\ ClientInit

GatewayStep(A) == program = "gateway" /\ A /\ UNCHANGED <<program, clientVars>>
ClientStep(A) == program = "client" /\ A /\ UNCHANGED <<program, gatewayVars>>

HandlerStep(A) == A /\ UNCHANGED <<program, gatewayVars, clientVars>>

Next ==
  \/ GatewayStep(HTTPClient \/ HTTPHandler \/ Sender)
  \/ ClientStep(ClientMain \/ Receiver)
  \/ HandlerStep(HandlerWorks \/ HandlerFails)

(* The Go scheduler runs what can run, on either side. The HTTP client need *)
(* neither send, end its body nor leave; what is written to it, it reads.   *)
(* A handler need not fail, but one whose call was cancelled does.          *)
Fairness ==
  /\ WF_vars(GatewayStep(HTTPHandler))
  /\ WF_vars(GatewayStep(Sender))
  /\ WF_vars(ClientStep(ClientMain))
  /\ WF_vars(ClientStep(Receiver))
  /\ WF_vars(HandlerStep(HandlerWorks))
  /\ WF_vars(HandlerStep(cancelled /\ HandlerFails))

Spec == Init /\ [][Next]_vars /\ Fairness

-----------------------------------------------------------------------------
(* What the service receives of a stream are the items of the body in their *)
(* order, from the first on and none left out, and nothing that comes after *)
(* one that cannot be decoded, even if the call goes on (example.pb.gw.go:  *)
(* 254-272, 295-322).                                                       *)
NothingIsSkipped ==
  kind \in {"batch", "bidi"} =>
    \A i \in 1 .. Len(handled) :
      /\ handled[i] = i
      /\ program = "gateway" => i <= Len(items) /\ items[i]

(* The first n items are the body, or all that can be decoded of it.        *)
AllThereIs(n) ==
  \/ n = Len(items) /\ ended
  \/ n < Len(items) /\ ~items[n + 1]

(* An HTTP response that ends well is whole: it holds all that the handler  *)
(* had to say, of a list every row of it, each response once and in order.  *)
(* Behind that of a batch the handler had the whole body; behind that of a  *)
(* bidirectional stream it had, and answered, the items up to the first     *)
(* that cannot be decoded (example.pb.gw.go:255-285, 304, 701-713).         *)
OKIsTheWholeAnswer ==
  code = "OK" =>
    /\ handler = "over" /\ status = "OK" /\ answer = due
    /\ kind \in {"post", "get"} => answer = <<1>>
    /\ kind = "batch" =>
         Len(handled) = Len(items) /\ ended /\ answer = <<Len(items)>>
    /\ kind = "bidi" => answer = handled /\ AllThereIs(Len(handled))

(* Whoever made a call leaves it only when it is over: the HTTP handler by  *)
(* its deferred cancel, the client by having received the status, or failed *)
(* to send (cmd/client/main.go:325-328). No call is leaked.                 *)
NoCallIsLeft ==
  http = "over" \/ (program = "client" /\ main \in {"next", "ended"}) =>
    handler = "none" \/ IsOver

(* Whoever can take a step, with the windows as full as they are and the    *)
(* HTTP client doing nothing more.                                          *)
HTTPGoesOn ==
  \/ http \in {"body", "decode"} /\ (ended \/ gone)
  \/ http = "send" /\ (Len(up) < Window \/ IsOver)
  \/ http = "close"
  \/ http \in {"header", "recv"} /\ HeaderIsThere

SenderGoesOn ==
  \/ sender = "decode" /\ (ended \/ gone \/ http = "over")
  \/ sender = "send" /\ (Len(up) < Window \/ IsOver)
  \/ sender = "close"

MainGoesOn ==
  \/ main \in {"next", "close"}
  \/ main = "send" /\ (sent = MaxMessages \/ Len(up) < Window \/ IsOver)
  \/ main = "recv" /\ HeaderIsThere
  \/ main = "await" /\ receiver = "done"

ReceiverGoesOn == receiver = "recv" /\ HeaderIsThere

ServiceGoesOn ==
  \/ handler = "recv" /\ (up # <<>> \/ (closed /\ kind \in {"batch", "bidi"}))
  \/ handler = "send" /\ Len(down) < Window
  \/ handler \in {"recv", "send"} /\ cancelled

(* Neither program and its service ever wait for each other, with every     *)
(* buffer full or everybody reading: whoever has the turn can take it,      *)
(* once the body of a request has ended or its client has left. Nor does    *)
(* the goroutine that sends wait for anything behind its request (example.  *)
(* pb.gw.go:308-318, cmd/client/main.go:356-373).                           *)
NoStandstill ==
  /\ program = "gateway" /\ http \notin {"new", "over"} /\ (ended \/ gone) =>
       HTTPGoesOn \/ SenderGoesOn \/ ServiceGoesOn
  /\ http = "over" => sender \in {"none", "ended"} \/ SenderGoesOn
  /\ program = "client" /\ main # "ended" =>
       MainGoesOn \/ ReceiverGoesOn \/ ServiceGoesOn

(* No request waits for ever, however small the windows, once its body has  *)
(* come to its end or its client has left: the goroutine that sends and the *)
(* handler that forwards what comes back do not wait for each other.        *)
RequestsEnd ==
  (program = "gateway" /\ http # "new" /\ (ended \/ gone)) ~> http = "over"

(* The goroutine that sends does not outlive its request, though the HTTP   *)
(* client may never end the body it is reading.                             *)
SendersEnd == http = "over" ~> sender \in {"none", "ended"}

(* The client comes to the end of its script whatever fails: the goroutine  *)
(* that receives always signals done (cmd/client/main.go:356-373, 426-463). *)
ClientEnds == program = "client" ~> main = "ended"
=============================================================================
