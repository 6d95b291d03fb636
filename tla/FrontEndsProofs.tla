-------------------------- MODULE FrontEndsProofs --------------------------
(***************************************************************************)
(* Proofs of what FrontEnds promises, for windows and streams of any       *)
(* length.                                                                 *)
(*                                                                         *)
(* NoCallIsLeft is inductive with Places, which says what the place of a   *)
(* program in its code tells of its call. NothingIsSkipped needs Ordered:  *)
(* the messages the handler has had and those under way to it are, put     *)
(* together, exactly those sent so far, which are the first items read     *)
(* from the body. OKIsTheWholeAnswer needs Answered on top of both: the    *)
(* responses written, under way and owed are together all that was ever    *)
(* due; a batch is closed only behind the end of its body, and a           *)
(* bidirectional stream behind the last item that can be decoded.          *)
(***************************************************************************)
EXTENDS FrontEnds, SequenceTheorems, TLAPS

(* What is sent goes behind what is under way.                              *)
LEMMA AppendIsLonger ==
  ASSUME NEW S, NEW s \in Seq(S), NEW e \in S
  PROVE  /\ Append(s, e) \in Seq(S)
         /\ Len(Append(s, e)) = Len(s) + 1 /\ Len(s) \in Nat
         /\ \A i \in 1 .. Len(s) : Append(s, e)[i] = s[i]
         /\ Append(s, e)[Len(s) + 1] = e
  OBVIOUS

(* What is received is taken from its front.                                *)
LEMMA TailIsShorter ==
  ASSUME NEW S, NEW s \in Seq(S), s # <<>>
  PROVE  /\ Head(s) \in S /\ Head(s) = s[1] /\ Tail(s) \in Seq(S)
         /\ Len(Tail(s)) = Len(s) - 1 /\ Len(s) \in Nat \ {0}
         /\ \A i \in 1 .. Len(Tail(s)) : Tail(s)[i] = s[i + 1]
  OBVIOUS

-----------------------------------------------------------------------------
(* What the place of each program in its code tells of its call.            *)
GatewayPlaces ==
  /\ http = "over" \/ gone => cancelled
  /\ http = "new" => ~gone
  /\ http = "new" => sender = "none" /\ read = 0
  /\ http = "body" => kind \in {"post", "get", "list"} /\ sender = "none"
  /\ http \in {"decode", "send", "close"} => kind = "batch"
  /\ sender # "none" => kind = "bidi"
  /\ http = "send" \/ sender = "send" => read > 0

ClientPlaces ==
  /\ receiver # "none" => kind = "bidi"
  /\ main \in {"next", "recv", "ended"} => receiver = "none"
  /\ receiver = "done" => IsOver

Places ==
  /\ GatewayPlaces /\ ClientPlaces
  /\ program = "client" =>
       /\ http = "new" /\ ~cancelled
       /\ handler = "none" => kind = "none"
       /\ main \in {"next", "ended"} => handler = "none" \/ IsOver
  /\ program = "gateway" => main = "next"

(* The messages a stream was sent so far.                                   *)
Sent ==
  IF program = "client" THEN sent
  ELSE IF http = "send" \/ sender = "send" THEN read - 1 ELSE read

Ordered ==
  kind \in {"batch", "bidi"} =>
    /\ \A i \in 1 .. Len(handled) : handled[i] = i
    /\ \A i \in 1 .. Len(up) : up[i] = Len(handled) + i
    /\ ~IsOver => Len(handled) + Len(up) = Sent
    /\ program = "gateway" => Len(handled) + Len(up) <= read

Decoded == Len(items) <= MaxMessages /\ \A i \in 1 .. read : items[i]

FrontEndsInv == TypeOK /\ Places /\ Ordered /\ Decoded

(* It holds as a program starts.                                            *)
LEMMA InvInit == Init => FrontEndsInv
<1> SUFFICES ASSUME Init PROVE FrontEndsInv
  OBVIOUS
<1> USE DEF Init, StreamInit, GatewayInit, ClientInit
<1>1. TypeOK
  <2>1. /\ <<>> \in Numbers /\ <<>> \in Seq(BOOLEAN) /\ Len(<<>>) = 0
        /\ Window \in Nat /\ MaxMessages \in Nat /\ Len(Script) = 9
    BY WindowAssumption, MaxMessagesAssumption DEF Numbers, Script
  <2>2. StreamTypeOK
    <3>1. /\ up \in Numbers /\ down \in Numbers /\ handled \in Numbers
          /\ owed \in Numbers /\ due \in Numbers
      BY <2>1
    <3>2. Len(up) <= Window /\ Len(down) <= Window
      BY <2>1
    <3> QED
      BY <3>1, <3>2 DEF StreamTypeOK
  <2>3. GatewayTypeOK
    <3>1. items \in Seq(BOOLEAN) /\ answer \in Numbers
      BY <2>1
    <3>2. read \in 0 .. Len(items)
      BY <2>1
    <3> QED
      BY <3>1, <3>2 DEF GatewayTypeOK
  <2>4. ClientTypeOK
    BY <2>1 DEF ClientTypeOK
  <2> QED
    BY <2>2, <2>3, <2>4 DEF TypeOK
<1>2. Places
  BY DEF Places, GatewayPlaces, ClientPlaces
<1>3. Ordered /\ Decoded
  BY MaxMessagesAssumption DEF Ordered, Decoded
<1> QED
  BY <1>1, <1>2, <1>3 DEF FrontEndsInv

-----------------------------------------------------------------------------
(* The places, action by action of the gateway.                             *)
LEMMA GatewayMoves ==
  ASSUME TypeOK, GatewayPlaces, HTTPClient \/ HTTPHandler \/ Sender
  PROVE  GatewayPlaces'
<1> USE DEF GatewayPlaces, Finish, Goto, streamVars, bodyVars, Open, CloseSend,
            Send, Recv
<1>0. read \in Nat
  BY DEF TypeOK, GatewayTypeOK
<1>1. ASSUME HTTPClient PROVE GatewayPlaces'
  BY <1>1 DEF HTTPClient, BodyItem, BodyEnd, Leave
<1>2. ASSUME NEW k \in Kinds, Route(k) PROVE GatewayPlaces'
  BY <1>2 DEF Route
<1>3. ASSUME RouteFails PROVE GatewayPlaces'
  BY <1>3 DEF RouteFails
<1>4. ASSUME CallPost PROVE GatewayPlaces'
  BY <1>4 DEF CallPost
<1>5. ASSUME CallGet PROVE GatewayPlaces'
  BY <1>5 DEF CallGet
<1>6. ASSUME CallList PROVE GatewayPlaces'
  BY <1>6 DEF CallList
<1>7. ASSUME Refuse PROVE GatewayPlaces'
  BY <1>7 DEF Refuse
<1>8. ASSUME Decode PROVE GatewayPlaces'
  BY <1>0, <1>8 DEF Decode
<1>9. ASSUME SendItem PROVE GatewayPlaces'
  BY <1>9 DEF SendItem
<1>10. ASSUME CloseItems PROVE GatewayPlaces'
  BY <1>10 DEF CloseItems
<1>11. ASSUME AwaitHeader PROVE GatewayPlaces'
  BY <1>11 DEF AwaitHeader
<1>12. ASSUME Forward PROVE GatewayPlaces'
  BY <1>12 DEF Forward
<1>13. ASSUME Sender PROVE GatewayPlaces'
  BY <1>0, <1>13 DEF Sender, SenderDecode, SenderSend, SenderClose
<1> QED
  BY <1>1, <1>2, <1>3, <1>4, <1>5, <1>6, <1>7, <1>8, <1>9, <1>10, <1>11, <1>12,
     <1>13 DEF HTTPHandler

(* The client's places, action by action.                                   *)
AtRest ==
  /\ handler = "none" => kind = "none"
  /\ main \in {"next", "ended"} => handler = "none" \/ IsOver

(* It keeps them, and is never at rest beside a call that is not over.      *)
LEMMA ClientMoves ==
  ASSUME TypeOK, ClientPlaces, AtRest, ~cancelled, ClientMain \/ Receiver
  PROVE  ClientPlaces' /\ AtRest' /\ ~cancelled'
<1> USE DEF ClientPlaces, AtRest, IsOver, streamVars, Open, CloseSend, Send, Recv,
            RecvEOF, RecvFails
<1>1. ASSUME Demonstrate PROVE ClientPlaces' /\ AtRest' /\ ~cancelled'
  BY <1>1 DEF Demonstrate
<1>2. ASSUME DemonstrationsEnd \/ SendNext \/ AllSent
      PROVE  ClientPlaces' /\ AtRest' /\ ~cancelled'
  BY <1>2 DEF DemonstrationsEnd, SendNext, AllSent
<1>3. ASSUME CloseSending \/ Receive \/ Await
      PROVE  ClientPlaces' /\ AtRest' /\ ~cancelled'
  BY <1>3 DEF CloseSending, Receive, Await
<1>4. ASSUME Receiver PROVE ClientPlaces' /\ AtRest' /\ ~cancelled'
  BY <1>4 DEF Receiver
<1> QED
  BY <1>1, <1>2, <1>3, <1>4 DEF ClientMain

(* A handler's step leaves the kind of its call and whether it was          *)
(* cancelled, and does not bring a call back that is over.                  *)
LEMMA HandlerMoves ==
  ASSUME HandlerWorks \/ HandlerFails
  PROVE  /\ kind' = kind /\ cancelled' = cancelled /\ closed' = closed
         /\ handler # "none" /\ handler' # "none"
         /\ IsOver => IsOver'
  BY DEF HandlerWorks, HandlerFails, HandlerRecv, HandlerRecvEnd, HandlerSend,
         Return, IsOver

(* Every step leaves both programs in places they may be in.                *)
LEMMA PlacesHold ==
  ASSUME TypeOK, Places, [Next]_vars
  PROVE  Places'
<1>1. ASSUME GatewayStep(HTTPClient \/ HTTPHandler \/ Sender) PROVE Places'
  <2>1. GatewayPlaces'
    BY <1>1, GatewayMoves DEF GatewayStep, Places
  <2>2. program' = "gateway" /\ main' = main /\ receiver' = receiver
    BY <1>1 DEF GatewayStep, clientVars
  <2>3. receiver = "none"
    BY <1>1 DEF GatewayStep, Places, ClientPlaces
  <2> QED
    BY <1>1, <2>1, <2>2, <2>3 DEF GatewayStep, Places, ClientPlaces
<1>2. ASSUME ClientStep(ClientMain \/ Receiver) PROVE Places'
  <2>1. ClientPlaces' /\ AtRest' /\ ~cancelled'
    BY <1>2, ClientMoves DEF ClientStep, Places, AtRest
  <2>2. /\ program' = "client" /\ http' = http /\ sender' = sender
        /\ read' = read /\ gone' = gone
    BY <1>2 DEF ClientStep, gatewayVars, bodyVars
  <2>3. http = "new" /\ sender = "none" /\ read = 0 /\ ~gone
    BY <1>2 DEF ClientStep, Places, GatewayPlaces
  <2> QED
    BY <2>1, <2>2, <2>3 DEF Places, GatewayPlaces, AtRest
<1>3. ASSUME HandlerStep(HandlerWorks \/ HandlerFails) PROVE Places'
  BY <1>3, HandlerMoves
     DEF HandlerStep, Places, GatewayPlaces, ClientPlaces, gatewayVars, bodyVars,
         clientVars
<1>4. ASSUME UNCHANGED vars PROVE Places'
  BY <1>4 DEF vars, streamVars, gatewayVars, bodyVars, clientVars, Places, GatewayPlaces,
              ClientPlaces, IsOver
<1> QED
  BY <1>1, <1>2, <1>3, <1>4 DEF Next
-----------------------------------------------------------------------------
(* Types. What a program does to its call, whatever it is.                  *)
Rest == <<kind, up, closed, down, handler, handled, owed, due, status>>

Uses ==
  \/ \E k \in Kinds : Open(k)
  \/ \E k \in Kinds : /\ kind' = k
                       /\ UNCHANGED <<up, closed, down, handler, handled, owed, due, status>>
                       /\ UNCHANGED cancelled
  \/ \E n \in 1 .. MaxMessages : Send(n)
  \/ CloseSend
  \/ Recv
  \/ cancelled' = TRUE /\ UNCHANGED Rest
  \/ UNCHANGED streamVars

(* Whatever a program does with its call keeps the types of the call.       *)
LEMMA UsesAreTyped ==
  ASSUME StreamTypeOK, Uses
  PROVE  StreamTypeOK'
<1> USE WindowAssumption, MaxMessagesAssumption
<1>1. ASSUME NEW k \in Kinds, Open(k) PROVE StreamTypeOK'
  <2>1. up' \in {<<>>, <<1>>}
    BY <1>1 DEF Open
  <2>2. <<>> \in Numbers /\ <<1>> \in Numbers /\ Len(<<>>) = 0 /\ Len(<<1>>) = 1
    BY DEF Numbers
  <2>3. up' \in Numbers /\ Len(up') \in {0, 1}
    BY <2>1, <2>2
  <2>4. /\ down' = <<>> /\ handled' = <<>> /\ owed' = <<>> /\ due' = <<>>
        /\ handler' = "recv"
        /\ status' = "none" /\ cancelled' = FALSE /\ kind' = k
    BY <1>1 DEF Open
  <2>5. closed' \in BOOLEAN
    BY <1>1 DEF Open
  <2>6. Len(up') <= Window /\ Len(down') <= Window
    BY <2>2, <2>3, <2>4
  <2> QED
    BY <2>2, <2>3, <2>4, <2>5, <2>6 DEF StreamTypeOK
<1>2. ASSUME NEW n \in 1 .. MaxMessages, Send(n) PROVE StreamTypeOK'
  <2>1. CASE UNCHANGED up
    BY <1>2, <2>1 DEF Send, StreamTypeOK
  <2>2. CASE Len(up) < Window /\ up' = Append(up, n)
    <3>1. n \in 0 .. MaxMessages /\ up \in Seq(0 .. MaxMessages)
      BY DEF StreamTypeOK, Numbers
    <3>2. /\ Append(up, n) \in Seq(0 .. MaxMessages) /\ Len(up) \in Nat
          /\ Len(Append(up, n)) = Len(up) + 1
      BY <3>1, AppendIsLonger
    <3>3. up' \in Numbers /\ Len(up') <= Window
      BY <2>2, <3>2 DEF Numbers
    <3> QED
      BY <1>2, <3>3 DEF Send, StreamTypeOK
  <2> QED
    BY <1>2, <2>1, <2>2 DEF Send
<1>3. ASSUME Recv PROVE StreamTypeOK'
  <2>1. down \in Seq(0 .. MaxMessages) /\ down # <<>>
    BY <1>3 DEF StreamTypeOK, Numbers, Recv
  <2>2. down' \in Numbers /\ Len(down') <= Window
    BY <1>3, <2>1, TailIsShorter DEF StreamTypeOK, Numbers, Recv
  <2> QED
    BY <1>3, <2>2 DEF Recv, StreamTypeOK
<1>4. ASSUME CloseSend \/ (cancelled' = TRUE /\ UNCHANGED Rest) \/ UNCHANGED streamVars
      PROVE  StreamTypeOK'
  BY <1>4 DEF CloseSend, Rest, streamVars, StreamTypeOK
<1>5. ASSUME NEW k \in Kinds, kind' = k, UNCHANGED cancelled,
             UNCHANGED <<up, closed, down, handler, handled, owed, due, status>>
      PROVE  StreamTypeOK'
  BY <1>5 DEF StreamTypeOK
<1> QED
  BY <1>1, <1>2, <1>3, <1>4, <1>5 DEF Uses

(* So does the handler.                                                     *)
LEMMA HandlerIsTyped ==
  ASSUME StreamTypeOK, HandlerWorks \/ HandlerFails,
         kind = "batch" /\ status = "none" => Len(handled) <= MaxMessages
  PROVE  StreamTypeOK'
<1> USE WindowAssumption, MaxMessagesAssumption
<1>1. ASSUME HandlerRecv PROVE StreamTypeOK'
  <2>1. up \in Seq(0 .. MaxMessages) /\ up # <<>> /\ handled \in Seq(0 .. MaxMessages)
    BY <1>1 DEF HandlerRecv, StreamTypeOK, Numbers
  <2>2. /\ Head(up) \in 0 .. MaxMessages /\ Tail(up) \in Numbers
        /\ Len(Tail(up)) <= Window
    BY <2>1, TailIsShorter DEF StreamTypeOK, Numbers
  <2>3. Append(handled, Head(up)) \in Numbers
    BY <2>1, <2>2, AppendIsLonger DEF Numbers
  <2>4. <<Head(up)>> \in Numbers /\ <<Head(up)>> # <<>>
    BY <2>2 DEF Numbers
  <2>5. ASSUME NEW n \in 1 .. MaxMessages
        PROVE  [i \in 1 .. n |-> i] \in Numbers /\ [i \in 1 .. n |-> i] # <<>>
    BY DEF Numbers
  <2>6. /\ owed' \in Numbers
        /\ handler' \in {"recv", "send"}
        /\ handler' = "send" => owed' # <<>>
    BY <1>1, <2>4, <2>5 DEF HandlerRecv, StreamTypeOK
  <2>8. due' \in Numbers
    BY <1>1, <2>6, ConcatProperties DEF HandlerRecv, StreamTypeOK, Numbers
  <2>7. /\ up' = Tail(up) /\ handled' = Append(handled, Head(up))
        /\ kind' = kind /\ closed' = closed /\ down' = down
        /\ status' = status /\ cancelled' = cancelled /\ handler = "recv"
    BY <1>1 DEF HandlerRecv
  <2> QED
    BY <2>2, <2>3, <2>6, <2>7, <2>8 DEF StreamTypeOK
<1>2. ASSUME HandlerRecvEnd PROVE StreamTypeOK'
  <2>3. owed' \in Numbers => due' \in Numbers
    BY <1>2, ConcatProperties DEF HandlerRecvEnd, StreamTypeOK, Numbers
  <2>1. CASE kind = "batch"
    <3>1. status = "none" /\ Len(handled) \in 0 .. MaxMessages
      BY <1>2, <2>1 DEF HandlerRecvEnd, StreamTypeOK, Numbers
    <3>2. <<Len(handled)>> \in Numbers /\ <<Len(handled)>> # <<>>
      BY <3>1 DEF Numbers
    <3> QED
      BY <1>2, <2>1, <2>3, <3>2 DEF HandlerRecvEnd, StreamTypeOK
  <2>2. CASE kind = "bidi"
    BY <1>2, <2>2, <2>3 DEF HandlerRecvEnd, Return, StreamTypeOK
  <2> QED
    BY <1>2, <2>1, <2>2 DEF HandlerRecvEnd
<1>3. ASSUME HandlerSend PROVE StreamTypeOK'
  <2>1. owed \in Seq(0 .. MaxMessages) /\ owed # <<>> /\ down \in Seq(0 .. MaxMessages)
    BY <1>3 DEF HandlerSend, StreamTypeOK, Numbers
  <2>2. Head(owed) \in 0 .. MaxMessages /\ Tail(owed) \in Numbers
    BY <2>1, TailIsShorter DEF Numbers
  <2>3. Append(down, Head(owed)) \in Numbers /\ Len(Append(down, Head(owed))) <= Window
    BY <1>3, <2>1, <2>2, AppendIsLonger DEF HandlerSend, Numbers
  <2>4. /\ handler' \in {"recv", "send", "over"} /\ status' \in {"none", "OK", "error"}
        /\ handler' = "send" => owed' # <<>>
        /\ handler' = "over" <=> status' # "none"
    BY <1>3 DEF HandlerSend, Return, StreamTypeOK
  <2>5. /\ down' = Append(down, Head(owed)) /\ owed' = Tail(owed)
        /\ kind' = kind /\ up' = up /\ closed' = closed
        /\ handled' = handled /\ due' = due /\ cancelled' = cancelled
    BY <1>3 DEF HandlerSend
  <2> QED
    BY <2>2, <2>3, <2>4, <2>5 DEF StreamTypeOK
<1>4. ASSUME HandlerFails PROVE StreamTypeOK'
  BY <1>4 DEF HandlerFails, Return, StreamTypeOK
<1> QED
  BY <1>1, <1>2, <1>3, <1>4 DEF HandlerWorks

(* The gateway only uses its call, and reads no item the body does not      *)
(* have.                                                                    *)
LEMMA GatewayIsTyped ==
  ASSUME TypeOK, Decoded, GatewayPlaces, HTTPClient \/ HTTPHandler \/ Sender
  PROVE  Uses /\ GatewayTypeOK' /\ Decoded'
<1> DEFINE Good == Uses /\ GatewayTypeOK' /\ Decoded'
<1> USE DEF TypeOK, GatewayTypeOK, Finish, Goto, bodyVars, Uses, Rest
<1> USE MaxMessagesAssumption
<1>0. items \in Seq(BOOLEAN) /\ Len(items) \in Nat /\ read \in Nat
  OBVIOUS
<1>1. ASSUME BodyItem PROVE Good
  <2>1. PICK b \in BOOLEAN : items' = Append(items, b)
    BY <1>1 DEF BodyItem
  <2>2. /\ items' \in Seq(BOOLEAN) /\ Len(items') = Len(items) + 1
        /\ \A i \in 1 .. Len(items) : items'[i] = items[i]
    BY <1>0, <2>1, AppendIsLonger
  <2>3. read' = read /\ Len(items) < MaxMessages
    BY <1>1 DEF BodyItem
  <2>4. Decoded'
    BY <1>0, <2>2, <2>3 DEF Decoded
  <2>5. Uses
    BY <1>1 DEF BodyItem
  <2> QED
    BY <1>1, <2>2, <2>3, <2>4, <2>5 DEF BodyItem
<1>2. ASSUME BodyEnd \/ Leave PROVE Good
  BY <1>2 DEF BodyEnd, Leave, streamVars, Decoded
<1>3. ASSUME NEW k \in Kinds, Route(k) PROVE Good
  BY <1>3 DEF Route, Decoded
<1>4. ASSUME RouteFails \/ Refuse PROVE Good
  BY <1>4 DEF RouteFails, Refuse, Decoded
<1>5. ASSUME CallPost \/ CallGet \/ CallList PROVE Good
  BY <1>5 DEF CallPost, CallGet, CallList, Decoded, Kinds
<1>6. ASSUME Decode PROVE Good
  BY <1>0, <1>6 DEF Decode, DecodesItem, Decoded
<1>7. ASSUME SendItem PROVE Good
  <2>1. CASE Send(read) /\ UNCHANGED read
    <3>1. read \in 1 .. MaxMessages
      BY <1>0, <1>7 DEF SendItem, GatewayPlaces, Decoded
    <3> QED
      BY <1>7, <2>1, <3>1 DEF SendItem, Decoded
  <2>2. CASE ~(Send(read) /\ UNCHANGED read)
    BY <1>7, <2>2 DEF SendItem, Decoded
  <2> QED
    BY <2>1, <2>2
<1>8. ASSUME CloseItems \/ AwaitHeader PROVE Good
  BY <1>8 DEF CloseItems, AwaitHeader, Decoded
<1>9. ASSUME Forward PROVE Good
  <2>1. CASE Recv /\ answer' = Append(answer, Head(down))
    <3>1. down \in Seq(0 .. MaxMessages) /\ down # <<>> /\ answer \in Seq(0 .. MaxMessages)
      BY <2>1 DEF Recv, StreamTypeOK, Numbers
    <3>2. answer' \in Numbers
      BY <2>1, <3>1, TailIsShorter, AppendIsLonger DEF Numbers
    <3> QED
      BY <1>9, <2>1, <3>2 DEF Forward, Recv, Decoded
  <2>2. CASE ~(Recv /\ answer' = Append(answer, Head(down)))
    BY <1>9, <2>2 DEF Forward, Decoded
  <2> QED
    BY <2>1, <2>2
<1>10. ASSUME Sender PROVE Good
  <2>1. CASE SenderDecode
    BY <1>0, <2>1 DEF SenderDecode, DecodesItem, Decoded
  <2>2. CASE SenderSend
    <3>1. read \in 1 .. MaxMessages
      BY <1>0, <2>2 DEF SenderSend, GatewayPlaces, Decoded
    <3> QED
      BY <2>2, <3>1 DEF SenderSend, Decoded
  <2>3. CASE SenderClose
    BY <2>3 DEF SenderClose, Decoded
  <2> QED
    BY <1>10, <2>1, <2>2, <2>3 DEF Sender
<1> QED
  BY <1>1, <1>2, <1>3, <1>4, <1>5, <1>6, <1>7, <1>8, <1>9, <1>10
     DEF HTTPClient, HTTPHandler

(* The client only uses its call, and sends no more than it means to.       *)
LEMMA ClientIsTyped ==
  ASSUME TypeOK, ClientMain \/ Receiver
  PROVE  Uses /\ ClientTypeOK'
<1> USE MaxMessagesAssumption DEF TypeOK, ClientTypeOK, Uses
<1>1. ASSUME Demonstrate PROVE Uses /\ ClientTypeOK'
  <2>1. demo' \in 0 .. Len(Script) /\ sent' \in 0 .. MaxMessages
    BY <1>1 DEF Demonstrate, Script
  <2> HIDE DEF Uses
  <2>2. main' \in {"next", "recv", "send"} /\ receiver' \in {"none", "recv", "done"}
    BY <1>1 DEF Demonstrate
  <2>3. Uses
    BY <1>1 DEF Demonstrate, Uses, Kinds
  <2> QED
    BY <2>1, <2>2, <2>3
<1>2. ASSUME DemonstrationsEnd \/ AllSent \/ CloseSending PROVE Uses /\ ClientTypeOK'
  BY <1>2 DEF DemonstrationsEnd, AllSent, CloseSending
<1>3. ASSUME SendNext PROVE Uses /\ ClientTypeOK'
  BY <1>3 DEF SendNext
<1>4. ASSUME Receive \/ Receiver \/ Await PROVE Uses /\ ClientTypeOK'
  BY <1>4 DEF Receive, Receiver, Await
<1> QED
  BY <1>1, <1>2, <1>3, <1>4 DEF ClientMain

-----------------------------------------------------------------------------
(* The order. What is neither sent nor received keeps it;                   *)
LEMMA OrderIsKept ==
  ASSUME TypeOK, Ordered, read' \in Nat, read <= read', program' = program,
         kind' = kind, up' = up, handled' = handled,
         IsOver => IsOver', ~IsOver' => Sent' = Sent
  PROVE  Ordered'
<1>1. read \in Nat /\ Len(handled) \in Nat /\ Len(up) \in Nat
  BY DEF TypeOK, GatewayTypeOK, StreamTypeOK, Numbers
<1> QED
  BY <1>1 DEF Ordered

(* a call that is opened begins it;                                         *)
LEMMA OrderBegins ==
  ASSUME NEW k \in Kinds, Open(k), Sent' = 0, read' \in Nat
  PROVE  Ordered'
<1>1. /\ handled' = <<>> /\ kind' = k
      /\ k \in {"batch", "bidi"} => up' = <<>>
  BY DEF Open
<1> QED
  BY <1>1 DEF Ordered

(* what is sent is the next after those sent;                               *)
LEMMA OrderIsExtended ==
  ASSUME TypeOK, Ordered, NEW n \in 1 .. MaxMessages, Send(n), n = Sent + 1,
         Sent' = n, Sent \in Nat, program' = program, read' = read,
         program = "gateway" => n <= read
  PROVE  Ordered'
<1>1. /\ kind' = kind /\ handled' = handled /\ status' = status
      /\ cancelled' = cancelled
  BY DEF Send
<1>2. up \in Seq(0 .. MaxMessages) /\ n \in 0 .. MaxMessages /\ Len(handled) \in Nat
  BY MaxMessagesAssumption DEF TypeOK, StreamTypeOK, Numbers
<1>3. CASE UNCHANGED up /\ status # "none"
  BY <1>1, <1>3 DEF Ordered, IsOver
<1>4. CASE ~IsOver /\ up' = Append(up, n)
  <2>1. /\ Len(up') = Len(up) + 1 /\ Len(up) \in Nat /\ up'[Len(up) + 1] = n
        /\ \A i \in 1 .. Len(up) : up'[i] = up[i]
    BY <1>2, <1>4, AppendIsLonger
  <2>2. SUFFICES ASSUME kind \in {"batch", "bidi"}
                 PROVE  Ordered'
    BY <1>1 DEF Ordered
  <2>3. Len(handled) + Len(up) = Sent
    BY <1>4, <2>2 DEF Ordered
  <2>4. ASSUME NEW i \in 1 .. Len(up') PROVE up'[i] = Len(handled) + i
    <3>1. CASE i = Len(up) + 1
      BY <1>2, <2>1, <2>3, <3>1
    <3>2. CASE i # Len(up) + 1
      <4>1. i \in 1 .. Len(up)
        BY <2>1, <3>2
      <4> QED
        BY <2>1, <2>2, <4>1 DEF Ordered
    <3> QED
      BY <3>1, <3>2
  <2>5. Len(handled') + Len(up') = n
    BY <1>1, <1>2, <2>1, <2>3
  <2> QED
    BY <1>1, <2>2, <2>4, <2>5 DEF Ordered
<1> QED
  BY <1>3, <1>4 DEF Send

(* and a handler takes the first of those under way.                        *)
LEMMA HandlerKeepsOrder ==
  ASSUME TypeOK, Ordered, HandlerStep(HandlerWorks \/ HandlerFails)
  PROVE  Ordered'
<1>1. /\ kind' = kind /\ (IsOver => IsOver') /\ Sent' = Sent /\ read' = read
      /\ program' = program
  BY HandlerMoves DEF HandlerStep, gatewayVars, clientVars, Sent
<1>2. read \in Nat /\ Len(handled) \in Nat
  BY DEF TypeOK, GatewayTypeOK, StreamTypeOK, Numbers
<1>3. CASE HandlerRecv
  <2>1. up \in Seq(0 .. MaxMessages) /\ up # <<>> /\ handled \in Seq(0 .. MaxMessages)
    BY <1>3 DEF HandlerRecv, TypeOK, StreamTypeOK, Numbers
  <2>2. /\ Head(up) = up[1] /\ Len(up') = Len(up) - 1 /\ Len(up) \in Nat \ {0}
        /\ \A i \in 1 .. Len(up') : up'[i] = up[i + 1]
        /\ Head(up) \in 0 .. MaxMessages
    BY <1>3, <2>1, TailIsShorter DEF HandlerRecv
  <2>3. /\ Len(handled') = Len(handled) + 1 /\ handled'[Len(handled) + 1] = up[1]
        /\ \A i \in 1 .. Len(handled) : handled'[i] = handled[i]
    BY <1>3, <2>1, <2>2, AppendIsLonger DEF HandlerRecv
  <2>4. SUFFICES ASSUME kind \in {"batch", "bidi"}
                 PROVE  Ordered'
    BY <1>1 DEF Ordered
  <2>5. up[1] = Len(handled) + 1
    BY <2>2, <2>4 DEF Ordered
  <2>6. \A i \in 1 .. Len(handled') : handled'[i] = i
    BY <1>2, <2>3, <2>4, <2>5 DEF Ordered
  <2>7. \A i \in 1 .. Len(up') : up'[i] = Len(handled') + i
    BY <1>2, <2>2, <2>3, <2>4 DEF Ordered
  <2>8. Len(handled') + Len(up') = Len(handled) + Len(up)
    BY <1>2, <2>2, <2>3
  <2> QED
    BY <1>1, <2>4, <2>6, <2>7, <2>8 DEF Ordered
<1>4. CASE ~HandlerRecv
  <2>1. up' = up /\ handled' = handled
    BY <1>4 DEF HandlerStep, HandlerWorks, HandlerFails, HandlerRecvEnd, HandlerSend
  <2> QED
    BY <1>1, <1>2, <2>1, OrderIsKept
<1> QED
  BY <1>3, <1>4

(* The client numbers its messages as it sends them.                        *)
LEMMA ClientKeepsOrder ==
  ASSUME TypeOK, Places, Ordered, ClientStep(ClientMain \/ Receiver)
  PROVE  Ordered'
<1>1. program = "client" /\ program' = "client" /\ read' = read /\ read \in Nat
  BY DEF ClientStep, gatewayVars, TypeOK, GatewayTypeOK
<1>2. Sent = sent /\ Sent' = sent' /\ sent \in 0 .. MaxMessages
  BY <1>1 DEF Sent, TypeOK, ClientTypeOK
<1>3. ASSUME NEW k \in Kinds, Open(k), sent' = 0 PROVE Ordered'
  BY <1>1, <1>2, <1>3, OrderBegins
<1>4. ASSUME UNCHANGED streamVars, Demonstrate PROVE Ordered'
  <2>1. handler = "none" \/ IsOver
    BY <1>1, <1>4 DEF Demonstrate, Places
  <2>2. CASE handler = "none"
    BY <1>1, <1>4, <2>2 DEF Places, Ordered, streamVars
  <2>3. CASE IsOver
    BY <1>1, <1>4, <2>3, OrderIsKept DEF streamVars, IsOver
  <2> QED
    BY <2>1, <2>2, <2>3
<1>5. ASSUME Demonstrate PROVE Ordered'
  BY <1>3, <1>4, <1>5 DEF Demonstrate, Kinds
<1>6. ASSUME sent < MaxMessages, Send(sent + 1), sent' = sent + 1 PROVE Ordered'
  BY <1>1, <1>2, <1>6, OrderIsExtended, MaxMessagesAssumption
<1>7. ASSUME kind' = kind, up' = up, handled' = handled, IsOver => IsOver', sent' = sent
      PROVE  Ordered'
  BY <1>1, <1>2, <1>7, OrderIsKept
<1>8. ASSUME DemonstrationsEnd \/ SendNext \/ AllSent \/ CloseSending \/ Receive
               \/ Await \/ Receiver
      PROVE  Ordered'
  BY <1>6, <1>7, <1>8
     DEF DemonstrationsEnd, SendNext, AllSent, CloseSending, Receive, Await, Receiver,
         streamVars, CloseSend, Recv, IsOver
<1> QED
  BY <1>5, <1>8 DEF ClientStep, ClientMain

(* The gateway sends the items as it reads them, up to one it cannot        *)
(* decode.                                                                  *)
LEMMA GatewayKeepsOrder ==
  ASSUME TypeOK, Places, Ordered, Decoded,
         GatewayStep(HTTPClient \/ HTTPHandler \/ Sender)
  PROVE  Ordered'
<1>1. /\ program = "gateway" /\ program' = "gateway"
      /\ read \in Nat /\ read <= Len(items) /\ Len(items) \in Nat
  BY DEF GatewayStep, TypeOK, GatewayTypeOK
<1>2. GatewayPlaces
  BY DEF Places
<1> USE DEF Finish, Goto
<1>3. ASSUME kind' = kind, up' = up, handled' = handled, IsOver => IsOver',
             read' \in Nat, read <= read', ~IsOver' => Sent' = Sent
      PROVE  Ordered'
  BY <1>1, <1>3, OrderIsKept
<1>4. ASSUME HTTPClient PROVE Ordered'
  <2>1. Sent' = Sent /\ read' = read
    BY <1>1, <1>4 DEF HTTPClient, BodyItem, BodyEnd, Leave, Sent
  <2> QED
    BY <1>1, <1>3, <1>4, <2>1
       DEF HTTPClient, BodyItem, BodyEnd, Leave, streamVars, IsOver
<1>5. ASSUME NEW k \in Kinds, Route(k) PROVE Ordered'
  <2>1. read' = 0 /\ Sent' = 0
    BY <1>1, <1>2, <1>5 DEF Route, GatewayPlaces, Sent
  <2>2. CASE k \in {"post", "get", "list"}
    BY <1>5, <2>2 DEF Route, Ordered
  <2>3. CASE k \notin {"post", "get", "list"}
    BY <1>5, <2>1, <2>3, OrderBegins DEF Route
  <2> QED
    BY <2>2, <2>3
<1>6. ASSUME CallPost \/ CallGet \/ CallList PROVE Ordered'
  BY <1>2, <1>6 DEF CallPost, CallGet, CallList, GatewayPlaces, Open, Ordered
<1>7. ASSUME Decode PROVE Ordered'
  <2>1. sender = "none" /\ program = "gateway"
    BY <1>1, <1>2, <1>7 DEF Decode, GatewayPlaces
  <2>2. read' \in Nat /\ read <= read' /\ (~IsOver' => Sent' = Sent)
    BY <1>1, <1>7, <2>1 DEF Decode, Sent, IsOver
  <2> QED
    BY <1>3, <1>7, <2>2 DEF Decode, streamVars, IsOver
<1>8. ASSUME SendItem PROVE Ordered'
  <2>1. sender = "none" /\ sender' = "none" /\ read > 0 /\ read' = read /\ http = "send"
    BY <1>2, <1>8 DEF SendItem, GatewayPlaces
  <2>2. CASE Send(read) /\ http' = "decode"
    <3>1. Sent = read - 1 /\ Sent' = read
      BY <1>1, <2>1, <2>2 DEF Sent
    <3>2. read \in 1 .. MaxMessages
      BY <1>1, <2>1, MaxMessagesAssumption DEF Decoded
    <3> QED
      BY <1>1, <2>1, <2>2, <3>1, <3>2, OrderIsExtended
  <2>3. CASE ~(Send(read) /\ http' = "decode")
    BY <1>1, <1>3, <1>8, <2>1, <2>3 DEF SendItem, streamVars, IsOver
  <2> QED
    BY <2>2, <2>3
<1>9. ASSUME CloseItems \/ AwaitHeader \/ Forward \/ RouteFails \/ Refuse PROVE Ordered'
  <2>1. read' = read /\ sender' = sender /\ http # "send" /\ http' # "send"
    BY <1>9 DEF CloseItems, AwaitHeader, Forward, RouteFails, Refuse
  <2>2. Sent' = Sent
    BY <1>1, <2>1 DEF Sent
  <2> QED
    BY <1>1, <1>3, <1>9, <2>1, <2>2
       DEF CloseItems, AwaitHeader, Forward, RouteFails, Refuse, CloseSend, Recv,
           streamVars, IsOver
<1>10. ASSUME SenderDecode PROVE Ordered'
  <2>1. http # "send" /\ http' = http
    BY <1>2, <1>10 DEF SenderDecode, GatewayPlaces
  <2>2. read' \in Nat /\ read <= read' /\ Sent' = Sent
    BY <1>1, <1>10, <2>1 DEF SenderDecode, Sent
  <2> QED
    BY <1>3, <1>10, <2>2 DEF SenderDecode, streamVars, IsOver
<1>11. ASSUME SenderSend PROVE Ordered'
  <2>1. read > 0 /\ read' = read /\ sender = "send" /\ http # "send" /\ http' = http
    BY <1>2, <1>11 DEF SenderSend, GatewayPlaces
  <2>2. CASE Send(read) /\ sender' = "decode"
    <3>1. Sent = read - 1 /\ Sent' = read
      BY <1>1, <2>1, <2>2 DEF Sent
    <3>2. read \in 1 .. MaxMessages
      BY <1>1, <2>1, MaxMessagesAssumption DEF Decoded
    <3> QED
      BY <1>1, <2>1, <2>2, <3>1, <3>2, OrderIsExtended
  <2>3. CASE ~(Send(read) /\ sender' = "decode")
    BY <1>1, <1>3, <1>11, <2>1, <2>3 DEF SenderSend, streamVars, IsOver
  <2> QED
    BY <2>2, <2>3
<1>12. ASSUME SenderClose PROVE Ordered'
  <2>1. read' = read /\ http' = http /\ sender = "close" /\ sender' = "ended"
    BY <1>12 DEF SenderClose
  <2>2. Sent' = Sent
    BY <1>1, <2>1 DEF Sent
  <2> QED
    BY <1>1, <1>3, <1>12, <2>1, <2>2 DEF SenderClose, CloseSend, IsOver
<1> QED
  BY <1>4, <1>5, <1>6, <1>7, <1>8, <1>9, <1>10, <1>11, <1>12
     DEF GatewayStep, HTTPHandler, Sender
-----------------------------------------------------------------------------
(* The places, the order and the types together survive every step of a     *)
(* program and of the handler.                                              *)
THEOREM FrontEndsInvariance == Spec => []FrontEndsInv
<1>1. ASSUME FrontEndsInv, [Next]_vars PROVE FrontEndsInv'
  <2>1. Places'
    BY <1>1, PlacesHold DEF FrontEndsInv
  <2>2. ASSUME GatewayStep(HTTPClient \/ HTTPHandler \/ Sender) PROVE FrontEndsInv'
    <3>1. Uses /\ GatewayTypeOK' /\ Decoded'
      BY <1>1, <2>2, GatewayIsTyped DEF FrontEndsInv, Places, GatewayStep
    <3>2. StreamTypeOK'
      BY <1>1, <3>1, UsesAreTyped DEF FrontEndsInv, TypeOK
    <3>3. ClientTypeOK' /\ program' = program
      BY <1>1, <2>2 DEF FrontEndsInv, TypeOK, ClientTypeOK, GatewayStep, clientVars
    <3>4. Ordered'
      BY <1>1, <2>2, GatewayKeepsOrder DEF FrontEndsInv
    <3> QED
      BY <1>1, <2>1, <3>1, <3>2, <3>3, <3>4 DEF FrontEndsInv, TypeOK
  <2>3. ASSUME ClientStep(ClientMain \/ Receiver) PROVE FrontEndsInv'
    <3>1. Uses /\ ClientTypeOK'
      BY <1>1, <2>3, ClientIsTyped DEF FrontEndsInv, ClientStep
    <3>2. StreamTypeOK'
      BY <1>1, <3>1, UsesAreTyped DEF FrontEndsInv, TypeOK
    <3>3. GatewayTypeOK' /\ Decoded' /\ program' = program
      BY <1>1, <2>3
         DEF FrontEndsInv, TypeOK, GatewayTypeOK, Decoded, ClientStep, gatewayVars, bodyVars
    <3>4. Ordered'
      BY <1>1, <2>3, ClientKeepsOrder DEF FrontEndsInv
    <3> QED
      BY <1>1, <2>1, <3>1, <3>2, <3>3, <3>4 DEF FrontEndsInv, TypeOK
  <2>4. ASSUME HandlerStep(HandlerWorks \/ HandlerFails) PROVE FrontEndsInv'
    <3>1. /\ GatewayTypeOK' /\ ClientTypeOK' /\ Decoded' /\ program' = program
      BY <1>1, <2>4
         DEF FrontEndsInv, TypeOK, GatewayTypeOK, ClientTypeOK, Decoded, HandlerStep,
             gatewayVars, bodyVars, clientVars
    <3>2. ASSUME kind = "batch", status = "none" PROVE Len(handled) <= MaxMessages
      <4>1. Len(handled) \in Nat /\ Len(up) \in Nat /\ MaxMessages \in Nat
        BY <1>1, MaxMessagesAssumption DEF FrontEndsInv, TypeOK, StreamTypeOK, Numbers
      <4>2. CASE program = "gateway"
        <5>1. Len(handled) + Len(up) <= read /\ read <= Len(items)
              /\ Len(items) <= MaxMessages /\ read \in Nat /\ Len(items) \in Nat
          BY <1>1, <3>2, <4>2 DEF FrontEndsInv, Ordered, Decoded, TypeOK, GatewayTypeOK
        <5> QED
          BY <4>1, <5>1
      <4>3. CASE program = "client"
        <5>1. Len(handled) + Len(up) = sent /\ sent \in 0 .. MaxMessages
          BY <1>1, <3>2, <4>3
             DEF FrontEndsInv, Ordered, Places, IsOver, Sent, TypeOK, ClientTypeOK
        <5> QED
          BY <4>1, <5>1
      <4> QED
        BY <1>1, <4>2, <4>3 DEF FrontEndsInv, TypeOK
    <3>3. StreamTypeOK'
      BY <1>1, <2>4, <3>2, HandlerIsTyped DEF FrontEndsInv, TypeOK, HandlerStep
    <3>4. Ordered'
      BY <1>1, <2>4, HandlerKeepsOrder DEF FrontEndsInv
    <3> QED
      BY <1>1, <2>1, <3>1, <3>3, <3>4 DEF FrontEndsInv, TypeOK
  <2>5. ASSUME UNCHANGED vars PROVE FrontEndsInv'
    <3>1. TypeOK'
      BY <1>1, <2>5
         DEF FrontEndsInv, TypeOK, StreamTypeOK, GatewayTypeOK, ClientTypeOK, vars,
             streamVars, gatewayVars, bodyVars, clientVars
    <3>2. Ordered' /\ Decoded'
      BY <1>1, <2>5
         DEF FrontEndsInv, Ordered, Decoded, Sent, IsOver, vars, streamVars, gatewayVars,
             bodyVars, clientVars
    <3> QED
      BY <2>1, <3>1, <3>2 DEF FrontEndsInv
  <2> QED
    BY <1>1, <2>2, <2>3, <2>4, <2>5 DEF Next
<1> QED
  BY <1>1, InvInit, PTL DEF Spec

(* Every variable keeps its type, whatever the window and the length of the *)
(* streams, and no buffer holds more than the window.                       *)
THEOREM FrontEndsTyping == Spec => []TypeOK
<1>1. FrontEndsInv => TypeOK
  BY DEF FrontEndsInv
<1> QED
  BY <1>1, FrontEndsInvariance, PTL

(* A stream of any length, however full its windows, reaches the service in *)
(* the order of the body, without a gap and only up to what cannot be       *)
(* decoded.                                                                 *)
THEOREM StreamsAreInOrder == Spec => []NothingIsSkipped
<1>1. ASSUME FrontEndsInv PROVE NothingIsSkipped
  <2>1. Len(handled) \in Nat /\ Len(up) \in Nat /\ read \in Nat /\ Len(items) \in Nat
        /\ read <= Len(items)
    BY <1>1 DEF FrontEndsInv, TypeOK, StreamTypeOK, GatewayTypeOK, Numbers
  <2> QED
    BY <1>1, <2>1 DEF FrontEndsInv, Ordered, Decoded, NothingIsSkipped
<1> QED
  BY <1>1, FrontEndsInvariance, PTL

(* No program leaves a call that is not over, at whatever point its handler *)
(* or its messages are.                                                     *)
THEOREM CallsAreEnded == Spec => []NoCallIsLeft
<1>1. FrontEndsInv => NoCallIsLeft
  BY DEF FrontEndsInv, Places, GatewayPlaces, NoCallIsLeft, IsOver
<1> QED
  BY <1>1, FrontEndsInvariance, PTL
-----------------------------------------------------------------------------
(* The answer. Responses written, under way and owed are together all that  *)
(* was ever due, in its order; at the end nothing is under way or owed.     *)
Whole ==
  /\ (answer \o down) \o owed = due
  /\ handler = "recv" \/ status = "OK" => owed = <<>>

(* A unary call owes one response to its one message.                       *)
Asked ==
  kind \in {"post", "get"} /\ handler # "none" =>
    /\ handler = "recv" => up = <<1>> /\ due = <<>>
    /\ handler = "send" \/ status = "OK" => due = <<1>>

(* A bidirectional stream owes one for each message, and is closed behind   *)
(* the last that can be decoded.                                            *)
Echoed ==
  kind = "bidi" =>
    /\ due = handled
    /\ closed => sender = "ended"
    /\ sender \in {"close", "ended"} /\ ~IsOver => AllThereIs(read)
    /\ status = "OK" /\ ~cancelled => AllThereIs(Len(handled))

(* The body of a batch is read to its end before the stream is closed, and  *)
(* the totals are those of the whole of it.                                 *)
Totalled ==
  kind = "batch" =>
    /\ closed => http \in {"header", "recv", "over"}
    /\ http \in {"close", "header", "recv"} /\ ~cancelled /\ status # "error" =>
         read = Len(items) /\ ended
    /\ handler = "recv" => due = <<>>
    /\ handler = "send" \/ status = "OK" =>
         /\ closed /\ due = <<Len(handled)>>
         /\ ~cancelled => Len(handled) = Len(items) /\ ended

Answered ==
  /\ http \in {"new", "body"} => answer = <<>>
  /\ http # "over" => code = "none"
  /\ program = "gateway" =>
       /\ http \in {"new", "body"} => handler = "none"
       /\ Whole /\ Asked /\ Echoed /\ Totalled
  /\ OKIsTheWholeAnswer

(* A message that goes from the front of one sequence to the back of the    *)
(* one before leaves both together as they were.                            *)
LEMMA OneIsMoved ==
  ASSUME NEW S, NEW p \in Seq(S), NEW q \in Seq(S), q # <<>>
  PROVE  /\ Append(p, Head(q)) \in Seq(S) /\ Tail(q) \in Seq(S)
         /\ Append(p, Head(q)) \o Tail(q) = p \o q
<1> DEFINE one == <<Head(q)>>
           rest == Tail(q)
<1>1. /\ Head(q) \in S /\ Head(q) = q[1] /\ rest \in Seq(S)
      /\ Len(rest) = Len(q) - 1 /\ Len(q) \in Nat \ {0}
      /\ \A i \in 1 .. Len(rest) : rest[i] = q[i + 1]
  BY TailIsShorter
<1>2. one \in Seq(S) /\ Len(one) = 1 /\ one[1] = q[1]
  BY <1>1
<1>3. Append(p, Head(q)) = p \o one /\ Append(p, Head(q)) \in Seq(S)
  BY <1>1, AppendIsConcat, AppendIsLonger
<1> HIDE DEF one, rest
<1>4. q = one \o rest
  <2> DEFINE both == one \o rest
  <2>1. /\ both \in Seq(S) /\ Len(both) = Len(q)
        /\ \A i \in 1 .. Len(q) : both[i] = IF i <= 1 THEN one[i] ELSE rest[i - 1]
    <3>1. Len(one) + Len(rest) = Len(q)
      BY <1>1, <1>2
    <3>2. /\ both \in Seq(S) /\ Len(both) = Len(one) + Len(rest)
          /\ \A i \in 1 .. Len(one) + Len(rest) :
               both[i] = IF i <= Len(one) THEN one[i] ELSE rest[i - Len(one)]
      BY <1>1, <1>2, ConcatProperties
    <3> HIDE DEF both
    <3> QED
      BY <1>2, <3>1, <3>2
  <2>2. ASSUME NEW i \in 1 .. Len(q) PROVE both[i] = q[i]
    <3>1. CASE i = 1
      <4>1. both[1] = IF 1 <= 1 THEN one[1] ELSE rest[1 - 1]
        BY <2>1, <2>2, <3>1
      <4> HIDE DEF both
      <4>2. both[1] = one[1]
        BY <4>1
      <4> QED
        BY <1>2, <3>1, <4>2
    <3>2. CASE i > 1
      <4>1. i - 1 \in 1 .. Len(rest) /\ (i - 1) + 1 = i /\ ~(i <= 1)
        BY <1>1, <3>2
      <4> HIDE DEF both
      <4>2. both[i] = rest[i - 1] /\ rest[i - 1] = q[(i - 1) + 1]
        BY <1>1, <2>1, <4>1
      <4> QED
        BY <4>1, <4>2
    <3>3. i = 1 \/ i > 1
      BY <1>1, <2>2
    <3> QED
      BY <3>1, <3>2, <3>3, Zenon
  <2> HIDE DEF both
  <2>3. both = q
    BY <2>1, <2>2, SeqEqual
  <2> QED
    BY <2>3 DEF both
<1>5. (p \o one) \o rest = p \o (one \o rest)
  BY <1>1, <1>2, ConcatAssociative
<1>6. Append(p, Head(q)) \o rest = p \o q
  BY <1>3, <1>4, <1>5, Zenon
<1> QED
  BY <1>1, <1>3, <1>6 DEF rest

(* The types these proofs rely on.                                          *)
LEMMA Sequences ==
  ASSUME TypeOK
  PROVE  /\ up \in Seq(0 .. MaxMessages) /\ down \in Seq(0 .. MaxMessages)
         /\ handled \in Seq(0 .. MaxMessages) /\ owed \in Seq(0 .. MaxMessages)
         /\ due \in Seq(0 .. MaxMessages) /\ answer \in Seq(0 .. MaxMessages)
         /\ items \in Seq(BOOLEAN) /\ Len(items) \in Nat /\ read \in 0 .. Len(items)
         /\ Len(handled) \in Nat /\ Len(up) \in Nat
BY DEF TypeOK, StreamTypeOK, GatewayTypeOK, Numbers

(* A handler owes what it has yet to send, and ends well only when it owes  *)
(* nothing.                                                                 *)
LEMMA HandlersAnswer ==
  ASSUME FrontEndsInv, Answered, HandlerStep(HandlerWorks \/ HandlerFails)
  PROVE  Answered'
<1> USE DEF HandlerStep
<1>1. /\ UNCHANGED <<program, kind, closed, cancelled>>
      /\ UNCHANGED <<http, items, ended, read, sender, answer, code>>
      /\ handler # "none"
  BY HandlerMoves DEF gatewayVars, bodyVars
<1>2. /\ up \in Seq(0 .. MaxMessages) /\ down \in Seq(0 .. MaxMessages)
      /\ handled \in Seq(0 .. MaxMessages) /\ owed \in Seq(0 .. MaxMessages)
      /\ due \in Seq(0 .. MaxMessages) /\ answer \in Seq(0 .. MaxMessages)
      /\ Len(handled) \in Nat /\ Len(up) \in Nat /\ read \in Nat
  BY Sequences DEF FrontEndsInv
<1>3. handler # "over" /\ status = "none"
  BY DEF HandlerWorks, HandlerFails, HandlerRecv, HandlerRecvEnd, HandlerSend,
         FrontEndsInv, TypeOK, StreamTypeOK
<1>4. code # "OK" /\ OKIsTheWholeAnswer'
  BY <1>1, <1>3 DEF Answered, OKIsTheWholeAnswer
<1>5. CASE program # "gateway"
  BY <1>1, <1>4, <1>5 DEF Answered
<1>6. SUFFICES ASSUME program = "gateway", Whole, Asked, Echoed, Totalled
               PROVE  Whole' /\ Asked' /\ Echoed' /\ Totalled'
  BY <1>1, <1>4, <1>5 DEF Answered
<1>7. AllThereIs(read)' <=> AllThereIs(read)
  BY <1>1 DEF AllThereIs
<1>8. <<>> \in Seq(0 .. MaxMessages) /\ due \o <<>> = due
  BY <1>2, ConcatEmptySeq
<1>9. owed = <<>> => due = answer \o down
  <2>1. answer \o down \in Seq(0 .. MaxMessages)
    BY <1>2, ConcatProperties
  <2> QED
    BY <1>6, <2>1, ConcatEmptySeq DEF Whole
<1>10. CASE HandlerRecv
  <2>1. /\ handler = "recv" /\ up # <<>> /\ handled' = Append(handled, Head(up))
        /\ down' = down /\ status' = "none" /\ due' = due \o owed' /\ owed = <<>>
    BY <1>3, <1>6, <1>10 DEF HandlerRecv, Whole
  <2>2. Head(up) = up[1] /\ Head(up) \in 0 .. MaxMessages
    BY <1>2, <2>1, TailIsShorter
  <2>3. Whole'
    <3>1. handler' = "recv" => owed' = <<>>
      BY <1>10, <2>1 DEF HandlerRecv
    <3> QED
      BY <1>1, <1>9, <2>1, <3>1 DEF Whole
  <2>4. ASSUME kind \in {"post", "get"} PROVE Asked'
    <3>1. up = <<1>> /\ due = <<>> /\ handler' = "send" /\ owed' = <<Head(up)>>
      BY <1>6, <1>10, <2>1, <2>4 DEF Asked, HandlerRecv
    <3>2. owed' = <<1>>
      BY <3>1
    <3>3. <<1>> \in Seq(0 .. MaxMessages)
      BY MaxMessagesAssumption
    <3>4. due' = <<1>>
      BY <2>1, <3>1, <3>2, <3>3, ConcatEmptySeq
    <3> QED
      BY <3>1, <3>4 DEF Asked
  <2>5. ASSUME kind = "bidi" PROVE Echoed'
    <3>1. owed' = <<Head(up)>> /\ due = handled
      BY <1>6, <1>10, <2>5 DEF HandlerRecv, Echoed
    <3>2. due' = handled'
      BY <1>2, <2>1, <2>2, <3>1, AppendIsConcat
    <3> QED
      BY <1>1, <1>3, <1>6, <1>7, <2>1, <2>5, <3>2 DEF Echoed, IsOver
  <2>6. ASSUME kind = "batch" PROVE Totalled'
    <3>1. handler' = "recv" /\ owed' = <<>> /\ due = <<>>
      BY <1>6, <1>10, <2>1, <2>6 DEF HandlerRecv, Totalled
    <3>2. due' = <<>>
      BY <1>8, <2>1, <3>1
    <3> QED
      BY <1>1, <1>3, <1>6, <2>1, <2>6, <3>1, <3>2 DEF Totalled
  <2> QED
    BY <1>1, <2>3, <2>4, <2>5, <2>6 DEF Asked, Echoed, Totalled
<1>11. CASE HandlerRecvEnd
  <2>1. /\ handler = "recv" /\ up = <<>> /\ closed /\ UNCHANGED <<handled, down>>
        /\ owed = <<>> /\ due' = due \o owed' /\ kind \in {"batch", "bidi"}
    BY <1>6, <1>11 DEF HandlerRecvEnd, Whole
  <2>2. Whole'
    <3>1. handler' = "recv" \/ status' = "OK" => owed' = <<>>
      BY <1>3, <1>11, <2>1 DEF HandlerRecvEnd, Return
    <3> QED
      BY <1>1, <1>9, <2>1, <3>1 DEF Whole
  <2>3. ASSUME ~cancelled, http # "send", sender # "send" PROVE Len(handled) = read
    <3>1. Len(handled) + Len(up) = Sent /\ Sent = read
      BY <1>3, <1>6, <2>1, <2>3 DEF FrontEndsInv, Ordered, IsOver, Sent
    <3> QED
      BY <1>2, <2>1, <3>1
  <2>4. ASSUME kind = "bidi" PROVE Echoed'
    <3>1. owed' = <<>> /\ due = handled /\ sender = "ended"
      BY <1>6, <1>11, <2>1, <2>4 DEF HandlerRecvEnd, Echoed
    <3>2. http # "send"
      BY <2>4 DEF FrontEndsInv, Places, GatewayPlaces
    <3>3. ~cancelled => AllThereIs(Len(handled))
      BY <1>3, <1>6, <2>3, <2>4, <3>1, <3>2 DEF Echoed, IsOver
    <3>4. AllThereIs(Len(handled)) => AllThereIs(Len(handled))'
      BY <1>1, <2>1 DEF AllThereIs
    <3>5. due' = handled' /\ status' = "OK"
      BY <1>8, <1>11, <2>1, <2>4, <3>1 DEF HandlerRecvEnd, Return
    <3> QED
      BY <1>1, <3>1, <3>3, <3>4, <3>5 DEF Echoed, IsOver
  <2>5. ASSUME kind = "batch" PROVE Totalled'
    <3>1. owed' = <<Len(handled)>> /\ handler' = "send" /\ status' = status
      BY <1>11, <2>5 DEF HandlerRecvEnd
    <3>2. due = <<>> /\ http \in {"header", "recv", "over"}
      BY <1>6, <2>1, <2>5 DEF Totalled
    <3>3. <<Len(handled)>> \in Seq(Nat)
      BY <1>2
    <3>4. due' = <<Len(handled')>>
      BY <2>1, <3>1, <3>2, <3>3, ConcatEmptySeq
    <3>5. ASSUME ~cancelled PROVE Len(handled) = Len(items) /\ ended
      <4>1. http \in {"header", "recv"} /\ sender = "none"
        BY <2>5, <3>2, <3>5 DEF FrontEndsInv, Places, GatewayPlaces
      <4>2. read = Len(items) /\ ended
        BY <1>3, <1>6, <2>5, <3>5, <4>1 DEF Totalled
      <4> QED
        BY <2>3, <3>5, <4>1, <4>2
    <3> QED
      BY <1>1, <1>3, <1>6, <2>1, <2>5, <3>1, <3>2, <3>4, <3>5 DEF Totalled
  <2> QED
    BY <1>1, <2>1, <2>2, <2>4, <2>5 DEF Asked, Echoed, Totalled
<1>12. CASE HandlerSend
  <2>1. /\ handler = "send" /\ owed # <<>> /\ down' = Append(down, Head(owed))
        /\ owed' = Tail(owed) /\ UNCHANGED <<handled, due>>
    BY <1>12 DEF HandlerSend, FrontEndsInv, TypeOK, StreamTypeOK
  <2>2. Whole'
    <3> DEFINE S == 0 .. MaxMessages
               more == Append(down, Head(owed))
               rest == Tail(owed)
    <3> HIDE DEF S
    <3>0. answer \in Seq(S) /\ down \in Seq(S) /\ owed \in Seq(S)
      BY <1>2 DEF S
    <3>1. more \in Seq(S) /\ rest \in Seq(S) /\ more \o rest = down \o owed
      BY <2>1, <3>0, OneIsMoved, Zenon
    <3> HIDE DEF more, rest
    <3>2. (answer \o more) \o rest = answer \o (more \o rest)
      <4>1. answer \in Seq(S) /\ more \in Seq(S) /\ rest \in Seq(S)
        BY <3>0, <3>1
      <4> QED
        BY <4>1, ConcatAssociative
    <3>3. (answer \o down) \o owed = answer \o (down \o owed)
      BY <3>0, ConcatAssociative
    <3>5. (answer \o down') \o owed' = (answer \o down) \o owed
      BY <2>1, <3>1, <3>2, <3>3, Zenon DEF more, rest
    <3>4. handler' = "recv" \/ status' = "OK" => owed' = <<>>
      BY <1>3, <1>12, <2>1 DEF HandlerSend, Return
    <3> QED
      BY <1>1, <1>6, <2>1, <3>4, <3>5 DEF Whole
  <2>3. Asked'
    BY <1>1, <1>6, <1>12, <2>1 DEF HandlerSend, Return, Asked
  <2>4. ASSUME kind = "bidi" PROVE Echoed'
    <3>1. status' = "none"
      BY <1>3, <1>12, <2>4 DEF HandlerSend
    <3> QED
      BY <1>1, <1>3, <1>6, <1>7, <2>1, <2>4, <3>1 DEF Echoed, IsOver
  <2>5. ASSUME kind = "batch" PROVE Totalled'
    <3>1. handler' # "recv" /\ status' # "error"
      BY <1>3, <1>12, <2>5 DEF HandlerSend, Return
    <3> QED
      BY <1>1, <1>3, <1>6, <2>1, <2>5, <3>1 DEF Totalled
  <2> QED
    BY <1>1, <2>2, <2>3, <2>4, <2>5 DEF Echoed, Totalled
<1>13. CASE HandlerFails
  <2>1. /\ handler' = "over" /\ status' = "error"
        /\ UNCHANGED <<up, down, handled, owed, due>>
    BY <1>13 DEF HandlerFails, Return
  <2> QED
    BY <1>1, <1>6, <1>7, <2>1 DEF Whole, Asked, Echoed, Totalled, IsOver
<1> QED
  BY <1>10, <1>11, <1>12, <1>13 DEF HandlerWorks

(* The client writes no HTTP response.                                      *)
LEMMA ClientsAnswer ==
  ASSUME FrontEndsInv, Answered, ClientStep(ClientMain \/ Receiver)
  PROVE  Answered'
BY DEF ClientStep, gatewayVars, FrontEndsInv, Places, Answered, OKIsTheWholeAnswer

(* The gateway ends well only at the end of what it was sent.               *)
LEMMA GatewaysAnswer ==
  ASSUME FrontEndsInv, Answered, GatewayStep(HTTPClient \/ HTTPHandler \/ Sender)
  PROVE  Answered'
<1>1. /\ program = "gateway" /\ program' = "gateway" /\ GatewayPlaces
      /\ Whole /\ Asked /\ Echoed /\ Totalled
  BY DEF GatewayStep, FrontEndsInv, Places, Answered
<1>2. /\ handled \in Seq(0 .. MaxMessages) /\ answer \in Seq(0 .. MaxMessages)
      /\ down \in Seq(0 .. MaxMessages) /\ owed \in Seq(0 .. MaxMessages)
      /\ due \in Seq(0 .. MaxMessages) /\ items \in Seq(BOOLEAN)
      /\ Len(items) \in Nat /\ Len(handled) \in Nat /\ read \in 0 .. Len(items)
      /\ read \in Nat
  BY Sequences DEF FrontEndsInv
<1> DEFINE Steady == UNCHANGED <<kind, handler, handled, owed, due, status>>
<1>3. ASSUME Steady, UNCHANGED <<down, answer>>, http' \notin {"new", "body"},
             http' # "over" => code' = "none",
             kind \in {"post", "get"} => up' = up,
             Echoed', Totalled', OKIsTheWholeAnswer'
      PROVE  Answered'
  BY <1>1, <1>3 DEF Answered, Whole, Asked
<1>4. ASSUME code' # "OK" PROVE OKIsTheWholeAnswer'
  BY <1>4 DEF OKIsTheWholeAnswer
<1>5. ASSUME Steady, cancelled => cancelled', UNCHANGED <<closed, sender, read, items, ended>>
      PROVE  Echoed'
  BY <1>1, <1>5 DEF Echoed, IsOver, AllThereIs
<1> USE DEF Finish, Goto
<1>6. ASSUME HTTPClient PROVE Answered'
  <2>1. /\ Steady /\ UNCHANGED <<down, answer, up, closed, sender, read, http, code>>
        /\ http # "over" /\ code' = "none"
        /\ (cancelled => cancelled') /\ (ended => ended' /\ items' = items)
    BY <1>6 DEF HTTPClient, BodyItem, BodyEnd, Leave, streamVars, Answered
  <2>2. ASSUME NEW n \in Nat, AllThereIs(n) PROVE AllThereIs(n)'
    <3>1. CASE BodyItem
      <4>1. PICK b \in BOOLEAN : items' = Append(items, b)
        BY <3>1 DEF BodyItem
      <4>2. /\ Len(items') = Len(items) + 1
            /\ \A i \in 1 .. Len(items) : items'[i] = items[i]
        BY <1>2, <4>1, AppendIsLonger
      <4>3. ~ended
        BY <3>1 DEF BodyItem
      <4>4. n < Len(items) /\ ~items[n + 1]
        BY <2>2, <4>3 DEF AllThereIs
      <4>5. n + 1 \in 1 .. Len(items)
        BY <1>2, <4>4
      <4>6. n < Len(items') /\ ~items'[n + 1]
        BY <1>2, <4>2, <4>4, <4>5
      <4> QED
        BY <4>6 DEF AllThereIs
    <3>2. CASE BodyEnd \/ Leave
      BY <2>2, <3>2 DEF BodyEnd, Leave, AllThereIs
    <3> QED
      BY <1>6, <3>1, <3>2 DEF HTTPClient
  <2>3. Echoed'
    <3>1. AllThereIs(read) => AllThereIs(read)'
      BY <1>2, <2>1, <2>2
    <3>2. AllThereIs(Len(handled)) => AllThereIs(Len(handled))'
      BY <1>2, <2>1, <2>2
    <3> QED
      BY <1>1, <2>1, <3>1, <3>2 DEF Echoed, IsOver
  <2>4. Totalled'
    BY <1>1, <2>1 DEF Totalled
  <2>5. OKIsTheWholeAnswer'
    BY <1>4, <2>1
  <2>6. http \in {"new", "body"} => answer = <<>> /\ handler = "none"
    BY <1>1 DEF Answered
  <2> QED
    BY <1>1, <2>1, <2>3, <2>4, <2>5, <2>6 DEF Answered, Whole, Asked
<1>7. ASSUME NEW k \in Kinds, Route(k) PROVE Answered'
  <2>1. /\ http = "new" /\ http' # "over" /\ http' # "new" /\ code' = "none"
        /\ answer' = <<>> /\ handler = "none" /\ answer = <<>>
    BY <1>1, <1>7 DEF Route, Answered
  <2>2. CASE k \in {"post", "get", "list"}
    <3>1. /\ kind' = k /\ handler' = "none" /\ status' = status
          /\ UNCHANGED <<down, owed, due>>
      BY <1>7, <2>1, <2>2 DEF Route
    <3>2. Whole' /\ Asked' /\ Echoed' /\ Totalled'
      BY <1>1, <2>1, <2>2, <3>1 DEF Whole, Asked, Echoed, Totalled
    <3> QED
      BY <1>4, <2>1, <3>1, <3>2 DEF Answered
  <2>3. CASE k \notin {"post", "get", "list"}
    <3>1. Open(k) /\ http' \in {"decode", "header"} /\ (k = "batch" => http' = "decode")
      BY <1>7, <2>3 DEF Route
    <3>2. /\ kind' = k /\ down' = <<>> /\ handled' = <<>> /\ owed' = <<>> /\ due' = <<>>
          /\ handler' = "recv" /\ status' = "none" /\ ~closed'
      BY <2>3, <3>1 DEF Open
    <3>3. (<<>> \o <<>>) \o <<>> = <<>>
      <4>1. <<>> \in Seq(Nat)
        OBVIOUS
      <4> QED
        BY <4>1, ConcatEmptySeq
    <3>4. k = "bidi" => sender' = "decode"
      BY <1>7 DEF Route
    <3>5. Whole' /\ Asked' /\ Echoed' /\ Totalled'
      BY <2>1, <2>3, <3>1, <3>2, <3>3, <3>4 DEF Whole, Asked, Echoed, Totalled
    <3> QED
      BY <1>4, <2>1, <3>1, <3>5 DEF Answered
  <2> QED
    BY <2>2, <2>3
<1>8. ASSUME CallPost \/ CallGet \/ CallList PROVE Answered'
  <2>1. /\ kind \in {"post", "get", "list"} /\ Open(kind) /\ http = "body"
        /\ http' \in {"header", "recv"} /\ code' = "none" /\ answer' = answer
    BY <1>8 DEF CallPost, CallGet, CallList, Answered
  <2>2. /\ kind' = kind /\ down' = <<>> /\ owed' = <<>> /\ due' = <<>>
        /\ handler' = "recv" /\ status' = "none" /\ up' = <<1>>
    BY <2>1 DEF Open
  <2>3. answer' = <<>>
    BY <2>1 DEF Answered
  <2>4. (<<>> \o <<>>) \o <<>> = <<>>
    <3>1. <<>> \in Seq(Nat)
      OBVIOUS
    <3> QED
      BY <3>1, ConcatEmptySeq
  <2>5. Whole' /\ Asked' /\ Echoed' /\ Totalled'
    BY <2>1, <2>2, <2>3, <2>4 DEF Whole, Asked, Echoed, Totalled
  <2> QED
    BY <1>4, <2>1, <2>5 DEF Answered
<1>9. ASSUME RouteFails \/ Refuse PROVE Answered'
  <2>1. /\ Steady /\ UNCHANGED <<down, answer, up, closed, sender, read, items, ended>>
        /\ http' = "over" /\ code' # "OK" /\ cancelled'
    BY <1>9 DEF RouteFails, Refuse, bodyVars
  <2>2. Totalled'
    BY <1>1, <2>1 DEF Totalled
  <2> QED
    BY <1>3, <1>4, <1>5, <2>1, <2>2
<1>10. ASSUME Decode PROVE Answered'
  <2>1. /\ Steady /\ UNCHANGED <<down, answer, up, closed, sender, items, ended>>
        /\ http = "decode" /\ code = "none" /\ kind = "batch"
    BY <1>1, <1>10 DEF Decode, streamVars, bodyVars, Answered, GatewayPlaces
  <2>2. \/ http' = "send" /\ code' = "none" /\ UNCHANGED cancelled
        \/ http' = "close" /\ code' = "none" /\ DecodesEOF /\ UNCHANGED <<read, cancelled>>
        \/ http' = "over" /\ code' = "InvalidArgument" /\ cancelled'
    BY <1>10, <2>1 DEF Decode, streamVars
  <2>3. Totalled'
    BY <1>1, <2>1, <2>2 DEF Totalled, DecodesEOF
  <2>4. Echoed'
    BY <2>1 DEF Echoed
  <2> QED
    BY <1>3, <1>4, <2>1, <2>2, <2>3, <2>4
<1>11. ASSUME SendItem PROVE Answered'
  <2>1. /\ Steady /\ UNCHANGED <<down, answer, closed, sender, read, items, ended>>
        /\ http = "send" /\ code = "none" /\ kind = "batch"
    BY <1>1, <1>11 DEF SendItem, Send, streamVars, bodyVars, Answered, GatewayPlaces
  <2>2. \/ http' = "decode" /\ code' = "none" /\ UNCHANGED cancelled
        \/ http' = "close" /\ code' = "none" /\ IsOver /\ UNCHANGED cancelled
        \/ http' = "over" /\ code' = "error" /\ cancelled'
    BY <1>11, <2>1 DEF SendItem, Send, streamVars
  <2>3. ~closed /\ status # "OK" /\ handler # "send"
    BY <1>1, <2>1 DEF Totalled
  <2>4. status \in {"none", "OK", "error"}
    BY DEF FrontEndsInv, TypeOK, StreamTypeOK
  <2>5. Totalled' /\ Echoed'
    BY <1>1, <2>1, <2>2, <2>3, <2>4 DEF Totalled, Echoed, IsOver
  <2> QED
    BY <1>3, <1>4, <2>1, <2>2, <2>5
<1>12. ASSUME CloseItems \/ AwaitHeader PROVE Answered'
  <2>1. /\ Steady /\ UNCHANGED <<down, answer, up, sender, read, items, ended>>
        /\ code = "none"
        /\ \/ http = "close" /\ http' = "header" /\ code' = "none" /\ closed'
                /\ UNCHANGED cancelled
           \/ http = "header" /\ http' = "recv" /\ code' = "none"
                /\ UNCHANGED <<closed, cancelled>>
           \/ http = "header" /\ http' = "over" /\ code' = "error" /\ cancelled'
                /\ UNCHANGED closed
    BY <1>12 DEF CloseItems, AwaitHeader, CloseSend, streamVars, bodyVars, Answered
  <2>2. Totalled'
    BY <1>1, <2>1 DEF Totalled
  <2>3. Echoed'
    <3>1. http = "close" => kind = "batch"
      BY <1>1 DEF GatewayPlaces
    <3> QED
      BY <1>5, <2>1, <3>1 DEF Echoed
  <2> QED
    BY <1>3, <1>4, <2>1, <2>2, <2>3
<1>13. ASSUME Sender PROVE Answered'
  <2>1. /\ kind = "bidi" /\ Steady /\ UNCHANGED <<down, answer, cancelled>>
        /\ UNCHANGED <<http, code, items, ended>>
    BY <1>1, <1>13
       DEF Sender, SenderDecode, SenderSend, SenderClose, Send, CloseSend, streamVars,
           bodyVars, GatewayPlaces
  <2>2. OKIsTheWholeAnswer'
    BY <2>1 DEF Answered, OKIsTheWholeAnswer, AllThereIs
  <2>3. Echoed'
    <3>1. AllThereIs(Len(handled)) => AllThereIs(Len(handled))'
      BY <2>1 DEF AllThereIs
    <3>2. CASE SenderDecode
      <4>1. UNCHANGED closed /\ sender' \in {"send", "close"} /\ ~closed
        BY <1>1, <2>1, <3>2 DEF SenderDecode, streamVars, Echoed
      <4>2. ASSUME sender' = "close", ~IsOver PROVE AllThereIs(read)'
        <5>1. read' = read /\ (DecodesEOF \/ DecodeFails)
          BY <3>2, <4>2 DEF SenderDecode
        <5>2. ~gone /\ http # "over"
          BY <1>1, <4>2 DEF GatewayPlaces, IsOver
        <5> QED
          BY <2>1, <5>1, <5>2 DEF DecodesEOF, DecodeFails, AllThereIs
      <4> QED
        BY <1>1, <2>1, <3>1, <4>1, <4>2 DEF Echoed, IsOver
    <3>3. CASE SenderSend
      <4>1. UNCHANGED closed /\ sender' \in {"decode", "close"} /\ ~closed
            /\ (sender' = "close" => IsOver)
        BY <1>1, <2>1, <3>3 DEF SenderSend, Send, streamVars, Echoed
      <4> QED
        BY <1>1, <2>1, <3>1, <4>1 DEF Echoed, IsOver
    <3>4. CASE SenderClose
      <4>1. sender = "close" /\ sender' = "ended" /\ read' = read
        BY <3>4 DEF SenderClose
      <4>2. AllThereIs(read) => AllThereIs(read)'
        BY <2>1, <4>1 DEF AllThereIs
      <4> QED
        BY <1>1, <2>1, <3>1, <4>1, <4>2 DEF Echoed, IsOver
    <3> QED
      BY <1>13, <3>2, <3>3, <3>4 DEF Sender
  <2>4. http \notin {"new", "body"}
    <3>1. sender # "none"
      BY <1>13 DEF Sender, SenderDecode, SenderSend, SenderClose
    <3> QED
      BY <1>1, <3>1 DEF GatewayPlaces
  <2>5. Totalled'
    BY <2>1 DEF Totalled
  <2> QED
    BY <1>3, <2>1, <2>2, <2>3, <2>4, <2>5 DEF Answered
<1>14. ASSUME http = "recv", Recv, answer' = Append(answer, Head(down)),
              UNCHANGED <<http, code, items, ended, read, sender>>
       PROVE  Answered'
  <2>1. /\ Steady /\ UNCHANGED <<closed, cancelled, up>>
        /\ down # <<>> /\ down' = Tail(down) /\ code = "none"
    BY <1>14 DEF Recv, Answered
  <2>2. answer' \o down' = answer \o down
    <3> DEFINE S == 0 .. MaxMessages
    <3> HIDE DEF S
    <3>1. answer \in Seq(S) /\ down \in Seq(S)
      BY <1>2 DEF S
    <3>2. Append(answer, Head(down)) \o Tail(down) = answer \o down
      BY <2>1, <3>1, OneIsMoved, Zenon
    <3> QED
      BY <1>14, <2>1, <3>2, Zenon
  <2>3. Whole'
    BY <1>1, <2>1, <2>2 DEF Whole
  <2>4. Asked' /\ Totalled'
    BY <1>1, <1>14, <2>1 DEF Asked, Totalled
  <2>5. Echoed'
    BY <1>5, <1>14, <2>1
  <2> QED
    BY <1>1, <1>4, <1>14, <2>1, <2>3, <2>4, <2>5 DEF Answered
<1>15. ASSUME http = "recv", RecvEOF, Finish("OK"), UNCHANGED sender PROVE Answered'
  <2>1. /\ Steady /\ UNCHANGED <<down, answer, up, closed, sender, read, items, ended>>
        /\ http' = "over" /\ cancelled'
        /\ down = <<>> /\ status = "OK" /\ ~cancelled /\ owed = <<>>
    BY <1>1, <1>15 DEF RecvEOF, bodyVars, Whole
  <2>2. handler = "over"
    BY <2>1 DEF FrontEndsInv, TypeOK, StreamTypeOK
  <2>3. Totalled'
    BY <1>1, <2>1 DEF Totalled
  <2>4. answer = due
    BY <1>1, <1>2, <2>1, ConcatEmptySeq DEF Whole
  <2>5. kind \in {"post", "get"} => answer = <<1>>
    BY <1>1, <2>1, <2>2, <2>4 DEF Asked
  <2>6. kind = "bidi" => answer = handled /\ AllThereIs(Len(handled))'
    BY <1>1, <2>1, <2>4 DEF Echoed, AllThereIs
  <2>7. kind = "batch" =>
          Len(handled) = Len(items) /\ ended /\ answer = <<Len(items)>>
    BY <1>1, <2>1, <2>4 DEF Totalled
  <2>8. OKIsTheWholeAnswer'
    BY <2>1, <2>2, <2>4, <2>5, <2>6, <2>7 DEF OKIsTheWholeAnswer
  <2> QED
    BY <1>3, <1>5, <2>1, <2>3, <2>8
<1>16. ASSUME Forward PROVE Answered'
  <2>1. ASSUME http = "recv", Finish("error"), UNCHANGED sender PROVE Answered'
    <3>1. /\ Steady /\ UNCHANGED <<down, answer, up, closed, sender, read, items, ended>>
          /\ http' = "over" /\ cancelled' /\ code' = "error"
      BY <2>1 DEF bodyVars
    <3>2. Totalled'
      BY <1>1, <3>1 DEF Totalled
    <3> QED
      BY <1>3, <1>4, <1>5, <3>1, <3>2
  <2> QED
    BY <1>14, <1>15, <1>16, <2>1 DEF Forward, bodyVars
<1> QED
  BY <1>6, <1>7, <1>8, <1>9, <1>10, <1>11, <1>12, <1>13, <1>16
     DEF GatewayStep, HTTPHandler

(* An HTTP response that ends well is the whole of what the handler had to  *)
(* say: of a list every row, of a batch the totals of the whole body, of a  *)
(* bidirectional stream an answer to each item up to the first that cannot  *)
(* be decoded; for windows and streams of any length.                       *)
THEOREM AnswersAreWhole == Spec => []OKIsTheWholeAnswer
<1>1. ASSUME Init PROVE Answered
  <2>1. (<<>> \o <<>>) \o <<>> = <<>>
    <3>1. <<>> \in Seq(Nat)
      OBVIOUS
    <3> QED
      BY <3>1, ConcatEmptySeq
  <2> QED
    BY <1>1, <2>1
       DEF Init, GatewayInit, StreamInit, Answered, Whole, Asked, Echoed, Totalled,
           OKIsTheWholeAnswer
<1>2. ASSUME FrontEndsInv, Answered, [Next]_vars PROVE Answered'
  <2>1. CASE UNCHANGED vars
    BY <1>2, <2>1
       DEF vars, streamVars, gatewayVars, bodyVars, clientVars, Answered, Whole, Asked,
           Echoed, Totalled, IsOver, AllThereIs, OKIsTheWholeAnswer
  <2> QED
    BY <1>2, <2>1, HandlersAnswer, ClientsAnswer, GatewaysAnswer DEF Next
<1>3. Answered => OKIsTheWholeAnswer
  BY DEF Answered
<1> QED
  BY <1>1, <1>2, <1>3, FrontEndsInvariance, PTL DEF Spec

-----------------------------------------------------------------------------
(* What NoStandstill rests on: a unary handler has its message, a stream is *)
(* closed before anybody only waits for its answer, or by the goroutine     *)
(* that sends, and who waits for an answer has a handler.                   *)
ServiceReady ==
  /\ kind \in {"post", "get", "list"} /\ handler = "recv" => up # <<>>
  /\ kind = "batch" /\ handler = "send" => closed
  /\ handler # "none" => kind \in Kinds

GatewayReady ==
  /\ http \in {"decode", "send", "close", "header", "recv"} => handler # "none"
  /\ http \in {"decode", "send", "close"} => ~closed
  /\ http \in {"header", "recv"} =>
       /\ kind = "batch" => closed
       /\ kind = "bidi" => sender # "none"
  /\ sender = "ended" => closed

ClientReady ==
  /\ main \in {"send", "close", "recv", "await"} => handler # "none"
  /\ main \in {"send", "close"} =>
       /\ kind = "batch" => ~closed
       /\ kind = "bidi" => receiver # "none"
       /\ kind \in {"batch", "bidi"}
  /\ main = "recv" => kind # "bidi" /\ (kind = "batch" => closed)
  /\ main = "await" => closed /\ receiver # "none"

Ready ==
  /\ ServiceReady /\ GatewayReady /\ ClientReady
  /\ program = "gateway" /\ http \in {"new", "body"} => handler = "none"

(* The handler keeps its end of it.                                         *)
LEMMA ServiceStaysReady ==
  ASSUME TypeOK, ServiceReady, HandlerWorks \/ HandlerFails
  PROVE  ServiceReady'
<1>1. ASSUME HandlerRecv \/ HandlerRecvEnd PROVE ServiceReady'
  BY <1>1 DEF HandlerRecv, HandlerRecvEnd, Return, ServiceReady
<1>2. ASSUME HandlerSend \/ HandlerFails PROVE ServiceReady'
  BY <1>2 DEF HandlerSend, HandlerFails, Return, ServiceReady
<1> QED
  BY <1>1, <1>2 DEF HandlerWorks

(* The gateway, action by action.                                           *)
LEMMA GatewayStaysReady ==
  ASSUME TypeOK, GatewayPlaces, ServiceReady, GatewayReady,
         http \in {"new", "body"} => handler = "none",
         HTTPClient \/ HTTPHandler \/ Sender
  PROVE  /\ ServiceReady' /\ GatewayReady'
         /\ http' \in {"new", "body"} => handler' = "none"
<1> DEFINE Goal == /\ ServiceReady' /\ GatewayReady'
                   /\ http' \in {"new", "body"} => handler' = "none"
<1> USE DEF GatewayPlaces, ServiceReady, GatewayReady, Finish, Goto, streamVars,
            bodyVars, Open, CloseSend, Send, Recv
<1>1. ASSUME HTTPClient PROVE Goal
  BY <1>1 DEF HTTPClient, BodyItem, BodyEnd, Leave
<1>2. ASSUME NEW k \in Kinds, Route(k) PROVE Goal
  <2>1. http = "new" /\ sender = "none" /\ ~gone /\ gone' = gone
    BY <1>2 DEF Route
  <2>2. CASE k \in {"post", "get", "list"}
    BY <1>2, <2>1, <2>2 DEF Route
  <2>3. CASE k = "batch"
    BY <1>2, <2>1, <2>3 DEF Route, Kinds
  <2>4. CASE k = "bidi"
    BY <1>2, <2>1, <2>4 DEF Route, Kinds
  <2> QED
    BY <2>2, <2>3, <2>4 DEF Kinds
<1>3. ASSUME RouteFails PROVE Goal
  BY <1>3 DEF RouteFails
<1>4. ASSUME CallPost PROVE Goal
  BY <1>4 DEF CallPost, Kinds
<1>5. ASSUME CallGet PROVE Goal
  BY <1>5 DEF CallGet, Kinds
<1>6. ASSUME CallList PROVE Goal
  BY <1>6 DEF CallList, Kinds
<1>7. ASSUME Refuse PROVE Goal
  BY <1>7 DEF Refuse
<1>8. ASSUME Decode PROVE Goal
  BY <1>8 DEF Decode
<1>9. ASSUME SendItem PROVE Goal
  BY <1>9 DEF SendItem
<1>10. ASSUME CloseItems PROVE Goal
  BY <1>10 DEF CloseItems
<1>11. ASSUME AwaitHeader PROVE Goal
  BY <1>11 DEF AwaitHeader
<1>12. ASSUME Forward PROVE Goal
  BY <1>12 DEF Forward
<1>13. ASSUME Sender PROVE Goal
  BY <1>13 DEF Sender, SenderDecode, SenderSend, SenderClose
<1> QED
  BY <1>1, <1>2, <1>3, <1>4, <1>5, <1>6, <1>7, <1>8, <1>9, <1>10, <1>11, <1>12,
     <1>13 DEF HTTPHandler

(* The client, action by action.                                            *)
LEMMA ClientStaysReady ==
  ASSUME TypeOK, ClientPlaces, ServiceReady, ClientReady, ClientMain \/ Receiver
  PROVE  ServiceReady' /\ ClientReady'
<1> USE DEF ClientPlaces, ServiceReady, ClientReady, streamVars, Open, CloseSend,
            Send, Recv
<1>1. ASSUME Demonstrate PROVE ServiceReady' /\ ClientReady'
  <2> DEFINE k == Script[demo + 1]
  <2>1. CASE UNCHANGED <<main, receiver, streamVars>>
    BY <2>1
  <2>2. CASE k \in {"post", "get", "list"} /\ Open(k) /\ main' = "recv" /\ UNCHANGED receiver
    <3>1. <<1>> # <<>>
      OBVIOUS
    <3> HIDE DEF k
    <3> QED
      BY <2>2, <3>1 DEF Kinds
  <2>3. CASE k \in {"batch", "bidi"} /\ Open(k) /\ main' = "send"
               /\ (k = "bidi" => receiver' = "recv")
    <3> HIDE DEF k
    <3> QED
      BY <2>3 DEF Kinds
  <2> QED
    BY <1>1, <2>1, <2>2, <2>3 DEF Demonstrate
<1>2. ASSUME DemonstrationsEnd \/ SendNext \/ AllSent
      PROVE  ServiceReady' /\ ClientReady'
  BY <1>2 DEF DemonstrationsEnd, SendNext, AllSent
<1>3. ASSUME CloseSending \/ Receive \/ Await
      PROVE  ServiceReady' /\ ClientReady'
  BY <1>3 DEF CloseSending, Receive, Await
<1>4. ASSUME Receiver PROVE ServiceReady' /\ ClientReady'
  BY <1>4 DEF Receiver
<1> QED
  BY <1>1, <1>2, <1>3, <1>4 DEF ClientMain

(* Every step keeps all of it.                                              *)
LEMMA ReadyHolds ==
  ASSUME FrontEndsInv, Ready, [Next]_vars
  PROVE  Ready'
<1>1. TypeOK /\ Places
  BY DEF FrontEndsInv
<1>2. ASSUME GatewayStep(HTTPClient \/ HTTPHandler \/ Sender) PROVE Ready'
  <2>1. /\ ServiceReady' /\ GatewayReady'
        /\ http' \in {"new", "body"} => handler' = "none"
    BY <1>1, <1>2, GatewayStaysReady DEF GatewayStep, Places, Ready
  <2>2. main = "next" /\ main' = main
    BY <1>1, <1>2 DEF GatewayStep, Places, clientVars
  <2> QED
    BY <2>1, <2>2 DEF Ready, ClientReady
<1>3. ASSUME ClientStep(ClientMain \/ Receiver) PROVE Ready'
  <2>1. ServiceReady' /\ ClientReady'
    BY <1>1, <1>3, ClientStaysReady DEF Places, Ready, ClientStep
  <2>2. /\ program' = "client" /\ http = "new" /\ http' = http
        /\ sender = "none" /\ sender' = sender /\ ~gone /\ gone' = gone
    BY <1>1, <1>3 DEF ClientStep, Places, GatewayPlaces, Ready, GatewayReady,
                      gatewayVars, bodyVars
  <2> QED
    BY <2>1, <2>2 DEF Ready, GatewayReady
<1>4. ASSUME HandlerStep(HandlerWorks \/ HandlerFails) PROVE Ready'
  <2>1. ServiceReady'
    BY <1>1, <1>4, ServiceStaysReady DEF HandlerStep, Ready
  <2> QED
    BY <1>4, <2>1, HandlerMoves
       DEF HandlerStep, Ready, GatewayReady, ClientReady, gatewayVars, bodyVars, clientVars
<1>5. ASSUME UNCHANGED vars PROVE Ready'
  BY <1>5 DEF vars, streamVars, gatewayVars, bodyVars, clientVars, Ready, ServiceReady,
              GatewayReady, ClientReady
<1> QED
  BY <1>2, <1>3, <1>4, <1>5 DEF Next

(* A handler whose stream is closed, or has a message under way, goes on if *)
(* there is room for its answer.                                            *)
LEMMA ServiceServes ==
  ASSUME TypeOK, Ready, handler # "none", ~IsOver, down = <<>>, closed \/ up # <<>>
  PROVE  ServiceGoesOn
<1>1. handler \in {"recv", "send"} /\ kind \in Kinds
  BY DEF TypeOK, StreamTypeOK, IsOver, Ready, ServiceReady
<1>2. Len(down) < Window
  BY WindowAssumption
<1> QED
  BY <1>1, <1>2 DEF Ready, ServiceReady, ServiceGoesOn, Kinds

(* So does one whose client waits for its window, as it has not been told   *)
(* that there will be no more.                                              *)
LEMMA ServiceReads ==
  ASSUME TypeOK, Ready, handler # "none", ~IsOver, ~(Len(up) < Window),
         kind = "batch" /\ ~closed
  PROVE  ServiceGoesOn
<1>1. handler \in {"recv", "send"}
  BY DEF TypeOK, StreamTypeOK, IsOver
<1>2. up # <<>>
  BY WindowAssumption
<1> QED
  BY <1>1, <1>2 DEF Ready, ServiceReady, ServiceGoesOn

(* So there is no standstill.                                               *)
LEMMA ReadyGoesOn ==
  ASSUME FrontEndsInv, Ready
  PROVE  NoStandstill
<1>1. TypeOK /\ Places
  BY DEF FrontEndsInv
<1>2. Window > 0 /\ Len(<<>>) = 0
  BY WindowAssumption
<1>3. CASE program = "gateway" /\ http \notin {"new", "over"} /\ (ended \/ gone)
  <2>1. CASE http \in {"body", "decode", "close"}
    BY <1>3, <2>1 DEF NoStandstill, HTTPGoesOn
  <2>2. CASE http = "send"
    BY <1>1, <1>3, <2>2, ServiceReads
       DEF NoStandstill, HTTPGoesOn, Ready, GatewayReady, Places, GatewayPlaces
  <2>3. CASE http \in {"header", "recv"}
    <3>1. handler # "none" /\ kind \in Kinds
      BY <2>3 DEF Ready, GatewayReady, ServiceReady
    <3>2. CASE HeaderIsThere
      BY <1>3, <2>3, <3>2 DEF NoStandstill, HTTPGoesOn
    <3>3. CASE ~HeaderIsThere /\ (closed \/ up # <<>>)
      BY <1>1, <1>3, <2>3, <3>1, <3>3, ServiceServes DEF NoStandstill, HeaderIsThere
    <3>4. CASE ~HeaderIsThere /\ ~closed /\ up = <<>>
      <4>1. handler \in {"recv", "send"} /\ down = <<>> /\ Len(down) < Window
        BY <1>1, <1>2, <3>1, <3>4
           DEF HeaderIsThere, IsOver, TypeOK, StreamTypeOK
      <4>2. CASE handler = "send"
        BY <1>3, <2>3, <4>1, <4>2 DEF NoStandstill, ServiceGoesOn
      <4>3. CASE handler = "recv"
        <5>1. sender \notin {"none", "ended"}
          BY <2>3, <3>1, <3>4, <4>3 DEF Ready, GatewayReady, ServiceReady, Kinds
        <5>2. SenderGoesOn
          BY <1>1, <1>2, <1>3, <3>4, <5>1 DEF SenderGoesOn, TypeOK, GatewayTypeOK
        <5> QED
          BY <1>3, <2>3, <5>2 DEF NoStandstill
      <4> QED
        BY <4>1, <4>2, <4>3
    <3> QED
      BY <3>2, <3>3, <3>4
  <2> QED
    BY <1>1, <1>3, <2>1, <2>2, <2>3 DEF TypeOK, GatewayTypeOK
<1>4. CASE http = "over"
  <2>1. sender \in {"none", "ended"} \/ SenderGoesOn
    BY <1>1, <1>4
       DEF Places, GatewayPlaces, TypeOK, GatewayTypeOK, SenderGoesOn, IsOver
  <2> QED
    BY <1>1, <1>4, <2>1 DEF Places, NoStandstill
<1>5. CASE program = "client" /\ main # "ended"
  <2>1. http = "new"
    BY <1>1, <1>5 DEF Places
  <2>2. CASE main = "send"
    <3>1. CASE Len(up) < Window \/ IsOver
      BY <1>5, <2>1, <2>2, <3>1 DEF NoStandstill, MainGoesOn
    <3>2. CASE ~(Len(up) < Window) /\ ~IsOver
      <4>1. handler \in {"recv", "send"} /\ up # <<>>
        BY <1>1, <1>2, <2>2, <3>2
           DEF IsOver, TypeOK, StreamTypeOK, Ready, ClientReady
      <4>2. CASE handler = "recv" \/ down = <<>>
        BY <1>2, <1>5, <2>1, <4>1, <4>2 DEF NoStandstill, ServiceGoesOn
      <4>3. CASE handler = "send" /\ down # <<>>
        BY <1>1, <1>5, <2>1, <2>2, <3>2, <4>3
           DEF NoStandstill, ReceiverGoesOn, HeaderIsThere, Ready, ServiceReady,
               ClientReady, Places, ClientPlaces, TypeOK, ClientTypeOK
      <4> QED
        BY <4>1, <4>2, <4>3
    <3> QED
      BY <3>1, <3>2
  <2>3. CASE main \in {"recv", "await"}
    <3>1. handler # "none"
      BY <2>3 DEF Ready, ClientReady
    <3>2. CASE HeaderIsThere
      BY <1>1, <1>5, <2>1, <2>3, <3>2
         DEF NoStandstill, MainGoesOn, ReceiverGoesOn, Ready, ClientReady, TypeOK,
             ClientTypeOK
    <3>3. CASE ~HeaderIsThere
      <4>1. closed \/ up # <<>> \/ handler = "send"
        BY <1>1, <2>3, <3>1, <3>3
           DEF HeaderIsThere, IsOver, TypeOK, StreamTypeOK, Places, ClientPlaces,
               Ready, ServiceReady, ClientReady, Kinds
      <4>2. CASE closed \/ up # <<>>
        BY <1>1, <1>5, <2>1, <3>1, <3>3, <4>2, ServiceServes
           DEF NoStandstill, HeaderIsThere
      <4>3. CASE handler = "send"
        BY <1>2, <1>5, <2>1, <3>3, <4>3 DEF NoStandstill, HeaderIsThere, ServiceGoesOn
      <4> QED
        BY <4>1, <4>2, <4>3
    <3> QED
      BY <3>2, <3>3
  <2> QED
    BY <1>1, <1>5, <2>1, <2>2, <2>3
       DEF TypeOK, ClientTypeOK, NoStandstill, MainGoesOn
<1> QED
  BY <1>1, <1>3, <1>4, <1>5 DEF NoStandstill, TypeOK

(* Neither program and its service ever wait for each other, for windows    *)
(* and streams of any size.                                                 *)
THEOREM FrontEndsDoNotDeadlock == Spec => []NoStandstill
<1>1. Init => Ready
  BY DEF Init, StreamInit, GatewayInit, ClientInit, Ready, ServiceReady, GatewayReady,
         ClientReady
<1>2. FrontEndsInv /\ Ready => NoStandstill
  BY ReadyGoesOn
<1> QED
  BY <1>1, <1>2, FrontEndsInvariance, ReadyHolds, PTL DEF Spec
=============================================================================
