--------------------------- MODULE ProcessProofs ---------------------------
(***************************************************************************)
(* Theorems about the whole process, for any number of calls, with or      *)
(* without a database: it does nothing that Server.tla does not, and what  *)
(* calls use is open around them and closed behind them.                   *)
(***************************************************************************)
EXTENDS Process, ServerProofs, SequenceTheorems

(* The stages at which nothing has been served, and those at which the      *)
(* telemetry and the storage have been opened.                              *)
Before == Stages \ {"dial", "register", "up"}
WithTelemetry == Stages \ {"flags", "validated", "traces", "metrics"}
WithStorage == {"serve", "dial", "register", "up"}

Sequel ==
  /\ stage \in Before => grpc = "starting" /\ \A c \in Calls : pc[c] = "new"
  /\ stage # "up" => gateway = "starting" /\ main \in {"wait", "failed"}
  /\ stage \in {"flags", "traces", "metrics"} => deferred = <<>>
  /\ stage \in {"flags", "traces", "validated"} => open = {}
  /\ stage \in {"traces", "metrics"} => options.otel
  /\ stage = "metrics" =>
       /\ open \subseteq {"traces"}
       /\ main = "failed" => open = {}
       /\ main = "wait" => open = {"traces"}

OpenInv ==
  main \notin {"clean up", "exited", "failed"} =>
    /\ options.otel /\ stage \in WithTelemetry =>
         {"traces", "metrics"} \subseteq open
    /\ WithDatabase /\ stage \in WithStorage => "storage" \in open

(* What is open will be closed by a deferred call.                          *)
DeferInv ==
  /\ stage # "metrics" =>
       \A r \in open : \E i \in 1 .. Len(deferred) : r \in Closes(deferred[i])
  /\ main = "exited" => deferred = <<>>

StartInv ==
  StartTypeOK /\ Sequel /\ OpenInv /\ WhatCallsUseIsOpen /\ DeferInv

-----------------------------------------------------------------------------
(* A step of the start leaves the calls and the servers alone, and main     *)
(* waits or has failed.                                                     *)
LEMMA StartIsQuiet ==
  ASSUME Start \/ ValidateOnly \/ OpenDatabase
  PROVE  /\ UNCHANGED vars \/ Fatal
         /\ UNCHANGED <<pc, grpc, gateway>>
         /\ options' = options
         /\ main' \in {main, "failed"}
<1>1. UNCHANGED vars \/ Fatal
  BY DEF Start, ValidateOnly, OpenDatabase, Notify, SetUpTraces, SetUpMetrics,
         MakeInstruments, Listen, MakeMemoryStorage, GoServe, Dial,
         RegisterGateway, GoOn, OrFail
<1>2. CASE UNCHANGED vars
  BY <1>2 DEF vars, mainVars, callVars
<1>3. CASE Fatal
  BY <1>3 DEF Fatal, callVars
<1> QED
  BY <1>1, <1>2, <1>3

(* What a step of the process is. *)
LEMMA Steps ==
  ASSUME [ProcessNext]_processVars
  PROVE  \/ ~Ended /\ (Start \/ ValidateOnly \/ OpenDatabase)
         \/ ~Ended /\ (MainRuns \/ CleanUp)
         \/ ~Ended /\ (StartServing \/ StartGateway \/ ServerFails)
         \/ /\ ~Ended /\ Signal /\ UNCHANGED startVars
            /\ stage \notin {"flags", "validated"}
         \/ \E c \in Calls : /\ ~Ended /\ UNCHANGED startVars
                             /\ Intercept(c) \/ FromClient(c)
         \/ UNCHANGED vars /\ UNCHANGED startVars
<1>1. ASSUME NEW c \in Calls, Passes(c) PROVE Intercept(c)
  BY <1>1 DEF Passes, Check, EndSpan, Intercept
<1>2. ASSUME NEW c \in Calls, Moves(c) PROVE FromClient(c)
  BY <1>2 DEF Moves, Come, Handled, FromClient
<1>3. CASE UNCHANGED processVars
  BY <1>3 DEF processVars
<1>4. CASE ProcessNext
  BY <1>1, <1>2, <1>4
     DEF ProcessNext, Starts, Serves, Alone, Intercepts, Done, processVars
<1> QED
  BY <1>3, <1>4

(* Every step of the process is one of the server, or none.                 *)
LEMMA StepRefines ==
  ASSUME [ProcessNext]_processVars
  PROVE  [Next]_vars
<1>1. CASE ~Ended /\ (Start \/ ValidateOnly \/ OpenDatabase)
  BY <1>1, StartIsQuiet DEF Next
<1>2. CASE ~Ended /\ (MainRuns \/ CleanUp)
  BY <1>2 DEF MainRuns, CleanUp, Next
<1>3. CASE ~Ended /\ (StartServing \/ StartGateway \/ ServerFails)
  BY <1>3 DEF StartServing, StartGateway, ServerFails, Next
<1>4. CASE ~Ended /\ Signal
  BY <1>4 DEF Next
<1>5. CASE \E c \in Calls : ~Ended /\ (Intercept(c) \/ FromClient(c))
  BY <1>5 DEF Next
<1> QED
  BY <1>1, <1>2, <1>3, <1>4, <1>5, Steps

-----------------------------------------------------------------------------
(* One deferred call more, *)
LEMMA Pushed ==
  ASSUME deferred \in Seq(Deferrable), NEW call \in Deferrable, Defer(call)
  PROVE  /\ deferred' \in Seq(Deferrable)
         /\ Len(deferred') = Len(deferred) + 1
         /\ deferred'[1] = call
         /\ \A i \in 1 .. Len(deferred) : deferred'[i + 1] = deferred[i]
BY DEF Defer

(* and so what is opened with it is going to be closed.                     *)
LEMMA PushedCovers ==
  ASSUME deferred \in Seq(Deferrable), NEW call \in Deferrable, Defer(call),
         NEW r, r \in Closes(call) \/
                  \E i \in 1 .. Len(deferred) : r \in Closes(deferred[i])
  PROVE  \E i \in 1 .. Len(deferred') : r \in Closes(deferred'[i])
<1>1. Len(deferred) \in Nat
  OBVIOUS
<1>2. CASE r \in Closes(call)
  <2>1. 1 \in 1 .. Len(deferred') /\ r \in Closes(deferred'[1])
    BY <1>1, <1>2, Pushed
  <2> QED
    BY <2>1
<1>3. ASSUME NEW i \in 1 .. Len(deferred), r \in Closes(deferred[i])
      PROVE  \E j \in 1 .. Len(deferred') : r \in Closes(deferred'[j])
  <2>1. i + 1 \in 1 .. Len(deferred') /\ r \in Closes(deferred'[i + 1])
    BY <1>1, <1>3, Pushed
  <2> QED
    BY <2>1
<1> QED
  BY <1>2, <1>3

-----------------------------------------------------------------------------
(* The process starts with nothing open. *)
LEMMA InitStartInv == ProcessInit => StartInv
<1> SUFFICES ASSUME ProcessInit PROVE StartInv
  OBVIOUS
<1>1. /\ stage = "flags" /\ deferred = <<>> /\ open = {} /\ main = "wait"
      /\ grpc = "starting" /\ gateway = "starting"
      /\ \A c \in Calls : pc[c] = "new"
  BY DEF ProcessInit, Init, StartInit
<1>2. StartTypeOK
  BY <1>1 DEF StartTypeOK, Stages
<1>3. Sequel
  BY <1>1 DEF Sequel
<1>4. OpenInv /\ DeferInv
  BY <1>1 DEF OpenInv, DeferInv, WithTelemetry, WithStorage, Stages
<1>5. WhatCallsUseIsOpen
  BY <1>1 DEF WhatCallsUseIsOpen, InRPC
<1> QED
  BY <1>2, <1>3, <1>4, <1>5 DEF StartInv

(* No call is in RPC before the gRPC server has been started. *)
LEMMA NobodyBefore ==
  ASSUME Sequel, stage \in Before
  PROVE  ~\E c \in Calls : InRPC(c)
BY DEF Sequel, InRPC

(* A stage of the start that changes nothing but what comes next. *)
LEMMA QuietStart ==
  ASSUME StartInv, ~Ended,
         ValidateOnly \/ Notify \/ MakeInstruments \/ Listen
           \/ MakeMemoryStorage \/ GoServe \/ RegisterGateway
  PROVE  StartInv'
<1>1. /\ UNCHANGED <<pc, grpc, gateway>> /\ options' = options
      /\ main' \in {main, "failed"}
  BY StartIsQuiet DEF Start
<1>2. UNCHANGED <<deferred, open>>
  BY DEF ValidateOnly, Notify, MakeInstruments, Listen, MakeMemoryStorage, GoServe,
         RegisterGateway, GoOn, OrFail, startVars
<1>3. \/ stage' = stage /\ main' = "failed" /\ stage \notin {"traces", "metrics"}
      \/ main' = main /\ stage = "flags"
         /\ stage' \in {"validated", IF options.otel THEN "traces" ELSE "listen"}
      \/ main' = main /\ <<stage, stage'>> \in
           {<<"instruments", "listen">>, <<"listen", "storage">>,
            <<"serve", "dial">>, <<"register", "up">>}
      \/ main' = main /\ ~WithDatabase /\ stage = "storage" /\ stage' = "serve"
  BY DEF ValidateOnly, Notify, MakeInstruments, Listen, MakeMemoryStorage, GoServe,
         RegisterGateway, GoOn, OrFail, startVars, Fatal, vars, mainVars
<1>4. main \notin {"exited", "failed"}
  BY DEF Ended
<1>5. StartTypeOK' /\ stage \in Stages
  BY <1>2, <1>3 DEF StartInv, StartTypeOK, Stages
<1>6. Sequel'
  BY <1>1, <1>2, <1>3, <1>4, <1>5 DEF StartInv, Sequel, Before, Stages
<1>7. OpenInv'
  BY <1>1, <1>2, <1>3, <1>4, <1>5
     DEF StartInv, OpenInv, WithTelemetry, WithStorage, Stages, Sequel
<1>8. WhatCallsUseIsOpen'
  BY <1>1, <1>2 DEF StartInv, WhatCallsUseIsOpen, InRPC
<1>9. DeferInv'
  BY <1>1, <1>2, <1>3, <1>4 DEF StartInv, DeferInv
<1> QED
  BY <1>5, <1>6, <1>7, <1>8, <1>9 DEF StartInv

(* The telemetry is set up wholly or not at all. *)
LEMMA TelemetryStart ==
  ASSUME StartInv, ~Ended, SetUpTraces \/ SetUpMetrics
  PROVE  StartInv'
<1>1. /\ UNCHANGED <<pc, grpc, gateway>> /\ options' = options
      /\ main' \in {main, "failed"}
  BY StartIsQuiet DEF Start
<1>2. main \notin {"exited", "failed"}
  BY DEF Ended
<1>3. /\ stage \in {"traces", "metrics"} /\ deferred = <<>>
      /\ grpc = "starting" /\ \A c \in Calls : pc[c] = "new"
      /\ gateway = "starting" /\ main = "wait"
  BY <1>2 DEF SetUpTraces, SetUpMetrics, StartInv, Sequel, Before, Stages
<1>4. CASE SetUpTraces
  <2>1. open = {} /\ options.otel
    BY <1>3, <1>4 DEF StartInv, Sequel, SetUpTraces
  <2>2. \/ stage' = "metrics" /\ open' = {"traces"} /\ main' = main
        \/ stage' = "traces" /\ open' = {} /\ main' = "failed"
    BY <1>4, <2>1 DEF SetUpTraces, GoOn, OrFail, Fatal, startVars, vars, mainVars
  <2>3. deferred' = <<>>
    BY <1>3, <1>4 DEF SetUpTraces, OrFail, startVars
  <2> QED
    BY <1>1, <1>3, <2>1, <2>2, <2>3
       DEF StartInv, StartTypeOK, Sequel, OpenInv, WhatCallsUseIsOpen, DeferInv,
           Stages, Before, WithTelemetry, WithStorage, InRPC
<1>5. CASE SetUpMetrics
  <2>1. open = {"traces"} /\ options.otel
    BY <1>3, <1>5 DEF StartInv, Sequel, SetUpMetrics
  <2>2. CASE stage' = "instruments"
    <3>1. /\ main' = main /\ Defer("telemetry")
          /\ open' = {"traces", "metrics"}
      BY <1>3, <1>5, <2>1, <2>2 DEF SetUpMetrics, GoOn, vars, mainVars
    <3>2. deferred' = <<"telemetry">>
      BY <1>3, <3>1 DEF Defer
    <3>3. \A r \in open' : \E i \in 1 .. Len(deferred') : r \in Closes(deferred'[i])
      <4>1. 1 \in 1 .. Len(deferred') /\ open' \subseteq Closes(deferred'[1])
        BY <3>1, <3>2 DEF Closes
      <4> QED
        BY <4>1
    <3>4. deferred' \in Seq(Deferrable)
      BY <3>2 DEF Deferrable
    <3> QED
      BY <1>1, <1>3, <2>1, <2>2, <3>1, <3>3, <3>4
         DEF StartInv, StartTypeOK, Sequel, OpenInv, WhatCallsUseIsOpen, DeferInv,
             Stages, Before, WithTelemetry, WithStorage, InRPC
  <2>3. CASE stage' # "instruments"
    <3>1. /\ main' = "failed" /\ stage' = "metrics" /\ open' = {}
          /\ deferred' = deferred
      BY <1>3, <1>5, <2>1, <2>3 DEF SetUpMetrics, GoOn, Fatal
    <3> QED
      BY <1>1, <1>3, <2>1, <3>1
         DEF StartInv, StartTypeOK, Sequel, OpenInv, WhatCallsUseIsOpen, DeferInv,
             Stages, Before, WithTelemetry, WithStorage, InRPC
  <2> QED
    BY <2>2, <2>3
<1> QED
  BY <1>4, <1>5

(* The storage and the connection are opened with the calls that close them. *)
LEMMA DeferringStart ==
  ASSUME StartInv, ~Ended, OpenDatabase \/ Dial
  PROVE  StartInv'
<1>1. /\ UNCHANGED <<pc, grpc, gateway>> /\ options' = options
      /\ main' \in {main, "failed"}
  BY StartIsQuiet DEF Start
<1>2. main \notin {"exited", "failed"} /\ stage \in {"storage", "dial"}
  BY DEF Ended, OpenDatabase, Dial
<1>3. CASE OrFail
  <2>1. main' = "failed" /\ UNCHANGED <<stage, deferred, open>>
    BY <1>3 DEF OrFail, Fatal, startVars
  <2> QED
    BY <1>1, <1>2, <2>1
       DEF StartInv, StartTypeOK, Sequel, OpenInv, WhatCallsUseIsOpen, DeferInv, InRPC
<1>4. CASE ~OrFail
  <2>1. PICK call \in {"storage", "connection"} :
          /\ Defer(call) /\ open' = open \cup {call}
          /\ call = "storage" => stage = "storage" /\ stage' = "serve"
          /\ call = "connection" => stage = "dial" /\ stage' = "register"
    BY <1>4 DEF OpenDatabase, Dial, GoOn
  <2>2. main' = main
    BY <1>4 DEF OpenDatabase, Dial, GoOn, vars, mainVars
  <2>3. call \in Deferrable /\ deferred \in Seq(Deferrable)
    BY DEF Deferrable, StartInv, StartTypeOK
  <2>4. StartTypeOK'
    BY <2>1, <2>3, Pushed DEF StartInv, StartTypeOK, Stages
  <2>5. DeferInv'
    <3>1. ASSUME NEW r \in open'
          PROVE  \E i \in 1 .. Len(deferred') : r \in Closes(deferred'[i])
      <4>1. r \in Closes(call) \/ r \in open
        BY <2>1, <3>1 DEF Closes
      <4>2. \/ r \in Closes(call)
            \/ \E i \in 1 .. Len(deferred) : r \in Closes(deferred[i])
        BY <1>2, <4>1 DEF StartInv, DeferInv
      <4> QED
        BY <2>1, <2>3, <4>2, PushedCovers
    <3> QED
      BY <1>2, <2>2, <3>1 DEF DeferInv
  <2>6. Sequel' /\ OpenInv' /\ WhatCallsUseIsOpen'
    BY <1>1, <1>2, <2>1, <2>2
       DEF StartInv, Sequel, OpenInv, WhatCallsUseIsOpen, Stages, Before,
           WithTelemetry, WithStorage, InRPC
  <2> QED
    BY <2>4, <2>5, <2>6 DEF StartInv
<1> QED
  BY <1>3, <1>4

(* A deferred call closes what it covers, once nobody uses it any more.     *)
LEMMA CleaningUp ==
  ASSUME ServerInv, StartInv, CleanUp
  PROVE  StartInv'
<1>1. /\ main = "clean up" /\ deferred # <<>> /\ UNCHANGED <<vars, stage>>
      /\ open' = open \ Closes(Head(deferred)) /\ deferred' = Tail(deferred)
  BY DEF CleanUp
<1>2. /\ UNCHANGED <<pc, grpc, gateway, main>> /\ options' = options
      /\ stage' = stage
  BY <1>1 DEF vars, mainVars, callVars
<1>3. deferred \in Seq(Deferrable) /\ stage = "up"
  BY <1>1 DEF StartInv, StartTypeOK, Sequel, Stages
<1>4. /\ deferred' \in Seq(Deferrable) /\ Len(deferred') = Len(deferred) - 1
      /\ \A i \in 1 .. Len(deferred') : deferred'[i] = deferred[i + 1]
      /\ Len(deferred) \in Nat /\ Head(deferred) = deferred[1]
  <2>1. deferred' \in Seq(Deferrable) /\ Len(deferred') = Len(deferred) - 1
    BY <1>1, <1>3, HeadTailProperties
  <2>2. \A i \in 1 .. Len(deferred') : deferred'[i] = deferred[i + 1]
    BY <1>1, <1>3, HeadTailProperties
  <2>3. Len(deferred) \in Nat
    BY <1>3
  <2>4. Head(deferred) = deferred[1]
    OBVIOUS
  <2> QED
    BY <2>1, <2>2, <2>3, <2>4
<1>5. ASSUME NEW r \in open'
      PROVE  \E i \in 1 .. Len(deferred') : r \in Closes(deferred'[i])
  <2>1. PICK i \in 1 .. Len(deferred) : r \in Closes(deferred[i])
    BY <1>1, <1>3, <1>5 DEF StartInv, DeferInv
  <2>2. i # 1
    BY <1>1, <1>4, <1>5, <2>1
  <2>3. i - 1 \in 1 .. Len(deferred') /\ deferred'[i - 1] = deferred[(i - 1) + 1]
    BY <1>4, <2>1, <2>2
  <2>4. r \in Closes(deferred'[i - 1])
    BY <2>1, <2>3
  <2> QED
    BY <2>3, <2>4
<1>6. ~\E c \in Calls : InRPC(c)
  BY <1>1 DEF ServerInv, Order
<1>7. StartTypeOK'
  BY <1>1, <1>2, <1>4 DEF StartInv, StartTypeOK
<1>8. Sequel' /\ OpenInv'
  BY <1>1, <1>2, <1>3 DEF StartInv, Sequel, OpenInv, Before, Stages
<1>9. WhatCallsUseIsOpen'
  BY <1>2, <1>6 DEF WhatCallsUseIsOpen, InRPC
<1>10. DeferInv'
  BY <1>1, <1>2, <1>5 DEF DeferInv
<1> QED
  BY <1>7, <1>8, <1>9, <1>10 DEF StartInv

(* What the servers do, and main once they are up, leaves open what is open. *)
LEMMA Running ==
  ASSUME StartInv, ~Ended, UNCHANGED startVars,
         \/ MainRuns \/ StartServing \/ StartGateway \/ ServerFails \/ Signal
  PROVE  StartInv'
<1>1. UNCHANGED <<stage, deferred, open>>
  BY DEF startVars
<1>2. UNCHANGED <<pc, options>>
  BY MainStep DEF MainRuns, StartServing, StartGateway, ServerFails, callVars
<1>3. main \notin {"exited", "failed"}
  BY DEF Ended
<1>4. CASE MainRuns
  <2>1. stage = "up" /\ (main' = "exited" => main = "clean up" /\ deferred = <<>>)
    BY <1>4 DEF MainRuns, Leaves, Main, TakeSignal, PrintStats, ShutdownGateway,
                GatewayIdle, GiveUp, GracefulStop, CallsOver, Exit
  <2>2. main' \notin {"clean up", "exited", "failed"} => main # "clean up"
    BY <1>4 DEF MainRuns, Main, TakeSignal, PrintStats, ShutdownGateway,
                GatewayIdle, GiveUp, GracefulStop, CallsOver, Exit
  <2> QED
    BY <1>1, <1>2, <1>3, <2>1, <2>2
       DEF StartInv, StartTypeOK, Sequel, OpenInv, WhatCallsUseIsOpen, DeferInv,
           InRPC, Before
<1>5. CASE StartServing \/ StartGateway
  <2>1. /\ main' = main
        /\ stage \in {"dial", "register", "up"}
        /\ stage # "up" => gateway' = gateway
    BY <1>5 DEF StartServing, StartGateway, MayServe, ServeGRPC, ServeGateway
  <2> QED
    BY <1>1, <1>2, <1>3, <2>1
       DEF StartInv, StartTypeOK, Sequel, OpenInv, WhatCallsUseIsOpen, DeferInv,
           InRPC, Before
<1>6. CASE ServerFails \/ Signal
  <2>1. /\ UNCHANGED <<grpc, gateway>>
        /\ \/ main' = main
           \/ main' = "failed" /\ stage \in {"dial", "register", "up"}
    <3>1. CASE ServerFails
      BY <3>1 DEF ServerFails, MayServe, Fatal
    <3>2. CASE Signal
      BY <3>2 DEF Signal
    <3> QED
      BY <1>6, <3>1, <3>2
  <2> QED
    BY <1>1, <1>2, <1>3, <2>1
       DEF StartInv, StartTypeOK, Sequel, OpenInv, WhatCallsUseIsOpen, DeferInv, InRPC
<1> QED
  BY <1>4, <1>5, <1>6

(* A call that moves finds open what it uses. *)
LEMMA CallMoves ==
  ASSUME ServerInv, StartInv, ~Ended, UNCHANGED startVars,
         NEW c \in Calls, Intercept(c) \/ FromClient(c)
  PROVE  StartInv'
<1>1. UNCHANGED <<stage, deferred, open>>
  BY DEF startVars
<1>2. UNCHANGED <<main, grpc, gateway>> /\ options' = options
  BY CallStep DEF mainVars
<1>3. pc' = [pc EXCEPT ![c] = pc'[c]] /\ pc = [d \in Calls |-> pc[d]]
  <2>1. pc = [d \in Calls |-> pc[d]]
    BY DEF ServerInv, TypeOK
  <2>2. \E label : pc' = [pc EXCEPT ![c] = label]
    BY DEF Intercept, FromClient, Forward, Authorize, Record, Count, Meter, Leave,
           Arrive, Request, HandlerEnds, Respond, Begin, Answer, Goto
  <2> QED
    BY <2>1, <2>2
<1>4. stage \notin Before
  <2> SUFFICES ASSUME stage \in Before PROVE FALSE
    OBVIOUS
  <2>1. pc[c] = "new" /\ grpc = "starting" /\ gateway = "starting"
    BY DEF StartInv, Sequel, Before
  <2> QED
    BY <2>1 DEF Intercept, FromClient, Forward, Authorize, Record, Count, Meter,
                Leave, Arrive, Request, HandlerEnds, Respond, Begin, At
<1>5. InRPC(c)' /\ ~InRPC(c) => grpc = "serving"
  BY <1>3 DEF Intercept, FromClient, Forward, Authorize, Record, Count, Meter, Leave,
              Arrive, Request, HandlerEnds, Respond, Begin, Answer, At, Goto, InRPC
<1>6. stage \in {"dial", "register", "up"}
  BY <1>4 DEF StartInv, StartTypeOK, Before
<1>7. WhatCallsUseIsOpen'
  <2> SUFFICES ASSUME NEW d \in Calls, InRPC(d)'
               PROVE  /\ WithDatabase => "storage" \in open
                      /\ options.otel => {"traces", "metrics"} \subseteq open
    BY <1>1, <1>2 DEF WhatCallsUseIsOpen
  <2>1. CASE \E e \in Calls : InRPC(e)
    BY <2>1 DEF StartInv, WhatCallsUseIsOpen
  <2>2. CASE ~\E e \in Calls : InRPC(e)
    <3>1. d = c
      BY <1>3, <2>2 DEF InRPC
    <3>2. grpc = "serving"
      BY <1>5, <2>2, <3>1
    <3>3. main \notin {"clean up", "exited", "failed"}
      BY <3>2 DEF ServerInv, Order, Ended
    <3> QED
      BY <1>6, <3>3 DEF StartInv, OpenInv, WithTelemetry, WithStorage, Stages
  <2> QED
    BY <2>1, <2>2
<1>8. StartTypeOK' /\ Sequel' /\ OpenInv' /\ DeferInv'
  BY <1>1, <1>2, <1>6
     DEF StartInv, StartTypeOK, Sequel, OpenInv, DeferInv, Before
<1> QED
  BY <1>7, <1>8 DEF StartInv

(* Every step keeps the invariant. *)
LEMMA StartInvNext ==
  ASSUME ServerInv, StartInv, [ProcessNext]_processVars
  PROVE  StartInv'
<1>1. CASE ~Ended /\ (Start \/ ValidateOnly \/ OpenDatabase)
  BY <1>1, QuietStart, TelemetryStart, DeferringStart DEF Start
<1>2. CASE ~Ended /\ (MainRuns \/ CleanUp)
  BY <1>2, Running, CleaningUp DEF MainRuns
<1>3. CASE ~Ended /\ (StartServing \/ StartGateway \/ ServerFails)
  BY <1>3, Running DEF StartServing, StartGateway, ServerFails
<1>4. CASE ~Ended /\ Signal /\ UNCHANGED startVars
  BY <1>4, Running
<1>5. CASE \E c \in Calls : /\ ~Ended /\ UNCHANGED startVars
                            /\ Intercept(c) \/ FromClient(c)
  BY <1>5, CallMoves
<1>6. CASE UNCHANGED vars /\ UNCHANGED startVars
  <2>1. UNCHANGED <<pc, grpc, gateway, main>> /\ options' = options
    BY <1>6 DEF vars, mainVars, callVars
  <2>2. UNCHANGED <<stage, deferred, open>>
    BY <1>6 DEF startVars
  <2> QED
    BY <2>1, <2>2
       DEF StartInv, StartTypeOK, Sequel, OpenInv, WhatCallsUseIsOpen, DeferInv, InRPC
<1> QED
  BY <1>1, <1>2, <1>3, <1>4, <1>5, <1>6, Steps

-----------------------------------------------------------------------------
(* The process implements the server of Server.tla: start-up, clean-up,     *)
(* tokens and contexts add steps that it does not see, and take some of its *)
(* steps away, but let it do nothing else. What ServerProofs says of the    *)
(* server therefore holds of the process.                                   *)
THEOREM ProcessImplementsServer == ProcessSpec => Init /\ [][Next]_vars
<1>1. ProcessInit => Init
  BY DEF ProcessInit
<1>2. [ProcessNext]_processVars => [Next]_vars
  BY StepRefines
<1> QED
  BY <1>1, <1>2, PTL DEF ProcessSpec

(* Both invariants hold in every state of the process. *)
LEMMA ProcessInvariance == ProcessSpec => [](ServerInv /\ StartInv)
<1>1. ProcessInit => ServerInv /\ StartInv
  BY InitInv, InitStartInv DEF ProcessInit
<1>2. ASSUME ServerInv, StartInv, [ProcessNext]_processVars
      PROVE  ServerInv' /\ StartInv'
  <2>1. [Next]_vars
    BY <1>2, StepRefines
  <2>2. ServerInv'
    BY <1>2, <2>1, TypeNext, OrderNext, LockNext, CountNext DEF ServerInv
  <2> QED
    BY <1>2, <2>2, StartInvNext
<1>3. (ServerInv /\ StartInv) /\ [ProcessNext]_processVars
        => (ServerInv /\ StartInv)'
  BY <1>2
<1> QED
  BY <1>1, <1>3, PTL DEF ProcessSpec

(* The storage and the telemetry are open whenever a call is anywhere       *)
(* between its arrival and its end (main.go:280, 354, 363, 470).            *)
THEOREM OpenForCalls == ProcessSpec => []WhatCallsUseIsOpen
<1>1. StartInv => WhatCallsUseIsOpen
  BY DEF StartInv
<1> QED
  BY <1>1, ProcessInvariance, PTL

(* A process that ends of itself has closed all it opened, however far its  *)
(* start had come, and so has a telemetry that came up by half              *)
(* (otel/setup.go:62, main.go:280, 354, 391).                               *)
THEOREM AllIsClosed == ProcessSpec => []NothingStaysOpen
<1>1. StartInv => NothingStaysOpen
  <2> SUFFICES ASSUME StartInv PROVE NothingStaysOpen
    OBVIOUS
  <2>1. CASE main = "exited"
    <3>1. stage = "up" /\ deferred = <<>>
      BY <2>1 DEF StartInv, Sequel, DeferInv
    <3>2. open = {}
      BY <3>1 DEF StartInv, DeferInv
    <3> QED
      BY <3>2 DEF NothingStaysOpen
  <2>2. CASE main # "exited"
    BY <2>2 DEF StartInv, Sequel, NothingStaysOpen
  <2> QED
    BY <2>1, <2>2
<1> QED
  BY <1>1, ProcessInvariance, PTL

(* What ServerProofs shows of the server holds of the process: calls finish *)
(* and requests are answered before it ends, each call is counted once, and *)
(* the gauge is right (main.go:465, 470, metrics.go:77-90,                  *)
(* otel_interceptors.go:240-241).                                           *)
THEOREM ProcessServes ==
  ProcessSpec => []( /\ NobodyIsCutOff
                     /\ RequestsAreAnswered
                     /\ EveryCallIsCounted
                     /\ ActiveRequestsAreActive )
<1>1. ServerInv => /\ NobodyIsCutOff
                   /\ RequestsAreAnswered
                   /\ EveryCallIsCounted
                   /\ ActiveRequestsAreActive
  BY DEF ServerInv, Order, NobodyIsCutOff, RequestsAreAnswered
<1> QED
  BY <1>1, ProcessInvariance, PTL

(* Whatever a signal or a failure meets, the process is stuck in nothing of *)
(* its own: who holds the lock of the metrics gives it back, and who main   *)
(* waits for is in a handler or can go on (metrics.go:78-92,                *)
(* main.go:450-470).                                                        *)
THEOREM TheEndIsNotBlocked == ProcessSpec => []OnlyHandlersHoldUpTheEnd
<1>1. ASSUME ServerInv, ~Done, signalled \/ main # "wait",
             \A c \in Calls : ~At(c, "handler"), ~MainGoesOn
      PROVE  \E c \in Calls : CallGoesOn(c)
  <2>1. TypeOK /\ Lock
    BY <1>1 DEF ServerInv
  <2>2. CASE mu # Nil
    <3>1. mu \in Calls /\ CallGoesOn(mu)
      BY <2>1, <2>2 DEF TypeOK, Lock, CallGoesOn
    <3> QED
      BY <3>1
  <2>3. CASE mu = Nil
    <3>1. main = "await calls" /\ \E c \in Calls : InRPC(c)
      BY <1>1, <2>1, <2>3 DEF TypeOK, MainGoesOn, Done, Ended
    <3>2. PICK c \in Calls : InRPC(c)
      BY <3>1
    <3> QED
      BY <1>1, <2>3, <3>2 DEF InRPC, CallGoesOn, At
  <2> QED
    BY <2>2, <2>3
<1>2. ServerInv => OnlyHandlersHoldUpTheEnd
  BY <1>1 DEF OnlyHandlersHoldUpTheEnd
<1> QED
  BY <1>2, ProcessInvariance, PTL

-----------------------------------------------------------------------------
(* Tokens and contexts keep their types, and no token is of a later moment. *)
AuthInv ==
  /\ TokensTypeOK
  /\ carried \in [Calls -> Token \cup {NoToken}]
  /\ claims \in [Calls -> Users \cup {Nil}]
  /\ admitted \in [Calls -> Users \cup {Nil}]
  /\ span \in [Calls -> Users \cup {Nil}]
  /\ token # NoToken => token.at <= now
  /\ \A c \in Calls : carried[c] # NoToken => carried[c].at <= now

(* A date loses less than a second. *)
LEMMA DateIsCut ==
  ASSUME NEW t \in Nat
  PROVE  /\ NumericDate(t) \in Int
         /\ NumericDate(t) <= t
         /\ t < NumericDate(t) + Second
<1>1. Second \in Nat /\ Second > 0
  BY SecondIsPositive
<1>2. t % Second \in 0 .. Second - 1
  BY <1>1
<1> QED
  BY <1>1, <1>2 DEF NumericDate

(* What a step does to the tokens and contexts. *)
LEMMA AuthSteps ==
  ASSUME [ProcessNext]_processVars
  PROVE  \/ UNCHANGED tokenVars /\ UNCHANGED authVars
         \/ (GenerateToken \/ RefreshToken \/ Tick) /\ UNCHANGED authVars
         \/ \E c \in Calls : /\ Come(c) \/ Check(c) \/ Handled(c) \/ EndSpan(c)
                             /\ UNCHANGED tokenVars
<1>1. CASE UNCHANGED processVars
  BY <1>1 DEF processVars
<1>2. CASE ProcessNext
  BY <1>2 DEF ProcessNext, Starts, Serves, Still, Intercepts, Passes, Moves,
              processVars
<1> QED
  BY <1>1, <1>2

(* At first no call has a token and no context claims.                      *)
LEMMA AuthInvInit == ProcessInit => AuthInv
BY DEF ProcessInit, TokensInit, AuthInv, TokensTypeOK

(* Every step keeps the types of tokens, claims and spans.                  *)
LEMMA AuthInvNext ==
  ASSUME AuthInv, [ProcessNext]_processVars
  PROVE  AuthInv'
<1> USE DEF AuthInv, TokensTypeOK
<1>1. CASE UNCHANGED tokenVars /\ UNCHANGED authVars
  BY <1>1 DEF tokenVars, authVars
<1>2. CASE (GenerateToken \/ RefreshToken \/ Tick) /\ UNCHANGED authVars
  <2>1. UNCHANGED <<carried, claims, admitted, span>>
    BY <1>2 DEF authVars
  <2>2. now' = now \/ now' = now + 1
    BY <1>2 DEF GenerateToken, RefreshToken, Tick
  <2>3. \/ token' = token
        \/ token' \in Token /\ token'.at = now
    <3>1. CASE GenerateToken
      BY <3>1 DEF GenerateToken, Token
    <3>2. CASE RefreshToken
      BY <3>2 DEF RefreshToken, Token
    <3>3. CASE Tick
      BY <3>3 DEF Tick
    <3> QED
      BY <1>2, <3>1, <3>2, <3>3
  <2>4. \A t \in Token : t.at \in Nat
    BY DEF Token
  <2> QED
    BY <2>1, <2>2, <2>3, <2>4
<1>3. ASSUME NEW c \in Calls, UNCHANGED tokenVars,
             Come(c) \/ Check(c) \/ Handled(c) \/ EndSpan(c)
      PROVE  AuthInv'
  <2>1. UNCHANGED <<now, token>>
    BY <1>3 DEF tokenVars
  <2>2. carried' \in {carried, [carried EXCEPT ![c] = token],
                      [carried EXCEPT ![c] = NoToken]}
    BY <1>3 DEF Come, Check, Handled, EndSpan
  <2>3. \E user \in Users \cup {Nil} :
           claims' \in {claims, [claims EXCEPT ![c] = user]}
    <3>1. Admissible(c) => carried[c].user \in Users
      BY DEF Admissible, Valid, Token
    <3> QED
      BY <1>3, <3>1 DEF Come, Check, Handled, EndSpan
  <2>4. \E user \in Users \cup {Nil} :
           admitted' \in {admitted, [admitted EXCEPT ![c] = user]}
    <3>1. Admissible(c) => carried[c].user \in Users
      BY DEF Admissible, Valid, Token
    <3> QED
      BY <1>3, <3>1 DEF Come, Check, Handled, EndSpan
  <2>5. span' \in {span, [span EXCEPT ![c] = claims[c]]}
    BY <1>3 DEF Come, Check, Handled, EndSpan, SpanUser
  <2>6. carried' \in [Calls -> Token \cup {NoToken}]
    BY <2>2
  <2>7. \A d \in Calls : carried'[d] # NoToken => carried'[d].at <= now
    BY <2>2
  <2> QED
    BY <2>1, <2>3, <2>4, <2>5, <2>6, <2>7
<1> QED
  BY <1>1, <1>2, <1>3, AuthSteps

(* So they are always kept.                                                 *)
LEMMA AuthInvariance == ProcessSpec => []AuthInv
<1>1. AuthInv /\ [ProcessNext]_processVars => AuthInv'
  BY AuthInvNext
<1> QED
  BY <1>1, AuthInvInit, PTL DEF ProcessSpec

(* Every variable keeps its type, whatever is opened, deferred and carried. *)
THEOREM ProcessTyping == ProcessSpec => []ProcessTypeOK
<1>1. ServerInv /\ StartInv /\ AuthInv => ProcessTypeOK
  BY DEF ServerInv, StartInv, AuthInv, ProcessTypeOK
<1> QED
  BY <1>1, ProcessInvariance, AuthInvariance, PTL

-----------------------------------------------------------------------------
(* A call leaves the JWT interceptor only by its check. *)
LEMMA OnlyTheCheck ==
  ASSUME ServerInv, StartInv, [ProcessNext]_processVars,
         NEW c \in Calls, At(c, "auth"), ~At(c, "auth")'
  PROVE  Check(c)
<1>1. pc' # pc /\ pc[c] = "auth" /\ pc'[c] # "auth"
  BY DEF At
<1>2. ~UNCHANGED processVars
  BY <1>1 DEF processVars, vars, callVars
<1>3. ~(Start \/ ValidateOnly \/ OpenDatabase)
  BY <1>1, StartIsQuiet
<1>4. ~(MainRuns \/ CleanUp \/ StartServing \/ StartGateway \/ ServerFails \/ Signal)
  BY <1>1, MainStep
     DEF MainRuns, CleanUp, StartServing, StartGateway, ServerFails, vars, callVars
<1>5. PICK d \in Calls : Passes(d) \/ Moves(d)
  BY <1>1, <1>2, <1>3, <1>4
     DEF ProcessNext, Starts, Serves, Alone, Intercepts, processVars, vars, callVars
<1>6. pc = [e \in Calls |-> pc[e]]
  BY DEF ServerInv, TypeOK
<1>7. \E label : pc' = [pc EXCEPT ![d] = label]
  BY <1>5
     DEF Passes, Moves, Check, EndSpan, Come, Handled, Forward, Authorize, Record,
         Count, Meter, Leave, Arrive, Request, HandlerEnds, Respond, Begin, Answer,
         Goto
<1>8. d = c
  BY <1>1, <1>6, <1>7
<1> QED
  BY <1>1, <1>5, <1>8
     DEF Passes, Moves, EndSpan, Come, Handled, Forward, Record, Count, Meter, Leave,
         Arrive, Request, HandlerEnds, Respond, Begin, At

(* Its time of issue and the time asked for are numbers.                    *)
LEMMA TokenTimes ==
  ASSUME NEW t \in Token
  PROVE  t.at \in Nat /\ t.for \in Nat /\ t.at + t.for \in Nat
<1>1. t.at \in Nat /\ t.for \in Durations
  BY DEF Token
<1>2. t.for \in Nat
  BY <1>1, DurationsAreNat
<1> QED
  BY <1>1, <1>2

(* A token is good until less than a second of the time it was asked for is *)
(* left, and never after, whatever the length of a second, the durations    *)
(* asked for and the delays between a call's arrival and its check          *)
(* (jwt.go:91-93).                                                          *)
THEOREM TokensAreGoodForTheirTime == ProcessSpec => TokensServeTheirTime
<1>1. ASSUME ServerInv, StartInv, AuthInv, [ProcessNext]_processVars,
             NEW c \in Calls, options.auth, At(c, "auth"), ~At(c, "auth")',
             carried[c] # NoToken, ValidMethod(c \in ListCalls, carried[c].user)
      PROVE  /\ At(c, "handler")' => now < carried[c].at + carried[c].for
             /\ now + Second <= carried[c].at + carried[c].for => At(c, "handler")'
  <2> DEFINE t == carried[c]
  <2>1. At(c, "handler")' <=> Valid(t)
    BY <1>1, OnlyTheCheck DEF Check, Admissible, At
  <2>2. t \in Token /\ t.at <= now /\ now \in Nat
    BY <1>1 DEF AuthInv, TokensTypeOK
  <2>3. t.at \in Nat /\ t.for \in Nat /\ t.at + t.for \in Nat
    BY <2>2, TokenTimes
  <2>4. NotBefore(t) <= t.at /\ NotBefore(t) \in Int
    BY <2>3, DateIsCut DEF NotBefore
  <2>5. /\ ExpiresAt(t) \in Int /\ ExpiresAt(t) <= t.at + t.for
        /\ t.at + t.for < ExpiresAt(t) + Second
    BY <2>3, DateIsCut DEF ExpiresAt
  <2>6. Valid(t) <=> now < ExpiresAt(t)
    BY <1>1, <2>2, <2>3, <2>4 DEF Valid
  <2>7. Second \in Nat
    BY SecondIsPositive
  <2>8. now < ExpiresAt(t) => now < t.at + t.for
    BY <2>2, <2>3, <2>5
  <2>9. now + Second <= t.at + t.for => now < ExpiresAt(t)
    BY <2>2, <2>3, <2>5, <2>7
  <2> QED
    BY <2>1, <2>6, <2>8, <2>9
<1> DEFINE Served ==
      \A c \in Calls :
        LET t == carried[c]
        IN  /\ options.auth /\ At(c, "auth") /\ ~At(c, "auth")' /\ t # NoToken
            /\ ValidMethod(c \in ListCalls, t.user)
            => /\ At(c, "handler")' => now < t.at + t.for
               /\ now + Second <= t.at + t.for => At(c, "handler")'
<1>2. (ServerInv /\ StartInv) /\ AuthInv /\ [ProcessNext]_processVars
        => [Served]_processVars
  BY <1>1
<1>3. TokensServeTheirTime <=> [][Served]_processVars
  BY DEF TokensServeTheirTime
<1> QED
  BY <1>2, <1>3, ProcessInvariance, AuthInvariance, PTL DEF ProcessSpec
=============================================================================
