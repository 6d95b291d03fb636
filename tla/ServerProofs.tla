---------------------------- MODULE ServerProofs ----------------------------
(***************************************************************************)
(* Theorems about the server process, for any number of calls: how it      *)
(* ends, and what it counts.                                               *)
(***************************************************************************)
EXTENDS Server, FiniteSetTheorems, TLAPS

(* Which server has stopped, and which calls are gone, by where main is.    *)
Order ==
  /\ main \in {"await calls", "clean up", "exited"} =>
       grpc \in {"stopped", "never served"}
  /\ grpc = "stopped" => main \in {"await calls", "clean up", "exited", "failed"}
  /\ main \in {"clean up", "exited"} => \A c \in Calls : ~InRPC(c)
  /\ main \in {"await gateway", "stop gRPC", "await calls", "clean up", "exited"} =>
       gateway = "closed"
  /\ main \in {"stop gRPC", "await calls", "clean up", "exited"} /\ ~late =>
       \A c \in Calls : ~InGateway(c)
  /\ \A c \in Calls : pc[c] \in {"request", "respond"} => c \in requests
  /\ late \/ turnedAway = {}

(* Who counts itself, and nobody else, holds the lock, and nothing has been *)
(* counted since it has read.                                               *)
Lock ==
  /\ \A c \in Calls : pc[c] = "count" => mu = c /\ seen[c] = metrics
  /\ mu # Nil => pc[mu] = "count"
  /\ \A c \in Calls : pc[c] = "count" => ~options.otel
  /\ \A c \in Calls : pc[c] = "leave" => options.otel
  /\ \A c \in turnedAway : pc[c] \in {"respond", "over"}

ServerInv ==
  /\ TypeOK /\ Order /\ Lock
  /\ EveryCallIsCounted
  /\ ActiveRequestsAreActive

-----------------------------------------------------------------------------
(* A set of calls with one more, *)
LEMMA OneMore ==
  ASSUME NEW S \in SUBSET Calls, NEW c \in Calls, c \notin S
  PROVE  /\ Cardinality(S) \in Nat
         /\ Cardinality(S \cup {c}) = Cardinality(S) + 1
BY CallsFinite, FS_Subset, FS_CardinalityType, FS_AddElement

(* and one less. *)
LEMMA OneLess ==
  ASSUME NEW S \in SUBSET Calls, NEW c \in S
  PROVE  /\ Cardinality(S) \in Nat \ {0}
         /\ Cardinality(S \ {c}) = Cardinality(S) - 1
<1>1. S \ {c} \in SUBSET Calls /\ c \in Calls /\ c \notin S \ {c}
  OBVIOUS
<1>2. (S \ {c}) \cup {c} = S
  OBVIOUS
<1>3. Cardinality(S \ {c}) \in Nat /\ Cardinality(S) = Cardinality(S \ {c}) + 1
  BY <1>1, <1>2, OneMore
<1> QED
  BY <1>3

(* No call is there when the process starts. *)
LEMMA InitInv == Init => ServerInv
<1> SUFFICES ASSUME Init PROVE ServerInv
  OBVIOUS
<1>1. TypeOK /\ Order /\ Lock
  BY NilIsNoCall
     DEF Init, TypeOK, Order, Lock, Counters, Options, Nothing, InRPC, InGateway
<1>2. Counted = {} /\ Counted \cap failed = {} /\ {c \in Calls : InRPC(c)} = {}
  BY DEF Init, Counted, InRPC
<1>3. Cardinality({}) = 0
  BY FS_EmptySet
<1>4. EveryCallIsCounted
  BY <1>2, <1>3 DEF Init, EveryCallIsCounted, Nothing
<1>5. ActiveRequestsAreActive
  BY <1>2, <1>3 DEF Init, ActiveRequestsAreActive
<1> QED
  BY <1>1, <1>4, <1>5 DEF ServerInv

(* A call on its way after it has arrived. *)
Goes(c) ==
  \/ Authorize(c) \/ HandlerEnds(c)
  \/ Record(c) \/ Count(c) \/ Meter(c) \/ Leave(c) \/ Respond(c)

(* What main and the goroutines of the servers do leaves the calls alone.   *)
LEMMA MainStep ==
  ASSUME Main \/ Signal \/ ServeGRPC \/ ServeGateway \/ Fatal
  PROVE  UNCHANGED <<callVars, countVars, options>>
BY DEF Main, TakeSignal, PrintStats, ShutdownGateway, GatewayIdle, GiveUp,
       GracefulStop, CallsOver, Exit, Signal, ServeGRPC, ServeGateway, Fatal, vars

(* What a call does leaves main alone. *)
LEMMA CallStep ==
  ASSUME NEW c \in Calls, Intercept(c) \/ FromClient(c)
  PROVE  UNCHANGED mainVars
BY DEF Intercept, FromClient, Forward, Authorize, Record, Count, Meter, Leave,
       Arrive, Request, HandlerEnds, Respond

(* Counting a call leaves counters. *)
LEMMA Added ==
  ASSUME NEW c, NEW counters \in Counters
  PROVE  Add(counters, c) \in Counters
BY DEF Add, Counters

(* A call that begins is counted as active or not. *)
LEMMA Begun ==
  ASSUME active \in Nat, NEW c \in Calls, Begin(c)
  PROVE  active' \in Nat
<1>1. active' = active + 1 \/ active' = active
  BY DEF Begin
<1> QED
  BY <1>1

(* Every step keeps the types. *)
LEMMA TypeNext == ServerInv /\ [Next]_vars => TypeOK'
<1> SUFFICES ASSUME ServerInv, [Next]_vars PROVE TypeOK'
  OBVIOUS
<1> USE DEF ServerInv, TypeOK
<1>1. CASE UNCHANGED vars
  BY <1>1 DEF vars, mainVars, callVars, countVars
<1>2. CASE Main
  <2>1. CASE TakeSignal \/ PrintStats \/ ShutdownGateway
    BY <2>1 DEF TakeSignal, PrintStats, ShutdownGateway, callVars, countVars
  <2>2. CASE GatewayIdle \/ GiveUp
    BY <2>2 DEF GatewayIdle, GiveUp, callVars, countVars
  <2>3. CASE GracefulStop \/ CallsOver \/ Exit
    BY <2>3 DEF GracefulStop, CallsOver, Exit, callVars, countVars
  <2> QED
    BY <1>2, <2>1, <2>2, <2>3 DEF Main
<1>3. CASE Signal \/ ServeGRPC \/ ServeGateway \/ Fatal
  BY <1>3 DEF Signal, ServeGRPC, ServeGateway, Fatal, callVars, countVars
<1>4. ASSUME NEW c \in Calls, FromClient(c) PROVE TypeOK'
  <2>1. CASE Arrive(c)
    <3>1. active' \in Nat
      BY <2>1, Begun DEF Arrive
    <3> QED
      BY <2>1, <3>1 DEF Arrive, Begin, Goto, mainVars
  <2>2. CASE Request(c) \/ HandlerEnds(c) \/ Respond(c)
    BY <2>2 DEF Request, HandlerEnds, Respond, Goto, mainVars, countVars
  <2> QED
    BY <1>4, <2>1, <2>2 DEF FromClient
<1>5. ASSUME NEW c \in Calls, Forward(c) \/ Authorize(c) PROVE TypeOK'
  <2>1. CASE Authorize(c)
    BY <2>1 DEF Authorize, Goto, mainVars, countVars
  <2>2. CASE Forward(c)
    <3>1. active' \in Nat
      BY <2>2, Begun DEF Forward, countVars
    <3>2. c \in requests
      BY <2>2 DEF Forward, At, Order
    <3> QED
      BY <2>2, <3>1, <3>2 DEF Forward, Begin, Goto, mainVars, countVars
  <2> QED
    BY <1>5, <2>1, <2>2
<1>6. ASSUME NEW c \in Calls, Record(c) PROVE TypeOK'
  BY <1>6 DEF Record, Goto, mainVars
<1>7. ASSUME NEW c \in Calls, Count(c) PROVE TypeOK'
  <2>1. metrics' \in Counters
    BY <1>7, Added DEF Count
  <2> QED
    BY <1>7, <2>1 DEF Count, Answer, Goto, mainVars
<1>8. ASSUME NEW c \in Calls, Meter(c) PROVE TypeOK'
  <2>1. meters' \in Counters
    BY <1>8, Added DEF Meter
  <2> QED
    BY <1>8, <2>1 DEF Meter, Goto, mainVars
<1>9. ASSUME NEW c \in Calls, Leave(c) PROVE TypeOK'
  <2> DEFINE inside == {d \in Calls : InRPC(d)}
  <2>1. c \in inside /\ inside \in SUBSET Calls /\ options.otel
    BY <1>9 DEF Leave, At, InRPC, Lock
  <2>2. Cardinality(inside) \in Nat \ {0}
    BY <2>1, OneLess
  <2>3. active = Cardinality(inside)
    BY <1>4, <2>1 DEF ActiveRequestsAreActive
  <2>4. active \in Nat \ {0}
    BY <2>2, <2>3
  <2>5. active' \in Nat
    <3>1. active' = active - 1
      BY <1>9 DEF Leave
    <3> HIDE DEF ServerInv, TypeOK
    <3> QED
      BY <2>4, <3>1
  <2> QED
    BY <1>9, <2>5 DEF Leave, Answer, Goto, mainVars
<1> QED
  BY <1>1, <1>2, <1>3, <1>4, <1>5, <1>6, <1>7, <1>8, <1>9 DEF Next, Intercept

(* Every step keeps the order in which the process ends. *)
LEMMA OrderNext == TypeOK /\ Order /\ [Next]_vars => Order'
<1> SUFFICES ASSUME TypeOK, Order, [Next]_vars PROVE Order'
  OBVIOUS
<1> USE DEF Order, InRPC, InGateway
<1>1. CASE UNCHANGED vars
  BY <1>1 DEF vars, mainVars, callVars, countVars
<1>2. CASE ~Ended /\ Main
  <2>1. CASE TakeSignal \/ PrintStats \/ ShutdownGateway
    BY <2>1, <1>2, MainStep
       DEF Ended, TakeSignal, PrintStats, ShutdownGateway, callVars
  <2>2. CASE GatewayIdle \/ GiveUp
    BY <2>2, <1>2, MainStep DEF Ended, GatewayIdle, GiveUp, callVars
  <2>3. CASE GracefulStop \/ CallsOver \/ Exit
    BY <2>3, <1>2, MainStep DEF Ended, GracefulStop, CallsOver, Exit, callVars
  <2> QED
    BY <1>2, <2>1, <2>2, <2>3 DEF Main
<1>3. CASE ~Ended /\ (Signal \/ ServeGRPC \/ ServeGateway \/ Fatal)
  <2>1. UNCHANGED <<pc, requests, turnedAway, late>>
    BY <1>3, MainStep DEF callVars, Signal, ServeGRPC, ServeGateway, Fatal
  <2>2. CASE Signal
    <3>1. UNCHANGED <<main, grpc, gateway>>
      BY <2>2 DEF Signal
    <3> QED
      BY <2>1, <3>1
  <2>3. CASE ServeGRPC
    <3>1. UNCHANGED <<main, gateway>> /\ grpc = "starting" /\ grpc' = "serving"
      BY <2>3 DEF ServeGRPC
    <3> QED
      BY <2>1, <3>1
  <2>4. CASE ServeGateway
    <3>1. UNCHANGED <<main, grpc>> /\ gateway = "starting"
      BY <2>4 DEF ServeGateway
    <3> QED
      BY <2>1, <3>1
  <2>5. CASE Fatal
    <3>1. main' = "failed" /\ UNCHANGED <<grpc, gateway>>
      BY <2>5 DEF Fatal
    <3> QED
      BY <2>1, <3>1
  <2> QED
    BY <1>3, <2>2, <2>3, <2>4, <2>5
<1>4. pc = [d \in Calls |-> pc[d]]
  BY DEF TypeOK
<1>5. ASSUME NEW c \in Calls, ~Ended, Forward(c) PROVE Order'
  BY <1>4, <1>5, CallStep DEF Intercept, Forward, Begin, Goto, At, mainVars, Ended
<1>6. ASSUME NEW c \in Calls, ~Ended, Arrive(c) PROVE Order'
  BY <1>4, <1>6 DEF Arrive, Begin, Goto, At, mainVars, Ended
<1>7. ASSUME NEW c \in Calls, ~Ended, Request(c) PROVE Order'
  BY <1>4, <1>7 DEF Request, Goto, At, mainVars, Ended
<1>8. ASSUME NEW c \in Calls, ~Ended, Goes(c) PROVE Order'
  <2>1. UNCHANGED <<main, grpc, gateway, late, requests, turnedAway>>
    BY <1>8 DEF Goes, Authorize, HandlerEnds, Record, Count, Meter, Leave, Respond,
                mainVars
  <2> DEFINE Moves(label) == pc' = [pc EXCEPT ![c] = label]
  <2>2. CASE Answer(c) /\ InRPC(c)
    BY <1>4, <2>1, <2>2 DEF Ended, Answer, Goto
  <2>3. CASE InRPC(c) /\ \E label \in {"handler", "record", "count", "leave"} : Moves(label)
    BY <1>4, <2>1, <2>3 DEF Ended
  <2>4. CASE Respond(c)
    BY <1>4, <2>1, <2>4 DEF Ended, Respond, Goto, At
  <2>5. CASE Authorize(c) \/ HandlerEnds(c)
    BY <2>3, <2>5 DEF Authorize, HandlerEnds, Goto, At
  <2>6. CASE Record(c) \/ Meter(c)
    BY <2>3, <2>6 DEF Record, Meter, Goto, At
  <2>7. CASE Count(c) \/ Leave(c)
    BY <2>2, <2>7 DEF Count, Leave, At
  <2> QED
    BY <1>8, <2>4, <2>5, <2>6, <2>7 DEF Goes
<1> QED
  BY <1>1, <1>2, <1>3, <1>5, <1>6, <1>7, <1>8 DEF Next, Intercept, FromClient, Goes

(* Every step keeps the lock. *)
LEMMA LockNext == TypeOK /\ Lock /\ [Next]_vars => Lock'
<1> SUFFICES ASSUME TypeOK, Lock, [Next]_vars PROVE Lock'
  OBVIOUS
<1> USE DEF Lock, TypeOK
<1>1. CASE UNCHANGED vars
  BY <1>1 DEF vars, mainVars, callVars, countVars
<1>2. CASE Main \/ Signal \/ ServeGRPC \/ ServeGateway \/ Fatal
  BY <1>2, MainStep DEF callVars, countVars
<1>3. ASSUME NEW c \in Calls, FromClient(c) PROVE Lock'
  BY <1>3 DEF FromClient, Arrive, Request, HandlerEnds, Respond, Begin, Goto, At,
     mainVars, countVars
<1>4. ASSUME NEW c \in Calls, Forward(c) \/ Authorize(c) PROVE Lock'
  BY <1>4 DEF Forward, Authorize, Begin, Goto, At, mainVars, countVars
<1>5. ASSUME NEW c \in Calls, Record(c) PROVE Lock'
  BY <1>5, NilIsNoCall DEF Record, Goto, At, mainVars
<1>6. ASSUME NEW c \in Calls, Count(c) PROVE Lock'
  BY <1>6 DEF Count, Answer, Goto, At, mainVars
<1>7. ASSUME NEW c \in Calls, Meter(c) \/ Leave(c) PROVE Lock'
  BY <1>7 DEF Meter, Leave, Answer, Goto, At, mainVars
<1> QED
  BY <1>1, <1>2, <1>3, <1>4, <1>5, <1>6, <1>7 DEF Next, Intercept
-----------------------------------------------------------------------------
Inside == {c \in Calls : InRPC(c)}

(* A step that neither answers a call nor brings one, and counts nothing.   *)
LEMMA NothingCounted ==
  ASSUME EveryCallIsCounted, ActiveRequestsAreActive,
         Counted' = Counted, (Counted \cap failed)' = Counted \cap failed,
         Inside' = Inside, UNCHANGED <<options, metrics, active>>
  PROVE  EveryCallIsCounted' /\ ActiveRequestsAreActive'
BY DEF EveryCallIsCounted, ActiveRequestsAreActive, Inside

(* A call that begins is active, one more than there were.                  *)
LEMMA BeginCounted ==
  ASSUME TypeOK, EveryCallIsCounted, ActiveRequestsAreActive,
         NEW c \in Calls, pc[c] \in {"new", "request"}, Begin(c),
         UNCHANGED <<options, failed, turnedAway>>
  PROVE  EveryCallIsCounted' /\ ActiveRequestsAreActive'
<1>1. pc = [d \in Calls |-> pc[d]]
  BY DEF TypeOK
<1>2. pc' = [pc EXCEPT ![c] = "auth"] /\ UNCHANGED metrics
  BY DEF Begin, Goto
<1>3. Counted' = Counted
  BY <1>1, <1>2 DEF Counted
<1>4. EveryCallIsCounted'
  BY <1>2, <1>3 DEF EveryCallIsCounted
<1>5. Inside' = Inside \cup {c} /\ c \notin Inside /\ Inside \in SUBSET Calls
  BY <1>1, <1>2 DEF Inside, InRPC
<1>6. Cardinality(Inside') = Cardinality(Inside) + 1
  BY <1>5, OneMore
<1>7. CASE options.otel
  <2>1. active = Cardinality(Inside) /\ active' = active + 1
    BY <1>7 DEF ActiveRequestsAreActive, Begin, Inside
  <2>2. active' = Cardinality(Inside')
    BY <1>6, <2>1
  <2>3. options'.otel
    BY <1>7
  <2> QED
    BY <1>4, <2>2, <2>3 DEF ActiveRequestsAreActive, Inside
<1>8. CASE ~options.otel
  <2>1. active' = 0 /\ ~options'.otel
    BY <1>8 DEF ActiveRequestsAreActive, Begin
  <2> QED
    BY <1>4, <2>1 DEF ActiveRequestsAreActive
<1> QED
  BY <1>4, <1>7, <1>8

(* A call that counts itself is one counted more. *)
LEMMA CountCounted ==
  ASSUME TypeOK, Lock, EveryCallIsCounted, ActiveRequestsAreActive,
         NEW c \in Calls, Count(c)
  PROVE  EveryCallIsCounted' /\ ActiveRequestsAreActive'
<1>1. pc = [d \in Calls |-> pc[d]] /\ pc[c] = "count" /\ c \notin turnedAway
  BY DEF TypeOK, Lock, Count, At
<1>2. ~options.otel /\ seen[c] = metrics
  BY <1>1 DEF Lock
<1>3. UNCHANGED <<options, failed, turnedAway, active>>
  BY DEF Count, mainVars
<1>4. \E label \in {"respond", "over"} : pc' = [pc EXCEPT ![c] = label]
  BY DEF Count, Answer, Goto
<1>5. /\ Counted' = Counted \cup {c} /\ c \notin Counted
      /\ Counted \in SUBSET Calls /\ Counted \cap failed \in SUBSET Calls
  BY <1>1, <1>3, <1>4 DEF Counted
<1>6. /\ metrics.total = Cardinality(Counted)
      /\ metrics.errors = Cardinality(Counted \cap failed)
  BY <1>2 DEF EveryCallIsCounted
<1>7. /\ metrics'.total = metrics.total + 1
      /\ metrics'.errors = metrics.errors + (IF c \in failed THEN 1 ELSE 0)
  BY <1>2 DEF Count, Add
<1>8. metrics'.total = Cardinality(Counted')
  BY <1>5, <1>6, <1>7, OneMore
<1>9. metrics'.errors = Cardinality(Counted' \cap failed')
  <2>1. CASE c \in failed
    <3>1. Counted' \cap failed' = (Counted \cap failed) \cup {c}
      BY <1>3, <1>5, <2>1
    <3>2. Cardinality((Counted \cap failed) \cup {c}) = Cardinality(Counted \cap failed) + 1
      BY <1>5, OneMore
    <3> QED
      BY <1>6, <1>7, <2>1, <3>1, <3>2
  <2>2. CASE c \notin failed
    <3>1. Counted' \cap failed' = Counted \cap failed
      BY <1>3, <1>5, <2>2
    <3>2. metrics.errors \in Nat
      BY DEF TypeOK, Counters
    <3> QED
      BY <1>6, <1>7, <2>2, <3>1, <3>2
  <2> QED
    BY <2>1, <2>2
<1>10. ActiveRequestsAreActive'
  BY <1>2, <1>3 DEF ActiveRequestsAreActive
<1> QED
  BY <1>8, <1>9, <1>10 DEF EveryCallIsCounted

(* A call that leaves is one active less. *)
LEMMA LeaveCounted ==
  ASSUME TypeOK, Lock, EveryCallIsCounted, ActiveRequestsAreActive,
         NEW c \in Calls, Leave(c)
  PROVE  EveryCallIsCounted' /\ ActiveRequestsAreActive'
<1>1. pc = [d \in Calls |-> pc[d]] /\ pc[c] = "leave"
  BY DEF TypeOK, Leave, At
<1>2. options.otel
  BY <1>1 DEF Lock
<1>3. UNCHANGED options /\ active' = active - 1
  BY DEF Leave, mainVars
<1>4. \E label \in {"respond", "over"} : pc' = [pc EXCEPT ![c] = label]
  BY DEF Leave, Answer, Goto
<1>5. Inside' = Inside \ {c} /\ c \in Inside /\ Inside \in SUBSET Calls
  BY <1>1, <1>4 DEF Inside, InRPC
<1>6. Cardinality(Inside \ {c}) = Cardinality(Inside) - 1
  BY <1>5, OneLess
<1>7. active = Cardinality(Inside)
  BY <1>2 DEF ActiveRequestsAreActive, Inside
<1>8. active' = Cardinality(Inside')
  BY <1>3, <1>5, <1>6, <1>7
<1> QED
  BY <1>2, <1>3, <1>8 DEF EveryCallIsCounted, ActiveRequestsAreActive, Inside

(* Every step keeps the counts. *)
LEMMA CountNext ==
  ASSUME ServerInv, [Next]_vars
  PROVE  EveryCallIsCounted' /\ ActiveRequestsAreActive'
<1> USE DEF ServerInv
<1>1. CASE UNCHANGED vars
  BY <1>1, NothingCounted
     DEF vars, mainVars, callVars, countVars, Counted, Inside, InRPC
<1>2. CASE Main \/ Signal \/ ServeGRPC \/ ServeGateway \/ Fatal
  BY <1>2, MainStep, NothingCounted DEF callVars, countVars, Counted, Inside, InRPC
<1>3. ASSUME NEW c \in Calls, Arrive(c)
      PROVE  EveryCallIsCounted' /\ ActiveRequestsAreActive'
  <2>1. Begin(c) /\ pc[c] = "new" /\ UNCHANGED <<options, failed, turnedAway>>
    BY <1>3 DEF Arrive, At, mainVars
  <2> QED
    BY <2>1, BeginCounted
<1>4. pc = [d \in Calls |-> pc[d]]
  BY DEF TypeOK
<1>5. ASSUME NEW c \in Calls, Forward(c)
      PROVE  EveryCallIsCounted' /\ ActiveRequestsAreActive'
  <2>1. pc[c] = "request" /\ UNCHANGED <<options, failed>>
    BY <1>5 DEF Forward, At, mainVars
  <2>2. CASE Begin(c) /\ UNCHANGED turnedAway
    BY <2>1, <2>2, BeginCounted
  <2>3. CASE ~(Begin(c) /\ UNCHANGED turnedAway)
    <3>1. /\ turnedAway' = turnedAway \cup {c}
          /\ pc' = [pc EXCEPT ![c] = "respond"]
          /\ UNCHANGED <<metrics, active>>
      BY <1>5, <2>3 DEF Forward, Goto, countVars
    <3>2. Counted' = Counted /\ Inside' = Inside
      BY <1>4, <2>1, <3>1 DEF Counted, Inside, InRPC
    <3> QED
      BY <2>1, <3>1, <3>2, NothingCounted
  <2> QED
    BY <2>2, <2>3
<1>6. ASSUME NEW c \in Calls,
             \/ Request(c) \/ Authorize(c) \/ HandlerEnds(c) \/ Record(c)
             \/ Meter(c) \/ Respond(c)
      PROVE  EveryCallIsCounted' /\ ActiveRequestsAreActive'
  <2>1. UNCHANGED <<options, metrics, active, turnedAway>>
    BY <1>6 DEF Request, Authorize, HandlerEnds, Record, Meter, Respond,
                mainVars, countVars
  <2>2. CASE Request(c)
    <3>1. Counted' = Counted /\ Inside' = Inside /\ failed' = failed
      BY <1>4, <2>1, <2>2 DEF Request, Goto, At, Counted, Inside, InRPC
    <3> QED
      BY <2>1, <3>1, NothingCounted
  <2>3. CASE Respond(c)
    <3>1. Counted' = Counted /\ Inside' = Inside /\ failed' = failed
      BY <1>4, <2>1, <2>3 DEF Respond, Goto, At, Counted, Inside, InRPC
    <3> QED
      BY <2>1, <3>1, NothingCounted
  <2>4. CASE Authorize(c) \/ HandlerEnds(c) \/ Record(c) \/ Meter(c)
    <3>1. /\ InRPC(c) /\ failed' \in {failed, failed \cup {c}}
          /\ \E label \in {"handler", "record", "count", "leave"} :
               pc' = [pc EXCEPT ![c] = label]
      BY <2>4 DEF Authorize, HandlerEnds, Record, Meter, Goto, At, InRPC
    <3>2. Counted' = Counted /\ Inside' = Inside /\ c \notin Counted
      BY <1>4, <2>1, <3>1 DEF Counted, Inside, InRPC
    <3>3. (Counted \cap failed)' = Counted \cap failed
      BY <3>1, <3>2
    <3> QED
      BY <2>1, <3>2, <3>3, NothingCounted
  <2> QED
    BY <1>6, <2>2, <2>3, <2>4
<1> QED
  BY <1>1, <1>2, <1>3, <1>5, <1>6, CountCounted, LeaveCounted
     DEF Next, Intercept, FromClient

-----------------------------------------------------------------------------
(* The invariant holds in every state. *)
LEMMA Invariance == Spec => []ServerInv
<1>1. ServerInv /\ [Next]_vars => ServerInv'
  BY TypeNext, OrderNext, LockNext, CountNext DEF ServerInv
<1> QED
  BY InitInv, <1>1, PTL DEF Spec

(* Every variable keeps its type: the counts never go below nothing. *)
THEOREM ServerTyping == Spec => []TypeOK
BY Invariance, PTL DEF ServerInv

(* However many calls are under way when the signal comes, GracefulStop     *)
(* lets them finish before the process cleans up (main.go:470).             *)
THEOREM CallsFinish == Spec => []NobodyIsCutOff
<1>1. ServerInv => NobodyIsCutOff
  BY DEF ServerInv, Order, NobodyIsCutOff
<1> QED
  BY <1>1, Invariance, PTL

(* As the gateway is shut down before the server it calls, no HTTP request  *)
(* is turned away within the ten seconds (main.go:465, 470).                *)
THEOREM GatewayFirst == Spec => []RequestsAreAnswered
<1>1. ServerInv => RequestsAreAnswered
  BY DEF ServerInv, Order, RequestsAreAnswered
<1> QED
  BY <1>1, Invariance, PTL

(* The collector counts every call once, whichever way it ends and however  *)
(* many end together (metrics.go:77-90).                                    *)
THEOREM CallsCounted == Spec => []EveryCallIsCounted
BY Invariance, PTL DEF ServerInv

(* The gauge of active requests is right at every moment                    *)
(* (otel_interceptors.go:240-241).                                          *)
THEOREM GaugeIsRight == Spec => []ActiveRequestsAreActive
BY Invariance, PTL DEF ServerInv
=============================================================================
