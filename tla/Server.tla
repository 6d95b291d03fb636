------------------------------- MODULE Server -------------------------------
(***************************************************************************)
(* main.go: the process around the handlers. Calls come in over gRPC, or   *)
(* as HTTP requests of which the gateway makes gRPC calls; each passes the *)
(* interceptors on its way to its handler and back. After a signal the     *)
(* process prints its metrics, shuts the gateway down, lets the gRPC       *)
(* server stop, and ends.                                                  *)
(***************************************************************************)
EXTENDS Integers, FiniteSets

CONSTANTS
  Calls,      \* the calls clients make, each once
  Nil

ASSUME CallsFinite == IsFiniteSet(Calls)
ASSUME NilIsNoCall == Nil \notin Calls

VARIABLES
  options,    \* the flags --otel-enabled, --enable-auth, --print-metrics
  main,       \* where func main is
  signalled,  \* whether sigChan holds a signal: it has room for one
  grpc,       \* the gRPC server
  gateway,    \* the HTTP server
  late,       \* whether shutting the gateway down has taken ten seconds
  pc,         \* where each call is
  requests,   \* the calls that have come as HTTP requests
  failed,     \* the calls that were answered with an error
  turnedAway, \* those of the gateway's calls the gRPC server did not take
  mu,         \* who holds the lock of the MetricsCollector
  seen,       \* what a call that counts itself has read there
  metrics,    \* the MetricsCollector
  meters,     \* the OpenTelemetry counters of requests and errors,
  active,     \* and of the active requests
  printed     \* the metrics printed

mainVars == <<options, main, signalled, grpc, gateway, late, printed>>
countVars == <<mu, seen, metrics, meters, active>>
callVars == <<pc, requests, failed, turnedAway>>
vars == <<mainVars, countVars, callVars>>

At(c, label) == pc[c] = label
Goto(c, label) == pc' = [pc EXCEPT ![c] = label]

InRPC(c) == pc[c] \in {"auth", "handler", "record", "count", "leave"}
InGateway(c) == c \in requests /\ pc[c] # "over"
Ended == main \in {"exited", "failed"}

Options == [otel : BOOLEAN, auth : BOOLEAN, print : BOOLEAN]
Counters == [total : Nat, errors : Nat]
Nothing == [total |-> 0, errors |-> 0]

(* A call more, which was answered with an error or was not.                *)
Add(counters, c) ==
  [total |-> counters.total + 1,
   errors |-> counters.errors + (IF c \in failed THEN 1 ELSE 0)]

Init ==
  /\ options \in Options
  /\ main = "wait"
  /\ signalled = FALSE
  /\ grpc = "starting" /\ gateway = "starting"
  /\ late = FALSE
  /\ pc = [c \in Calls |-> "new"]
  /\ requests = {} /\ failed = {} /\ turnedAway = {}
  /\ mu = Nil
  /\ seen = [c \in Calls |-> Nothing]
  /\ metrics = Nothing
  /\ meters = Nothing /\ active = 0
  /\ printed = Nil

-----------------------------------------------------------------------------
(* The goroutines of the two servers. One that was stopped before it began  *)
(* to serve, cannot listen, or cannot accept any more ends the process, and *)
(* so does the server of pprof, which is never stopped.                     *)
ServeGRPC ==
  /\ grpc = "starting"
  /\ grpc' = "serving"
  /\ UNCHANGED <<options, main, signalled, gateway, late, printed>>
  /\ UNCHANGED <<callVars, countVars>>

ServeGateway ==
  /\ gateway = "starting"
  /\ gateway' = "serving"
  /\ UNCHANGED <<options, main, signalled, grpc, late, printed>>
  /\ UNCHANGED <<callVars, countVars>>

Fatal ==
  /\ main' = "failed"
  /\ UNCHANGED <<options, signalled, grpc, gateway, late, printed>>
  /\ UNCHANGED <<callVars, countVars>>

-----------------------------------------------------------------------------
(* A call reaches the interceptors, the outermost of which counts it as     *)
(* active if there is OpenTelemetry.                                        *)
Begin(c) ==
  /\ grpc = "serving"
  /\ Goto(c, "auth")
  /\ active' = IF options.otel THEN active + 1 ELSE active
  /\ UNCHANGED <<mu, seen, metrics, meters>>

Arrive(c) ==
  /\ At(c, "new")
  /\ Begin(c)
  /\ UNCHANGED <<mainVars, requests, failed, turnedAway>>

Request(c) ==
  /\ At(c, "new")
  /\ gateway = "serving"
  /\ requests' = requests \cup {c}
  /\ Goto(c, "request")
  /\ UNCHANGED <<mainVars, countVars, failed, turnedAway>>

(* The gateway makes its call, and waits for a server that has not begun.   *)
Forward(c) ==
  /\ At(c, "request")
  /\ \/ Begin(c) /\ UNCHANGED turnedAway
     \/ /\ grpc = "stopped"
        /\ turnedAway' = turnedAway \cup {c}
        /\ Goto(c, "respond")
        /\ UNCHANGED countVars
  /\ UNCHANGED <<mainVars, requests, failed>>

(* The JWT interceptor, if installed, refuses a call without a valid token  *)
(* or without permission for the method.                                    *)
Authorize(c) ==
  /\ At(c, "auth")
  /\ \/ Goto(c, "handler") /\ UNCHANGED failed
     \/ options.auth /\ Goto(c, "record") /\ failed' = failed \cup {c}
  /\ UNCHANGED <<mainVars, countVars, requests, turnedAway>>

(* A handler ends when it and, if it is one of a stream, its client do.     *)
HandlerEnds(c) ==
  /\ At(c, "handler")
  /\ Goto(c, "record")
  /\ failed' \in {failed, failed \cup {c}}
  /\ UNCHANGED <<mainVars, countVars, requests, turnedAway>>

(* The answer goes to the client, or through the gateway.                   *)
Answer(c) == Goto(c, IF c \in requests THEN "respond" ELSE "over")

(* Variant: the collector is not locked. *)
RecordUnlocked(c) ==
  /\ At(c, "record") /\ ~options.otel
  /\ seen' = [seen EXCEPT ![c] = metrics]
  /\ Goto(c, "count")
  /\ UNCHANGED <<mainVars, requests, failed, turnedAway, mu, metrics, meters, active>>

(* MetricsCollector.recordRequest, under its lock: each ++ reads, *)
Record(c) ==
  /\ At(c, "record") /\ ~options.otel
  /\ mu = Nil /\ mu' = c
  /\ seen' = [seen EXCEPT ![c] = metrics]
  /\ Goto(c, "count")
  /\ UNCHANGED <<mainVars, requests, failed, turnedAway, metrics, meters, active>>

(* Variant: the lock is not given back. *)
CountKeepingTheLock(c) ==
  /\ At(c, "count")
  /\ metrics' = Add(seen[c], c)
  /\ Answer(c)
  /\ UNCHANGED <<mainVars, requests, failed, turnedAway, mu, seen, meters, active>>

(* and writes what it has read and one.                                     *)
Count(c) ==
  /\ At(c, "count")
  /\ metrics' = Add(seen[c], c)
  /\ mu' = Nil
  /\ Answer(c)
  /\ UNCHANGED <<mainVars, requests, failed, turnedAway, seen, meters, active>>

(* With OpenTelemetry the call is counted there instead, *)
Meter(c) ==
  /\ At(c, "record") /\ options.otel
  /\ meters' = Add(meters, c)
  /\ Goto(c, "leave")
  /\ UNCHANGED <<mainVars, requests, failed, turnedAway, mu, seen, metrics, active>>

(* Variant: at the end and by a deferred call. *)
LeaveTwice(c) ==
  /\ At(c, "leave")
  /\ active' = active - 2
  /\ Answer(c)
  /\ UNCHANGED <<mainVars, requests, failed, turnedAway, mu, seen, metrics, meters>>

(* Variant: only a call that succeeds is taken off the active ones. *)
LeaveOnSuccess(c) ==
  /\ At(c, "leave")
  /\ active' = IF c \in failed THEN active ELSE active - 1
  /\ Answer(c)
  /\ UNCHANGED <<mainVars, requests, failed, turnedAway, mu, seen, metrics, meters>>

(* and by a deferred call is active no more.                                *)
Leave(c) ==
  /\ At(c, "leave")
  /\ active' = active - 1
  /\ Answer(c)
  /\ UNCHANGED <<mainVars, requests, failed, turnedAway, mu, seen, metrics, meters>>

(* The HTTP response is written as fast as its client reads it.             *)
Respond(c) ==
  /\ At(c, "respond")
  /\ Goto(c, "over")
  /\ UNCHANGED <<mainVars, countVars, requests, failed, turnedAway>>

-----------------------------------------------------------------------------
(* A signal, which is dropped if one is waiting already.                    *)
Signal ==
  /\ ~signalled
  /\ signalled' = TRUE
  /\ UNCHANGED <<options, main, grpc, gateway, late, printed>>
  /\ UNCHANGED <<callVars, countVars>>

TakeSignal ==
  /\ main = "wait" /\ signalled
  /\ signalled' = FALSE
  /\ main' = "print"
  /\ UNCHANGED <<options, grpc, gateway, late, printed, callVars, countVars>>

PrintStats ==
  /\ main = "print"
  /\ options.print => mu = Nil
  /\ printed' = IF options.print THEN metrics ELSE Nil
  /\ main' = "shut down gateway"
  /\ UNCHANGED <<options, signalled, grpc, gateway, late, callVars, countVars>>

(* http.Server.Shutdown takes no more requests and waits for those there.   *)
ShutdownGateway ==
  /\ main = "shut down gateway"
  /\ gateway' = "closed"
  /\ main' = "await gateway"
  /\ UNCHANGED <<options, signalled, grpc, late, printed, callVars, countVars>>

(* Variant: http.Server.Close, which does not wait. *)
GatewayClosed ==
  /\ main = "await gateway"
  /\ main' = "stop gRPC"
  /\ UNCHANGED <<options, signalled, grpc, gateway, late, printed>>
  /\ UNCHANGED <<callVars, countVars>>

GatewayIdle ==
  /\ main = "await gateway"
  /\ ~\E c \in Calls : InGateway(c)
  /\ main' = "stop gRPC"
  /\ UNCHANGED <<options, signalled, grpc, gateway, late, printed>>
  /\ UNCHANGED <<callVars, countVars>>

(* Variant: Shutdown with a context that does not end. *)
GiveUpNever == main = "await gateway" /\ FALSE /\ UNCHANGED vars

(* For ten seconds.                                                         *)
GiveUp ==
  /\ main = "await gateway"
  /\ \E c \in Calls : InGateway(c)
  /\ late' = TRUE
  /\ main' = "stop gRPC"
  /\ UNCHANGED <<options, signalled, grpc, gateway, printed>>
  /\ UNCHANGED <<callVars, countVars>>

(* grpc.Server.GracefulStop takes no more calls and waits for those there.  *)
GracefulStop ==
  /\ main = "stop gRPC"
  /\ grpc' = IF grpc = "starting" THEN "never served" ELSE "stopped"
  /\ main' = "await calls"
  /\ UNCHANGED <<options, signalled, gateway, late, printed, callVars, countVars>>

(* Variant: grpc.Server.Stop, which does not wait. *)
CallsDropped ==
  /\ main = "await calls"
  /\ main' = "clean up"
  /\ UNCHANGED <<options, signalled, grpc, gateway, late, printed>>
  /\ UNCHANGED <<callVars, countVars>>

CallsOver ==
  /\ main = "await calls"
  /\ ~\E c \in Calls : InRPC(c)
  /\ main' = "clean up"
  /\ UNCHANGED <<options, signalled, grpc, gateway, late, printed>>
  /\ UNCHANGED <<callVars, countVars>>

(* The deferred calls close the gateway's connection and the storage, and   *)
(* flush OpenTelemetry.                                                     *)
Exit ==
  /\ main = "clean up"
  /\ main' = "exited"
  /\ UNCHANGED <<options, signalled, grpc, gateway, late, printed>>
  /\ UNCHANGED <<callVars, countVars>>

-----------------------------------------------------------------------------
Main ==
  \/ TakeSignal \/ PrintStats
  \/ ShutdownGateway \/ GatewayIdle \/ GiveUp
  \/ GracefulStop \/ CallsOver \/ Exit

Intercept(c) ==
  Forward(c) \/ Authorize(c) \/ Record(c) \/ Count(c) \/ Meter(c) \/ Leave(c)

FromClient(c) == Arrive(c) \/ Request(c) \/ HandlerEnds(c) \/ Respond(c)

Next ==
  \/ /\ ~Ended
     /\ \/ Main \/ Signal
        \/ ServeGRPC \/ ServeGateway \/ Fatal
        \/ \E c \in Calls : Intercept(c) \/ FromClient(c)
  \/ Ended /\ UNCHANGED vars

(* The Go scheduler runs what can run, and the timer goes off. Handlers and *)
(* HTTP responses depend on clients, and nothing is said of them.           *)
Fairness ==
  /\ WF_vars(~Ended /\ Main)
  /\ WF_vars(~Ended /\ ServeGRPC)
  /\ \A c \in Calls : WF_vars(~Ended /\ Intercept(c))

Spec == Init /\ [][Next]_vars /\ Fairness

-----------------------------------------------------------------------------
TypeOK ==
  /\ options \in Options
  /\ main \in {"wait", "print", "shut down gateway", "await gateway", "stop gRPC",
               "await calls", "clean up", "exited", "failed"}
  /\ signalled \in BOOLEAN /\ late \in BOOLEAN
  /\ grpc \in {"starting", "serving", "stopped", "never served"}
  /\ gateway \in {"starting", "serving", "closed"}
  /\ pc \in [Calls -> {"new", "request", "auth", "handler", "record", "count",
                       "leave", "respond", "over"}]
  /\ requests \in SUBSET Calls /\ failed \in SUBSET Calls
  /\ turnedAway \in SUBSET requests
  /\ mu \in Calls \cup {Nil}
  /\ seen \in [Calls -> Counters] /\ metrics \in Counters
  /\ meters \in Counters /\ active \in Nat
  /\ printed \in Counters \cup {Nil}

(* Calls under way are finished before the storage is closed and the        *)
(* process ends, wherever they are when the signal comes (main.go:470).     *)
NobodyIsCutOff ==
  main \in {"clean up", "exited"} => ~\E c \in Calls : InRPC(c)

(* The gateway is shut down before the server it calls: no HTTP request     *)
(* that was taken is turned away or left without its response, unless the   *)
(* ten seconds were not enough (main.go:465, 470).                          *)
RequestsAreAnswered ==
  \/ late
  \/ /\ turnedAway = {}
     /\ main \in {"clean up", "exited"} => ~\E c \in Calls : InGateway(c)

(* The calls that have been counted: those the interceptors have let go of. *)
Counted == {c \in Calls : pc[c] \in {"respond", "over"}} \ turnedAway

(* Without OpenTelemetry the collector counts every call once, refused ones *)
(* too, and no two that end together as one (metrics.go:77-90).             *)
EveryCallIsCounted ==
  ~options.otel =>
    /\ metrics.total = Cardinality(Counted)
    /\ metrics.errors = Cardinality(Counted \cap failed)

(* With OpenTelemetry the calls counted as active are those between         *)
(* arrival and answer, however they end (otel_interceptors.go:240-241).     *)
ActiveRequestsAreActive ==
  active =
    IF options.otel THEN Cardinality({c \in Calls : InRPC(c)}) ELSE 0
=============================================================================
