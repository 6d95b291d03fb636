------------------------------ MODULE Startup ------------------------------
(***************************************************************************)
(* main.go before the servers are up, and behind their end: what func main *)
(* opens on its way, and the deferred calls that close it again, last in,  *)
(* first out. log.Fatal ends the process at any point and runs none.       *)
(***************************************************************************)
EXTENDS Server, Sequences

CONSTANT WithDatabase   \* whether there is a connection string

ASSUME WithDatabaseIsBoolean == WithDatabase \in BOOLEAN

VARIABLES
  stage,      \* what func main does next until it waits for a signal
  deferred,   \* the deferred calls, the latest first
  open        \* what is open

startVars == <<stage, deferred, open>>

Stages == {"flags", "traces", "metrics", "instruments", "listen", "storage",
           "serve", "dial", "register", "up", "validated"}

Deferrable == {"telemetry", "storage", "connection"}

StartTypeOK ==
  /\ stage \in Stages
  /\ deferred \in Seq(Deferrable)
  /\ open \subseteq {"traces", "metrics", "storage", "connection"}

StartInit == stage = "flags" /\ deferred = <<>> /\ open = {}

(* On to the next stage, or log.Fatal.                                      *)
GoOn(to) == stage' = to /\ UNCHANGED vars
OrFail == Fatal /\ UNCHANGED startVars
Defer(call) == deferred' = <<call>> \o deferred

-----------------------------------------------------------------------------
(* A process asked only to validate a token does that and ends.             *)
ValidateOnly ==
  /\ stage = "flags"
  /\ \/ GoOn("validated") /\ UNCHANGED <<deferred, open>>
     \/ OrFail

(* Certificates are loaded, or the embedded ones taken. From signal.Notify  *)
(* on a signal waits for main, before that it kills the process.            *)
Notify ==
  /\ stage = "flags"
  /\ \/ /\ GoOn(IF options.otel THEN "traces" ELSE "listen")
        /\ UNCHANGED <<deferred, open>>
     \/ OrFail

SetUpTraces ==
  /\ stage = "traces"
  /\ \/ GoOn("metrics") /\ open' = open \cup {"traces"} /\ UNCHANGED deferred
     \/ OrFail

(* Variant: the traces are left to themselves. *)
SetUpMetricsAlone ==
  /\ stage = "metrics"
  /\ \/ /\ GoOn("instruments") /\ Defer("telemetry")
        /\ open' = open \cup {"metrics"}
     \/ OrFail

(* If there are no metrics the traces are shut down before main fails.      *)
SetUpMetrics ==
  /\ stage = "metrics"
  /\ \/ /\ GoOn("instruments") /\ Defer("telemetry")
        /\ open' = open \cup {"metrics"}
     \/ Fatal /\ open' = open \ {"traces"} /\ UNCHANGED <<stage, deferred>>

MakeInstruments ==
  /\ stage = "instruments"
  /\ \/ GoOn("listen") /\ UNCHANGED <<deferred, open>>
     \/ OrFail

Listen ==
  /\ stage = "listen"
  /\ \/ GoOn("storage") /\ UNCHANGED <<deferred, open>>
     \/ OrFail

MakeMemoryStorage ==
  /\ stage = "storage" /\ ~WithDatabase
  /\ GoOn("serve") /\ UNCHANGED <<deferred, open>>

(* The pool is made, pinged and given its schema as soon as the database    *)
(* answers, however long that takes, or closed again.                       *)
OpenDatabase ==
  /\ stage = "storage" /\ WithDatabase
  /\ \/ /\ GoOn("serve") /\ Defer("storage")
        /\ open' = open \cup {"storage"}
     \/ OrFail

(* The goroutine of the gRPC server begins.                                 *)
GoServe ==
  /\ stage = "serve"
  /\ GoOn("dial") /\ UNCHANGED <<deferred, open>>

Dial ==
  /\ stage = "dial"
  /\ \/ /\ GoOn("register") /\ Defer("connection")
        /\ open' = open \cup {"connection"}
     \/ OrFail

(* The gateway's handlers, and the goroutines of its server and of pprof.   *)
RegisterGateway ==
  /\ stage = "register"
  /\ \/ GoOn("up") /\ UNCHANGED <<deferred, open>>
     \/ OrFail

(* Variant: the gRPC server is started first of all. *)
MayServeEarly == stage \notin {"flags", "validated"}

MayServe == stage \in {"dial", "register", "up"}

StartServing == MayServe /\ ServeGRPC /\ UNCHANGED startVars
StartGateway == stage = "up" /\ ServeGateway /\ UNCHANGED startVars

(* A server fails later, that of pprof perhaps behind a graceful stop.      *)
ServerFails == MayServe /\ Fatal /\ UNCHANGED startVars

(* The deferred calls run one by one. *)
Closes(call) == IF call = "telemetry" THEN {"traces", "metrics"} ELSE {call}

CleanUp ==
  /\ main = "clean up" /\ deferred # <<>>
  /\ open' = open \ Closes(Head(deferred))
  /\ deferred' = Tail(deferred)
  /\ UNCHANGED <<vars, stage>>

Leaves == main = "clean up" => deferred = <<>>

Start ==
  \/ Notify \/ SetUpTraces \/ SetUpMetrics \/ MakeInstruments
  \/ Listen \/ MakeMemoryStorage \/ GoServe \/ Dial \/ RegisterGateway

-----------------------------------------------------------------------------
(* What a handler or an interceptor uses: the storage behind the handlers,  *)
(* the providers of spans and counters. It is opened before the first call  *)
(* is taken and closed behind the last (main.go:280, 354, 363, 470).             *)
WhatCallsUseIsOpen ==
  (\E c \in Calls : InRPC(c)) =>
    /\ WithDatabase => "storage" \in open
    /\ options.otel => {"traces", "metrics"} \subseteq open

(* A process that ends of itself has closed all that it opened, and a       *)
(* telemetry set up by half has closed that half (otel/setup.go:62).        *)
NothingStaysOpen ==
  main = "exited" \/ (main = "failed" /\ stage = "metrics") => open = {}
=============================================================================
