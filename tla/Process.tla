------------------------------ MODULE Process ------------------------------
(***************************************************************************)
(* The whole server process: it starts up, serves calls that come with     *)
(* tokens, and ends. Every step is one of Server.tla, or changes nothing   *)
(* there.                                                                  *)
(***************************************************************************)
EXTENDS Startup, Tokens

CONSTANT ListCalls      \* the calls of ListUsers

VARIABLES
  carried,    \* the token in the metadata of each call, until it is read
  claims,     \* those in the context of a call's handler
  admitted,   \* the users of the calls the JWT interceptor has let pass
  span        \* the users the spans of calls were given

authVars == <<carried, claims, admitted, span>>
processVars == <<vars, startVars, tokenVars, authVars>>

ProcessTypeOK ==
  /\ TypeOK /\ StartTypeOK /\ TokensTypeOK
  /\ carried \in [Calls -> Token \cup {NoToken}]
  /\ claims \in [Calls -> Users \cup {Nil}]
  /\ admitted \in [Calls -> Users \cup {Nil}]
  /\ span \in [Calls -> Users \cup {Nil}]

ProcessInit ==
  /\ Init /\ StartInit /\ TokensInit
  /\ carried = [c \in Calls |-> NoToken]
  /\ claims = [c \in Calls |-> Nil]
  /\ admitted = [c \in Calls |-> Nil]
  /\ span = [c \in Calls |-> Nil]

-----------------------------------------------------------------------------
(* A call is made with the token of the day, over gRPC or HTTP.             *)
Come(c) ==
  /\ Arrive(c) \/ Request(c)
  /\ carried' = [carried EXCEPT ![c] = token]
  /\ UNCHANGED <<claims, admitted, span>>

Admissible(c) ==
  LET t == carried[c]
  IN  Valid(t) /\ ValidMethod(c \in ListCalls, t.user)

(* The interceptor passes a context with the claims on to the handler.      *)
Check(c) ==
  /\ Authorize(c)
  /\ options.auth => (pc'[c] = "handler" <=> Admissible(c))
  /\ LET user == IF options.auth /\ Admissible(c) THEN carried[c].user ELSE Nil
     IN  /\ claims' = [claims EXCEPT ![c] = user]
         /\ admitted' = [admitted EXCEPT ![c] = user]
  /\ carried' = [carried EXCEPT ![c] = NoToken]
  /\ UNCHANGED span

(* That context ends with the handler: those outside it never had claims.   *)
Handled(c) ==
  /\ HandlerEnds(c)
  /\ claims' = [claims EXCEPT ![c] = Nil]
  /\ UNCHANGED <<carried, admitted, span>>

(* OtelLoggingUnaryInterceptor and its like for streams end their span with *)
(* the user their own context knows, when the handler's is gone. The call   *)
(* stops being active just before, in the interceptor within; one step, as  *)
(* nobody else looks at either.                                             *)
SpanUser(c) == claims[c]

EndSpan(c) ==
  /\ Leave(c)
  /\ span' = [span EXCEPT ![c] = SpanUser(c)]
  /\ UNCHANGED <<carried, claims, admitted>>

Moves(c) ==
  \/ Come(c) \/ Handled(c)
  \/ Respond(c) /\ UNCHANGED authVars

Passes(c) ==
  \/ Check(c) \/ EndSpan(c)
  \/ (Forward(c) \/ Record(c) \/ Count(c) \/ Meter(c)) /\ UNCHANGED authVars

-----------------------------------------------------------------------------
Still == UNCHANGED <<tokenVars, authVars>>

MainRuns == stage = "up" /\ Main /\ Leaves /\ UNCHANGED startVars

Alone ==
  \/ ValidateOnly \/ OpenDatabase \/ ServerFails \/ StartGateway
  \/ stage \notin {"flags", "validated"} /\ Signal /\ UNCHANGED startVars

Starts == ~Ended /\ Still /\ (Start \/ MainRuns \/ CleanUp)
Serves == ~Ended /\ Still /\ StartServing
Intercepts(c) == ~Ended /\ Passes(c) /\ UNCHANGED <<startVars, tokenVars>>

(* A bound: tokens are made, and the clock goes on, only as long as there   *)
(* is still a call to be authorized.                                        *)
TokensMatter ==
  /\ options.auth /\ MayServe
  /\ \E c \in Calls : pc[c] \in {"new", "request", "auth"}

Done == Ended \/ stage = "validated"

ProcessNext ==
  \/ Starts \/ Serves
  \/ ~Ended /\ Still /\ Alone
  \/ \E c \in Calls :
       \/ Intercepts(c)
       \/ ~Ended /\ Moves(c) /\ UNCHANGED <<startVars, tokenVars>>
  \/ /\ ~Done /\ TokensMatter
     /\ GenerateToken \/ RefreshToken \/ Tick
     /\ UNCHANGED <<vars, startVars, authVars>>
  \/ Done /\ UNCHANGED processVars

(* What the Go scheduler runs; the database, clients and whoever sends      *)
(* signals do as they like.                                                 *)
ProcessFairness ==
  /\ WF_processVars(Starts)
  /\ WF_processVars(Serves)
  /\ \A c \in Calls : WF_processVars(Intercepts(c))

ProcessSpec == ProcessInit /\ [][ProcessNext]_processVars /\ ProcessFairness

-----------------------------------------------------------------------------
(* A signal that comes once it is listened for ends the process: at         *)
(* whatever stage of its start, whatever HTTP clients do, unless a handler  *)
(* or, before main reads its signals, the database never comes to an end    *)
(* (main.go:264, 349, 450-470).                                             *)
ASignalEndsTheProcess ==
  /\ \A c \in Calls : []<>(pc[c] # "handler")
  /\ []<>(stage # "storage")
  => (signalled ~> Ended)

(* What main, on its way up or down, and a call between its client and its  *)
(* handler have to wait for before their next step.                         *)
MainGoesOn ==
  \/ stage # "up"
  \/ main = "wait" /\ signalled
  \/ main = "print" /\ (options.print => mu = Nil)
  \/ main \in {"shut down gateway", "await gateway", "stop gRPC", "clean up"}
  \/ main = "await calls" /\ ~\E c \in Calls : InRPC(c)

CallGoesOn(c) ==
  \/ pc[c] \in {"auth", "count", "leave"}
  \/ At(c, "record") /\ (options.otel \/ mu = Nil)
  \/ At(c, "request") /\ grpc \in {"serving", "stopped"}

(* On its way to its end the process is never stuck in itself: while it     *)
(* starts or has been told to end, main or a call can take its next step,   *)
(* or a handler or the database is being waited for. The lock of the        *)
(* metrics, for which main waits as well, stops nobody                      *)
(* (metrics.go:78-92, main.go:450-470).                                     *)
OnlyHandlersHoldUpTheEnd ==
  /\ ~Done
  /\ stage = "storage" => ~WithDatabase
  /\ signalled \/ main # "wait"
  /\ ~\E c \in Calls : At(c, "handler")
  => MainGoesOn \/ \E c \in Calls : CallGoesOn(c)

(* A token is taken not a tick longer than was asked for, and refused only  *)
(* when less than a second of that is left, as its dates are cut to whole   *)
(* seconds, however long ago the call that carries it began and whether it  *)
(* was made or refreshed (jwt.go:91-93).                                    *)
TokensServeTheirTime ==
  [][\A c \in Calls :
       LET t == carried[c]
       IN  /\ options.auth /\ At(c, "auth") /\ ~At(c, "auth")' /\ t # NoToken
           /\ ValidMethod(c \in ListCalls, t.user)
           => /\ At(c, "handler")' => now < t.at + t.for
              /\ now + Second <= t.at + t.for => At(c, "handler")']_processVars

(* The span of a call made with a token says who made it                    *)
(* (docs/OTEL_README.md:42, otel_interceptors.go:131).                      *)
SpansNameTheirUsers ==
  \A c \in Calls :
    options.otel /\ At(c, "over") => span[c] = admitted[c]
=============================================================================
