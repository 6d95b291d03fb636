# A model of the user server

TLA+ modules for the program in this repository: a gRPC service that keeps
users, its storage, and what is built around it. This file lists the parts of
the program, says which module models which and how, what each model-checking
run shows and within which bounds, what is proved, and what is left out.

## The program

| part | source | state | operations | interacts with |
|---|---|---|---|---|
| user service | `server/server.go` | none of its own; the locals of each call | nine RPCs: four unary, two server streams, one client stream, two bidirectional streams | storage (calls), clients (messages) |
| in-memory storage | `server/memory_storage.go` | one map, one `RWMutex` | add, get, update, delete, two lists, exists, count | called by every handler goroutine |
| PostgreSQL storage | `server/postgres_storage.go` | a connection pool; the table `users` | the same, as SQL statements | the database |
| storage interface | `server/storage.go` | - | what both promise | |
| lifecycle | `main.go` | the signal channel, two servers, the deferred calls | start up, serve, print metrics, shut down the gateway, stop gRPC, clean up | gateway, gRPC server, metrics, telemetry, storage |
| gateway | `proto/pkg/example.pb.gw.go` (generated) | per request: the body, the call made of it, a goroutine that sends | read, open, send, forward, cancel | HTTP clients, gRPC server |
| call stubs | `proto/pkg/example_grpc.pb.go` (generated) | per call: messages under way, status | open, Send, CloseSend, Header, Recv | gateway, client, handlers |
| metrics | `interceptors/metrics.go` | totals, per-method counts and durations | record, read, reset | every call |
| OpenTelemetry | `interceptors/otel_interceptors.go`, `otel/` | exported counters | active requests, durations | every call |
| JWT authentication | `interceptors/jwt_auth.go`, `auth/jwt.go` | a key; the tokens given out | generate, validate, refresh; refuse a call | every call |
| token tool | `cmd/tokengen` | - | make a token | JWT authentication |
| demonstration client | `cmd/client` | the call it makes, a goroutine that receives | nine calls, one after the other | the service |
| listener hand-over | `cmd/respawn/main.go` | a listener, a child process | restart, terminate | signals |
| web UI, control plane, certificates | `ux`, `control-plane`, `insecure` | - | | |

What is hard here is not any one method but their meeting. gRPC runs every call
in a goroutine of its own. The in-memory storage holds its lock inside each
method only, so every handler that makes two calls of it (AddUser: count, add;
UpdateUser: get, update; a LOGIN activity: exists, get, update; SyncUsers:
exists, update or add) acts on what may have changed since. Streams go on for
as long as the client likes, and may break after any message. A storage other
than the map may fail at any call. A bidirectional stream has a goroutine at
either end of each direction, and buffers of limited size between them. Tokens
run out while calls wait. The process may fail or be told to end at any stage
of its start, with some things open and others not. `PROJECT.json` lists each hazard at its line.

What makes each part correct:

- *service*: users are stored under their own valid id; nobody comes back by an
  update; the first user is an admin; what a call answers was so at some moment
  of the call; answers and totals account for the users there are; create dates
  are given once; each message is worked off.
- *storage*: each method takes effect at one moment; both backends can stand in
  for each other.
- *lifecycle*: what calls use is open while they are under way; calls finish
  before the process ends; it does end, and leaves nothing open.
- *gateway and client*: the service gets what was sent, in order and without a
  gap; an answer that ends well is whole; no call, request or goroutine is left.
- *metrics*: each call is counted once, when it ends, and never lost or doubled.
- *authentication*: a token is good for the time it was asked for and no longer;
  what is recorded of a call names the user who made it.

## Modules

| module | what it is |
|---|---|
| `Users` | the data: `User` records, roles, statuses, timestamps, update-mask paths |
| `MemoryStorage` | `memory_storage.go`: variables `users` (the map) and `now` (the clock); an action per method that writes, an operator per method that reads |
| `UserService` | `server.go` over `MemoryStorage` (`storage == INSTANCE MemoryStorage`), and its properties |
| `UserLedger` | `UserService` with history variables that keep accounts: users added and deleted, create dates given |
| `CallHistory` | `UserService` with history variables of what the storage showed during each call |
| `ServiceClaims` | what comments and messages claim and the code does not do |
| `StorageCalls` | the calls and answers of the eight methods of `storage.go`, which the next three extend |
| `Storage` | what the interface promises: each method takes effect at one moment, or fails with an error that leaves open whether it did |
| `MemoryStorageLocks` | `memory_storage.go` step by step under its `RWMutex`; implements `Storage` |
| `PostgresStorage` | `postgres_storage.go` statement by statement over a pool of connections; implements `Storage` but for three named departures |
| `Server` | `main.go` and the interceptors: the process around the handlers, from both servers' start to its end |
| `Startup` | extends `Server` by what comes before the servers and after them: the stages of func main, the deferred calls, what is open |
| `Tokens` | `auth/jwt.go`: tokens over time, and who may do what |
| `Process` | `Startup` and `Tokens` together: the whole process, which implements `Server` |
| `Stream` | one gRPC call as the generated stubs make it: windows, half-closing, header, status, cancellation |
| `Gateway` | the generated HTTP handlers over a `Stream` |
| `DemoClient` | `cmd/client/main.go` over a `Stream` |
| `FrontEnds` | the gateway or the client with its calls, and the properties of both |
| `UserServiceProofs`, `UserLedgerProofs`, `CallHistoryProofs`, `MemoryStorageLocksProofs`, `PostgresStorageProofs`, `ServerProofs`, `ProcessProofs`, `FrontEndsProofs` | theorems |
| `MCTraffic` | the requests clients send in the runs |
| `MC...` | one per module that is run, with the symmetry of the goroutines |

### How the code maps to `UserService`

A goroutine is an element of `Procs`. `pc[p]` is the next thing the handler
does with the outside: a storage call (`start`, `get`, `add`, `update`), a
`Recv` (`recv`), a `Send` (`send`), or to end (`return`). Everything a handler
computes between two of these is folded into the action before it, so there is
an action per storage call, Recv and Send. `req` is the request or the message
of the stream, `snap` the user a handler has read and is about to write back
(`existingUser` in UpdateUser, `user` in UserActivityStream), `pending` the
slice a list handler is sending, `tally` the totals of a batch, `reply` the
answer. `Unavailable` is the error any method of the interface may return, in
the runs and proofs with `FaultyStorage`.

Where a handler writes, the action contains the storage's own action, so the
error the storage returns decides which disjunct is taken: for example
`SyncWrite` at `add` answers "created" if `storage!AddUser` returned OK, and
FAILED if it found that somebody else had added the user meanwhile.

Data is abstracted to what decisions depend on. E-mail and phone are one field,
"email", which the code treats alike everywhere. Profile, tags, metadata and
addresses are one field, "profile"; a mask path for one of them is "profile".
Roles, statuses and ids are themselves. A timestamp is a reading of the clock,
or `NoDate` for nil; `AsTime(NoDate)` is the epoch, as in the library. Messages
of errors are left out, codes are kept. The page token reaches no decision and
is left out. The two readings of the clock in one comparison of ListUsers are
taken as one.

### How the code maps to the storage modules

`MemoryStorage` takes each method for one step; `UserService` is built on that.
`MemoryStorageLocks` is why it may: there a method is entered, takes the lock
(`Lock` shuts new readers out, `Drain` waits for those inside, as
`sync.RWMutex` does), looks up, writes, and unlocks as it returns; a list visits
the entries of the map one at a time, in any order. The data operations are the
operators of `MemoryStorage`, by `INSTANCE`. `KeepsItsPromise` is the abstract
specification, `Storage!Spec`, with the variables of the same names; the rest is
stuttering.

In `PostgresStorage` a method waits for a connection (`Acquire`), executes its
statement, atomic in the database, and releases the connection with its end
(`Over`). UpdateUser is two statements, the first of which gives its connection
back before the second waits for one. A list takes its snapshot (`Select`) and
reads the rows one by one. `Broken` is a statement that is not executed;
`Executed` a statement that is, whose answer comes or is lost. The refinement
maps the answer of `Storage` to `decided`: a list is decided when its snapshot
is taken, any other method when it is answered. The calls of the run include
ListUsers with a page size, which is refused for the place of its LIMIT, and
without one, which lists. The code departs from the
promise in three ways, each an action of its own beside `Promised!Next`:
`Overwrites` (AddUser is an upsert), `UpdatesNobody` (the user was deleted
between the two statements; nobody looks at the number of rows) and `ListsPart`
(the connection broke among the rows; nobody looks at `rows.Err()`). A row that
cannot be scanned is `RowsBroken` too: it is logged and skipped, and pgx closes
a result whose Scan failed, so no row comes after it.

Errors of this backend carry no gRPC code, so the model calls all of them
"error", which `Storage` allows of every method.

`UserService` with `FaultyStorage` lets any method fail without effect; it does
not take in a statement that is executed and whose answer is lost, which only
`PostgresStorage` has.

### How the code maps to `Server`

`main` is the line func main has come to: waiting for the signal, printing,
shutting the gateway down and waiting for it, stopping the gRPC server and
waiting for it, the deferred calls, the end. `grpc` and `gateway` are the two
servers, each begun by a goroutine of its own; one that cannot serve ends the
process with `log.Fatalf` (`Fatal`, `main = "failed"`). The gRPC server is the
odd one: stopped before its goroutine has called Serve, it is `"never served"`,
and Serve then fails.

A call is made once, over gRPC (`Arrive`) or as an HTTP request of which the
gateway makes a call (`Request`, `Forward`, `Respond`). Inside, it passes the
interceptors in the order of the chain: metrics, authentication, handler, and
metrics again. What the handler does is `UserService`; here it takes a while
(`HandlerEnds`). With `--otel-enabled` the OpenTelemetry instruments count
instead of the `MetricsCollector`. An increment of the collector is a read
(`Record`) and a write (`Count`), so that its lock is needed. The flags are a
variable that `Init` chooses, so one run covers all settings. `failed`,
`turnedAway` and `late` record what happened, for the properties.

gRPC and `net/http` are modelled by what `main.go` relies on: GracefulStop
takes no new calls and returns when those there have ended; Shutdown does the
same for requests, but not for longer than its context; a signal that finds the
channel full is dropped.

### How the code maps to `Startup`, `Tokens` and `Process`

`stage` is what func main does next until it waits for its signal: flags, the
two providers of OpenTelemetry and its instruments, the listener, the storage,
the goroutine of the gRPC server, the gateway's connection and its handlers.
Every stage may fail, with `log.Fatal`, which runs no deferred call; `open` is
what is open, `deferred` the calls main has deferred, the latest first, which
`CleanUp` runs one by one before `Exit`. The set-up of the metrics is the only
one that undoes an earlier one when it fails (`SetUpMetrics`). A signal that
comes once it is listened for waits for main; the goroutine of the gRPC server
runs, and calls arrive, while main goes on to the gateway. A process that only
validates a token ends in the stage `"validated"`.

`Process` conjoins this with what each call carries. A client has the `token`
last made for it or refreshed; a call takes it along (`carried`), and the JWT
interceptor looks at it when the call gets there, which may be any time later
(`Check`). Claims go into the context of the handler, which ends with the
handler (`Handled`); the logging interceptors of OpenTelemetry end their spans
outside of it (`EndSpan`). The clock ticks `Second` times a second, and the
dates in a token have whole seconds. Tokens that are malformed, of another key
or algorithm, or absent are refused alike and are one value, `NoToken`.

Every step of `Process` is one of `Server`'s or leaves its variables alone, so
what `Server` promises the whole process promises; `ProcessImplementsServer`
proves it, and the run `Server` checks it on the composed specification.

### How the code maps to `Stream`, `Gateway`, `DemoClient` and `FrontEnds`

A call has two buffers, `up` and `down`, of `Window` messages each, as flow
control gives them; a sender waits for room. Messages are numbered, a response
bears the number of what it answers, and the totals of a batch are the number
of messages. The handler is that of `UserService` as its client sees it: it
reads, sends, ends, or fails at any point. A Send after the call is over may
still succeed, to no effect, until it has heard of it. `owed` are the
responses the handler has yet to send; `due`, a history variable, all it ever
came to owe, by which an answer is measured. A list owes one response at least:
the handler that finds no user returns an error.

The gateway has one kind of handler per kind of method. `http` is the next
thing the HTTP handler does: read the body or its next item, send it, close,
wait for the header, forward what comes. `Finish` is its return, with the
deferred cancel. Only a bidirectional stream has a goroutine of its own,
`sender`. The body comes item by item, any of them malformed, and its client
may stop or leave at any point. Whether a body decodes is a choice; two facts
about `net/http` are assumed: the context of a request ends when its client
leaves or its handler returns, and reading a body whose request is over fails.
For bidirectional streams the gateway sends and receives at once, as HTTP/2,
which the server speaks over TLS, allows. The in-process variants of the
handlers (`RegisterUserServiceHandlerServer`) and the copy of the generated
code in `proto/pkg/proto` are used by nobody and left out.

The client runs its nine demonstrations (`Script`) one by one; func main sends,
and in a bidirectional stream the goroutine `receiver` receives and signals
`done`, a channel without a buffer. What the messages hold, and the pauses
between them, are left out. Gateway and client are behaviours of their own, as
they share nothing: `program` says which it is.

### Variants

Next to some definitions stands a variant with a comment that begins with
"Variant" or "a slip in the code": the definition with one plausible mistake,
such as an update that does not look whether the user exists. The specification
never uses them. A property is worth checking if it fails when a variant takes
the place of the definition it varies; `PROJECT.json` lists the pairs under
"mutants".

## Runs

Each `.cfg` names its constants. For the service: ids 0, 1, 2 (0 is the invalid
one), two goroutines, one or two messages per stream (`MaxMsgs`), a clock of one
or two readings (`MaxTime`), seconds of one or two ticks. Two goroutines suffice
for every race of a handler with itself or another, because a handler's window
is between two of its storage calls and one other call can do the damage; where
two others are needed (delete *and* re-create), one goroutine makes both calls
one after the other, which `Finish` and `Call` allow. Streams are bounded
because all state but the totals is reset between messages; two messages let a
batch add up what it did before.

| run | shows |
|---|---|
| `Service` | every method that writes, with every request it refuses, storage failures: `TypeOK`, `StoredUnderOwnId`, `BatchAddsUp`, `AppearsOnlyByAdding`, and that each message is worked off (`EveryMessageIsHandled`) |
| `History` | all ways to add, delete and write back an old copy, lists with and without filters, storage failures: `UsersAccounted`, `CreateDateWasGiven`, `FirstUserEverIsAdmin`, and `EveryAnswerHadItsMoment`, a form of linearizability without the order between calls |
| `MemoryLocks` | three goroutines, nine calls that cover the eight methods: `TypeOK`, `NoConcurrentMapWrite`, that the lock never stops everybody (`SomebodyGoesOn`), that the step-by-step methods are those of `Storage` (`KeepsItsPromise`), and that every call returns (`EachCallReturns`) |
| `Postgres` | three clients, two connections, seven calls: `TypeOK` (which bounds the pool), `SomebodyGivesBack` (those who wait for a connection do not wait for each other), `KeepsItsPromiseBut`, `CreateDateNeverMoves`, `EachCallReturns` |
| `Server` | the whole process (`ProcessSpec`) over a database, two calls of either kind, one of them a list, all flags, tokens that run out, a failure or a signal at any moment: `ProcessTypeOK`, `NobodyIsCutOff`, `RequestsAreAnswered`, `EveryCallIsCounted`, `ActiveRequestsAreActive`, `WhatCallsUseIsOpen`, `NothingStaysOpen`, `OnlyHandlersHoldUpTheEnd`, `TokensServeTheirTime`, `ASignalEndsTheProcess` |
| `FrontEnds` | one HTTP request of any kind through the gateway, or the whole script of the client: `TypeOK`, `NothingIsSkipped`, `OKIsTheWholeAnswer`, `NoCallIsLeft`, `NoStandstill`, `RequestsEnd`, `SendersEnd`, `ClientEnds` |
| `FirstAdminDeleted` | the counterexample once users are deleted: count, delete the last, add a member |
| `ClaimCreateDate` | the counterexample to "all fields except ... create_date": read, delete, re-create, write back |
| `ClaimContact` | cloneUser drops e-mail and phone |
| `NobodyIsAddedTwice` | the counterexample to "can't be added again": two additions of one user, both answered OK |
| `ListUsersListsAll` | the counterexample to "lists all users": the connection breaks before the last row of a ListUsers without a page size |
| `UserAttribution` | the counterexample to "JWT claims added as span attributes": the claims are in a context made inside the one that is looked at |

The last six are expected to fail; the findings in `PROJECT.json` quote what
they refute.

*Storage.* Three goroutines are the fewest with a writer inside, one that waits,
and a reader it keeps out, and the fewest that have to queue for two
connections. Two users are the fewest of whom a list can miss one. All clients
make the same calls, so `EachCallReturns` watches one of them.

*Server.* Two calls suffice for two that end together, and for an HTTP request
beside a gRPC call; each is made once, and a client's next call is another call.
A token lasts three ticks, a second has two: so its dates are cut by a fraction,
and there is an instant at which it is just taken, one at which it is refused
though not quite over, and one after its end. `MaxTime` lets it run out; the
bound `TokensMatter` stops clock and tokens once no call can come to its check.

*FrontEnds.* A window of one message is the hardest: whoever waits for the
other waits soonest. Four messages are one more than the two buffers and the handler
between them can hold, so a gateway that sent everything before it received
anything would get stuck. One request stands for all, as requests share only
their connection. Deadlock is not checked here alone: a request or a script
that is over does nothing more, and a stream whose client neither sends nor
leaves rests for good.

Elsewhere deadlock is checked: a client can always start a call or end a
stream, and the end of the process is a step that changes nothing.

**Fairness.** `Fairness` of the service is weak fairness of `Handle(p)`: what a
goroutine does by itself, which the Go scheduler and the lock (a waiting writer
blocks new readers) make happen. `Call`, the Recvs and the Sends depend on
clients, who may stop, so nothing is assumed of them; `EveryMessageIsHandled`
therefore says that a handler gets as far as the next Send or Recv, or ends.

In the storage modules fairness is strong, `SF_vars(Run(c))`: a method that can
go on again and again does. The lock earns that: an `Unlock` of a writer admits
the waiting readers before the next writer, and writers queue on a mutex that
hands itself over to one that has waited long. The pool serves those who wait
in their order. Entering a method, and the breaking of connections, are left
out of `Run`: callers may stop, and connections may hold. A database that never
answers is not modelled there, as no method of the storage sets a time limit.

In `Process` fairness is weak: of main (`Starts`, with the start-up and the
deferred calls; the ten seconds pass, so `GiveUp` is among its steps), of the
gRPC server's goroutine (`Serves`), and of what each call does between its
client and its handler (`Intercepts`). The database may never answer, handlers
may wait for their clients for ever, HTTP clients need not read, nobody need
send a signal: `ASignalEndsTheProcess` assumes that no call stays in its handler
and that opening the database comes to an end, and nothing of HTTP clients.

In `FrontEnds` it is weak, one condition each for the HTTP handler, its sending
goroutine, the client's func main, its receiving goroutine and the gRPC handler;
a handler need not fail, but one whose call was cancelled does, as its context
ends. The HTTP client need neither send, end its body nor leave, which is why
`RequestsEnd` asks for one of the last two; it reads what is written to it.

**Waiting for each other.** `SomebodyGoesOn`, `SomebodyGivesBack`,
`OnlyHandlersHoldUpTheEnd` and `NoStandstill` are the part of the liveness
properties that a single state shows: whoever waits, somebody else can take a
step. The conditions under which a goroutine can (`GoesOn`, `AtWork`,
`MainGoesOn`, `CallGoesOn`, and those of `FrontEnds`) are written out, as
`ENABLED` is out of the prover's reach. Were one too generous, the liveness
property of the same run, which uses the actions themselves, would fail where
everybody is stuck.

## Proofs

For every set of ids, goroutines and requests, every bound, with or without a
faulty storage:

- `Typing`: `Spec => []TypeOK`. `TypeOK` is inductive by itself: it says what
  kind of request a handler holds at each label, and that one about to write
  back holds a user.
- `OwnId`: `Spec => []StoredUnderOwnId`. The inductive invariant `OwnIdInv`
  adds that every handler at `add` or `update` holds an id it has checked:
  without it, a write long after the check is not known to be valid.
- `NoResurrection`: `Spec => AppearsOnlyByAdding`, from `TypeOK` and the lemma
  `StepEffect`, which says the only effects a step has on the storage: add,
  write back, overwrite by sync, delete, none.
- `FirstAdmin`: if no method of `Traffic` deletes, batches or syncs,
  `Spec => FirstUserIsAdmin`. `AdminInv`: a handler about to add somebody who
  is no admin has seen a user, and as users only grow there still is one.
- `TotalsAddUp`: `Spec => []BatchAddsUp`. `BatchInv` adds that a message being
  worked on is the one that is received and not yet counted.
- `FirstEverAdmin`: `LedgerSpec => FirstUserEverIsAdmin`, with deletions, batches
  and syncs. `FirstInv`: as long as no id was ever given a date, who is about to
  add a user has asked for an admin, as the storage it counted was empty.
- `CreateDate`: `LedgerSpec => []CreateDateWasGiven`. `DateInv` adds that a
  user held for writing back carries a date its id was given; the stored dates
  alone are not inductive.
- `DateIsNotUpdated`: if no method of `Traffic` deletes or syncs,
  `Spec => UpdateKeepsCreateDate`, the claim that run `ClaimCreateDate` refutes
  with deletions. `HeldInv`: a user held for writing back is still stored, with
  the date it was read with. So nothing but a deletion or a sync in between is
  the cause of that finding.
- `AnswersAccountForUsers`: `LedgerSpec => []UsersAccounted`. `AccountInv` says
  that only a client stream waits for messages and that an idle goroutine has
  nothing in hand (`Stage`), and that those who have something in hand are
  finitely many, although the goroutines need not be. A sum over goroutines is
  written as the size of a set of pairs (`Total`), so that a step changes it by
  the facts of finite sets (`TotalMoves`) and no induction is needed. The heart is
  `AccountStep`, action by action: what a step adds to the storage it adds to
  what its goroutine has in hand or what is booked for it.
- `AnswersAreOfAMoment`: `HistorySpec => []EveryAnswerHadItsMoment`. `MomentInv`
  follows one goroutine: until it has its answer the storage as it is now is
  among what it saw (`Looks`); a LOGIN activity keeps the view in which it found
  its user (`Holds`); the users a list has sent and those it has yet to send are
  those of one view (`Lists`). That needs `OwnIdInv`, and that nothing stored
  has contact data (`NoContact`), so that reading a user's copy is reading the
  user. A step of another goroutine only adds a view (`OthersAreSeen`).

For every set of clients and calls, and every size of the pool:

- `LockTyping`, `WritersAlone`: `MemoryStorageLocks` keeps `TypeOK` and
  `NoConcurrentMapWrite`. `LockInv` says what each label means (`Phase`) and
  that who is in a method holds the lock, and who writes is alone (`Holds`).
- `MemoryImplementsStorage`: `Spec => KeepsItsPromise`. `PromiseInv` adds
  `UpToDate`: what a writer's check has found, and what a list has collected so
  far, is still so. This is where the lock is needed; with it `Check` and
  `Write` together are one step of `Storage`, and a list is what the map holds
  when its loop ends. From it follows `AddedOnce`, that nobody is added twice,
  which run `NobodyIsAddedTwice` refutes of the other storage.
- `LockDoesNotDeadlock`: `Spec => []SomebodyGoesOn`. `HolderInv`: a writer that
  has the lock and drains waits for readers who are inside a method, and those
  never wait for a lock.
- `PostgresTyping`, `CreateDateStays`: `PostgresStorage` keeps `TypeOK` and
  `CreateDateNeverMoves`. `PostgresInv` adds that the set of connections in use
  is finite, so that counting it means something, and that a second statement
  belongs to an UpdateUser.
- `PostgresKeepsItsPromiseBut`: `Spec => KeepsItsPromiseBut`. `PhaseInv` says
  what a method at each label has decided and whose rows it still holds. Then
  each action is one of `Storage`, one of the three departures, or a stutter:
  taking a connection, breaking before the statement, reading a row.
- `PoolDoesNotDeadlock`: `Spec => []SomebodyGivesBack`. `ConnsInv`: a connection
  in use is that of a method at a statement or among its rows, so a full pool,
  which has at least one, has somebody at work.

For every set of calls:

- `CallsFinish`, `GatewayFirst`: `Server` keeps `NobodyIsCutOff` and
  `RequestsAreAnswered`. `Order` says which server has stopped and which calls
  are gone at each place of main; the heart of it is that the gRPC server stops
  only after the gateway is closed and, unless it took too long, empty.
- `CallsCounted`, `GaugeIsRight`, `ServerTyping`: it keeps `EveryCallIsCounted`,
  `ActiveRequestsAreActive` and `TypeOK`. `Lock` says that who counts itself
  holds the lock and has read the newest counts. The counts are cardinalities,
  which grow and shrink by one call (`OneMore`, `OneLess`); that the gauge never
  falls below zero, which `TypeOK` says, follows from what it counts.

For every set of calls and users, with or without a database:

- `ProcessImplementsServer`: `ProcessSpec => Init /\ [][Next]_vars`, the safety
  part of `Server`; its liveness is restated for the process. With it
  `ProcessServes` carries the four invariants above over to the whole process.
- `OpenForCalls`, `AllIsClosed`: it keeps `WhatCallsUseIsOpen` and
  `NothingStaysOpen`. `StartInv` says which stages have opened what (`OpenInv`),
  that whatever is open has a deferred call that closes it, but for the traces
  while the metrics are set up (`DeferInv`), and that nothing is served before
  its stage (`Sequel`).
- `TheEndIsNotBlocked`: it keeps `OnlyHandlersHoldUpTheEnd`, as whoever holds the
  lock of the metrics is about to give it back (`Lock`), and a call that
  GracefulStop waits for, if not in its handler, can go on.
- `TokensAreGoodForTheirTime`, `ProcessTyping`: it keeps `TokensServeTheirTime`
  and `ProcessTypeOK`, for any number of ticks in a second, by arithmetic of
  whole seconds (`TokenTimes`).

For every window and every length of stream:

- `FrontEndsTyping`, `StreamsAreInOrder`, `AnswersAreWhole`, `CallsAreEnded`:
  `FrontEnds` keeps `TypeOK`, `NothingIsSkipped`, `OKIsTheWholeAnswer` and
  `NoCallIsLeft`. `FrontEndsInv` says where each goroutine may be (`Places`) and
  that what was received and what is under way are the numbers from 1 up to what
  was sent (`Ordered`); `Answered` says that the responses written, under way and
  owed are together all that was ever due (`Whole`), what is due for each kind of
  call (`Asked`, `Echoed`, `Totalled`), and what was sent before a stream was
  closed: all of the body of a batch, all that can be decoded of the body of a
  bidirectional stream.
- `FrontEndsDoNotDeadlock`: it keeps `NoStandstill`. `Ready` adds, for the
  service, the gateway and the client, that a unary handler has its message,
  that the stream is closed before anybody only waits for its answer, or else
  there is a goroutine that sends and closes it when it ends, and that who
  waits for an answer has a handler.

The assumptions are those named in `Users`, `UserService`, `StorageCalls`,
`PostgresStorage`, `Server`, `Startup`, `Tokens` and `Stream`: 0 is an id, "" is a
name and a contact, bounds, seconds and windows are positive, each method gets
requests of its kind, `Nil` and `NoToken` are none of the values they stand
beside. TLC evaluates them in every run.

Only model-checked: `EveryMessageIsHandled`, `EachCallReturns`,
`ASignalEndsTheProcess`, `RequestsEnd`, `SendersEnd` and `ClientEnds`, which are
liveness under fairness and out of the prover's reach. Every safety property
that a run finds to hold is proved.

## Not modelled

- *API keys and logging* (`interceptors/auth.go`, `logging.go`): a comparison of a
  header with a constant that `main.go` does not install, and output.
- *Listener hand-over* (`cmd/respawn`): a stand-alone HTTP demonstration. It serves
  nothing of the service and shares no code with it.
- *Web UI and control plane*: the handlers of `ux` keep no state between requests
  and call a package `ux/client` that is not in the repository, so what they call
  and how it fails cannot be read from the source. The control plane serves
  files it has in its binary.
- *Certificates*: embedded data; the ACME code is excluded from the build.
- *`proto/pkg/proto`*: a copy of the generated code that nothing imports. Of the
  generated messages (`example.pb.go`) only the fields that decisions depend on
  are modelled, in `Users` and the requests of `UserService`.
- In what is modelled: log lines, attributes of spans but the user, durations and
  the counts per method, which are added under the same lock as the total; pprof
  but for its failure; connection strings, schema migration, the JSON form of
  single columns; the page token, which reaches no decision.
- `UserService` with `FaultyStorage` lets a storage call fail without effect. A
  statement that is executed and whose answer is lost is in `PostgresStorage` only.

Three hazards of `PROJECT.json` have no property, as nothing in the repository
says what ought to hold: two masked updates of which the later undoes the
earlier (server.go:140), a sync that stores what AddUser refuses (server.go:357),
and a list with a page size that the database always refuses
(postgres_storage.go:465). The model has all three as the code does.

One more thing the model has and no run checks: the final metrics are printed
when the signal comes, so the calls that end after it are not in them, and none
are with OpenTelemetry. That a signal before the gRPC goroutine has begun makes
Serve fail (main.go:366) only means that the process ends one way or the other,
which `ASignalEndsTheProcess` covers.

## Plan

Done, in this order: the service and its storage, both backends and the interface
they share, the process around them with its start-up and its tokens, the
generated stubs and gateway, the demonstration client, the proofs of all safety
properties, and of the refinements of `Storage` and `Server`. Left:

1. The statement whose answer is lost, and the addition that replaces a user, in
   `UserService`, and what then remains of `UsersAccounted`: the answers say at
   least which users there can be.
2. `UserService` over `MemoryStorageLocks`, its storage calls step by step, shown
   to implement `UserService`, which takes each for one step.
3. An abstract specification of a stream, which `Stream` with its windows
   implements, under the theorems about gateway and client.
