# A TLA+ verification of the code execution engine

The engine accepts source code over HTTP, queues it, runs it in a throw-away
Docker container and lets the caller poll for the result or be notified by
webhook. This directory models the engine's own logic in TLA+, checks it with
TLC on small instances and proves its safety properties with TLAPS for
instances of any size. Paths below are relative to the repository root.

## 1. The system

| Component | State it keeps | Operations | Hard parts |
|---|---|---|---|
| Submission store (`internal/db`, `db/`) | one row per submission: status, result columns, error, timestamps | `CreateSubmission`, `MarkSubmissionRunning`, `CompleteSubmission`, `FailSubmission`, reads | every UPDATE is by id alone: no statement tests the status it overwrites |
| Create endpoint (`internal/api`) | the request's context | validate, insert, enqueue, mark failed if the enqueue failed | three calls to two stores with one cancellable context; lost acknowledgements; crash between them |
| Execute task (`internal/queue`, Asynq) | pending / active / retry / completed / archived, retry count | enqueue, dequeue, retry, archive, requeue on shutdown, recover after a lost lease | an attempt given up on keeps running beside its retry |
| Execute handler (`internal/worker`) | row as loaded, outcome, retry count of its context | load, skip if finished, mark running, execute, store or fail, notify | status read at the start and used four calls later; errors that are only logged |
| Image cache (`internal/executor`, `ensureImage`) | `imageReady`, `pullOnce` (a `sync.Once` per image) | look up, inspect, pull, forget, confirm | everyone waits for one puller; Delete of a failed `Once` against LoadOrStore of a new one |
| Sandbox (`internal/executor`, `Execute`, `script.go`) | container, attached stream, two buffers, the marker on stderr | create, attach, start, wait, collect, inspect, build the outcome, remove | five parties; output cap; whole seconds; processes the program leaves behind, which write to the stream the marker is on; budget running out at any step |
| Webhook delivery (`internal/worker`, `internal/webhook`) | delivery task, retry count | load the row, POST, retry | at-least-once delivery over a network that loses and delays; body read at delivery time; slots shared with executions |
| HTTP server and middleware (`internal/api/server.go`) | `statusRecorder` of a request | route, recover a panic, log | a panic at any point, before or after the header is on the wire |
| Read endpoints (`internal/api/handlers.go`) | none | get one, list a page, languages, health, readiness | paging by offset while rows arrive; equal timestamps; int32 conversions |
| Validation (`handleCreateSubmission`, `webhook.Validate`) | none | ten checks in order | boundary lengths, escapes, address ranges |
| Configuration (`internal/config`), language registry (`internal/lang`) | constant after start | `Load`; `Get`, `All`, `Images` | limits of four packages that have to fit together |
| Entry points (`cmd/api`, `cmd/worker`) | what is open, the signal context, in-flight work | start, wait for Postgres, warm, serve, drain, close | a signal at any moment; deferred closes against work still under way |
| Load test (`scripts/loadtest`) | none | benchmark client | not part of the system |

How they interact: the API writes the row, then puts an execute task in Redis;
a worker takes the task, reads the row, runs `Execute` (which asks the image
cache first), writes the row and puts a webhook task in Redis. Row and task are
in different stores and nothing is transactional across them. What makes the
whole correct:

* a worker never meets a task without a row; a finished row is final; what a
  caller polls goes through queued, running, completed or failed;
* a program is run a bounded number of times, an accepted submission finishes,
  and a webhook task names a finished submission, once;
* concurrent jobs share a pull and a failed pull is tried again;
* an outcome is that of the program that ran, and the container is destroyed;
* a receiver is told only what is final, a bounded number of times;
* every request is answered, and the answer agrees with the two stores;
* the limits fit together: what is accepted can be run, within the task's time;
* a process that is told to stop finishes its work before it closes what the
  work uses.

## 2. Modules

| Module | Models | Notes |
|---|---|---|
| `SubmissionStore` | a row and the four writing statements | operators, no state |
| `SubmissionLifecycle` | what the caller of `GET /v1/submissions/{id}` is promised | abstract specification |
| `ExecutionPipeline` | create endpoint, execute task, execute handler | extends `SubmissionStore`, refines `SubmissionLifecycle` |
| `ExecutionPipelineProofs`, `NotificationProofs` | theorems about it: rows and runs; webhook tasks | |
| `ImageCache` | `ensureImage`, `WarmImages` | one image reference: the maps' keys do not interact |
| `ImageCacheProofs` | theorems about it | |
| `Sandbox` | `Execute`, `runContainer`, `buildOutcome`, the script | one container |
| `SandboxProofs` | theorems about it | |
| `WebhookDelivery` | `handleWebhook`, `Deliver`, the network and the receiver | extends `ExecutionPipeline` and shares its worker slots |
| `WebhookDeliveryProofs` | theorems about it | extends `NotificationProofs` |
| `ServiceProcess` | `run` and `connectDB` of both binaries | one process, from main to exit |
| `ServiceProcessProofs` | theorems about it | |
| `Configuration` | `config.Load`, limits derived from it | operators |
| `LanguageRegistry` | the table of languages | operators |
| `SubmissionRequest` | the checks of the create endpoint, `webhook.Validate` | operators, extends the two above |
| `ApiServer` | handlers, `recoverer`, `requestLogger`, a client that pages | extends `SubmissionRequest` |
| `ApiServerProofs` | theorems about it and the operators it uses | |
| `MC...` (six modules) | instances and fault sets for TLC | |

Every environment fault has a name and happens only when it is in the constant
`Faults`, so a run says exactly which faults a property survives.
Definitions introduced as "Variant" are deliberately wrong forms of the
definition that follows them; no specification uses them. They record which
mistake each property would notice.

### ExecutionPipeline

| Code | Model |
|---|---|
| `handleCreateSubmission` validation (`handlers.go:26-85`) | `RejectRequest` (the checks have no effect but the answer) |
| insert / enqueue / compensation (`handlers.go:87-124`) | `PersistSubmission`, `EnqueueExecute`, `FailAfterEnqueueError` |
| `r.Context()` | `apiCtx`; `ClientDisconnect` cancels it |
| `asynq.MaxRetry(2)`, archive | `FailedMessage`, `retried` |
| `asynq.Timeout`, lease, `ShutdownTimeout` | `AttemptTimeout`, `LeaseLost`, `ShutdownAbort`: the context is cancelled, the goroutine goes on |
| `handleExecute` | `LoadSubmission`, `MarkRunning`, `StartProgram`, `ExecuteOutcome`, `ExecuteError`, `StoreResult`, `FailUnsupported`, `RecordFailure`, `EnqueueWebhook`, `Return` |
| `isFinalAttempt` | `IsFinalAttempt`, from the retry count the attempt's context carries |

A call to Postgres or Redis is one atomic step that ends in `ok`, `err`
(without effect) or `lostAck` (with effect, but its caller sees an error); a
call with a cancelled context ends in `err`. A context that is cancelled while
a request is on the wire is `midcall`: the effect may still land (fault
`lateWrite` for the worker's statements).

Asynq is modelled from how the worker configures and uses it: its processor
waits for the handler or for the attempt's deadline, lease or shutdown,
whichever comes first, and its recoverer treats an active task without a lease
as a failed attempt. The delay before a retry is not modelled, since any
number of other steps may happen before the next `Dequeue`. The outcome of a
program carries text that a Postgres `text` column takes or, with the fault
`badText`, refuses (bytes that are not UTF-8, a character cut by the output cap,
a NUL).

### WebhookDelivery

| Code | Model |
|---|---|
| `NewWebhookTask`, its retries and timeout (`queue.go:61-72`) | `HookFailed`, `HookUnanswered` |
| `handleWebhook` (`worker.go:142-167`) | `HookLoad` (a missing row is archived at once, an error is retried), `HookPost`, `HookAnswered` |
| `Deliver` (`webhook.go`) | `HookPost`, `HookAnswered` (2xx or not; a redirect is not followed), `HookUnanswered` |
| network and receiver | `wire`; `Receive` in any order, `Lose`; the answer reaches the attempt only if it still waits for that POST |

Both task types take slots of the same `Concurrency` (`SlotFree`). The row is
read when a delivery runs. An attempt that Asynq gives up on has its context
cancelled, which ends the calls it still makes: nothing but a POST that is
already on the wire survives it. So no second goroutine per webhook task is
needed, other than for executions.

### ImageCache

One action per step of `ensureImage` that another goroutine can observe. A
`sync.Once` is named after the call that allocated it. `WarmImages` is a call
that precedes the others. The daemon may refuse a request, break a stream with
or without the image in, or report a failed pull inside the stream
(`streamErr`); another process may remove the image (`prune`).

### Sandbox

Time is in half seconds, so that the whole seconds of `date +%s` differ from
elapsed time; the first reading is taken at the start or in the middle of a
second. stderr is a sequence of `written` units, and the buffer is the set of
positions it holds. `marks` are the lines on it in the form of the marker, with
the position where each begins and who wrote it; the rest is plain text. The
script writes one (`Report`). The nonce is in the environment of the container
(`executor.go:128`), which the script hands on to the program (`script.go:76`),
so the program may write one too (`WriteNonce`, the fault `nonceText`, with a
content of its own). A process the program leaves behind has its stderr and
writes until PID 1 exits: `WriteStderr` and `WriteNonce` are possible while the
program runs and from its end until `ExitScript`, before and after `Report`.

`ExtractMarker` takes the last line of that form that begins within what the
buffer holds (`LastMark`, `strings.LastIndex`), and reads from one that is cut no
phase, a cut phase, or a prefix of the digits of `rc` or `secs`. After the 15 s
grace the buffer is read while `StdCopy` may still write it: `InspectAndBuild`
then sees any prefix. The CPU and memory figures are passed through and left out.

### ServiceProcess

One process of either binary. A piece of work (an HTTP request, or a job with
its container) alternates between computing and a query that holds a pool
connection; `open` is the stack of deferred closes, and `pool.Close` waits for
the connections in use. Before `signal.NotifyContext` a signal kills; afterwards
it cancels `ctx`; the worker's serve phase ends on the signal that
`asynq.Server.Run` receives itself. When the grace period ends the API returns
an error, while Asynq gives its jobs back and reports a clean stop with their
goroutines still running, up to the exit of the process. `ListenAndServe` fails
at once (`Listen`) or later (`AcceptFails`); after that, connections it has
accepted are still served until the process exits with the error. `Attempts`
stands for the 30 pings of `connectDB`.

### Configuration, LanguageRegistry, SubmissionRequest

Pure operators. An environment variable is unset, unparsable or a value; the
first two give the default. Sizes are bytes, times seconds. A text of a request
is a number of equal characters of one kind, with its width in the JSON and
after decoding: an escape is six bytes for one, and a byte that is not UTF-8
becomes the three bytes of U+FFFD. `Checks` lists the early returns of the
create endpoint in their order, and `Verdict` is the first that fails. Addresses
are four octets; the predicates of `net.IP` are external.

### ApiServer

The server takes one request at a time: each handler reaches the table with
single statements, so concurrent requests only interleave whole statements, and
the one sequence of statements that matters (insert, enqueue, mark failed) is
interleaved with everything else in `ExecutionPipeline`. `created_at` of a new
row is any time, since it is the start of a transaction that may commit after a
younger one. An insert or an enqueue that reports an error may have taken
effect. The header and the body are separate steps, so a panic falls before
or after the header. One client walks through the pages while rows arrive: it
steps by the limit the page reports and stops at an empty page. `IntBits` scales
`int32` so that a `PAGE_CAP` beyond it is a small number, and `MaxOffset` stands
for 1,000,000.

## 3. Runs

### Passing

| Run | Bounds | Faults | Shows |
|---|---|---|---|
| `pipeline_all_faults` | 1 submission, 2 handlers, 1 slot, 1 retry, 1 requeue | all | `RowBeforeTask`, `RunsBounded`, `EventuallySettled`, `TypeOK` |
| `pipeline_ordered` | 2 slots, 2 retries | all but `dbErr`, `enqueueLostAck`, `lateWrite` | `RowShape`, `FinishedIsFinal`, refinement of `SubmissionLifecycle`, `HookOnlyWhenFinished`, `AtMostOneHook` |
| `webhook_delivery` | 1 slot, 1 retry of each task, 1 requeue | of the pipeline: engine, unacknowledged enqueue, shutdown; of the delivery: all | `AcceptedFinishes`, `FinishedIsNotified`, `ReceiverSeesFinal`, `DeliveredIsAcked`, `PostsBounded`, `EveryHookEnds` |
| `image_all_faults` | warm-up and 3 jobs | all | `OnePullAtATime`, `ForgetsItsOwn`, `ErrorsAreForgotten`, `ReadyIsPresent`, `EveryCallReturns` |
| `sandbox_all_faults` | 0.5 s limit (truncated to none), 4 units of output, 2 units of noise | all but `nonceText` | `KeepsAPrefix`, `OutcomeIsOfARun`, `ExecuteReturns`, `TypeOK` |
| `sandbox_intact` | 2.5 s limit (truncated to 2 s), 23 units, 2 units of noise | daemon errors, unacknowledged start, setup, OOM, SIGKILL, `nonceText` | `Destroyed`, `ExitIsThePrograms`, `TimedOutIsRight` |
| `service_all_faults` | 3 pieces of work, 3 pings, 2 signals | all | `CleanStopCutsNothing`, `DependenciesOutliveWork`, `StartupEnds`, `HeardSignalStops`, `TypeOK` |
| `api_server` | 6 environments, 4 bodies, 3 rows, 2 times | all | `StatusTellsTheStore`, `AcceptedIsFound`, `EveryRequestAnswered`, `WalkMissesNothing`; over large sets of requests and addresses `AcceptedCanRun`, `WithinLimitsPasses`, `HooksStayOutside`, `TimesFitTogether` |

Why the bounds are enough. Submissions share nothing but slots, so one is
enough for what happens to a row (the theorems of section 4 hold for any
number). Two handler goroutines are an attempt given up on and its retry; a third would be a
second abandoned one, which differs from the first in nothing it can still
write. `MaxRetry` is the code's 2 in `pipeline_ordered`; where every fault is on,
one retry already gives first, middle (requeued) and last attempts. One webhook
task is all that the pipeline enqueues under the faults of `webhook_delivery`;
its two counted attempts and its requeue put up to three POSTs on the wire at
once. With one slot an execution and a delivery compete for it. Three jobs
besides the warm-up are an owner of a failed `Once`, a waiter on it and the
owner of the next one. 23 units hold the longest marker, a line of the program's
in the same form and its noise, in every order, and one such line is enough:
of several only the last counts. 4 units cut the marker before, in and behind its
phase; a limit below a second is there the truncated one, which leaves the
program without any. To the properties of `sandbox_all_faults` a line in the
form of the marker is text like any other. `MaxRequeues` bounds
shutdowns per task, since a shutdown does not count as a retry and could
otherwise repeat forever. Three pieces of work are one that ends in time, one
that is cut off and one that never came; three pings are a first, a middle and a
last one. Three rows with two times have equal and different times, and arrive
before and during the walk; of the six environments four load, with page caps
below the default, zero and beyond the width of the integers among them. The
operators of `SubmissionRequest` are checked on every combination of lengths at,
below and above each limit, and `HooksStayOutside` against the RFCs' ranges, on
both ends of every range and their neighbours.

### Disagreements between the code and its documents

Each of these runs has the one fault it needs and ends in a counterexample.

| Run | Property | Document | What the code does |
|---|---|---|---|
| `pipeline_disconnect` | `UnavailableIsFailed` | `handlers.go:113`, `README.md:197` | the compensation uses the cancelled request context; the row stays queued with no task |
| `pipeline_bad_text` | `DeadLetterIsFinished` | `worker.go:191`, `handlers.go:71` | output that Postgres refuses as text fails on every attempt; the task is archived and the row stays running |
| `image_in_stream` | `NoStaleSuccess` | `executor.go:397` | a failure reported inside the pull stream is cached as done |
| `sandbox_flood` | `MissingMarkerMeansKilled` | `script.go:15` | the program's own stderr pushes the marker over the cap |

Known disagreements without a run of their own:

* A last attempt that reaches `asynq.Timeout` is archived with its row running
  (`worker.go:100`), against `worker.go:191`; the fault `timeout`
  in place of `badText` gives the same violation.
* A compiler killed for its memory is reported as timed out and as OOM-killed
  (`executor.go:307`), against `executor.go:306` and `README.md:191`.
  `TimedOutIsRight` leaves that case out.
* A signal while the worker warms its images cancels the pulls and is then
  forgotten: `Run`, which starts afterwards, waits for a signal of its own
  (`cmd/worker/main.go:64`, against the comment at 93). `HeardSignalStops` leaves
  out exactly that window.
* "The nonce is unguessable per-run, so a program printing something that looks
  like a marker cannot spoof its own metrics" (`script.go:21`, and
  `README.md:179`). The program need not guess it: it is in its environment
  (`executor.go:128`, not unset at `script.go:76`). What keeps the outcome right is
  that the last line in that form is the one that counts (`executor.go:332`), and
  the script's comes after the program has ended. But a process the program left
  behind can still write until PID 1 exits, and its line would come last.
  `ExitIsThePrograms` and `TimedOutIsRight` therefore have the premise
  `ScriptHasLastWord`; without it both fail in `sandbox_intact`, and without
  `nonceText` it is true of every state.
* `RetryDelay` adds its base after the cap (`queue.go:89`): a delay may reach 302 s,
  not the 5 minutes of its comment (`queue.go:74`) and of `README.md:133`. It is not
  modelled.
* `DATABASE_URL` and `REDIS_ADDR` "must be set" (`config.go:51`), but both have
  defaults.
* `server.go:76` says that a panic would take the process down; `net/http`
  recovers it itself. What `recoverer` adds is the answer. A request that
  panicked has no log line, since the panic passes through `requestLogger`.

The fault sets of the passing runs are as large as the code allows. What each
excluded fault does, found by adding it:

* `enqueueLostAck` in `pipeline_ordered`: the API marks the row failed
  (`handlers.go:115`) while a worker has the task; `MarkSubmissionRunning`
  (`worker.go:90`) takes the row from failed back to running, against
  `README.md:127`. For the same reason `ReceiverSeesFinal` excepts a row that the
  API failed.
* `dbErr` in `pipeline_ordered`: `fail` only logs its error (`worker.go:186`)
  and the webhook is enqueued for a row that is still running, against
  `queue.go:36`. `lateWrite` lets an attempt given up on overwrite a row that
  its retry finished.
* `langRemoved` is why `FinishedIsNotified` leaves out the error `unsupported`:
  `worker.go:86` returns without the webhook that `README.md:133` promises. A
  shutdown between the result and the webhook loses the webhook too, which
  `worker.go:179` accepts.
* `slowStream` in `sandbox_intact`: the buffer may be read before the marker is in
  it, or with half of it in, and what is found is believed.
* `createLostAck` in `sandbox_intact`: a container whose creation was not
  acknowledged (`executor.go:118`) is never removed, against `README.md:148`.

Edges that no document speaks of, and that the models show or had to leave room
for:

* a row stays queued when the API dies between insert and enqueue, and a
  container stays when the worker dies, or the grace period ends, while it runs;
* an image removed from the host stays in `imageReady` (`ReadyIsPresent` excepts
  it), and each later job fails when it creates its container;
* the pull of an image counts against no budget but the task's timeout, and
  `WEBHOOK_TIMEOUT` above 30 s is cut by the task's own;
* code within `MAX_CODE_BYTES` that JSON has to escape may exceed the body limit
  and get a 413, and white space after the object beyond the limit gets a 400;
* `encoding/json` has replaced bytes that are not UTF-8 before `handlers.go:73`
  looks for them, so that check cannot fail; a NUL passes it and the insert
  fails with 500;
* `PAGE_CAP` is not validated: 0 gives empty pages, a value beyond int32 a
  negative limit and a 500, and the default limit of 20 is not clamped to it;
* rows with equal `created_at` have no fixed order, so a walk through the pages
  may skip one of them. `WalkMissesNothing` excepts both.

### Fairness

* `ExecutionPipeline`: weak fairness of each request's and each handler's
  steps, since goroutines are not starved and each call is bounded by a
  context or a client timeout; and of Asynq's dequeue or recovery of each task,
  since it polls while a worker is up. No fault is fair. In particular nothing
  says that an engine fault goes away: `AcceptedFinishes` holds because the last
  attempt records the failure.
* `ImageCache`: weak fairness of each call's steps; a request to the daemon ends.
* `Sandbox`: weak fairness of `Execute`, of its two goroutines and of the
  budget's clock. None of the container: the program may run forever.
* `WebhookDelivery`: as for the pipeline, and of each delivery attempt's steps
  and each webhook task's dequeue or recovery. The receiver and the network are
  not fair: `EveryHookEnds` rests on the client's timeout.
* `ServiceProcess`: weak fairness of `run`, of the listening goroutine and of the
  end of each query (Postgres answers or the connection breaks). Nothing is
  assumed of signals, of new work, or of work under way: it may compute forever,
  and the drain ends by its grace period.
* `ApiServer`: weak fairness of the handler's next step, since each call it makes
  returns, if only with an error.

## 4. Proofs

Every invariant and every action property of the passing runs, and the
refinement, is a theorem. The theorems hold for every value of the constants
that satisfies the named assumption of the module (`PipelineAssumption`,
`HookAssumption`, `ImageAssumption`, `SandboxAssumption`, `ProcessAssumption`,
`ServerAssumption` with `EnvAssumption`): any number of submissions, handlers,
calls, rows, pieces of work and signals, any limits, and (unless said
otherwise) any set of faults. Where a theorem excludes a fault, section 3 has the
behaviour of the code that makes it necessary.

`ExecutionPipelineProofs`:

* `TypeCorrect`, `PersistedFirst` (`RowBeforeTask`) and `RunsAreBounded`
  (`RunsBounded`), from the inductive invariant `PipelineInv`, which is
  - `TypeOK`;
  - `LeaseInv`: at most one goroutine per submission has a live context, and
    then its task is active. `RunsBounded` needs it, because two live attempts
    could both start a program on the same retry count;
  - `ApiInv`: a request that is about to enqueue has its row and no task;
  - `BudgetInv`: a task that waits, or an attempt that has not started its
    program, still has one run to spend. `RunsBounded` alone is not inductive.
* `RowsAreCoherent` (`RowShape`), `FinishedStays` (`FinishedIsFinal`) and
  `PipelineImplementsLifecycle` (`ImplementsLifecycle`), when neither
  `enqueueLostAck` nor `lateWrite` can happen (section 3 says why both are
  needed; `dbErr` is allowed here). `OrderedInv` adds `OwnerInv` (a live attempt past its
  load finds the row unfinished, past its mark running), `RequestInv` (a request
  that is about to mark the row failed finds it queued, or has a cancelled
  context) and `HeldInv` (the outcome in hand is of one of this submission's
  runs). `LeaseInv` is what carries `OwnerInv` over the steps of other
  goroutines: they are not live, so they cannot write. The central lemma,
  `OneRowStep`, says that a step changes at most one row and by one of the four
  statements; all three theorems follow from it.

`NotificationProofs`, on top of the invariants above:

* `HooksAreForFinished` (`HookOnlyWhenFinished`) and `HooksAreSingle`
  (`AtMostOneHook`) when neither `dbErr` nor `lateWrite` can happen (`Recorded`).
  A lost acknowledgement of the API's enqueue is allowed here, so `OrderedInv` is
  not available: the row may go from failed back to running. `AnnounceInv` needs
  less than that. The attempt that holds the lease and has not returned since its
  load has a submission that nobody has announced, and at its own `notify` step
  the row is finished. A submission is announced only after its attempt finished the
  row, and the next attempt's load ends at a finished row.
* `FinishedAreNotified` (`FinishedIsNotified`) under the faults that the handlers
  absorb (`Absorbed`): the engine, text that Postgres refuses, a removed
  language, a client that leaves, a lost acknowledgement, shutdowns. `ToldInv`
  follows a submission that no shutdown has touched: its attempt holds the lease
  to the end, the row is unfinished until the attempt finishes it, and when the
  attempt returns nil the webhook task exists. With an error of Redis or
  Postgres, a lost lease, a timeout or a crash after the result was stored the webhook is lost, which
  `worker.go:179` accepts.

`WebhookDeliveryProofs`:

* `DeliveryImplementsPipeline`: the composition implements `ExecutionPipeline`,
  so that all the theorems about the pipeline hold of it (deliveries only take
  slots). `DeliveryNotifies` is the first use of it.
* `DeliveredAreAcked` (`DeliveredIsAcked`) and `PostsAreBounded`
  (`PostsBounded`), under all faults, from `HookInv`: an attempt under way has an
  active task, a task that waits or whose attempt has not posted yet has one POST
  left to spend (`PostsBounded` alone is not inductive), and a 2xx in hand is an
  answer the receiver gave.
* `ReceiversSeeFinal` (`ReceiverSeesFinal`) under `Recorded`, from `FinalInv`:
  every body, the one in a handler's hands, those on the wire and those received,
  says what the row still says, unless the API failed the submission since.
  Delayed and duplicated POSTs are covered, since `FinalInv` speaks of the whole
  wire. The step needs `AnnounceInv`: an announced row has no live attempt that
  could still write it.

`ImageCacheProofs`:

* `PullsAreShared` (`OnePullAtATime`) and `ForgetsNothingNewer`
  (`ForgetsItsOwn`) from `OnceInv`: whoever is inside `once.Do` runs the `Once`
  that is in the map, and a `Once` that runs has one such call.
* `FailedPullsAreForgotten` (`ErrorsAreForgotten`): a `Once` whose pull reported
  an error is in the map only while its own call is about to delete it. It holds
  under every set of faults.
* `ReadyImagesExist` (`ReadyIsPresent`) from `SeenInv`: whoever is about to cache
  the image as ready has seen it on the host since the last removal.
* `FailedPullsAreRetried` (`NoStaleSuccess`) when failed pulls are reported as
  errors (`streamErr` cannot happen), with `FreshInv` and `LandedInv`. The run
  `image_in_stream` is why this assumption is needed.

`SandboxProofs`, from `SandboxInv`, which is the types, `LifeInv` (where `Execute`
is, against what has become of the container), `ScriptInv` (the script knows how
the program ended before it says so), `StreamInv` (the cap is spent on exactly what the buffer
holds) and `ReturnInv`:

* `TypesAreKept` (`TypeOK`), `PrefixIsKept` (`KeepsAPrefix`) and
  `OutcomesAreOfRuns` (`OutcomeIsOfARun`), under all faults.
* `ContainersAreDestroyed` (`Destroyed`) when the daemon removes what it is asked
  to and acknowledges what it creates.
* `ExitsAreThePrograms` (`ExitIsThePrograms`) and `TimeoutsAreRight`
  (`TimedOutIsRight`) when the stream gets through (`Intact`): it ends with the
  container, nobody kills the script itself, its working directory exists, and
  the output cap leaves room for the program's noise, a line of its own in the form
  of the marker and the marker. `sandbox_flood` is what happens without that
  room. Both properties are about outcomes for which the script has the last
  word. The invariant adds `MarkInv`: the script and the program have at most one
  line in that form each, wherever the program's is, each is in the stream as a
  whole, the script's begins early enough to fit the cap and is there, saying what
  happened up to the half second that `date +%s` cannot see, once the script is
  about to exit. When the outcome is built the whole stream has been copied, so
  `LastMark` of what is in the buffer is the script's line (`MarkerSurvives`).
  `Digits` has at most three digits: exit codes do, and so do times below 1000 s.

`ServiceProcessProofs`, from `ProcessInv`, which is

- `OpenInv`: what `run` has opened at each point, the pool always first;
- `ServerInv`: there is no work before the server accepts any, and none is
  cut off while the process lives;
- `BoxInv`: a container belongs to work under way;
- `PoolInv`: whoever queries has an open pool. Closing the pool keeps it only
  because the pool is the last to be closed and waits for its connections;
- `DrainInv`: `run` returns with work under way only once the grace period has
  ended, or with the error of a server that has stopped accepting.

They give `CleanStopsAreClean` (`CleanStopCutsNothing`) and `DependenciesLast`
(`DependenciesOutliveWork`). `ProcessTypes` (`TypeOK`) has two more parts,
`CountInv` and `FlagInv`: pings and signals are counted within their bounds, and
the flags of `run` are flags.

`ApiServerProofs`, under all faults:

* `StatusesTellTheStore` (`StatusTellsTheStore`) and `AcceptedAreFound`
  (`AcceptedIsFound`), from `AnswerInv`: a status is truthful from the moment the
  handler decides on it, and until it is on the wire nothing changes that it
  speaks of. A panic replaces the status, which is why the truth of a status and
  that of what was sent are separate parts.
* `WalksMissNothing` (`WalkMissesNothing`), for tables of any length and any
  order of arrival, from `WalkInv`: each submission that was there when the walk
  began, is alone in its `created_at` and has not been seen has at least as many
  newer rows as the offset asked for next. New rows only add to them
  (`BehindGrows`), so a page can repeat rows but not jump over one. `Rank`
  computes the place of such a row in `ORDER BY created_at DESC` by counting, and
  `PageAdvances` that a page shows every row between its offset and the next.
  The walk's limits are the ones for which pages are not empty or refused.
  `ServerAssumption` asks that the integers hold the default limit of 20 and the
  largest offset, which `int32` does.
* `AcceptedAreRunnable` (`AcceptedCanRun`), `ModestArePassed`
  (`WithinLimitsPasses`), `HooksAreOutside` (`HooksStayOutside`) and
  `TimesAreRight` (`TimesFitTogether`). The runs check these on chosen bodies and
  addresses; the lemmas they rest on, `PassedFits` and `PlainPasses`, are for any
  body, and `ValidIsOutside` is for any host with any set of IPv4 addresses.
  `EnvAssumption` says that a variable that parses has a value of its type, which
  is what `strconv` returns.

Only model-checked: the liveness properties (`EventuallySettled`,
`AcceptedFinishes`, `EveryCallReturns`, `ExecuteReturns`, `EveryHookEnds`,
`StartupEnds`, `HeardSignalStops`, `EveryRequestAnswered`). The proof system does
not handle fairness and ENABLED.

## 5. Not modelled

* The load test: a benchmark client that changes no state of the system.
* `RetryDelay`: a random delay computed with float64. The models let any amount of
  time pass before a retry.
* The queues' weights in Asynq (7 to 3): a probability of being served first.
  What is checked holds for every order of serving.
* The contents of answers: `toResponse` copies columns, and rendering has no
  control of its own. Wording, logging (but for the status in the log line) and
  metrics.
* Resource limits of the container, addresses and credentials, which are passed
  on as they are.
* IPv6 in `isInternal`: the code asks `net.IP` the same questions.
* The connection pool's size, TLS and the inner workings of Postgres, Redis,
  Asynq, Docker and `net/http`, beyond the outcomes their callers can see.

## 6. Plan

Done, in this order: `SubmissionStore`, `SubmissionLifecycle`,
`ExecutionPipeline` with its proofs, `ImageCache` with its proofs, `Sandbox`,
`WebhookDelivery`, `Configuration`, `LanguageRegistry`, `SubmissionRequest`,
`ApiServer`, `ServiceProcess` with its proofs, and then the proofs about webhook
tasks, their delivery, the sandbox and the API server. Every component of the
system but the load test has a module, and every safety property a proof. What is
left:

1. Weaker assumptions where a proof excludes more than it has to.
   `FinishedAreNotified` could except a submission whose attempt met a fault, as it
   excepts those a shutdown touched, instead of excluding the fault.
2. The safety part of the liveness properties: that a submission which is
   accepted and not finished always has a task that waits or is active under the
   faults of `AcceptedFinishes`, and that no state of `ImageCache` has everyone
   waiting on everyone.
