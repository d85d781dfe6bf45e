# TLA+ models of gaymr

gaymr rents GPU instances by the session: a POST creates a session, a worker
launches an EC2 instance for it, a DELETE gives it back. The same repository
holds *cricdata*, a cricket data pipeline. This directory models the parts of
both whose mistakes cost money and are hard to test: the session lifecycle across
API, database, queue, workers and EC2, the quota guard of the CricketData
poller, and the loading of match archives.

All paths below are relative to `src/`.

## 1. Inventory

### Control plane (Go)

| Component | State | Operations | Module |
|---|---|---|---|
| sessions table: `internal/store`, `db/` | one row per session: status, owner, sku, instance_id | INSERT; four UPDATEs, none of which looks at the status it overwrites; two SELECTs | `SessionStore` |
| session service and API: `internal/sessions`, `cmd/api` | one goroutine per request | POST: validate, INSERT, enqueue. DELETE: SELECT, early return, UPDATE, enqueue | `SessionService` |
| job queue: `internal/jobs`, asynq (external) | tasks in Redis with retry counters, leases of the running ones | enqueue, dequeue, retry or archive, recover, requeue at shutdown | `TaskQueue` |
| orchestrator: `cmd/orchestrator` | one handler per worker goroutine | `handleProvision`, `handleTerminate`, `fail` | `Orchestrator` |
| provider: `internal/providers/aws_managed`, EC2 (external) | instances, tagged with their session | Provision (launch, wait, run script, clean up), Terminate | `AwsManaged` |
| provider interface, registry: `internal/providers` | a map filled at startup | what a caller of Provision and Terminate may rely on | `ProviderContract` |
| authentication: `internal/auth`, users table | one row per Clerk subject | refuse, or upsert the user and let the request through with its claims | `UserStore`, `SessionService` |
| `store.WithTx`, `LockSession` | - | no caller | not modelled |
| configuration, tracing: `internal/config`, `internal/obs` | read once | - | not modelled |
| node scripts: `infra/sunshine-node` | - | a script run that succeeds or fails | only as that |

The API and the orchestrators never call each other. They meet in the row and in
the task: the API writes the row and enqueues, a worker reads the row and acts,
and EC2 is changed by the workers only. Each database statement is atomic; no two
of them are in one transaction, so everything else may happen between any two.

What is hard: two requests and two kinds of task act on one row without a lock;
handlers run for minutes between reading the row and writing it; every call may
fail after it took effect, those of a request also because the client went away and
net/http cancelled the context that all of them run on; tasks are delivered at least once; processes crash and
are shut down in the middle; and an instance id exists only in a local variable
until `SetSessionReady` has written it. A shutdown counts as a crash in the middle more
often than it should: asynq's `Run` handles the signal itself, next to the `Shutdown` in
`cmd/orchestrator/main.go:98`, so one of the two may return at once and end the process
before the handlers are through.

What makes each part correct: one launch per session (orchestrator, queue); no
instance that nobody knows of, none behind a finished session (provider,
orchestrator); a recorded instance id is never lost (store); a DELETE answered 202
is carried out (service, queue); one tenant cannot stop another's node, and is never
taken for another (authentication, service); a node that Provision returned runs
(provider);
every session settles (all of them).

### cricdata (Python)

| Component | State | Operations | Module |
|---|---|---|---|
| poller and quota guard: `ingest/cricdata_poller.py`, `ingest/dynamo_quota.py`, `lambdas/cricdata_poller_lambda.py` | hit counter per UTC day | check, increment, HTTP request | `Poller` |
| Cricsheet ETL: `lambdas/cricsheet_etl.py`, `ingest/cricsheet.py`, `ingest/parquet_writer.py` | buffered partitions, Parquet parts in S3 | read a ZIP, buffer, flush per partition | `Cricsheet` |
| interface `Store`: `ingest/store.py` | - | what whoever queries the loaded tables may rely on | `StoreContract` |
| SQLite prototype: `ingest/sqlite_store.py`, `scripts/` | tables with primary keys | INSERT OR REPLACE, commit at close | `Cricsheet` |
| CDK stack: `infra/` | resource declarations | - | not modelled |

What is hard: check and increment are two calls, polls may overlap (nothing limits
the Lambda's concurrency; the service retries), and a poll may straddle midnight.
The ETL is delivered its events at least once, can end in the middle of a ZIP (and
then still writes what it has) or in the middle of writing, and writes each
partition under a fresh name.

What makes each part correct: the free tier's daily limit holds (poller); a load that
returned is complete, no delivery is there without its match, a retry adds a bounded
number of copies (ETL); a load that breaks off takes nothing away (SQLite).

## 2. Modules

```
Deployment              constants, kinds of failure, their assumption
  UserStore             the users table                variable users
  SessionStore          the sessions table             variable rows
  TaskQueue             asynq and its workers          variables tasks, workers
    AwsManaged          the provider and EC2           variable instances
SessionService          EXTENDS UserStore, SessionStore, TaskQueue    variable requests
Orchestrator            EXTENDS SessionStore, AwsManaged
ControlPlane            EXTENDS SessionService, Orchestrator: Init, Next, fairness, properties
  SessionContract       what a session promises to patient clients; INSTANCEd by ControlPlane
  NodeContract          what every client may rely on; INSTANCEd by ControlPlane
  ProviderContract      what internal/providers promises its callers; INSTANCEd by ControlPlane
ControlPlaneInv         the inductive invariants
  MCControlPlane        symmetry, for TLC
  ControlPlaneProofs    types, one launch per session
    TenantProofs        users, claims, owners
      NodeProofs        who has which instance
        FailureProofs   errors, lost instances, the launch budget
          ProgressProofs  waiting rows, what holds at rest, why rest is reached
            ContractProofs  the refinements of ProviderContract, NodeContract, SessionContract,
                            and what a completed teardown is worth
Poller                  the quota guard
  PollerInv             its inductive invariant
    PollerProofs        theorems
    MCPoller            symmetry, for TLC
Cricsheet               the loader, into Parquet and into SQLite
  StoreContract         what the interface Store promises; INSTANCEd by Cricsheet
  CricsheetInv          its inductive invariant
    CricsheetProofs     theorems, the refinement of StoreContract
    MCCricsheet         archives, for TLC
```

### How the control plane's state corresponds to the code

* `rows[s]` is the row of session `s`, `NoRow` before its INSERT. An UPDATE is an
  operator that returns the next table (`SetSessionReady(s, i)`, ...) and has no
  effect on a missing row. Timestamps, region, public_ip and error_reason are
  left out, since no branch reads them.
* `users[c]` is the id in the row of Clerk subject `c`. `UpsertUser` is one statement, so a
  subject's first requests may race but draw one id. The e-mail is left out: nothing
  reads the stored one.
* `requests[r]` is the goroutine of request `r`: `idle` (not arrived), `authed` (past the
  middleware), `set` (about to write terminating), `enqueue`, `done`, with the claims it
  carries (`subject`, `user`), the session and the response. `Authenticate` is the
  middleware with every way it may refuse. POST then goes authed - enqueue - done
  (`RejectBody`, `InsertSession`, `EnqueueTask`), DELETE goes authed - set - enqueue - done
  (`LookupSession`, `SetTerminating`, `EnqueueTask`). `CrashRequest` is an API process that
  stops between two steps.
* `tasks[t]` is the task that request `t` enqueued: no request enqueues two, so a
  task is named after its request, and its kind follows from it. A task that
  waits out its retry delay is `pending`; delays have no length.
* `workers[w]` is a worker goroutine, over all orchestrator processes: the control
  point `pc` of its handler, the task, whether it still holds the lease, and
  `node`, the instance id in the handler's local variables. `get` is the SELECT
  both handlers begin with; `claim`, `launch`, `boot`, `script`, `cleanup`, `fail` and
  `ready` are `handleProvision` with the provider inside it; `terminate` and `mark` are
  `handleTerminate`.
* `instances[i]` is the EC2 instance with id `i`: not launched, live or terminated,
  and the session of its tag.

A call that may fail is one action with up to three outcomes: it takes effect and
succeeds, it takes effect and fails, it fails without effect. Which kinds of call may
fail is the constant `Faults`:

| Fault | What happens |
|---|---|
| `db` | a statement returns an error, executed or not |
| `redis` | an enqueue returns an error, executed or not |
| `hangup` | a client goes away: its request's context is cancelled, and the statement or enqueue under way returns an error, executed or not |
| `ec2` | an AWS call returns an error, executed or not |
| `boot` | the instance does not come up, or the provision script fails |
| `crash` | an API process stops under a request; an orchestrator stops abruptly, or at the end of its shutdown timeout, which requeues its tasks without counting a retry |
| `lease` | a worker loses its lease while its handler runs on, on a context that may be cancelled: the same task is given to another worker beside it |

asynq is not in the repository. Its part is what the code relies on: at-least-once
delivery, one more attempt after an error until `MaxRetry` is used up, then the
archive; a task whose lease ran out is recovered, which counts as a retry; a
handler's outcome counts only under its lease.

`PatientClients` restricts clients, not the code: they DELETE a session only when its
row is past pending and provisioning. `SessionContract` below holds under that
assumption only; the run `racing_delete` shows what happens without it, and
`NodeContract` says what is left.

### The four abstract specifications

* `SessionContract` is a session seen by who pays for it: status and running nodes, moved by
  eight atomic steps. Tasks, requests, workers and their failures are gone. It needs patient
  clients.
* `NodeContract` is what a session's node may count on whatever clients DELETE: at most one is
  ever launched, the one that was handed over (`SetSessionReady`) is named for good, and
  runs until the owner's DELETE has enqueued a teardown (`Deleted(s)`). It says nothing of statuses, which
  the racing writes may turn back, nor that a teardown finds the node. Its own invariant is
  `KeptUntilDeleted`.
* `ProviderContract` is the interface `Provider` seen by the orchestrator: a call of
  `Provision` is under way, returned or failed, with the node it has in hand; a call that
  fails leaves nothing running, and nobody else stops a node while a call has it. `CallOf(w)`
  reads worker `w`'s call off its control point: it lasts from the claim to the recording of the
  outcome, and ends as well when the worker's process does.
* `StoreContract` is the interface `Store` seen by whoever queries the loaded tables: rows are only
  added, only rows of the archive that is loaded, never a delivery before its match, and once
  a load has returned all of its rows are there. `Places` tells which tables a job writes to: an event's
  parts have fresh names and are its own, the loads share the SQLite file.

### How the poller's state corresponds to the code

`hits[d]` is the counter of day `d` in `api_quota` (the SQLite and the DynamoDB store
behave alike: a consistent read and an atomic add), `sent[d]` what CricketData has
received on day `d`, `pollers[p]` an invocation of `Poller.call`: `get` (the day has been
read), `increment` (the check has passed), `send`. Any of them may abort at any
point (an exception, the 30 second timeout of the Lambda); an error after an effect is
the effect followed by `Abort`. The clock of the Lambda and CricketData's day are
taken to agree, and boto3's own retries of the add, which could only overcount, are
left out.

### How the loader's state corresponds to the code

A job is an S3 event, delivered up to `MaxAttempts` times, or a ZIP that somebody loads
into SQLite. `jobs[j]` is the invocation at work on it: `parse` is the loop around
`iter_matches` (`Write` is one turn; `next` is the position in the ZIP), `close` the store's
`close` in the `finally` clause, entered after the last match or when anything in the loop has
raised (`failed`): a malformed file, a `write` that fails. The buffers follow from `next`: `PartRows(j, t, p)` are the matches whose
rows are buffered for table `t` and partition `p`; a match has rows in deliveries
unless it was abandoned. `written` counts, per event, how often a match's rows were put
into the bucket; `table` is the SQLite file, which changes in `Commit` alone, since
everything a connection wrote is one transaction. A `write` of `SqliteStore` is two statements: if the
second one raises, `finally` commits the match without its deliveries (`HalfWritten`). `Kill` is a timeout, a killed process
or a failing `get_object`: no `finally`. Events are separate jobs because part names are
fresh: what one event writes, no other can overwrite, and an event delivered twice at once is two events.

Abstractions: an event has one record, as S3 sends them; the partitions of one table are
flushed in any order (the code's is that of their first match); two SQLite loads never
wait for one another's lock (a load that gives up waiting meets an exception like any other); names in a ZIP
differ; a match does not change between two ZIPs.

## 3. Runs

`tlc -config <run>.cfg <module>`. All control plane runs use `MCControlPlane`,
`quota` and `quota_race` use `MCPoller`, `cricsheet` uses `MCCricsheet`. Deadlock is not an
error in the control plane runs, where requests are finite and a deployment with
nothing left to do is at rest, nor in `cricsheet`, where deliveries are. The poller
never rests, and is checked for deadlock.

### Passing

| Run | Question | Bounds | Faults |
|---|---|---|---|
| `crashes` | `TypeOK`, `LaunchInv`, `NodeInv`, `AtMostOneLaunch`, `OrphansAreReported`, `ErrorLeavesNothingRunning`, `RecordedForGood`, `ProviderSpec`, `NodeSpec`: is there at most one launch, is nothing left running behind error, does no row wait without anybody having been told, is the instance id kept, does the provider keep `ProviderContract` and the whole `NodeContract`? | 1 session, 2 DELETEs, 2 workers, 2 instances | db, redis, hangup, boot, crash |
| `tenants` | `TenantInv`, `TenantsKeptApart`, `NoLostInstance`, `ReadyMeansRunning`, `OnlyOwnerStopsNode`: is nobody taken for anybody else, every running instance known, stopped for its owner only, and running while its session is ready? | 2 sessions, 2 subjects, 2 users, 2 POSTs and 1 DELETE of either subject | hangup, boot |
| `patient` | `PatientInv`, `ContractSpec`, `BillingMatchesStatus`, `TeardownsStopNodes`: with patient clients, does the whole implement `SessionContract`, and has a completed teardown stopped the node for good? | as `crashes` | db, redis, hangup, boot, crash |
| `progress` | `JobsInv`, `JobsBehindRows`, `RestIsSettled`, `AtMostOneLaunch`, `WorkShrinks`, `Settles`, `DeleteCompletes`: does every session come to rest, every accepted DELETE get through, and no attempt launch beside one that EC2 carried out without an answer? | as `crashes` | ec2, boot |
| `leases` | `BudgetInv`, `LaunchesWithinBudget`: how many launches can workers cause that outlive their leases? | 1 DELETE, 3 workers, 4 instances | crash, lease |
| `quota` | `QuotaInv`, `CallsAreCounted`, `WithinFreeTier` | 3 polls, 2 days, threshold 3, limit 8 | abort anywhere |
| `cricsheet` | `LoaderInv`, `DoneIsComplete`, `BallsHaveMatches`, `OneCopyPerAttempt`, `StoreSpec`: what is there after attempts that fail, and while they run? | 1 event, 2 loads, 3 matches, 2 partitions, 2 attempts | an exception at any match or halfway through it, failing `put_object`, kill anywhere |

Why the bounds are enough: two workers let a session's provision task and a
terminate task, or two terminate tasks, run side by side, and a third worker only
adds another interleaving of the same pairs; `leases`, where one task can have
several workers, has three, one for every attempt a budget of 2 retries allows. Two DELETEs give every overlap of a request with another's task. A second
instance is enough to see a second launch, a fourth to see one beyond the budget.
The retry budgets are the code's own, 2 and 3 (`leases` shortens that of the
terminate task, whose retries do not launch). Two subjects without a user row, two
sessions and one DELETE from either for either are what a confusion of tenants takes: the
three requests authenticate in any order, and each POST may be either subject's. The quota's
numbers are scaled down from 95 and 100, with the limit exactly
`threshold - 1 + 2 * polls`, so that one more request would be seen. `cricsheet` has a ZIP of two partitions with an abandoned match in one of them, and two loads that
have a match in common with it and the file in common with each other; events share nothing, so one
stands for all; the second attempt is the retry, and a third repeats it.

A row of the curated bucket may be there more than once: a retry writes new parts
beside those of the attempt that failed. `OneCopyPerAttempt` bounds the copies and no
document promises one; the counts that `cricdata/PHASE2.md` compares hold for an event
that was delivered once.

A property is checked in the environment in which it is true, and the table says which
that is. `ErrorLeavesNothingRunning`, `NoLostInstance` and `BillingMatchesStatus` do not
survive the fault `ec2`, and with them `ProviderSpec` and `ContractSpec`: `terminateBestEffort` and `handleTerminate` drop their errors,
and nobody learns the id of an instance whose `RunInstances` failed after the fact.
No document promises more; a comment (`cmd/orchestrator/main.go:177`) says so for
the teardown. `NoLostInstance` does not survive `db` or `crash` either: between the
launch and `SetSessionReady` the id is in a local variable only. `JobsBehindRows` needs
statements and enqueues that succeed, clients that wait for their answer and processes
that live, and so does `RestIsSettled`; `lost_delete` shows what one client that does not wait can do.
`OrphansAreReported` is what is left of `JobsBehindRows` under every fault: a row may be stranded in pending or
terminating, but only behind a request that was not answered 202, or a task in asynq's archive. (A row
in provisioning may be stranded in silence: `lost_update`.) `WorkShrinks` needs only that no process stops and no
lease is lost: a shutdown requeues its tasks without counting a retry, so nothing in the
queue bounds how often it may happen.

`DeleteStopsNodes` fails in two orders. TLC shows the one in which `SetSessionReady` comes last. When
`SetSessionTerminated` does, the row is terminated and records an instance that runs, and every
later DELETE is answered 202 without a task. `NodeContract` and `ReadyMeansRunning` hold in both:
they promise that a node is not stopped without its owner, not that it is stopped for its owner.

### Violations: where code and documents disagree

| Run | Property | What TLC finds |
|---|---|---|
| `racing_delete` | `DeleteStopsNodes` | no fault needed: a DELETE during provisioning is carried out before there is an instance id to terminate; `SetSessionReady` then turns terminated into ready. `internal/sessions/sessions.go:2-3` claims transitions guarded by row locks. |
| `lost_delete` | `DeleteCompletes` | no component fails, but the client of a DELETE hangs up: `Terminate` runs on the request's context, so the enqueue (`internal/sessions/sessions.go:95`) may fail after the row was set to terminating; every later DELETE is answered 202 and does nothing. `docs/system-design.md:31` claims teardown is safe to retry. |
| `lost_update` | `ProvisioningEnds` | a statement fails after the claim; the retry skips the session. `docs/system-design.md:171` claims the queue retries. |
| `double_launch` | `AtMostOneLaunch` | a worker that lost its lease between check and claim launches beside its successor. `docs/system-design.md:55` claims replicas race-safe via row locks. |
| `quota_race` | `ThresholdHolds` | overlapping polls pass the check together. `cricdata/README.md:22` claims 95 hits a day. |

### Mutation checks

Every property of a passing run is broken by a slip in one definition of the model:
the operators named "slip, for the mutation checks" stand before the definition
they replace (`GetForProvisionUnchecked` before `GetForProvision`, and so on).

## 4. Fairness

`FairSpec` assumes weak fairness of: each step of a request that has got past the middleware; each step
of a running handler; an idle worker taking a task that waits; the recoverer. The
code justifies them: goroutines are scheduled, `waitForRunning` is bounded by five
minutes and the script by ten, asynq polls its queues and runs its recoverer every
minute. Nothing is assumed of clients (no request has to arrive) or of failures (none
has to happen, none has to stop: the retry budget is finite, and a handler that may
fail forever is archived). Fairness is per worker and per request, never for one
particular outcome of a call. The poller and the loader have no liveness property.

## 5. Proofs

Checked by tlapm for all values of the constants that satisfy
`DeploymentAssumption` and `ServiceAssumption`, `PollerAssumption` or
`CricsheetAssumption`: any number of sessions, subjects, requests, workers and
instances, and any retry budgets. A theorem that holds only without some faults says so
as an ASSUME on `Faults`:

| Theorem | Property | Faults excluded | Further assumption |
|---|---|---|---|
| `TypeCorrect` | `TypeOK` | none | |
| `OrphansReported` | `OrphansAreReported` | none | |
| `TenantInvariant`, `TenantsApart` | `TenantInv`, `TenantsKeptApart` | none | |
| `NodeInvariant`, `OwnerStopsNode`, `ReturnedNodesRun` | `NodeInv`, `OnlyOwnerStopsNode` | none | |
| `BudgetInvariant`, `LaunchesStayWithinBudget` | `BudgetInv`, `LaunchesWithinBudget` | none | finitely many workers |
| `LaunchInvariant`, `OneLaunchPerSession` | `LaunchInv`, `AtMostOneLaunch` | lease | |
| `RecordsAreForGood` | `RecordedForGood` | lease | |
| `ImplementsNodeContract`, `HandedOverNodesRun`, `ReadySessionsRun` | `NodeSpec`, the contract's `KeptUntilDeleted`, `ReadyMeansRunning` | lease | |
| `WorkInvariant`, `WorkAlwaysShrinks` | `WorkInv`, `WorkShrinks` | lease, crash | |
| `ErrorsCostNothing` | `ErrorLeavesNothingRunning` | lease, ec2 | |
| `ImplementsProvider` | `ProviderSpec` | lease, ec2 | |
| `NoInstanceIsLost` | `NoLostInstance` | lease, ec2, db, crash | |
| `JobsInvariant`, `RowsHaveJobs`, `RestingIsSettled` | `JobsInv`, `JobsBehindRows`, `RestIsSettled` | lease, db, redis, hangup, crash | |
| `PatientInvariant`, `ImplementsContract`, `BillingIsRight`, `TeardownsStop` | `PatientInv`, `ContractSpec`, `BillingMatchesStatus`, `TeardownsStopNodes` | lease, ec2 | `PatientClients` |
| `RestingCostsNothing` | `RestCostsNothing` | lease, ec2, db, redis, hangup, crash | `PatientClients` |

`QuotaInvariant`, `CallsCounted`, `FreeTierHolds` (the poller) and `LoaderInvariant`,
`ReturnedIsComplete`, `NoOrphanedBalls`, `CopiesCounted`, `ImplementsStore` (the loader) hold for
every failure their models have.

The inductive invariants are in `ControlPlaneInv`, conjunct by conjunct; each is an invariant
of a run as well, or a conjunct of one, but for `UntriedBeforeEnqueue` (whose effect `WorkShrinks`
shows), `ReadyIsRecorded` (`ReadyMeansRunning` shows it) and `NodesAreKnown` (`NoLostInstance`
shows it).

* `TypeInv`. `TypeOK` alone is not inductive: a task's session, and the node a handler
  holds, are well typed because the handler has a task, and the task has the session of
  an answered request (`HandlersHaveTasks`, `TasksHaveSessions`). `TypeOK` includes that no task is
  retried beyond the budget of its own kind (`RetriesWithinBudget`).
* `OrphansReported`, under every fault: an UPDATE or INSERT that makes a row wait belongs to a request
  which then stands at its enqueue or has not been accepted (`ApiReports`); asynq keeps a task it
  cannot run in the queue or in the archive (`QueueAccounts`); and a handler completes its task only
  when the row does not wait for it any more (`HandlersDoNotWait`).
* `TenantInv`, under every fault. The tables know users, tokens know subjects: `UsersDistinct` (no
  two subjects share an id, because the upsert is one statement on a unique
  column), `ClaimsMatchUsers` (what the middleware put into a request's context stays
  true), `RowsOwnedByPosters`, `DeletesByOwners`. `TenantsKeptApart` then follows for each
  answer of a DELETE.
* `NodeInv`, under every fault. A provision handler's `node` is the session's, runs, and is in nobody
  else's hands (`NodesInHand`); what a row records, or a teardown has read there, is in nobody's
  hands any more (`RecordedNodes`). So no teardown and no cleanup hits a node that is
  still being provisioned, and a recorded node can only go through a terminate task of its own
  session, which by `TenantInv` its owner asked for (`OwnerStopsNode`).
* `LaunchInv`, if workers do not outlive their leases. A task is in the hands of one worker
  at most (`OneHandlerPerTask`, which is what "lease" would break), a session
  has one POST and so one provision task (`OnePostPerSession`, `RowsHavePosts`), so one
  provision handler at a time. Its check of pending is a one-way gate, for no
  UPDATE writes pending (`StatementsDoNotReset`): once claimed, always past it
  (`HandlersKnowTheirRow`). And nothing has been launched for a session that is still
  pending, or whose handler is still about to launch (`ClaimBeforeLaunch`). With `NodeInv` it
  gives `RecordedForGood`: there is no second node that a retry could record.
* `BudgetInv`, under every fault. Handlers that lost their leases may stand side by side at the claim, but
  each of them but the last has cost a retry: `Attempts(t)` are the handlers that may still
  launch, `Allowed(t)` what asynq has counted, and launches plus attempts never exceed
  `ProvisionMaxRetry + 1` (`AttemptsWithinBudget`). A requeue at shutdown counts no retry,
  but takes its handler away.
* `FailuresAreClean` and `NodesAreKnown` strengthen `ErrorLeavesNothingRunning` and
  `NoLostInstance` on top of the invariants above.
* `ImplementsNodeContract`: a launch is the session's first by `LaunchInv`, a record names what is in
  the handler's hands by `NodeInv`, and what a teardown stops is recorded, or nobody's, in a session
  whose owner asked for it by `TenantInv`. The contract alone implies `KeptUntilDeleted`
  (`NodeContractKeeps`); `HandedOverNodesRun` carries that over, and with `ReadyIsRecorded` (a ready
  row names its node, under the same assumption) it gives `ReadySessionsRun`.
* `WorkInv`: an active task is in a worker's hands (`ActiveTasksRun`, which is what "crash" would break), and
  a task that is yet to come has its whole budget (`UntriedBeforeEnqueue`). On top of it `WorkShrinks` is a
  variant: `Work(r)` counts the steps that request `r`, the attempts its task has left and the
  handler under way can still take, and every step of the deployment lowers it for one
  request and leaves it alone for the others (`ApiShrinks`, `HandlersShrink`). So no retry and no
  handler goes round in circles, and the deployment comes to rest.
* `JobsInv`: `JobsBehindRows` holds step by step because a request is its session's job before the
  row says what it waits for, a handler leaves provisioning only with the row, and asynq loses
  no active task. `AcceptedDeletesLast` adds that a teardown task, once the row or the client
  has been told of it, is never archived: nothing it does can fail but a statement. At rest there are no
  jobs and no handlers, so `JobsBehindRows` leaves only ready, error and terminated, and
  `AcceptedDeletesLast` only completed teardowns: `RestIsSettled`.
* `ImplementsProvider`: each step of the control plane maps to a step of `ProviderContract`
  or a stutter. `NodeInv` supplies that a launched node is new and that no terminated one is in
  hand.
* `ImplementsContract`: `PatientInv` says that DELETEs come only when the provisioning is over
  (`DeletesComeLate`), what a handler at each control point knows of its row
  (`HandlersMatchStatus`), and what runs at each status (`NodesMatchStatus`). Every step moves
  at most one session (`NextEffect`), in a way the contract allows (`EffectIsContractStep`).
* `TeardownsStop`: a terminate task is completed by `SetSessionTerminated` alone, after the node was
  stopped (`CompletedTeardowns`), and no handler launches for a row that a DELETE got hold of
  (`NoLaunchAfterDelete`, from `PatientInv`). With `RestIsSettled` it gives `RestingCostsNothing`, the
  safety half of `DeleteStopsNodes` for patient clients. No run checks `RestCostsNothing` by itself; the runs
  check both of its halves.
* `CallsCounted` and `FreeTierHolds`: the quota guard. `QuotaInv` weighs the polls in
  flight: a poll past the check takes its place in the slack above the threshold, one
  that is counted owes a request, and at midnight every poll under way may owe the
  new day one. So a day sees at most `threshold - 1 + 2 * polls` requests: for
  95 and 100, up to three polls may overlap.
* `LoaderInvariant`, and from it `ReturnedIsComplete`, `NoOrphanedBalls`, `CopiesCounted`: the
  loader. `LoaderInv` adds that a partition marked as flushed is there (`FlushedIsThere`),
  that an attempt which reached `close` without an exception has read everything
  (`LoopsEnd`), and that what an attempt has not flushed yet has one copy less than
  attempts (`OneCopyInFlight`). The lemma `LoaderExit` covers all the ways an invocation
  may end, `LoaderMoves` and `LoaderFlushes` those in which it goes on.
* `ImplementsStore`: a flush adds rows the attempt has read, after their matches (`FlushIsWrite`, from
  `BallsHaveMatches`), a commit adds what it has read, half a match perhaps, but the half that is a match
  (`CommitRows`, `CommitIsWrite`), and the end of an attempt
  shows only if it returned, when everything is there (`CompleteIsClosed`, from `DoneIsComplete`).

Model-checked only: the liveness properties `Settles` and `DeleteCompletes`, which rest on
fairness and ENABLED and are out of the prover's reach. What is proved of them is the safety half of the
argument, for any deployment: every step uses up work (`WorkShrinks`), so the steps end; where
they have ended all is settled and torn down (`RestIsSettled`). What TLC adds, on the small
instance, is that fairness does not let the deployment stop before it is at rest. (That the sum of all
requests' work bounds the number of steps is an induction over the set of requests, and stays
informal.)

## 6. Not modelled

* GET endpoints, health probes, `GetStatus`, `ListSessionsForUser`: they change nothing.
* Decoding errors of a payload and a missing provider: `jobs.NewProvision` writes
  the payload, and the one provider is registered at startup.
* `newSessionID` draws 96 random bits: ids are never drawn twice.
* The e-mail of a user: the upsert overwrites it, with NULL for a token without the claim
  (`internal/store/sqlc/users.sql.go:31`), but nothing reads the stored one.
  `GetUserByClerkSubject` has no caller.
* What a poll writes to the raw bucket: two polls in one second would share a key
  (`cricdata/lambdas/cricdata_poller_lambda.py:52`), but nothing reads the objects, and
  the bucket keeps versions.
* `fetch_zip`, which takes any file that is there for the complete ZIP; only the smoke
  scripts call it. The contents of a match, and so revised matches; the smoke and
  spot-check scripts, which call the loaders or read.
* `WithTx` and `LockSession`: written, never called.
* The moments between the requeue of a task at shutdown and the exit of the process: one step
  (`ShutdownWorker`). A handler that ran on in between would be one that has lost its lease.
* That a POST answered 400 may leave its client without the id of a session that is provisioned all the
  same: the models have the step, but nothing in the code can be asked for that id.
* A teardown or a cleanup whose AWS call fails: the models have both (`ec2`), and the code accepts that
  the instance may run on, so no property forbids it.
* Starting and stopping of the processes (`run` in `cmd/api` and `cmd/orchestrator`), beyond the
  crashes and shutdowns above.
* Configuration, tracing, CDK, node scripts: no behaviour of their own.
* What the documents announce and the code does not have: watchdog, reconciliation
  loop, signaling, billing.

## 7. Plan

Done: the control plane from the token to EC2, its three contracts and their refinements, the
quota guard, the loader and the contract of its stores, and proofs of every safety property of the
passing runs, and of the safety half of the liveness properties.

What would add something, in this order:

1. `PatientClients` replaced by what a fix of `racing_delete` would guarantee (a status
   UPDATE that looks at the status it overwrites), so that the refinement of
   `SessionContract` can be stated for every client. It needs the fix first: the models
   follow the code.
2. Which fault each conjunct of `JobsInv` really needs: with orchestrators that crash but APIs
   that do not, a waiting row should still have its job. The fault `crash` stands for
   both today.
3. Revised matches in `Cricsheet`, once something depends on which deliveries a revised
   match leaves behind.
