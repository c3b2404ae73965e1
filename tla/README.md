# AsyncGate in TLA+

AsyncGate is a server that hands out tasks to workers under leases and keeps a
ledger of receipts about them. Callers create tasks; workers claim them, renew
their lease, report progress, complete or fail them; a background sweep takes
expired leases back. State lives in PostgreSQL. Optionally, receipts are also
sent to ReceiptGate, an external ledger, through a circuit breaker.

These modules model the parts of it where order, concurrency and time decide
whether it is right. Paths below are relative to the repository; `core.py` is
`src/asyncgate/engine/core.py` and `repositories.py` is
`src/asyncgate/db/repositories.py`.

## 1. Inventory

| Component | State | Operations | What is hard | What makes it correct |
|---|---|---|---|---|
| Task state machine (`models/task.py`, `models/enums.py`) | status | `can_transition_to` | only `complete` asks it; four other writers do not | every change is an edge of the table |
| Engine (`core.py`) over repositories (`repositories.py`) | tasks, leases, receipts | `create_task`, `cancel_task`, `lease_next`, `renew_lease`, `report_progress`, `start_task`, `complete`, `fail`, `expire_leases` | expiry against every worker call, retries, renewal limits, replayed creation | lease table, status and receipts tell the same story; budgets and limits hold; every lease ends |
| Transactions (`db/base.py`, PostgreSQL) | row locks, uncommitted writes | one transaction per tool call or sweep | READ COMMITTED reads that are stale when used; locks taken in both orders; a crash in the middle | a worker writes only under its lease; a terminal task stays as it is; calls end |
| Sweep (`tasks/sweep.py`) | none of its own | `lease_sweep_loop` | works from an unlocked snapshot, beside every other call | expired leases are found, others are left alone |
| Receipts and obligations (`repositories.py`, `models/termination.py`) | receipts, parents | emission, `get_task_obligation`, acknowledgement | which obligation a terminator closes | closed once, by the right type; one left open is explained |
| Listings (`repositories.py`) | none of their own | `list_open_obligations`, `list`, `list_filtered`, `TaskRepository.list` | pages over rows with equal timestamps, capped candidates, rows added and closed between two queries | no open obligation is skipped; the walk ends |
| Circuit breaker (`integrations/circuit_breaker.py`) | state, counters | `call`, its recording of results, `reset` | calls run outside the lock: results arrive in a later state | probes are bounded; it closes again |
| ReceiptGate client and outbox (`integrations/memorygate_client.py`) | buffer in memory and on disk | `emit_receipt`, fallback, replay, retries | buffered, refused and unbufferable outcomes; restart; full buffer; the post precedes the commit | a receipt is delivered or known to be lost; nobody acts on an uncommitted one |
| Reconciliation (`engine/reconcile.py`) | none of its own | `reconcile_worker` | reads the ledger, then the leases, then writes; nothing is locked | local grants follow the ledger, and no task is lost over it |
| Rate limiter (`middleware/rate_limit.py`) | windows of timestamps | `check_rate_limit` | same-instant calls, several instances | never more than `max_calls` per window |
| Worker (`workers/command_executor/worker.py`) | the task in hand | poll, start, execute, report | never renews; a command may outlive its lease; errors are logged only | short tasks end, results of a lost lease change nothing |
| MCP server, REST API, authentication | none | dispatch, checks of the caller | | a rejected call changes nothing |
| Configuration, instance id, metrics, tracing, migrations | read-only, or no influence | | | |

How they interact: a tool call enters `mcp/server.py:_handle_tool`, which opens
one session (one transaction) and calls one engine method; the method reads and
writes through the repositories and emits receipts in the same transaction;
`get_session` commits at the end or rolls back on any exception. The sweep does
the same on a timer. In integrated mode `_emit_receipt` also posts the receipt to
ReceiptGate *before* the transaction commits, through the client and its breaker.

## 2. Modules

| Module | What it is |
|---|---|
| `TaskLifecycle` | abstract specification: one task's status moves along `can_transition_to`, and each claim is a fresh grant |
| `TaskEngine` | every handler of the engine as one action, with leases, retries, receipts and the clock |
| `TaskEngine_proofs` | theorems about `TaskEngine`, including that it implements `TaskLifecycle` |
| `TaskTx` | the same handlers as sequences of SQL statements in concurrent transactions |
| `TaskTx_proofs` | theorems about `TaskTx`, for any number of sessions |
| `CircuitBreaker` | the breaker with calls in flight |
| `CircuitBreaker_proofs` | theorems about it, for any number of callers |
| `Delivery` | abstract specification: what an emitter may be told of a receipt, and where that receipt may end up then |
| `Outbox` | the client behind the breaker: posting, the buffer, its file, the replay; implements `Delivery` |
| `Outbox_proofs` | theorems about it, for any buffer size and number of retries |
| `Custody` | one task between the database and ReceiptGate: the post inside the transaction, the replay, `reconcile_worker` |
| `Custody_proofs` | theorems about `Custody` |
| `WorkerLoop` | command executors against the queue and the lease clock |
| `WorkerLoop_proofs` | theorems about it, for any number of workers and tasks and any durations |
| `LedgerWalk` | the paged listings, read while rows are added and closed |
| `LedgerWalk_proofs` | theorems about it, for any number of rows and any page size |
| `Numbers` | lemmas on least and greatest elements of sets of numbers, and on division, for the two above |
| `MCTaskEngine`, `MCTaskTx` | instances for TLC |

Composition: `TaskEngine` is the reference for the handlers. `TaskTx` refines its
steps to statements and leaves out ReceiptGate; `Custody` keeps the post in the
middle of a transaction and leaves out the statements (whoever writes the task waits
for the row the posting transaction has locked). What `Custody` assumes of the client is
the promise of `Delivery`: an acceptance is answered or fails, a completion may wait
and then arrive at any later time, or never. `WorkerLoop` uses the queue, claim and
expiry of `TaskEngine` with the duration of a command in place of arbitrary calls.

### TaskEngine

State: `status`, `attempt`, `wait` (next_eligible_at minus now), `creator`,
`created` (creation order), `leases` (the rows of the table, with the remaining
`ttl`, the `age` since acquired_at and `renewals`), `grants` (a lease_id is the
number of its grant, so ids are never reused, like the UUIDs of the code),
`offers` (the `task.assigned` receipts) and `receipts` (all others). Time is
relative: `Tick` ages leases and shortens waits, and both saturate.

| Action | Code |
|---|---|
| `CreateTask`, `ReplayCreate` | `core.create_task`; the second is the insert that hits the idempotency key |
| `CancelTask` | `core.cancel_task` |
| `LeaseNext` | `core.lease_next`, `LeaseRepository.claim_next` |
| `RenewLease` | `core.renew_lease`, `LeaseRepository.renew` |
| `TransitionToRunning` | `core.report_progress`, `core.start_task` |
| `Complete` | `core.complete` |
| `FailRetry`, `FailTerminal` | `core.fail`, its two paths |
| `ExpireLease` | one lease of `core.expire_leases` |

A handler is one atomic step here. That is right only when nothing interleaves;
`TaskTx` takes the steps apart. A rejected call rolls back and has no action.
Receipts are a set: emitting the same receipt twice is what the code's hash check
makes of it. A second `task.assigned` with the same trace id is likewise no change,
so `ReplayCreate` is the replay with a new trace id.

### TaskTx

One task, its one lease row (`uq_lease_task` allows no second), and sessions that
each run one handler, statement by statement. A read sees committed state. An
UPDATE, DELETE or SELECT ... FOR UPDATE of a locked row waits and then acts on the
row as it is by then (`Hit`, `Miss`, `Block`), as READ COMMITTED does; SKIP LOCKED
does not wait; an insert against a row someone is deleting waits for the outcome.
Writes become visible at `Commit`. Statements that touch only rows the session
already has locked are merged into the step before, since no other session can
tell. Re-reads really read: repository methods turn rows into models and drop
them, so the session's weakly referencing identity map holds no stale copy.
`Victim` is PostgreSQL aborting a session in a cycle of waits and `CutOff` a crash
or lost connection at any point.

| Handler | Steps |
|---|---|
| `complete` | `Validate` (no lock), `Read`, `LockLease` (validate for_update), `Recheck`, `Write`, `Commit` |
| `fail` | the same, without a status check; the retry decision is taken at `Read`, the attempt read at `Recheck` |
| `report_progress`, `start_task` | `Validate`, `Read`, `Write`, `Commit` |
| `renew_lease` | `Read`, `LockLease`, `Commit` |
| `cancel_task` | `Read`, `Delete` (any lease), `Recheck`, `Write` or not, `Commit` |
| `lease_next` | `Select`, `Insert`, `Commit` |
| `expire_leases` | `Scan`, `Read`, `RequeueRead`, `Write`, `Delete`, `Commit` |

### CircuitBreaker

`AdmitClosed`, `AdmitRested` and `AdmitProbe` are the locked first half of `call`,
`Answer` is ReceiptGate answering while no lock is held, `Record` is the locked
second half (`_on_success`, `_on_failure`, or nothing for a refusal or a cancelled
call). A call is a `"probe"` while the half-open period that let it through lasts:
this is bookkeeping of the model, the code does not know. Counters stop at their
thresholds, which is all the code compares them with.

### Outbox

State: `buffer` and `disk` (the file), `callers` (where each `emit_receipt` is),
`batch` and `posting` (the replay at work), `running` (the client exists).
`accepted` is what ReceiptGate has, `dropped` what was given up with an error logged, `unsure` the receipts the client has a reason to post again. Whoever
holds the buffer's lock awaits nothing, so what lies between two posts is one step.

| Action | Code |
|---|---|
| `Post`, `PostAnswered`, `PostFailed` | `emit_receipt` when the breaker lets it through: the answer, or `_buffer_receipt` |
| `FallbackToBuffer` | `emit_receipt` when it does not |
| `StartReplay`, `ReplayPost`, `ReplayAccepted`, `ReplayFailed`, `ReplayBlocked` | `replay_buffered_receipts`, with `_remove_buffer_item` and `_schedule_retry` |
| `FallDue` | `next_retry_at` passes |
| `GetClient` | the client is made, at its first use after a start, and loads the file |
| `Restart` | the process ends: its posts may arrive or not |

A write of the file succeeds or raises. In `_remove_buffer_item` the replay catches
that; in `_schedule_retry` it ends the batch; in the fallback `emit_receipt` takes it
for a failed post and buffers the receipt a second time (`BufferAgain`). The breaker
is reduced to letting a call through or not, in any order; no property needs more.
Backoff is reduced to "due at some later time".

`Delivery` says the same of one receipt at a time, without buffer, file or batch: its
`fate`, what its emitter was `told`, and whether it was `reported` lost. `Outbox` maps
to it by `Fate` and `Word`; a receipt waits as long as it is in memory, on disk or in
the batch of the replay, so a stale file that is loaded after a restart cannot post
what had been given up.

### Custody

State: `row` (the task and its lease as committed), `tx` (the transaction that is
posting; one at a time, because it has locked the row), `ledger` (ReceiptGate: the
custodian and how the obligation was closed), `outbox` (completions that wait, each
saved on disk or not), `rec` (the call of `reconcile_worker`), and history
variables for the properties (`finisher`, `doubted`, `unwritten`).

| Action | Code |
|---|---|
| `LeaseNext`, `Complete`, `FailTerminal`, `CancelTask` | the handler up to its post |
| `PostAnswered` | `_emit_receipt` with an answer, accepted or refused: it looks for `"buffered"` only |
| `AcceptanceFailed` | `ReceiptUnbufferable`: the claim rolls back |
| `CompletionBuffered` | `ReceiptNotYetCommitted`: the completion rolls back, its receipt waits |
| `CompletionUnwritten` | the buffer file cannot be written: `emit_receipt` raises, `_emit_receipt` warns and goes on |
| `Commit`, `Abort` | the end of the transaction, after the post |
| `FailRetry`, `ExpireLease` | handlers whose receipts ReceiptGate does not get |
| `Replay`, `GiveUp` | the outbox, at any time, with any of its items |
| `ListCustody`, `ListLeases`, `ReleaseStale`, `Settle` | `reconcile_worker`: its two reads, the DELETE, the UPDATE |
| `Restart` | the process dies; what the buffer file has survives |

ReceiptGate itself is not in the repository: the first acceptance makes a custodian,
the custodian alone can close (`Admissible`), as `reconcile.py` and the client's error
codes expect. A cancellation is posted in the owner's name, so that ReceiptGate refuses
it once a worker is custodian: the task is cancelled here and open there. Retry and
expiry leave the custody with the old worker. Nothing in the program calls
`reconcile_worker` yet; the model calls it at the worst moments.

### WorkerLoop

`hand` is what each worker has in hand. `Poll` claims the oldest eligible task,
`ReportRunning` calls `start_task` and starts the command, `ReportCompletion` reports
the result; an error of either call is logged and forgotten, as in the code.
`PollLost`, a fault in a report, and `Die` are the lost calls and crashes. Time is
counted in units longer than a poll, a call or a sweep, so `Tick` waits until those are
over (`Settled`). A malformed task is dropped by `process_task` without a word.

### LedgerWalk

A client follows the cursors of one listing: each page is one query (`List`), or two
for `list_open_obligations` (`FetchCandidates`, then `FilterOpen`, which sees what was
committed in between, and keeps the first `Limit` open candidates, `PagePlaces`). Rows are numbered by commit and stamped with a `created_at` that
was taken earlier, so stamps come in any order and may be equal. `Query` returns any
order of equal rows, as `ORDER BY created_at` does.

## 3. Runs

| Run | Checks | Instance and bounds |
|---|---|---|
| `TaskEngine` | `TypeOK`, `LeaseMatchesStatus`, `LedgerProvesStatus`, `ClosedAtMostOnce`, `StrayObligationsExplained`, `TerminalImmutable`, `ImplementsLifecycle` | two tasks of different priority, one of them with an idempotency key, two owners, batches of two, 2 grants and 2 offers per task, one renewal |
| `TaskEngineTime` | `AttemptsAccounted`, `HoardingBounded`, `LeaseEnds` | one task, two workers, 4 attempts and grants, backoff 1 to 3, jitter, delay, TTL 2, 2 renewals, lifetime 2 |
| `TxLocked` | `TypeOK`, `LeaseMatchesStatus`, `ReceiptsMatchStatus`, `RetryBudget`, `ExpiredLeaseIsFound`, `WorkerWritesUnderItsLease`, `TerminalImmutable` | three sessions over `complete`, `fail`, `lease_next`, `renew_lease`; 3 grants; symmetric sessions |
| `TxAll` | `LockedLeaseStands`, `TxEnds` | two sessions over all seven handlers; 2 grants; no symmetry, because of the liveness property |
| `CircuitBreaker` | `TypeOK`, `ProbesBounded`, `StaysDecidable`, `Recovery` | three callers, thresholds 2, 3 and 2 |
| `Outbox` | `TypeOK`, `BufferedIsKept`, `NoNeedlessRepeat`, `Drains`, `ImplementsDelivery` | an acceptance and three other receipts, one of which is refused; a buffer and a batch of 2, one retry, one failed write, one restart |
| `Custody` | `TypeOK`, `HeldIsAccepted`, `NoForgottenClosure`, `OutcomesAgree`, `TaskEnds` | two workers, two attempts, three faults, one call of `reconcile_worker` |
| `WorkerLoop` | `TypeOK`, `RunsBounded`, `LateReportsIgnored`, `ShortTasksEnd` | four workers, an overlong, a malformed and a short task; TTL 2, command limit 5, overlong commands 7 (minutes: 120 s, 300 s), one fault |
| `LedgerWalk` | `TypeOK`, `OnlyTiesAreSkipped`, `WalkEnds` | four rows with three timestamps, pages of 1, candidates 2 |

Why the bounds are enough: two tasks are the least with a queue order, a batch and
a task that a step must leave alone; 2 grants the least with a stale lease and a
successor. Four attempts let the backoff double and reach its cap. A conflict
between transactions needs two of them and a third to move the task on in between
(claim it again, say), which is why `TxLocked` has three. Three callers exceed the
failure and success thresholds and leave one call to be late. Three receipts
overflow a buffer of two, also while the replay works on both; a failed write with a
restart after it is the least that makes the file's staleness felt.

Three faults let a completion be buffered, its successor fail as well, and the process
restart in between. Four workers leave one to find the short task while the overlong one
is run by as many as its leases allow (with one or two, an overlong command starves
everything behind it for ever, because expiry puts it back at the head of the queue).
Pages of one and two candidates make every row a page boundary and every run of two
closed obligations longer than the candidates.

`MaxGrants`, `MaxOffers`, `MaxFaults`, `MaxRestarts`, `MaxRounds`, `MaxRows` and
`MaxStamp` bound the model, not the program. `Outbox`, `Custody` and `LedgerWalk` are
checked without deadlock checking: when every receipt is dealt with, the task has ended
or the client has read its last page, they stop.

The next runs are expected to fail: each shows something a document or a comment
of the repository says and the code does not do.

| Run | What TLC finds | What is said |
|---|---|---|
| `SweepOverwrites` | the sweep scans an expired lease, `complete` (validated before the expiry) commits, and the sweep's `UPDATE ... WHERE task_id` puts the succeeded task back into the queue | `README.md:275` |
| `CircuitBreakerRefusals` | three refusals in a half-open period use up its calls; the breaker turns every later call away, for good | `circuit_breaker.py:36-39` |
| `UnconferredCustody` | ReceiptGate refuses an acceptance (the obligation is closed, or another worker is custodian); the claim commits all the same | `core.py:1360-1363` |

Other differences between what is said and what is done show in the definitions and
are left out of the runs:

- A replayed `create_task` (`ReplayCreate`) emits a second obligation if it has a new
  trace id (`core.py:260`; "does not duplicate", `AsyncGate Spec.txt:343`).
- A completion without artifacts ends the task and leaves its obligation open
  (`repositories.py:780`), which "remains open until properly locatable success is
  provided" (`repositories.py:864`): no later call can provide it.
  `StrayObligationsExplained` states what does hold of open obligations of ended tasks.
- `cancel_task` that meets a task made terminal since its check changes nothing
  (`repositories.py:227`) and emits `task.canceled` all the same (`Recheck` in `TaskTx`).
- The replay retries a refusal like a failure (`memorygate_client.py:545`;
  "must neither be retried", `:43-45`): `ReplayFailed`.
- After a buffered completion "local state follows on replay" (`core.py:1391`): nothing
  makes it follow. The lease expires and the task is run again (`OutcomesAgree` says
  when the two then differ).

`TxLocked` leaves out `cancel_task`, `report_progress` and the sweep because with
them its properties fail, beyond `SweepOverwrites`: with `cancel` and `claim`,
`LeaseMatchesStatus` (a claim commits between the DELETE and the UPDATE); with
`progress` and `fail`, `WorkerWritesUnderItsLease` (the task is running without a
lease); with `sweep`, `fail` and `claim`, `RetryBudget` (the sweep writes back the
attempt it had read; `RetryCorrect` proves that only the sweep has to be left out for
it) and `ExpiredLeaseIsFound` (it requeues a task leased anew: the lease row stays, no sweep looks at it and every claim fails on it). What they have
in common: `complete` and `fail` act on the lease they have locked, the others on
something they have read. `TaskEngine` also shows, in the definitions themselves,
that `renew` does not look at `expires_at` (`Renewable`), so an expired lease not
yet swept can be renewed, and that the lifetime limit is checked at renewal only:
the true bound is `HoardingBounded`, one TTL more.

Each property of a passing run has a mutant, an operator marked `mutant` beside
the definition it replaces, which breaks that property.

### Fairness

- `TaskEngine`: time passes (`Tick`), and a lease that stays expired is swept. The
  loop of `tasks/sweep.py` runs as long as the server does, reads up to 100 expired
  leases each time, and one lease that raises does not stop the others. No fairness
  on callers or workers: `LeaseEnds` holds whatever they do.
- `TaskTx`: a session executes its statements; strong fairness, because PostgreSQL
  queues the sessions that wait for a row, so one cannot be passed over for ever.
  Deadlocks are detected. No fairness on arrivals, crashes or expiry.
- `CircuitBreaker`: calls keep being made (the replay worker alone sees to that
  while anything is buffered), each is answered because it has a timeout, and
  `timeout_seconds` pass. None on `Reset`, which nothing in the program calls, or
  on how ReceiptGate fares.
- `Outbox`: `_replay_loop` goes round while the client exists, a post ends by its
  timeout, and a retry falls due. None on emissions, on the answers, on the breaker
  or on `GetClient`: after a restart the file is loaded only when something uses the
  client, which is why `Drains` has `[]<>running` as its premise.
- `Custody`: a post ends by its timeout, a transaction ends, workers poll. Strong
  fairness on reports: of the workers who get the task again and again, one reports
  before its lease expires. This is the one assumption about callers, and the subject of
  `WorkerLoop`. None on replays, faults or `reconcile_worker`.
- `WorkerLoop`: time passes, the sweep runs, a worker's loop goes on. Commands that fit
  into their lease are not interrupted by anything but the bounded faults.
- `LedgerWalk`: the client asks for the next page; none on writers.

## 4. Theorems

Each is proved for all values of the constants that satisfy the assumptions of the
module (`EngineAssumption`: finitely many tasks, limits are natural numbers, at least
one attempt; `TxAssumption` and `MarkerAssumption`; `BreakerAssumption`: finitely many
callers, and no more successes asked for than probes let through; `OutboxAssumption`:
finitely many receipts, room for at least one item and a batch of at least one;
`CustodyAssumption`; `WorkerLoopAssumption`: finitely many workers, a lease ttl and a
command limit of at least one unit; `LedgerWalkAssumption`: positive page and candidate
limits). Every safety invariant and action property of a passing run is the statement of
one of them.

| Module | Theorem | Statement |
|---|---|---|
| `TaskEngine_proofs` | `TypeCorrect` | `Spec => []TypeOK` |
| | `LeaseCorrect` | `Spec => []LeaseMatchesStatus` |
| | `TerminalCorrect` | `Spec => TerminalImmutable` |
| | `LedgerCorrect` | `Spec => []LedgerProvesStatus` |
| | `ClosedOnceCorrect` | `Spec => []ClosedAtMostOnce` |
| | `AttemptsCorrect` | `Spec => []AttemptsAccounted` |
| | `HoardingCorrect` | `Spec => []HoardingBounded` |
| | `LifecycleCorrect` | `Spec => ImplementsLifecycle` |
| | `StrayCorrect` | `Spec => []StrayObligationsExplained` |
| `TaskTx_proofs` | `LockedLeaseCorrect` | `Spec => []LockedLeaseStands`, all handlers |
| | `WritesCorrect` | `Spec => WorkerWritesUnderItsLease`, without `progress` |
| | `LeaseCorrect`, `ReceiptsCorrect` | `Spec => []LeaseMatchesStatus`, `[]ReceiptsMatchStatus`, for the handlers of `TxLocked` |
| | `TerminalCorrect` | `Spec => TerminalImmutable`, for the same |
| | `ExpiredCorrect` | `Spec => []ExpiredLeaseIsFound`, for these and `report_progress` |
| | `RetryCorrect`, `TypeCorrect` | `Spec => []RetryBudget`, `[]TypeOK`, for all handlers but the sweep |
| `CircuitBreaker_proofs` | `TypeCorrect`, `ProbesCorrect` | `Spec => []TypeOK`, `[]ProbesBounded` |
| | `DecidableCorrect` | `Spec => StaysDecidable` |
| `Outbox_proofs` | `KeptCorrect` | `Spec => []BufferedIsKept` |
| | `BoundedCorrect` | buffer and file within their size, no item past its retries |
| | `TypeCorrect`, `RepeatCorrect` | `Spec => []TypeOK`, `NoNeedlessRepeat` |
| | `DeliveryCorrect` | `Spec => ImplementsDelivery` |
| `Custody_proofs` | `TypeCorrect`, `HeldCorrect` | `Spec => []TypeOK`, `[]HeldIsAccepted` |
| | `ClosureCorrect`, `OutcomesCorrect` | `Spec => []NoForgottenClosure`, `[]OutcomesAgree` |
| `WorkerLoop_proofs` | `TypeCorrect` | `Spec => []TypeOK` |
| | `LateCorrect`, `RunsCorrect` | `Spec => []LateReportsIgnored`, `[]RunsBounded` |
| `LedgerWalk_proofs` | `TypeCorrect`, `SkippedCorrect` | `Spec => []TypeOK`, `[]OnlyTiesAreSkipped` |

The theorems of `TaskTx` with a premise on `Operations` need it: the handlers they leave
out break the property, as section 3 says.

### TaskEngine

The argument. `LeaseMatchesStatus` is not inductive: `Release` deletes the row with
the caller's grant, and that this is the task's only row needs
`LeaseIsCurrent` (a lease row carries the newest grant number); that `Obligation`
is defined needs `HasObligation` (a created task has a `task.assigned` receipt for
its creator). `CustodyInv` is the conjunction of the four. Terminal immutability and
the refinement follow from it step by step: `fail` and the sweep do not ask for the
status, but they act on a lease row, and only a leased or running task has one.
That the receipts tell the status needs `LedgerInv`: for each task, the newest grant
is accepted and not ended exactly while it is held, every other accepted grant has
an ending unless the task was cancelled, and there is one terminator, of the kind
of the status. `AttemptsAccounted` counts its retry receipts, one per grant.

`StrayObligationsExplained` needs `TerminatorsLinked`, the same of each terminator
receipt: it closes an obligation of the creator or comes with an anomaly. Nothing takes
back an obligation, so it stays true.

### TaskTx

`LockInv` is the invariant behind all of them. Locks are exclusive; whoever writes a
lease row holds its lock, except a claim, which writes a new one only while there is
none and holds the task row; after its `for_update`, `complete`, `fail` or `renew_lease`
holds the lease row it named and that row is the one in the table. The commit of another
session would have to hold the same lock to take it away. `OnCourse` says which handler
may be at which statement, so that the sweep and `cancel_task` never lock the task's key
in the belief that it is a lease. For the four handlers of `TxLocked`, `RowInv` adds what
each transaction is about to commit (`Pending`): with its lease in the table the task is
active, so `fail` needs no status check, and with the task row locked a claim still finds
it queued.

These premises are as wide as they can be. With any further handler added to the
instance of `TxLocked`, TLC finds a violation of `LeaseMatchesStatus`,
`ReceiptsMatchStatus` and `TerminalImmutable`; of `ExpiredLeaseIsFound` with `cancel` or
`sweep`, of `WorkerWritesUnderItsLease` only with `progress`, of `RetryBudget` only with
`sweep`; and the theorems leave out just those.

`RetryBudget` needs less and holds of more: `EffectInv` says of every handler but the
sweep what its transaction is about to commit, without looking at any other session.
`complete` ends the task, `cancel_task` too, `report_progress`, a claim and `renew_lease`
keep the attempt, and only `fail` raises it, by the one it decided on. Whoever is about to
write the task row holds its lock, so no two of them are at it at once. With that
a lease always has an active task (`LeaseIsActive`), as long as only `complete` and
`fail` make a task inactive: they delete its lease in the same commit. And what
`fail` decided about the retry before it locked the lease is still right when it commits
(`RetryInv`): the attempt changes only when a `fail` ends its lease, no lease comes back,
and none that is about to be inserted is one a `fail` already names.

`LockInv` has the types without the bounds (`Shape`). `TypeOK` adds two of them. That no
attempt reaches `max_attempts`, in the table or in a row about to be written, is a
consequence of `RetryInv`; with the sweep it does not hold (it writes back an attempt it
read earlier), which is why `RetryCorrect` and `TypeCorrect` exclude it. That a session
locks, waits for and writes only rows with an id given out so far, and that those fit
into `MaxGrants`, is `KeyInv`, which holds with the sweep too: a claim that has begun is
counted until it has its id.

### CircuitBreaker

`ProbesBounded` is inductive once no call is a probe outside the half-open state
(`ProbeInv`). For `StaysDecidable`, every probe that comes back either decides or adds
the success it was counted for, as long as no answer is a refusal (`DecidableInv`).

### Outbox

A receipt whose emitter was told `buffered` must be accounted for: held, accepted or
dropped with a log line. That is inductive only if it is said twice (`KeptInv`), of the
file, which a restart reads, and while the process runs of the buffer too, which the
next write puts in the file's place; and with `InUse`: nobody posts, flushes or replays
while the process is down. `BufferStep` is what every change of the buffer has in
common: it stays bounded, and an item leaves it only accepted or dropped.

`NoNeedlessRepeat` and `ImplementsDelivery` are about the other direction: what a step
does not bring back. `FullInv` adds `OrderInv`. Every id that waits, in the buffer, the
file or the batch, belongs to a receipt whose emitter is done with it; it is there once,
and as a second copy, or with ReceiptGate having the receipt, only if the receipt is
unsure; and while the client runs, buffer and file agree on every receipt that is sure
(a write that fails makes unsure what they differ in, which is what `Doubt` says). One
description of a step, `Flow`, covers all actions: what comes to wait is what an emitter
hands over now, what ReceiptGate comes to have was posting or leaves the queue, and no
emitter is told twice. Each action is shown to be a `Flow`, and a `Flow` to keep
`OrderInv`. `Delivery` lets every receipt take a step of its own, so the refinement is
shown one receipt at a time: one whose emitter is told something is emitted, answered,
buffered or failed (`ToldStep`); any other stays, is delivered, or is given up, with a
report if its emitter had been promised otherwise (`QuietStep`).

### Custody

`HeldIsAccepted` is not inductive: it is the claim about to commit that needs a custodian
(`CustodianInv`). `NoForgottenClosure` needs that whoever reports had been a holder, so
that the custodian was chosen before the report and cannot become its sender afterwards
(`ClosureInv`), and that a completion answered while its sender is custodian finds the
obligation closed. `OutcomesAgree` needs that a reporter holds the task's row from the
post to its commit, that a terminal task has no transaction and no holder left to
report it again, and that nothing is queued before an answer was missed (`AgreeInv`).

### WorkerLoop

`RunInv` relates the clocks of two actors that never compare them. What is left of a
command and what is left of its lease's ttl were set off by the same claim and run down
together (`AgeInv`): while the lease is current their difference is fixed, once it has
ended the worker is a ttl behind its start, and once the task has been claimed again a
ttl behind the new lease. So two workers with the same task have different lease ids and
are a ttl apart (`PairInv`), and a command of a ttl or longer never meets its own lease
at the end (`LateInv`). `RunsBounded` counts the workers by the number of whole ttls left
of their command, which is different for each. That a fresh lease id always exists is the
pigeonhole principle over the workers' hands.

### LedgerWalk

`WalkInv` says where the rows are that are still to be given (`Missing`): beyond the
cursor; between the two queries of `list_open_obligations` among the candidates, or
after all of them and then there are more; nowhere at the end. A page keeps it because
a query cut at its limit has returned every row that precedes its last one (`Sorted`),
and a page filtered down to `Limit` every open candidate up to its last. A row with the
`created_at` of a cursor is let go by definition, since the next query asks for later
ones only. Rows committed or closed meanwhile only take rows out of `Missing`.

`Numbers` has the facts both need about `Min`, `Max` and the first elements of a set of
numbers. Induction is not available to the provers, so the least element is obtained
from the well-foundedness of strict inclusion among finite sets.

### Model-checked only

All liveness (`LeaseEnds`, `TxEnds`, `Recovery`, `Drains`, `TaskEnds`, `ShortTasksEnd`,
`WalkEnds`), which TLAPS does not reach: fairness speaks of ENABLED. The three runs that
are expected to fail have nothing to prove.

## 5. Not modelled

- Escalation receipts of the sweep: off by default (`escalation_enabled`).
- The result, payload, progress and artifact data; sizes and formats.
- Tenants, tokens, internal actors: one tenant, callers who are allowed to call.
- Requests that are rejected, since they roll back.
- In `TaskTx`: more than one task per transaction (a batch of claims, a sweep of
  several leases), which adds lock cycles between tasks but no new kind of conflict
  on one; creation, whose only race is the unique key.
- The rate limiter: the dependency is not mounted on any route.
- Progress blobs and receipt relationships: two upserts without a state machine.
- Several instances. The sweep looks only at tasks created through its own instance
  (`repositories.py:684`): `LeaseEnds` and `ShortTasksEnd` assume that this instance
  comes back.
- Receipts that `to_memorygate_receipt` cannot convert. A limit of 0 in
  `list_open_obligations`: the bootstrap tool, its one caller, puts the default in its
  place (`mcp/server.py:309`).
- Capability checks after the LIMIT of `claim_next` starve a worker behind tasks it cannot
  do. `TaskEngine` models the query as it is; no run states a property of it.
- Configuration, start-up, metrics, tracing, migrations: read-only, or without influence.

## 6. Plan

In order of importance; 1 to 8 are done.

1. `TaskLifecycle`, `TaskEngine`, `TaskEngine_proofs`: the engine's rules.
2. `TaskTx`, `TaskTx_proofs`: the same under concurrency.
3. `CircuitBreaker`, `CircuitBreaker_proofs`.
4. `Outbox`, `Outbox_proofs`, `Delivery`: `ReceiptGateClient` and its promise.
5. `Custody`, `Custody_proofs`: database and ReceiptGate.
6. `WorkerLoop`, `WorkerLoop_proofs`: does a task end, and who runs it.
7. `LedgerWalk`, `LedgerWalk_proofs`: do the listings show everything.
8. Every safety property of the runs as a theorem.
9. Left: that an idle `TaskTx` has the leases and status `TaskEngine` allows, the two
   single upserts, several instances.
