----------------------------- MODULE TaskEngine -----------------------------
(***************************************************************************)
(* The AsyncGate engine (engine/core.py over db/repositories.py) with each *)
(* tool call run alone: one action per handler, from its first check to    *)
(* the commit of its transaction.  What interleaved transactions add is in *)
(* TaskTx; here are the rules the handlers follow when they are serial.    *)
(*                                                                         *)
(* Time is relative: a lease carries how long it is still valid (ttl) and  *)
(* how long ago it was acquired (age), a queued task how long until it is  *)
(* eligible (wait).  Tick lets one unit pass.  A call that an early return *)
(* or an exception rejects rolls back and changes nothing: it has no       *)
(* action.                                                                 *)
(***************************************************************************)
EXTENDS Integers, Sequences, FiniteSets

CONSTANTS
    Tasks,        \* task identities (the tenant is fixed)
    Workers,      \* worker_id values
    Owners,       \* principals that create tasks
    NoOwner,      \* created_by of a task that does not exist yet
    Keyed,        \* the tasks created with an idempotency_key
    Priority,     \* priority of each task
    Capable,      \* <<w, t>>: w advertises the capabilities t requires
    MaxBatch,     \* cap on max_tasks
    MaxAttempts,  \* max_attempts
    BackoffBase,  \* retry_backoff_seconds
    MaxBackoff,   \* max_retry_backoff_seconds
    MaxJitter,    \* largest requeue jitter after an expiry
    MaxDelay,     \* largest delay_seconds
    MaxTTL,       \* max_lease_ttl_seconds
    MaxRenewals,  \* max_lease_renewals
    MaxLifetime,  \* max_lease_lifetime_seconds
    MaxGrants,    \* bound of the model: grants of one task
    MaxOffers     \* bound of the model: task.assigned receipts of one task

ASSUME EngineAssumption ==
    /\ IsFiniteSet(Tasks)
    /\ NoOwner \notin Owners
    /\ Keyed \subseteq Tasks
    /\ Priority \in [Tasks -> Nat]
    /\ Capable \subseteq Workers \X Tasks
    /\ MaxAttempts \in Nat \ {0}
    /\ MaxTTL \in Nat \ {0}
    /\ {MaxBatch, BackoffBase, MaxBackoff, MaxJitter, MaxDelay, MaxRenewals,
        MaxLifetime, MaxGrants, MaxOffers} \subseteq Nat

VARIABLES
    status,    \* tasks.status, "none" before create_task
    attempt,   \* tasks.attempt
    wait,      \* tasks.next_eligible_at minus now, 0 when eligible
    creator,   \* tasks.created_by
    created,   \* the tasks in the order of created_at
    leases,    \* the rows of the leases table
    grants,    \* how many leases the task has had; the last one's lease_id
    offers,    \* to_ of the task's task.assigned receipts, oldest first
    receipts   \* the other receipts about tasks

vars == <<status, attempt, wait, creator, created,
          leases, grants, offers, receipts>>

Active   == {"leased", "running"}
Terminal == {"succeeded", "failed", "canceled"}
Status   == {"none", "queued"} \cup Active \cup Terminal

\* age stops counting here: no lease is valid this long after acquisition.
MaxAge == MaxLifetime + MaxTTL

Lease == [task : Tasks, grant : Nat, worker : Workers,
          ttl : Int, age : Nat, renewals : Nat]

\* The receipt types that can close a task.assigned obligation.
Terminators == {"completed", "failed", "canceled"}

ReceiptType == Terminators \cup
    {"accepted", "started", "retry_scheduled", "lease_expired", "result_ready",
     "anomaly"}

\* grant 0: no lease_id.  offer 0: no parent; n: the task's n-th task.assigned.
Receipt == [type : ReceiptType, task : Tasks, grant : Nat, offer : Nat]

TypeOK ==
    /\ status \in [Tasks -> Status]
    /\ attempt \in [Tasks -> Nat]
    /\ wait \in [Tasks -> Nat]
    /\ creator \in [Tasks -> Owners \cup {NoOwner}]
    /\ created \in Seq(Tasks)
    /\ leases \subseteq Lease
    /\ grants \in [Tasks -> Nat]
    /\ offers \in [Tasks -> Seq(Owners)]
    /\ receipts \subseteq Receipt

Init ==
    /\ status = [t \in Tasks |-> "none"]
    /\ attempt = [t \in Tasks |-> 0]
    /\ wait = [t \in Tasks |-> 0]
    /\ creator = [t \in Tasks |-> NoOwner]
    /\ created = <<>>
    /\ leases = {}
    /\ grants = [t \in Tasks |-> 0]
    /\ offers = [t \in Tasks |-> <<>>]
    /\ receipts = {}

----------------------------------------------------------------------------
(* Queries *)

OwnOffersAll(t) == DOMAIN offers[t]    \* mutant: whoever they are addressed to

\* The task.assigned receipts addressed to the task's creator.
OwnOffers(t) == {n \in DOMAIN offers[t] : offers[t][n] = creator[t]}

\* _get_task_obligation: the most recent of them.
Obligation(t) == CHOOSE n \in OwnOffers(t) : \A m \in OwnOffers(t) : m <= n

LeasesOf(t) == {l \in leases : l.task = t}

\* The queue order of claim_next: priority first, then creation.
Before(s, t) ==
    \/ Priority[s] > Priority[t]
    \/ /\ Priority[s] = Priority[t]
       /\ \E i, j \in DOMAIN created : i < j /\ created[i] = s /\ created[j] = t

EligibleAnyStatus ==    \* mutant: the query forgets status = queued
    {t \in Tasks : status[t] # "none" /\ wait[t] = 0}

Eligible == {t \in Tasks : status[t] = "queued" /\ wait[t] = 0}

\* ORDER BY ... LIMIT max_tasks.
Selected(max_tasks) ==
    {t \in Eligible : Cardinality({s \in Eligible : Before(s, t)}) < max_tasks}

\* Capabilities are compared after the LIMIT, on the selected rows only.
Claimable(w, max_tasks) == {t \in Selected(max_tasks) : <<w, t>> \in Capable}

\* validate: the row exists, belongs to the caller, and has not expired.
Valid(l) == l.ttl > 0

ExpiredLeasedOnly(l) ==    \* mutant: the query forgets running tasks
    l.ttl < 0 /\ status[l.task] = "leased"

\* get_expired: strictly past its expiry, and the task still held.
Expired(l) == l.ttl < 0 /\ status[l.task] \in Active

RenewableByCountOnly(l) ==    \* mutant: the lifetime limit is forgotten
    l.renewals < MaxRenewals

\* The two limits renew enforces; it does not look at expires_at.
Renewable(l) == l.renewals < MaxRenewals /\ l.age < MaxLifetime

MayRetryOneMore(t, retryable) ==    \* mutant: off by one
    retryable /\ attempt[t] < MaxAttempts

\* fail requeues only while another attempt remains.
MayRetry(t, retryable) == retryable /\ attempt[t] + 1 < MaxAttempts

\* base * 2^(attempt-1), capped.
Backoff(n) == LET delay == BackoffBase * 2^(n - 1)
              IN  IF delay \in 0..MaxBackoff THEN delay ELSE MaxBackoff

ReleaseForgotten(l) == leases    \* mutant: the row is not deleted

\* DELETE FROM leases WHERE task_id AND lease_id.
Release(l) == leases \ {k \in leases : k.task = l.task /\ k.grant = l.grant}

\* The row renew writes back.
Renewed(l, extend_by) ==
    [task |-> l.task, grant |-> l.grant, worker |-> l.worker,
     ttl |-> extend_by, age |-> l.age, renewals |-> l.renewals + 1]

\* One unit later.  Once expired, a lease stays expired however long; its age
\* saturates likewise.
Aged(l) ==
    [task |-> l.task, grant |-> l.grant, worker |-> l.worker,
     ttl |-> IF l.ttl >= 0 THEN l.ttl - 1 ELSE l.ttl,
     age |-> IF l.age < MaxAge THEN l.age + 1 ELSE l.age,
     renewals |-> l.renewals]

CountdownNoFloor(d) == d - 1    \* mutant: an eligible task keeps counting

\* How long a queued task still has to wait, one unit later.
Countdown(d) == IF d > 0 THEN d - 1 ELSE 0

Emit(type, t, grant, offer) ==
    [type |-> type, task |-> t, grant |-> grant, offer |-> offer]

----------------------------------------------------------------------------
(* Task owners *)

CreateTask(t, o, delay) ==
    /\ status[t] = "none"
    /\ status' = [status EXCEPT ![t] = "queued"]
    /\ wait' = [wait EXCEPT ![t] = delay]
    /\ creator' = [creator EXCEPT ![t] = o]
    /\ created' = Append(created, t)
    /\ offers' = [offers EXCEPT ![t] = <<o>>]
    /\ UNCHANGED <<attempt, leases, grants, receipts>>

\* The same idempotency_key again.  The insert fails, the existing task is
\* returned, and a task.assigned receipt is emitted for it all the same.  (When
\* the caller repeats the trace_id too, the receipt's hash finds the first one
\* and nothing changes.)
ReplayCreate(t, o) ==
    /\ t \in Keyed
    /\ status[t] # "none"
    /\ Len(offers[t]) < MaxOffers
    /\ offers' = [offers EXCEPT ![t] = Append(@, o)]
    /\ UNCHANGED <<status, attempt, wait, creator, created,
                   leases, grants, receipts>>

\* Its owner, or an internal actor, withdraws a task.
CancelTask(t) ==
    /\ status[t] \notin Terminal \cup {"none"}
    /\ status' = [status EXCEPT ![t] = "canceled"]
    /\ leases' = leases \ LeasesOf(t)
    /\ receipts' = receipts \cup {Emit("canceled", t, 0, Obligation(t)),
                                  Emit("result_ready", t, 0, Obligation(t))}
    /\ UNCHANGED <<attempt, wait, creator, created, grants, offers>>

----------------------------------------------------------------------------
(* Workers.  A call that names a lease which is not in the table, or not the
   caller's, is rejected: the actions range over the rows that exist. *)

\* A second row for one task would violate uq_lease_task and roll back the
\* whole claim, batch included.
LeaseNext(w, max_tasks, ttl) ==
    LET batch == Claimable(w, max_tasks)
    IN  /\ batch # {}
        /\ \A t \in batch : LeasesOf(t) = {} /\ grants[t] < MaxGrants
        /\ leases' = leases \cup
              {[task |-> t, grant |-> grants[t] + 1, worker |-> w,
                ttl |-> ttl, age |-> 0, renewals |-> 0] : t \in batch}
        /\ grants' = [t \in Tasks |->
                         IF t \in batch THEN grants[t] + 1 ELSE grants[t]]
        /\ status' = [t \in Tasks |->
                         IF t \in batch THEN "leased" ELSE status[t]]
        /\ receipts' = receipts \cup
              {Emit("accepted", t, grants[t] + 1, Obligation(t)) : t \in batch}
        /\ UNCHANGED <<attempt, wait, creator, created, offers>>

RenewLease(l, extend_by) ==
    /\ status[l.task] \in Active
    /\ Renewable(l)
    /\ leases' = (leases \ {l}) \cup {Renewed(l, extend_by)}
    /\ UNCHANGED <<status, attempt, wait, creator, created,
                   grants, offers, receipts>>

\* report_progress and start_task: the first one under a lease starts the task.
TransitionToRunning(l) ==
    /\ Valid(l)
    /\ status[l.task] = "leased"
    /\ status' = [status EXCEPT ![l.task] = "running"]
    /\ receipts' = receipts \cup
          {Emit("started", l.task, l.grant, Obligation(l.task))}
    /\ UNCHANGED <<attempt, wait, creator, created, leases, grants, offers>>

\* A result with neither artifacts nor delivery proof is not locatable: its
\* receipt loses its parents and closes nothing, and an anomaly is reported.
Complete(l, locatable) ==
    LET t == l.task
    IN  /\ Valid(l)
        /\ status[t] \in Active
        /\ status' = [status EXCEPT ![t] = "succeeded"]
        /\ leases' = Release(l)
        /\ receipts' = receipts \cup
              {Emit("completed", t, l.grant,
                    IF locatable THEN Obligation(t) ELSE 0),
               Emit("result_ready", t, 0, Obligation(t))}
              \cup (IF locatable THEN {} ELSE {Emit("anomaly", t, 0, 0)})
        /\ UNCHANGED <<attempt, wait, creator, created, grants, offers>>

\* fail has no check of the status: the lease alone authorises it.
FailRetry(l) ==
    LET t == l.task
    IN  /\ Valid(l)
        /\ MayRetry(t, TRUE)
        /\ leases' = Release(l)
        /\ status' = [status EXCEPT ![t] = "queued"]
        /\ attempt' = [attempt EXCEPT ![t] = @ + 1]
        /\ wait' = [wait EXCEPT ![t] = Backoff(attempt[t] + 1)]
        /\ receipts' = receipts \cup
              {Emit("retry_scheduled", t, l.grant, Obligation(t))}
        /\ UNCHANGED <<creator, created, grants, offers>>

FailTerminal(l, retryable) ==
    LET t == l.task
    IN  /\ Valid(l)
        /\ ~MayRetry(t, retryable)
        /\ leases' = Release(l)
        /\ status' = [status EXCEPT ![t] = "failed"]
        /\ receipts' = receipts \cup
              {Emit("failed", t, l.grant, Obligation(t)),
               Emit("result_ready", t, 0, Obligation(t))}
        /\ UNCHANGED <<attempt, wait, creator, created, grants, offers>>

----------------------------------------------------------------------------
(* The engine itself *)

\* One lease of the sweep: authority is lost, the attempt is not counted.
ExpireLease(l, jitter) ==
    LET t == l.task
    IN  /\ Expired(l)
        /\ status' = [status EXCEPT ![t] = "queued"]
        /\ wait' = [wait EXCEPT ![t] = jitter]
        /\ leases' = Release(l)
        /\ receipts' = receipts \cup
              {Emit("lease_expired", t, l.grant, Obligation(t))}
        /\ UNCHANGED <<attempt, creator, created, grants, offers>>

Tick ==
    /\ leases' = {Aged(l) : l \in leases}
    /\ wait' = [t \in Tasks |-> Countdown(wait[t])]
    /\ UNCHANGED <<status, attempt, creator, created, grants, offers, receipts>>

LeaseStep(l) ==
    \/ \E extend_by \in 1..MaxTTL : RenewLease(l, extend_by)
    \/ TransitionToRunning(l)
    \/ \E locatable \in BOOLEAN : Complete(l, locatable)
    \/ FailRetry(l)
    \/ \E retryable \in BOOLEAN : FailTerminal(l, retryable)
    \/ \E jitter \in 0..MaxJitter : ExpireLease(l, jitter)

Next ==
    \/ \E t \in Tasks, o \in Owners, delay \in 0..MaxDelay : CreateTask(t, o, delay)
    \/ \E t \in Tasks, o \in Owners : ReplayCreate(t, o)
    \/ \E t \in Tasks : CancelTask(t)
    \/ \E w \in Workers, max_tasks \in 1..MaxBatch, ttl \in 1..MaxTTL :
          LeaseNext(w, max_tasks, ttl)
    \/ \E l \in leases : LeaseStep(l)
    \/ Tick

\* The sweep of the lease_sweep_loop, as far as task t is concerned.
Sweep(t) == \E l \in LeasesOf(t), jitter \in 0..MaxJitter : ExpireLease(l, jitter)

\* Time passes, and the loop runs for as long as the server does: it reads every
\* expired lease (up to 100) each time and swallows what one of them raises.
Fairness == WF_vars(Tick) /\ \A t \in Tasks : WF_vars(Sweep(t))

Spec == Init /\ [][Next]_vars /\ Fairness

----------------------------------------------------------------------------
(* Properties *)

\* The receipts of task t of one of the given types.
About(t, types) == {r \in receipts : r.task = t /\ r.type \in types}

\* The receipts that end the lease they name.
LeaseEndings == {"retry_scheduled", "lease_expired", "completed", "failed"}

\* The leases of t which, going by the receipts alone, are still held.
HeldGrants(t) == {r.grant : r \in About(t, {"accepted"})}
                     \ {r.grant : r \in About(t, LeaseEndings)}

\* "At most one active lease per task", and the lease table and the status
\* column say the same: a task has a lease row exactly while it is leased or
\* running.  A handler that writes one without the other leaves a task no
\* worker can claim and no sweep finds.
LeaseMatchesStatus ==
    /\ \A t \in Tasks : status[t] \in Active <=> LeasesOf(t) # {}
    /\ \A k, l \in leases : k.task = l.task => k = l

\* "Receipts are proofs": the status of a task can be worked out from its
\* receipts alone.  A terminal status has its terminator and no other; a task is
\* held exactly when an accepted lease has no ending, and running exactly when
\* that lease was also started.
LedgerProvesStatus ==
    \A t \in Tasks :
        /\ status[t] = "succeeded" <=> About(t, {"completed"}) # {}
        /\ status[t] = "failed" <=> About(t, {"failed"}) # {}
        /\ status[t] = "canceled" <=> About(t, {"canceled"}) # {}
        /\ status[t] \in Active <=>
               HeldGrants(t) # {} /\ About(t, Terminators) = {}
        /\ status[t] = "running" <=>
               status[t] \in Active /\
               \E r \in About(t, {"started"}) : r.grant \in HeldGrants(t)

\* Only a retryable failure uses up an attempt, each one leaves its receipt, and
\* the budget is never exceeded, however failures, expiries and cancels mix.
AttemptsAccounted ==
    \A t \in Tasks :
        /\ attempt[t] = Cardinality(About(t, {"retry_scheduled"}))
        /\ attempt[t] < MaxAttempts

\* However often a task is retried, expired, re-leased or its creation replayed,
\* its obligation is discharged at most once: no two receipts close it.
ClosedAtMostOnce ==
    \A t \in Tasks : \A r, s \in About(t, Terminators) : r = s

\* A task that has ended leaves an obligation of its creator open only where that
\* is known: a completion without artifacts is reported as an anomaly, and a
\* replayed create leaves the older obligations behind.  In every other case the
\* terminator closes one of the creator's own, although another principal may
\* have replayed the create and been assigned the task after it.
StrayObligationsExplained ==
    \A t \in Tasks : status[t] \in Terminal =>
        \/ About(t, {"anomaly"}) # {}
        \/ \E r \in About(t, Terminators) :
               r.offer # 0 /\ offers[t][r.offer] = creator[t]

\* What the two renewal limits give together: no lease is valid for longer than
\* one more TTL past the lifetime limit.
HoardingBounded ==
    \A l \in leases : Valid(l) => l.age + l.ttl <= MaxLifetime + MaxTTL

\* "Terminal states are immutable": although fail checks only the lease and the
\* sweep writes without a condition, no step takes a task out of a terminal
\* status or gives it a lease, an attempt or a delay.
TerminalImmutable ==
    [][\A t \in Tasks : status[t] \in Terminal =>
          /\ status'[t] = status[t]
          /\ attempt'[t] = attempt[t]
          /\ grants'[t] = grants[t]]_vars

\* Every lease ends, whatever its holder does: a worker that renews as often as
\* it can runs into the limits, and the sweep finds the lease it leaves behind,
\* whether or not the task was started.
LeaseEnds ==
    \A t \in Tasks, g \in 1..MaxGrants :
        (\E l \in LeasesOf(t) : l.grant = g) ~> ~(\E l \in LeasesOf(t) : l.grant = g)

\* The handlers never leave the state machine of models/task.py.
Lifecycle == INSTANCE TaskLifecycle WITH phase <- status, epoch <- grants
ImplementsLifecycle == Lifecycle!LifecycleSpec
=============================================================================
