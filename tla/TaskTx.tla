------------------------------- MODULE TaskTx -------------------------------
(***************************************************************************)
(* The handlers of TaskEngine as the database runs them: transactions of   *)
(* several statements, interleaved under READ COMMITTED with row locks.    *)
(* One task, its one lease row, and a few sessions (requests being served, *)
(* and the sweep).                                                         *)
(*                                                                         *)
(* A read sees what is committed.  An UPDATE, a DELETE or a SELECT ... FOR *)
(* UPDATE of a row another session has locked waits for that session to    *)
(* end, then acts on the row as it is by then, or on nothing if it is      *)
(* gone.  What a session writes becomes visible when it commits; a session *)
(* that is rejected, chosen as deadlock victim or cut off rolls back.      *)
(* Statements that only touch rows the session has locked are part of the  *)
(* step before them: nobody can see them apart.                            *)
(***************************************************************************)
EXTENDS Naturals, FiniteSets

CONSTANTS
    Sessions,     \* database sessions, one transaction each at a time
    Operations,   \* the handlers the sessions run
    MaxAttempts,  \* max_attempts
    MaxGrants,    \* bound of the model: leases granted over time
    NoLease,      \* the lease row does not exist
    Keep          \* the transaction does not write this row

AllOperations ==
    {"complete", "fail", "cancel", "claim", "progress", "renew", "sweep"}

ASSUME TxAssumption ==
    /\ Operations \subseteq AllOperations
    /\ MaxAttempts \in Nat \ {0}
    /\ MaxGrants \in Nat

VARIABLES
    task,      \* the committed task row: status and attempt
    lease,     \* the committed lease row, or NoLease
    grants,    \* the last lease_id given out
    receipts,  \* the committed receipts
    tx         \* what each session is doing

vars == <<task, lease, grants, receipts, tx>>

Active   == {"leased", "running"}
Terminal == {"succeeded", "failed", "canceled"}
TaskRow  == [status : {"queued"} \cup Active \cup Terminal,
             attempt : 0..(MaxAttempts - 1)]
LeaseRow == [id : Nat, live : BOOLEAN]
Receipt  == [type : {"completed", "failed", "canceled", "retry_scheduled"},
             grant : Nat]

\* The markers are no rows.
ASSUME MarkerAssumption ==
    /\ NoLease \notin LeaseRow
    /\ Keep \notin LeaseRow \cup {NoLease}
    /\ Keep \notin [status : {"queued"} \cup Active \cup Terminal, attempt : Nat]

\* Rows are locked by key: 0 is the task row, n the row of lease n.
TaskKey == 0
NoKey   == MaxGrants + 1

Steps == {"idle", "validate", "read", "lock", "recheck", "select", "insert",
          "scan", "requeue", "release", "write", "commit"}

Transaction ==
    [op : AllOperations \cup {"none"}, pc : Steps,
     grant : Nat,                          \* the lease the call is about
     attempt : Nat,                        \* tasks.attempt as last read
     requeue : BOOLEAN,                    \* fail: should_requeue
     held : SUBSET (0..MaxGrants),         \* rows locked
     waits : 0..NoKey,                     \* row waited for, or NoKey
     row : TaskRow \cup {Keep},            \* task row to commit
     lrow : LeaseRow \cup {NoLease, Keep}, \* lease row to commit
     out : SUBSET Receipt]                 \* receipts to commit

TypeOK ==
    /\ task \in TaskRow
    /\ lease \in LeaseRow \cup {NoLease}
    /\ grants \in 0..MaxGrants
    /\ receipts \subseteq Receipt
    /\ tx \in [Sessions -> Transaction]

Idle == [op |-> "none", pc |-> "idle", grant |-> 0, attempt |-> 0,
         requeue |-> FALSE, held |-> {}, waits |-> NoKey,
         row |-> Keep, lrow |-> Keep, out |-> {}]

\* A task just created, in the queue.
Init ==
    /\ task = [status |-> "queued", attempt |-> 0]
    /\ lease = NoLease
    /\ grants = 0
    /\ receipts = {}
    /\ tx = [s \in Sessions |-> Idle]

----------------------------------------------------------------------------
(* Statements *)

At(s, op, pc) == tx[s].op = op /\ tx[s].pc = pc

\* Session s goes on with transaction record t; nothing is committed.
Become(s, t) ==
    /\ tx' = [tx EXCEPT ![s] = t]
    /\ UNCHANGED <<task, lease, grants, receipts>>

Goto(s, pc)  == Become(s, [tx[s] EXCEPT !.pc = pc])
Rollback(s)  == Become(s, Idle)

Locked(s, key) == \E r \in Sessions \ {s} : key \in tx[r].held
Exists(key) == key = TaskKey \/ (lease # NoLease /\ lease.id = key)

\* The statement of s, which matched row `key` if `seen`, gets the row ...
Hit(s, key, seen) ==
    /\ ~Locked(s, key)
    /\ Exists(key)
    /\ seen \/ tx[s].waits = key

\* ... or finds none, now or at the end of its wait ...
Miss(s, key, seen) ==
    IF tx[s].waits = key THEN ~Locked(s, key) /\ ~Exists(key) ELSE ~seen

\* ... or has to wait for the session that locked it.
Block(s, key, seen) ==
    /\ tx[s].waits = NoKey
    /\ seen
    /\ Locked(s, key)
    /\ Become(s, [tx[s] EXCEPT !.waits = key])

\* Transaction record of s once its statement has row `key` locked.
Having(s, key, pc) ==
    [tx[s] EXCEPT !.pc = pc, !.waits = NoKey, !.held = @ \cup {key}]

\* Its lease is in the table (with for_update: and the answer is locked).
LeaseIsLive(g) == lease # NoLease /\ lease.id = g /\ lease.live

----------------------------------------------------------------------------
(* Requests *)

\* A call arrives.  A worker names a lease it was given at some time.
Begin(s, op) ==
    /\ tx[s] = Idle
    /\ \/ /\ op \in {"complete", "fail", "progress"}
          /\ \E g \in 1..grants :
                Become(s, [Idle EXCEPT !.op = op, !.pc = "validate", !.grant = g])
       \/ /\ op = "renew"
          /\ \E g \in 1..grants :
                Become(s, [Idle EXCEPT !.op = op, !.pc = "read", !.grant = g])
       \/ /\ op = "cancel"
          /\ Become(s, [Idle EXCEPT !.op = op, !.pc = "read"])
       \/ /\ op = "claim"
          /\ grants + Cardinality({r \in Sessions : tx[r].op = "claim"}) < MaxGrants
          /\ Become(s, [Idle EXCEPT !.op = op, !.pc = "select"])
       \/ /\ op = "sweep"
          /\ Become(s, [Idle EXCEPT !.op = op, !.pc = "scan"])

\* complete, fail, report_progress: the first validate takes no lock.
Validate(s) ==
    /\ tx[s].pc = "validate"
    /\ IF LeaseIsLive(tx[s].grant) THEN Goto(s, "read") ELSE Rollback(s)

\* The handler's first tasks.get, each with the early return it guards.
Read(s) ==
    /\ tx[s].pc = "read"
    /\ \/ /\ tx[s].op = "complete"
          /\ IF task.status \in Active THEN Goto(s, "lock") ELSE Rollback(s)
       \/ /\ tx[s].op = "fail"
          /\ \E retryable \in BOOLEAN :
                Become(s, [tx[s] EXCEPT !.pc = "lock",
                    !.requeue = retryable /\ task.attempt + 1 < MaxAttempts])
       \/ /\ tx[s].op = "progress"
          /\ IF task.status = "leased" THEN Goto(s, "write") ELSE Rollback(s)
       \/ /\ tx[s].op = "renew"
          /\ IF task.status \in Active THEN Goto(s, "lock") ELSE Rollback(s)
       \/ /\ tx[s].op = "cancel"
          /\ IF task.status \in Terminal THEN Rollback(s) ELSE Goto(s, "release")
       \/ /\ tx[s].op = "sweep"
          /\ IF task.status \in Terminal THEN Rollback(s) ELSE Goto(s, "requeue")

\* validate(for_update=True) of complete and fail; renew's own SELECT, which
\* does not ask whether the lease has expired.
Sought(s) == IF tx[s].op = "renew" THEN Exists(tx[s].grant)
                                   ELSE LeaseIsLive(tx[s].grant)

LockLeaseNot(s) ==    \* mutant: the second validate takes no lock either
    /\ tx[s].pc = "lock"
    /\ IF Sought(s)
       THEN Goto(s, IF tx[s].op = "renew" THEN "commit" ELSE "recheck")
       ELSE Rollback(s)

LockLease(s) ==
    LET g == tx[s].grant
    IN  /\ tx[s].pc = "lock"
        /\ \/ /\ Hit(s, g, Sought(s))
              /\ IF tx[s].op = "renew"
                 THEN Become(s, [Having(s, g, "commit") EXCEPT
                                    !.lrow = [id |-> g, live |-> TRUE]])
                 ELSE Become(s, Having(s, g, "recheck"))
           \/ Miss(s, g, Sought(s)) /\ Rollback(s)
           \/ Block(s, g, Sought(s))

\* Under the lease's lock: complete asks for the status again, fail does not;
\* fail reads the attempt it will increment.
Recheck(s) ==
    /\ tx[s].pc = "recheck"
    /\ \/ /\ tx[s].op = "complete"
          /\ IF task.status \in Active THEN Goto(s, "write") ELSE Rollback(s)
       \/ /\ tx[s].op = "fail"
          /\ Become(s, [tx[s] EXCEPT !.pc = "write", !.attempt = task.attempt])
       \/ /\ tx[s].op = "cancel"
          /\ IF task.status \in Terminal
             THEN \* already terminal by now: nothing to update, the receipts
                  \* are emitted nevertheless
                  Become(s, [tx[s] EXCEPT !.pc = "commit",
                                 !.out = {[type |-> "canceled", grant |-> 0]}])
             ELSE Goto(s, "write")

\* claim_next: FOR UPDATE SKIP LOCKED never waits.
Select(s) ==
    /\ At(s, "claim", "select")
    /\ IF task.status = "queued" /\ ~Locked(s, TaskKey)
       THEN Become(s, Having(s, TaskKey, "insert"))
       ELSE Rollback(s)

\* The new lease row, and the task row with it.
Grant(s) ==
    /\ grants' = grants + 1
    /\ tx' = [tx EXCEPT ![s] = [@ EXCEPT
                 !.pc = "commit", !.waits = NoKey,
                 !.row = [task EXCEPT !.status = "leased"],
                 !.lrow = [id |-> grants + 1, live |-> TRUE]]]
    /\ UNCHANGED <<task, lease, receipts>>

\* A row some other session has deleted or updated and not yet committed.
Unsettled(s, key) ==
    \E r \in Sessions \ {s} : key \in tx[r].held /\ tx[r].lrow # Keep

\* uq_lease_task: a row that is there refuses the insert and with it the whole
\* claim; whether an unsettled one is there is only known when it is settled.
Insert(s) ==
    /\ At(s, "claim", "insert")
    /\ \/ lease = NoLease /\ Grant(s)
       \/ /\ lease # NoLease
          /\ \/ ~Unsettled(s, lease.id) /\ Rollback(s)
             \/ Unsettled(s, lease.id) /\ Block(s, lease.id, TRUE)

\* get_expired: a snapshot, no lock.
Scan(s) ==
    /\ At(s, "sweep", "scan")
    /\ IF lease # NoLease /\ ~lease.live /\ task.status \in Active
       THEN Become(s, [tx[s] EXCEPT !.pc = "read", !.grant = lease.id])
       ELSE Rollback(s)

\* requeue_on_expiry reads the attempt and will write it back.
RequeueRead(s) ==
    /\ At(s, "sweep", "requeue")
    /\ Become(s, [tx[s] EXCEPT !.pc = "write", !.attempt = task.attempt])

RequeuedUncounted(s) ==    \* mutant: increment_attempt = False
    [status |-> "queued", attempt |-> tx[s].attempt]

\* requeue_with_backoff, with the attempt it read.
Requeued(s) == [status |-> "queued", attempt |-> tx[s].attempt + 1]

\* The UPDATE of the task row of each handler, by task_id alone.
NewRow(s) ==
    CASE tx[s].op = "complete" -> [task EXCEPT !.status = "succeeded"]
      [] tx[s].op = "progress" -> [task EXCEPT !.status = "running"]
      [] tx[s].op = "cancel"   -> [task EXCEPT !.status = "canceled"]
      [] tx[s].op = "sweep"    -> [status |-> "queued", attempt |-> tx[s].attempt]
      [] tx[s].op = "fail"     ->
            IF tx[s].requeue THEN Requeued(s) ELSE [task EXCEPT !.status = "failed"]

Proof(s) ==
    CASE tx[s].op = "complete" -> {[type |-> "completed", grant |-> tx[s].grant]}
      [] tx[s].op = "cancel"   -> {[type |-> "canceled", grant |-> 0]}
      [] tx[s].op = "fail"     ->
            {[type |-> IF tx[s].requeue THEN "retry_scheduled" ELSE "failed",
              grant |-> tx[s].grant]}
      [] OTHER -> {}

\* complete and fail delete their own lease, by its id.
Written(s) ==
    [Having(s, TaskKey, IF tx[s].op = "sweep" THEN "release" ELSE "commit") EXCEPT
        !.row = NewRow(s),
        !.lrow = IF tx[s].op \in {"complete", "fail"} /\ Exists(tx[s].grant)
                 THEN NoLease ELSE @,
        !.out = Proof(s)]

WriteNoWait(s) ==    \* mutant: the UPDATE does not wait, it is tried again
    /\ tx[s].pc = "write"
    /\ IF Locked(s, TaskKey) THEN Goto(s, "write") ELSE Become(s, Written(s))

Write(s) ==
    /\ tx[s].pc = "write"
    /\ \/ Hit(s, TaskKey, TRUE) /\ Become(s, Written(s))
       \/ Block(s, TaskKey, TRUE)

\* The DELETE of cancel_task takes whatever lease the task has, that of the
\* sweep the one it scanned.
Doomed(s) ==
    IF tx[s].op = "sweep" THEN tx[s].grant
    ELSE IF tx[s].waits # NoKey THEN tx[s].waits
    ELSE IF lease = NoLease THEN NoKey ELSE lease.id

Delete(s) ==
    LET next == IF tx[s].op = "sweep" THEN "commit" ELSE "recheck"
    IN  /\ tx[s].pc = "release"
        /\ \/ /\ Hit(s, Doomed(s), Exists(Doomed(s)))
              /\ Become(s, [Having(s, Doomed(s), next) EXCEPT !.lrow = NoLease])
           \/ /\ Miss(s, Doomed(s), Exists(Doomed(s)))
              /\ Become(s, [tx[s] EXCEPT !.pc = next, !.waits = NoKey])
           \/ Block(s, Doomed(s), Exists(Doomed(s)))

Commit(s) ==
    /\ tx[s].pc = "commit"
    /\ task' = IF tx[s].row = Keep THEN task ELSE tx[s].row
    /\ lease' = IF tx[s].lrow = Keep THEN lease ELSE tx[s].lrow
    /\ receipts' = receipts \cup tx[s].out
    /\ tx' = [tx EXCEPT ![s] = Idle]
    /\ UNCHANGED grants

----------------------------------------------------------------------------
(* The environment *)

\* The lease's expires_at passes.
Expire ==
    /\ lease # NoLease
    /\ lease.live
    /\ lease' = [lease EXCEPT !.live = FALSE]
    /\ UNCHANGED <<task, grants, receipts, tx>>

\* PostgreSQL breaks a cycle of waits by aborting a session on it.
WaitsFor(s, r) == tx[s].waits \in tx[r].held
Victim(s) ==
    /\ \E r \in Sessions \ {s} : WaitsFor(s, r) /\ WaitsFor(r, s)
    /\ Rollback(s)

\* The server dies, or the connection is lost, in the middle of a transaction.
CutOff(s) == tx[s] # Idle /\ Rollback(s)

Work(s) ==
    \/ Validate(s) \/ Read(s) \/ LockLease(s) \/ Recheck(s)
    \/ Select(s) \/ Insert(s) \/ Scan(s) \/ RequeueRead(s)
    \/ Write(s) \/ Delete(s) \/ Commit(s)

Next ==
    \/ \E s \in Sessions, op \in Operations : Begin(s, op)
    \/ \E s \in Sessions : Work(s) \/ Victim(s) \/ CutOff(s)
    \/ Expire

\* A session keeps executing its statements, a row is given to the sessions that
\* wait for it in turn (PostgreSQL queues them), and deadlocks are detected.
Fairness == \A s \in Sessions : SF_vars(Work(s)) /\ WF_vars(Victim(s))

Spec == Init /\ [][Next]_vars /\ Fairness

----------------------------------------------------------------------------
(* Properties *)

Has(type) == \E r \in receipts : r.type = type
Retries   == Cardinality({r \in receipts : r.type = "retry_scheduled"})

\* Once complete or fail has its lease locked, that lease stands until the
\* transaction ends: no sweep, cancel, renewal or other worker call takes it
\* away or replaces it in between.  This is what validate(for_update=True) is for.
LockedLeaseStands ==
    \A s \in Sessions :
        tx[s].op \in {"complete", "fail"} /\ tx[s].pc \in {"recheck", "write", "commit"}
            => Exists(tx[s].grant)

\* Every transaction ends.  Handlers lock the task row and the lease row in both
\* orders, so they do deadlock; one of the two then gives up, and no call waits,
\* or tries again, for ever.
TxEnds == \A s \in Sessions : tx[s] # Idle ~> tx[s] = Idle

\* "Mutations require matching lease_id": what a worker's call writes to the task
\* is committed while the lease the call was made under is in the table.
WorkerWritesUnderItsLease ==
    [][\A s \in Sessions :
          tx[s].op \in {"complete", "fail", "progress"} /\ tx'[s] = Idle /\ task' # task
              => Exists(tx[s].grant)]_vars

\* The committed status and the committed lease row agree.
LeaseMatchesStatus == task.status \in Active <=> lease # NoLease

\* An expired lease is one get_expired finds, so that the task can be reclaimed.
\* A lease row whose task is not leased or running is never swept, and if the
\* task is queued every claim that selects it fails on uq_lease_task.
ExpiredLeaseIsFound == lease # NoLease /\ ~lease.live => task.status \in Active

\* "Receipts are proofs": a terminal receipt is there exactly when the task has
\* that status, so never two that contradict each other.
ReceiptsMatchStatus ==
    /\ task.status = "succeeded" <=> Has("completed")
    /\ task.status = "failed" <=> Has("failed")
    /\ task.status = "canceled" <=> Has("canceled")

\* A task is retried after a failure only while attempts remain, so fewer than
\* max_attempts times in all, whatever else happens to its row in between.
RetryBudget == Retries < MaxAttempts

\* "Terminal states are immutable".
TerminalImmutable == [][task.status \in Terminal => task' = task]_vars
=============================================================================
