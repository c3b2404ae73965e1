------------------------------ MODULE WorkerLoop ------------------------------
(***************************************************************************)
(* The command executor (workers/command_executor/worker.py) at work: it   *)
(* polls, reports "running", runs the command and reports the result.  It  *)
(* never renews its lease, and a call that fails is only logged.           *)
(*                                                                         *)
(* Of AsyncGate: the queue, the leases and their expiry.  All tasks have   *)
(* the same priority and are created in the order of their numbers.        *)
(***************************************************************************)
EXTENDS Naturals, FiniteSets, FiniteSetsExt

CONSTANTS
    Workers,
    TaskCount,
    Overlong,      \* tasks whose command takes LongTime
    Malformed,     \* tasks without command or output_path
    ShortTime, LongTime,
    CommandLimit,  \* timeout of subprocess.run
    LeaseTTL,      \* default_lease_ttl_seconds
    MaxJitter,     \* of requeue_on_expiry
    MaxFaults      \* bound: lost calls and workers that die

Tasks == 1..TaskCount

ASSUME WorkerLoopAssumption ==
    /\ IsFiniteSet(Workers)
    /\ {TaskCount, ShortTime, LongTime, MaxJitter, MaxFaults} \subseteq Nat
    /\ {CommandLimit, LeaseTTL} \subseteq Nat \ {0}
    /\ Overlong \subseteq Tasks
    /\ Malformed \subseteq Tasks

VARIABLES
    status,  \* of each task
    wait,    \* next_eligible_at minus now
    lease,   \* of each task: the id of its lease row and what is left of the ttl
    hand,    \* what each worker is doing
    faults

vars == <<status, wait, lease, hand, faults>>

Ended == {"succeeded", "failed"}

\* Lease ids are UUIDs; ids nobody remembers are used again.
LeaseIds == 0..Cardinality(Workers)
NoLease  == [id |-> "none"]
Idle     == [at |-> "polling"]
Busy     == [at : {"starting", "executing"}, task : Tasks, id : LeaseIds,
             left : 0..CommandLimit]

TypeOK ==
    /\ status \in [Tasks -> Ended \cup {"new", "queued", "leased", "running"}]
    /\ wait \in [Tasks -> 0..MaxJitter]
    /\ lease \in [Tasks -> [id : LeaseIds, ttl : 0..LeaseTTL] \cup {NoLease}]
    /\ \A t \in Tasks : lease[t] # NoLease <=> status[t] \in {"leased", "running"}
    /\ hand \in [Workers -> Busy \cup {Idle}]
    /\ faults \in 0..MaxFaults

Init ==
    /\ status = [t \in Tasks |-> "new"]
    /\ wait = [t \in Tasks |-> 0]
    /\ lease = [t \in Tasks |-> NoLease]
    /\ hand = [w \in Workers |-> Idle]
    /\ faults = 0

Fault == faults < MaxFaults /\ faults' = faults + 1

Duration(t) == IF t \in Overlong THEN LongTime ELSE ShortTime

----------------------------------------------------------------------------
(* AsyncGate *)

CreateTask(t) ==
    /\ status[t] = "new"
    /\ \A u \in 1..(t - 1) : status[u] # "new"
    /\ status' = [status EXCEPT ![t] = "queued"]
    /\ UNCHANGED <<wait, lease, hand, faults>>

Eligible == {t \in Tasks : status[t] = "queued" /\ wait[t] = 0}

FreshId(t) ==
    Min({id \in LeaseIds : \A w \in Workers :
            hand[w] = Idle \/ hand[w].task # t \/ hand[w].id # id})

\* lease_next for one task: the oldest.
Claim(t) ==
    /\ t \in Eligible
    /\ \A u \in Eligible : t <= u
    /\ status' = [status EXCEPT ![t] = "leased"]
    /\ lease' = [lease EXCEPT ![t] = [id |-> FreshId(t), ttl |-> LeaseTTL]]
    /\ UNCHANGED wait

HoldsAny(w) ==    \* mutant: lease_id not looked at
    LET l == lease[hand[w].task] IN l # NoLease /\ l.ttl > 0

\* LeaseRepository.validate, for the lease in a worker's hand.
Holds(w) ==
    LET l == lease[hand[w].task] IN l # NoLease /\ l.id = hand[w].id /\ l.ttl > 0

OverdueStarted(t) == status[t] = "running" /\ lease[t].ttl = 0    \* mutant: one status
Overdue(t)        == lease[t] # NoLease /\ lease[t].ttl = 0

\* expire_leases: no attempt is counted.
ExpireLease(t) ==
    /\ Overdue(t)
    /\ \E jitter \in 0..MaxJitter : wait' = [wait EXCEPT ![t] = jitter]
    /\ status' = [status EXCEPT ![t] = "queued"]
    /\ lease' = [lease EXCEPT ![t] = NoLease]
    /\ UNCHANGED <<hand, faults>>

----------------------------------------------------------------------------
(* The worker *)

Put(w, h) == hand' = [hand EXCEPT ![w] = h]

\* process_task turns a malformed payload down without a word to AsyncGate.
Poll(w) ==
    /\ hand[w] = Idle
    /\ \E t \in Tasks :
          /\ Claim(t)
          /\ Put(w, IF t \in Malformed THEN Idle
                    ELSE [at |-> "starting", task |-> t, id |-> FreshId(t), left |-> 0])
    /\ UNCHANGED faults

\* The answer of lease_next is lost: the lease has no worker.
PollLost(w) ==
    /\ hand[w] = Idle
    /\ Fault
    /\ \E t \in Tasks : Claim(t)
    /\ UNCHANGED hand

WorkingTimeUnlimited(t) == Duration(t)    \* mutant: no timeout
WorkingTime(t) == Min({Duration(t), CommandLimit})

\* report_running, whose failure is logged, and the start of the command.
ReportRunning(w) ==
    /\ hand[w].at = "starting"
    /\ \/ /\ Holds(w)
          /\ status' = [status EXCEPT ![hand[w].task] = "running"]
          /\ UNCHANGED faults
       \/ ~Holds(w) /\ UNCHANGED <<status, faults>>
       \/ Fault /\ UNCHANGED status
    /\ Put(w, [hand[w] EXCEPT !.at = "executing", !.left = WorkingTime(hand[w].task)])
    /\ UNCHANGED <<wait, lease>>

Done(w) == hand[w].at = "executing" /\ hand[w].left = 0

\* execute_command: the command may fail, or be stopped at its limit.
Results(t) == IF Duration(t) > CommandLimit THEN {"failed"} ELSE Ended

\* A result that cannot be reported any more is logged and forgotten.
ReportCompletion(w) ==
    /\ Done(w)
    /\ Put(w, Idle)
    /\ LET t == hand[w].task IN
       \/ /\ Holds(w)
          /\ \E result \in Results(t) : status' = [status EXCEPT ![t] = result]
          /\ lease' = [lease EXCEPT ![t] = NoLease]
          /\ UNCHANGED faults
       \/ ~Holds(w) /\ UNCHANGED <<status, lease, faults>>
       \/ Fault /\ UNCHANGED <<status, lease>>
    /\ UNCHANGED wait

\* The process dies; another one takes its place.
Die(w) ==
    /\ hand[w] # Idle
    /\ Fault
    /\ Put(w, Idle)
    /\ UNCHANGED <<status, wait, lease>>

----------------------------------------------------------------------------

Down(n) == IF n = 0 THEN 0 ELSE n - 1

\* What takes seconds is over within a unit of time: a call (10 s), the next poll
\* (1 s) and the next sweep (5 s).
Settled ==
    /\ \A w \in Workers : hand[w].at # "starting" /\ ~Done(w)
    /\ Eligible # {} => \A w \in Workers : hand[w] # Idle
    /\ \A t \in Tasks : ~Overdue(t)

Tick ==
    /\ Settled
    /\ wait' = [t \in Tasks |-> Down(wait[t])]
    /\ lease' = [t \in Tasks |-> IF lease[t] = NoLease THEN NoLease
                                 ELSE [lease[t] EXCEPT !.ttl = Down(@)]]
    /\ hand' = [w \in Workers |-> IF hand[w] = Idle THEN Idle
                                  ELSE [hand[w] EXCEPT !.left = @ - 1]]
    /\ UNCHANGED <<status, faults>>

Run(w) == Poll(w) \/ ReportRunning(w) \/ ReportCompletion(w)
Next ==
    \/ \E t \in Tasks : CreateTask(t) \/ ExpireLease(t)
    \/ \E w \in Workers : Run(w) \/ PollLost(w) \/ Die(w)
    \/ Tick

\* Time passes, the sweep runs, and a worker's loop goes on.
Fairness ==
    /\ WF_vars(Tick)
    /\ \A t \in Tasks : WF_vars(ExpireLease(t))
    /\ \A w \in Workers : WF_vars(Run(w))

Spec == Init /\ [][Next]_vars /\ Fairness

----------------------------------------------------------------------------
(* Properties *)

\* Every task whose command fits into its lease ends, although malformed tasks come
\* back for ever, overlong ones are run by one worker after the other, and calls and
\* workers are lost.
ShortTasksEnd ==
    \A t \in Tasks \ (Overlong \cup Malformed) :
        status[t] = "queued" ~> status[t] \in Ended

\* The same command is run by no more workers at a time than leases fit into the time
\* it may take.
Runners(t) == {w \in Workers : hand[w].at = "executing" /\ hand[w].task = t /\ hand[w].left > 0}
RunsBounded ==
    \A t \in Tasks : (Cardinality(Runners(t)) - 1) * LeaseTTL < CommandLimit

\* What a worker reports of a command that has outlived its lease changes nothing:
\* such a task never ends, for expiries are not counted as attempts.
LateReportsIgnored ==
    \A t \in Tasks : WorkingTime(t) >= LeaseTTL => status[t] \notin Ended
=============================================================================
