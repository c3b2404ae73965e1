--------------------------- MODULE TaskLifecycle ---------------------------
(***************************************************************************)
(* What AsyncGate promises about one task, whoever calls which tool when:  *)
(* every change of a task's status is an edge of the state machine of      *)
(* models/task.py, and leaving the queue hands out a new grant.  A grant   *)
(* number is the abstraction of a lease_id: it is never given out twice.   *)
(*                                                                         *)
(* Only `complete` asks can_transition_to in the code; lease_next, fail,   *)
(* cancel_task and the expiry sweep write the status without asking.  That *)
(* they stay inside the table all the same is what the refinement shows.   *)
(***************************************************************************)
EXTENDS Naturals

CONSTANT Tasks          \* task identities

VARIABLES phase,        \* phase[t]: the task's status, "none" before create_task
          epoch         \* epoch[t]: how many grants the task has had

lifecycleVars == <<phase, epoch>>

Phases == {"none", "queued", "leased", "running",
           "succeeded", "failed", "canceled"}

\* can_transition_to, entry by entry; "none" is the row that does not exist yet.
Transitions ==
    [none      |-> {"queued"},
     queued    |-> {"leased", "canceled"},
     leased    |-> {"running", "succeeded", "failed", "canceled", "queued"},
     running   |-> {"succeeded", "failed", "canceled", "queued"},
     failed    |-> {"queued"},
     succeeded |-> {},
     canceled  |-> {}]

CanTransition(from, to) == to \in Transitions[from]

----------------------------------------------------------------------------
LifecycleInit ==
    /\ phase = [t \in Tasks |-> "none"]
    /\ epoch = [t \in Tasks |-> 0]

\* lease_next hands out one grant for each task of a nonempty batch.
Grant(batch) ==
    /\ batch # {}
    /\ \A t \in batch : CanTransition(phase[t], "leased")
    /\ phase' = [t \in Tasks |-> IF t \in batch THEN "leased" ELSE phase[t]]
    /\ epoch' = [t \in Tasks |-> IF t \in batch THEN epoch[t] + 1 ELSE epoch[t]]

\* Every other operation moves one task along one edge, under the same grant.
Move(t, to) ==
    /\ to # "leased"
    /\ CanTransition(phase[t], to)
    /\ phase' = [phase EXCEPT ![t] = to]
    /\ UNCHANGED epoch

LifecycleNext ==
    \/ \E batch \in SUBSET Tasks : Grant(batch)
    \/ \E t \in Tasks, to \in Phases : Move(t, to)

LifecycleSpec == LifecycleInit /\ [][LifecycleNext]_lifecycleVars
=============================================================================
